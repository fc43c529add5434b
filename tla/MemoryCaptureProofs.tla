-------------------------- MODULE MemoryCaptureProofs --------------------------
(***************************************************************************)
(* Proofs about MemoryCapture for any number of capture tasks, editors and *)
(* savers and for any texts and keys.                                      *)
(***************************************************************************)
EXTENDS MemoryCapture, SequenceTheorems, TLAPS

-----------------------------------------------------------------------------
(* Partial functions from ids to rows. *)

(* A collection of rows gives every id of its domain a row. *)
LEMMA SomeRowsElim ==
    ASSUME NEW f \in SomeRows
    PROVE  /\ DOMAIN f \subseteq RowId
           /\ f \in [DOMAIN f -> Row]
           /\ \A i \in DOMAIN f : f[i] \in Row
BY DEF SomeRows

LEMMA SomeRowsIntro ==
    ASSUME NEW ids \in SUBSET RowId, NEW f \in [ids -> Row]
    PROVE  f \in SomeRows
BY DEF SomeRows

(* Overriding rows by rows gives rows; the new ones win. *)
LEMMA OverRows ==
    ASSUME NEW new \in SomeRows, NEW old \in SomeRows
    PROVE  /\ Over(new, old) \in SomeRows
           /\ DOMAIN Over(new, old) = DOMAIN new \cup DOMAIN old
           /\ \A i \in DOMAIN new : Over(new, old)[i] = new[i]
           /\ \A i \in DOMAIN old \ DOMAIN new : Over(new, old)[i] = old[i]
<1> DEFINE ids == DOMAIN new \cup DOMAIN old
<1>1. ids \in SUBSET RowId
  BY SomeRowsElim
<1>2. Over(new, old) \in [ids -> Row]
  BY SomeRowsElim DEF Over
<1>3. Over(new, old) \in SomeRows
  BY <1>1, <1>2, SomeRowsIntro
<1>4. QED
  BY <1>2, <1>3 DEF Over

(* One row is a collection of rows. *)
LEMMA SingleRow ==
    ASSUME NEW id \in RowId, NEW row \in Row
    PROVE  /\ [i \in {id} |-> row] \in SomeRows
           /\ DOMAIN [i \in {id} |-> row] = {id}
           /\ [i \in {id} |-> row][id] = row
<1>1. [i \in {id} |-> row] \in [{id} -> Row]
  OBVIOUS
<1>2. QED
  BY <1>1, SomeRowsIntro

LEMMA NoRows == <<>> \in SomeRows /\ DOMAIN <<>> = {}
<1>1. DOMAIN <<>> = {}
  OBVIOUS
<1>2. <<>> \in [{} -> Row]
  BY <1>1
<1>3. QED
  BY <1>1, <1>2, SomeRowsIntro

(* A finite function that counts from one is a sequence. *)
LEMMA CandidatesAreSeq ==
    ASSUME NEW n \in 1..MaxCandidates, NEW c \in [1..n -> Candidate]
    PROVE  c \in Seq(Candidate)
<1>1. n \in Nat
  BY CaptureAssumption DEF CaptureAssumption
<1>2. QED
  BY <1>1, SeqDef

(* A task that ends has nothing in hand. *)
LEMMA IdleType == [Idle EXCEPT !.pc = "done"] \in Progress
<1>1. <<>> \in Seq(Candidate)
  OBVIOUS
<1>2. {} \in SUBSET RowId
  OBVIOUS
<1>3. QED
  BY <1>1, <1>2, NoRows DEF Idle, Progress

-----------------------------------------------------------------------------
(* Type correctness. *)

(* Ending a task, with its lock released, keeps the types. *)
LEMMA StopType ==
    ASSUME TypeOK, NEW t \in Task, Stop(t)
    PROVE  capture' \in [Task -> Progress] /\ userLock' \in Task \cup {None}
BY IdleType DEF TypeOK, Stop

(* Every row a transaction sees is a row. *)
LEMMA ViewType ==
    ASSUME TypeOK, NEW t \in Task
    PROVE  /\ capture[t].staged \in SomeRows
           /\ View(t) \in SomeRows
           /\ DOMAIN View(t) = DOMAIN capture[t].staged \cup DOMAIN rows
           /\ \A i \in DOMAIN capture[t].staged : View(t)[i] = capture[t].staged[i]
           /\ \A i \in DOMAIN rows \ DOMAIN capture[t].staged : View(t)[i] = rows[i]
           /\ \A i \in DOMAIN View(t) : i \in RowId /\ View(t)[i] \in Row
<1>1. capture[t].staged \in SomeRows /\ rows \in SomeRows
  BY DEF TypeOK, Progress
<1>2. View(t) \in SomeRows
  BY <1>1, OverRows DEF View
<1>3. QED
  BY <1>1, <1>2, OverRows, SomeRowsElim DEF View

(* The same of the rows it sees after a step. *)
LEMMA NextViewType ==
    ASSUME TypeOK', NEW t \in Task
    PROVE  /\ View(t)' \in SomeRows
           /\ DOMAIN View(t)' = DOMAIN capture'[t].staged \cup DOMAIN rows'
           /\ \A i \in DOMAIN capture'[t].staged : View(t)'[i] = capture'[t].staged[i]
           /\ \A i \in DOMAIN rows' \ DOMAIN capture'[t].staged : View(t)'[i] = rows'[i]
<1> DEFINE new == capture'[t].staged
           old == rows'
<1>1. /\ Over(new, old) \in SomeRows
      /\ DOMAIN Over(new, old) = DOMAIN new \cup DOMAIN old
      /\ \A i \in DOMAIN new : Over(new, old)[i] = new[i]
      /\ \A i \in DOMAIN old \ DOMAIN new : Over(new, old)[i] = old[i]
  <2>1. new \in SomeRows /\ old \in SomeRows
    BY DEF TypeOK, Progress
  <2> HIDE DEF new, old
  <2>2. QED
    BY <2>1, OverRows
<1>2. View(t)' = Over(new, old)
  BY DEF View
<1>3. QED
  BY <1>1, <1>2

(* What Merge does to the task: it takes a candidate and stages one row, an existing  *)
(* one whose key it keeps, or a new one.                                             *)
LEMMA MergeEffect ==
    ASSUME TypeOK, NEW t \in Task, Merge(t)
    PROVE  \E id \in RowId, key \in CanonicalKey :
             LET c == Head(capture[t].todo)
                 row == [category |-> c.category, key |-> key, content |-> c.content,
                         byHand |-> FALSE]
             IN  /\ c \in Candidate
                 /\ row \in Row
                 /\ capture' = [capture EXCEPT ![t] =
                        [pc |-> "merging", todo |-> Tail(capture[t].todo),
                         merged |-> capture[t].merged \cup {c.content},
                         staged |-> Over([i \in {id} |-> row], capture[t].staged),
                         held |-> capture[t].held \cup LockedByMerge(t, c)]]
                 /\ Tail(capture[t].todo) \in Seq(Candidate)
                 /\ LockedByMerge(t, c) \subseteq RowId
                 /\ \/ /\ id \in MergeTargets(t, c)
                       /\ key = View(t)[id].key
                       /\ nextId' = nextId
                    \/ /\ MergeTargets(t, c) = {}
                       /\ id = nextId
                       /\ key = AutoKey(c)
                       /\ nextId' = nextId + 1
<1> DEFINE c == Head(capture[t].todo)
           Result(id, key) ==
             [pc |-> "merging", todo |-> Tail(capture[t].todo),
              merged |-> capture[t].merged \cup {c.content},
              staged |-> Over([i \in {id} |->
                  [category |-> c.category, key |-> key, content |-> c.content,
                   byHand |-> FALSE]], capture[t].staged),
              held |-> capture[t].held \cup LockedByMerge(t, c)]
           RowOf(key) == [category |-> c.category, key |-> key, content |-> c.content,
                          byHand |-> FALSE]
<1>1. capture \in [Task -> Progress] /\ capture[t] \in Progress
  BY DEF TypeOK
<1>2. capture[t].todo \in Seq(Candidate) /\ capture[t].todo # <<>> /\ capture[t].pc = "merging"
  BY <1>1 DEF Merge, Progress
<1>3. c \in Candidate /\ Tail(capture[t].todo) \in Seq(Candidate)
  BY <1>2
<1>4. \A i \in DOMAIN View(t) : i \in RowId /\ View(t)[i] \in Row
  BY ViewType
<1>5. LockedByMerge(t, c) \subseteq DOMAIN View(t) /\ MergeTargets(t, c) \subseteq DOMAIN View(t)
  BY DEF LockedByMerge, MergeTargets, SameKey, SameCategory, Duplicates
<1>6. \A key \in CanonicalKey : RowOf(key) \in Row
  BY <1>3 DEF Candidate, Row
<1>7. CASE \E id \in MergeTargets(t, c) :
             /\ capture' = [capture EXCEPT ![t] = Result(id, View(t)[id].key)]
             /\ nextId' = nextId
  <2>1. PICK id \in MergeTargets(t, c) :
             /\ capture' = [capture EXCEPT ![t] = Result(id, View(t)[id].key)]
             /\ nextId' = nextId
    BY <1>7
  <2>2. id \in RowId /\ View(t)[id].key \in CanonicalKey
    BY <1>4, <1>5 DEF Row
  <2>3. QED
    BY <1>3, <1>4, <1>5, <1>6, <2>1, <2>2
<1>8. CASE /\ MergeTargets(t, c) = {}
           /\ nextId <= MaxRows
           /\ capture' = [capture EXCEPT ![t] = Result(nextId, AutoKey(c))]
           /\ nextId' = nextId + 1
  <2>1. nextId \in RowId
    BY <1>8, CaptureAssumption DEF CaptureAssumption, TypeOK, RowId
  <2>2. AutoKey(c) \in CanonicalKey
    BY <1>3 DEF AutoKey, CanonicalKey, Candidate
  <2>3. QED
    BY <1>3, <1>4, <1>5, <1>6, <1>8, <2>1, <2>2
<1>9. QED
  BY <1>1, <1>2, <1>7, <1>8 DEF Merge

(* Initially every variable has its type. *)
LEMMA InitType == Init => TypeOK
<1> SUFFICES ASSUME Init PROVE TypeOK
  OBVIOUS
<1>1. rows \in SomeRows
  BY NoRows DEF Init
<1>2. Idle \in Progress
  <2>1. <<>> \in Seq(Candidate) /\ {} \in SUBSET RowId
    OBVIOUS
  <2>2. QED
    BY <2>1, NoRows DEF Idle, Progress
<1>3. capture \in [Task -> Progress]
  BY <1>2 DEF Init
<1>4. QED
  BY <1>1, <1>3, CaptureAssumption DEF Init, TypeOK, Document, CaptureAssumption

(* A step of a capture keeps the types. *)
LEMMA CaptureStepType ==
    ASSUME TypeOK, NEW t \in Task, CaptureStep(t) PROVE TypeOK'
<1>0. capture \in [Task -> Progress] /\ capture[t] \in Progress
  BY DEF TypeOK
<1>1. CASE CheckConsent(t)
  <2>1. CASE Stop(t)
    BY <1>1, <2>1, StopType DEF TypeOK, CheckConsent, memories, consent, others
  <2>2. CASE capture' = [capture EXCEPT ![t].pc = "extracting"] /\ UNCHANGED userLock
    <3>1. [capture[t] EXCEPT !.pc = "extracting"] \in Progress
      BY <1>0 DEF Progress
    <3>2. capture' = [capture EXCEPT ![t] = [capture[t] EXCEPT !.pc = "extracting"]]
      BY <2>2
    <3>3. QED
      BY <1>0, <1>1, <2>2, <3>1, <3>2 DEF TypeOK, CheckConsent, memories, consent, others
  <2>3. QED
    BY <1>1, <2>1, <2>2 DEF CheckConsent
<1>2. CASE Extract(t)
  <2>0. PICK n \in 1..MaxCandidates : \E candidates \in [1..n -> Candidate] :
            capture' = [capture EXCEPT ![t].pc = "extracted", ![t].todo = candidates]
    BY <1>2 DEF Extract
  <2>1. PICK candidates \in [1..n -> Candidate] :
            capture' = [capture EXCEPT ![t].pc = "extracted", ![t].todo = candidates]
    BY <2>0
  <2>2. candidates \in Seq(Candidate)
    BY CandidatesAreSeq
  <2>3. [capture[t] EXCEPT !.pc = "extracted", !.todo = candidates] \in Progress
    BY <1>0, <2>2 DEF Progress
  <2>4. capture' = [capture EXCEPT ![t] =
                       [capture[t] EXCEPT !.pc = "extracted", !.todo = candidates]]
    BY <1>0, <2>1
  <2>5. QED
    BY <1>0, <1>2, <2>3, <2>4 DEF TypeOK, Extract, memories, consent, others
<1>3. CASE LockUser(t)
  <2>1. CASE Stop(t)
    BY <1>3, <2>1, StopType DEF TypeOK, LockUser, memories, consent, others
  <2>2. CASE capture' = [capture EXCEPT ![t].pc = "merging"] /\ userLock' = t
    <3>1. [capture[t] EXCEPT !.pc = "merging"] \in Progress
      BY <1>0 DEF Progress
    <3>2. capture' = [capture EXCEPT ![t] = [capture[t] EXCEPT !.pc = "merging"]]
      BY <2>2
    <3>3. QED
      BY <1>0, <1>3, <2>2, <3>1, <3>2 DEF TypeOK, LockUser, memories, consent, others
  <2>3. QED
    BY <1>3, <2>1, <2>2 DEF LockUser
<1>4. CASE Merge(t)
  <2> DEFINE c == Head(capture[t].todo)
             RowOf(key) == [category |-> c.category, key |-> key, content |-> c.content,
                            byHand |-> FALSE]
  <2>1. PICK id \in RowId, key \in CanonicalKey :
            /\ c \in Candidate
            /\ RowOf(key) \in Row
            /\ capture' = [capture EXCEPT ![t] =
                  [pc |-> "merging", todo |-> Tail(capture[t].todo),
                   merged |-> capture[t].merged \cup {c.content},
                   staged |-> Over([i \in {id} |-> RowOf(key)], capture[t].staged),
                   held |-> capture[t].held \cup LockedByMerge(t, c)]]
            /\ Tail(capture[t].todo) \in Seq(Candidate)
            /\ LockedByMerge(t, c) \subseteq RowId
            /\ nextId' = nextId \/ (id = nextId /\ nextId' = nextId + 1)
    BY <1>4, MergeEffect
  <2>2. Over([i \in {id} |-> RowOf(key)], capture[t].staged) \in SomeRows
    BY <1>0, <2>1, SingleRow, OverRows DEF Progress
  <2>3. capture' \in [Task -> Progress]
    <3>1. capture[t].merged \cup {c.content} \in SUBSET Content
      BY <1>0, <2>1 DEF Progress, Candidate
    <3>2. capture[t].held \cup LockedByMerge(t, c) \in SUBSET RowId
      BY <1>0, <2>1 DEF Progress
    <3> HIDE DEF c, RowOf
    <3>3. QED
      BY <1>0, <2>1, <2>2, <3>1, <3>2 DEF Progress
  <2>4. nextId' \in 1..MaxRows + 1
    BY <2>1, CaptureAssumption DEF TypeOK, RowId, CaptureAssumption
  <2>5. QED
    BY <1>4, <2>3, <2>4 DEF TypeOK, Merge, consent, others
<1>5. CASE CommitCapture(t)
  <2>1. rows' \in SomeRows
    BY <1>0, <1>5, OverRows DEF CommitCapture, TypeOK, Progress
  <2>2. QED
    BY <1>5, <2>1, StopType DEF TypeOK, CommitCapture, consent, others
<1>6. CASE AbandonCapture(t)
  BY <1>6, StopType DEF TypeOK, AbandonCapture, memories, consent, others
<1>7. QED
  BY <1>1, <1>2, <1>3, <1>4, <1>5, <1>6 DEF CaptureStep

(* An edited row is a row. *)
LEMMA EditedType ==
    ASSUME TypeOK, NEW id \in DOMAIN rows,
           NEW category \in Category \cup {None}, NEW content \in Content \cup {None}
    PROVE  Edited(id, category, content) \in Row
<1>1. rows[id] \in Row /\ id \in RowId
  BY SomeRowsElim DEF TypeOK
<1>2. QED
  BY <1>1 DEF Edited, Row, CanonicalKey, ManualKey

(* A step of an editor keeps the types. *)
LEMMA EditStepType ==
    ASSUME TypeOK, NEW e \in Editor, EditStep(e) PROVE TypeOK'
<1>0. rows \in SomeRows /\ rows \in [DOMAIN rows -> Row] /\ DOMAIN rows \subseteq RowId
  BY SomeRowsElim DEF TypeOK
<1>1. CASE CreateMemory(e)
  <2>1. PICK category \in Category, content \in Content :
            rows' = Over([i \in {nextId} |-> [category |-> category,
                                              key |-> ManualKey(category, nextId),
                                              content |-> content,
                                              byHand |-> TRUE]], rows)
    BY <1>1 DEF CreateMemory
  <2>2. nextId \in RowId /\ nextId' \in 1..MaxRows + 1
    BY <1>1, CaptureAssumption DEF CreateMemory, TypeOK, RowId, CaptureAssumption
  <2>3. [category |-> category, key |-> ManualKey(category, nextId), content |-> content,
         byHand |-> TRUE] \in Row
    BY <2>2 DEF Row, CanonicalKey, ManualKey
  <2>4. rows' \in SomeRows
    BY <1>0, <2>1, <2>2, <2>3, SingleRow, OverRows
  <2>5. QED
    BY <1>1, <2>2, <2>4 DEF TypeOK, CreateMemory, consent, others
<1>2. CASE StartUpdate(e)
  BY <1>0, <1>2 DEF TypeOK, StartUpdate, memories, consent
<1>3. CASE FinishUpdate(e)
  <2>1. PICK category \in Category \cup {None}, content \in Content \cup {None} :
            rows' = [rows EXCEPT ![editing[e]] = Edited(editing[e], category, content)]
    BY <1>3 DEF FinishUpdate
  <2>2. rows' \in [DOMAIN rows -> Row]
    BY <1>0, <2>1, EditedType
  <2>3. rows' \in SomeRows
    BY <1>0, <2>2, SomeRowsIntro
  <2>4. QED
    BY <1>3, <2>3 DEF TypeOK, FinishUpdate, consent
<1>4. CASE FailUpdate(e)
  BY <1>4 DEF TypeOK, FailUpdate, memories, consent
<1>5. CASE DeleteMemory(e)
  <2>1. PICK id \in DOMAIN rows : rows' = [i \in DOMAIN rows \ {id} |-> rows[i]]
    BY <1>5 DEF DeleteMemory
  <2>2. rows' \in [DOMAIN rows \ {id} -> Row] /\ DOMAIN rows \ {id} \in SUBSET RowId
    BY <1>0, <2>1
  <2>3. rows' \in SomeRows
    BY <2>2, SomeRowsIntro
  <2>4. QED
    BY <1>5, <2>3 DEF TypeOK, DeleteMemory, consent, others
<1>6. QED
  BY <1>1, <1>2, <1>3, <1>4, <1>5 DEF EditStep

(* A step of a save keeps the types. *)
LEMMA SaveStepType ==
    ASSUME TypeOK, NEW s \in Saver, SaveStep(s) PROVE TypeOK'
<1>1. \A document \in Document, choice \in BOOLEAN :
          StartSave(s, document, choice) => TypeOK'
  <2> SUFFICES ASSUME NEW document \in Document, NEW choice \in BOOLEAN,
                      StartSave(s, document, choice)
               PROVE  TypeOK'
    OBVIOUS
  <2>1. [loaded |-> preferences, document |-> document, choosesConsent |-> choice] \in Save
    BY DEF TypeOK, Save
  <2>2. saving' \in [Saver -> Save \cup {None}]
    BY <2>1 DEF StartSave, TypeOK
  <2>3. saves' \in 0..MaxSaves
    BY CaptureAssumption DEF StartSave, TypeOK, CaptureAssumption
  <2>4. QED
    BY <2>2, <2>3 DEF StartSave, TypeOK, memories, consent
<1>2. CASE SaveMemorySection(s)
  <2>1. \A b \in BOOLEAN : [preferences EXCEPT !.memory = b] \in Document
    BY DEF TypeOK, Document
  <2>2. QED
    BY <1>1, <1>2, <2>1 DEF SaveMemorySection
<1>3. CASE SaveOtherSection(s)
  <2>1. \A b \in BOOLEAN : [preferences EXCEPT !.other = b] \in Document
    BY DEF TypeOK, Document
  <2>2. QED
    BY <1>1, <1>3, <2>1 DEF SaveOtherSection
<1>4. CASE ReplacePreferences(s)
  BY <1>1, <1>4 DEF ReplacePreferences
<1>5. CASE CommitSave(s)
  <2>1. saving[s] \in Save
    BY <1>5 DEF CommitSave, TypeOK
  <2>2. preferences' \in Document /\ chosen' \in BOOLEAN
    BY <1>5, <2>1 DEF CommitSave, Write, TypeOK, Save, Document
  <2>3. saving' \in [Saver -> Save \cup {None}]
    BY <1>5 DEF CommitSave, TypeOK
  <2>4. QED
    BY <1>5, <2>2, <2>3 DEF TypeOK, CommitSave, memories
<1>6. CASE FailSave(s)
  BY <1>6 DEF TypeOK, FailSave, memories, consent
<1>7. QED
  BY <1>2, <1>3, <1>4, <1>5, <1>6 DEF SaveStep

(* Every step keeps the types. *)
LEMMA NextType == TypeOK /\ [Next]_vars => TypeOK'
<1> SUFFICES ASSUME TypeOK, [Next]_vars PROVE TypeOK'
  OBVIOUS
<1>1. ASSUME NEW t \in Task, CaptureStep(t) PROVE TypeOK'
  BY <1>1, CaptureStepType
<1>2. ASSUME NEW e \in Editor, EditStep(e) PROVE TypeOK'
  BY <1>2, EditStepType
<1>3. ASSUME NEW s \in Saver, SaveStep(s) PROVE TypeOK'
  BY <1>3, SaveStepType
<1>4. CASE UNCHANGED vars
  BY <1>4 DEF vars, TypeOK
<1>5. QED
  BY <1>1, <1>2, <1>3, <1>4 DEF Next

(* The rows, the captures, the edits and the saves keep their types: every id, key    *)
(* and document the routes and the tasks write is one the tables can hold.           *)
THEOREM TypeCorrect == Spec => []TypeOK
<1>1. QED
  BY InitType, NextType, PTL DEF Spec

-----------------------------------------------------------------------------
(* Consent. *)

(* Ending task t leaves the others their place and their lock. *)
LEMMA StopOthers ==
    ASSUME TypeOK, MergingHoldsUser, NEW t \in Task, Stop(t), UNCHANGED preferences
    PROVE  MergingHoldsUser'
BY DEF TypeOK, MergingHoldsUser, Stop, Idle

(* Every step keeps the lock and the consent of a merging task. *)
LEMMA NextMergingHoldsUser ==
    TypeOK /\ MergingHoldsUser /\ [Next]_vars => MergingHoldsUser'
<1> SUFFICES ASSUME TypeOK, MergingHoldsUser, [Next]_vars PROVE MergingHoldsUser'
  OBVIOUS
<1>0. capture \in [Task -> Progress] /\ None \notin Task
  BY CaptureAssumption DEF TypeOK, CaptureAssumption
<1>1. ASSUME NEW t \in Task, CheckConsent(t) PROVE MergingHoldsUser'
  <2>1. CASE Stop(t)
    BY <1>1, <2>1, StopOthers DEF CheckConsent, consent
  <2>2. CASE capture' = [capture EXCEPT ![t].pc = "extracting"] /\ UNCHANGED userLock
    BY <1>0, <1>1, <2>2 DEF CheckConsent, MergingHoldsUser, consent, Progress
  <2>3. QED
    BY <1>1, <2>1, <2>2 DEF CheckConsent
<1>2. ASSUME NEW t \in Task, Extract(t) PROVE MergingHoldsUser'
  <2>1. PICK candidates :
            capture' = [capture EXCEPT ![t].pc = "extracted", ![t].todo = candidates]
    BY <1>2 DEF Extract
  <2>2. capture' = [capture EXCEPT ![t] =
                       [capture[t] EXCEPT !.pc = "extracted", !.todo = candidates]]
    BY <1>0, <2>1
  <2>3. [capture[t] EXCEPT !.pc = "extracted", !.todo = candidates].pc = "extracted"
    BY <1>0 DEF Progress
  <2>4. \A u \in Task : capture'[u].pc = "merging" => capture[u].pc = "merging"
    BY <1>0, <2>2, <2>3
  <2>5. QED
    BY <1>2, <2>4 DEF Extract, MergingHoldsUser, consent
<1>3. ASSUME NEW t \in Task, LockUser(t) PROVE MergingHoldsUser'
  <2>1. CASE Stop(t)
    BY <1>3, <2>1, StopOthers DEF LockUser, consent
  <2>2. CASE /\ preferences.memory
             /\ capture' = [capture EXCEPT ![t].pc = "merging"] /\ userLock' = t
    <3>1. \A u \in Task : capture[u].pc # "merging"
      BY <1>0, <1>3 DEF LockUser, MergingHoldsUser
    <3>2. \A u \in Task : u # t => capture'[u] = capture[u]
      BY <1>0, <2>2
    <3>3. QED
      BY <1>3, <2>2, <3>1, <3>2 DEF LockUser, MergingHoldsUser, consent
  <2>3. QED
    BY <1>3, <2>1, <2>2 DEF LockUser
<1>4. ASSUME NEW t \in Task, Merge(t) PROVE MergingHoldsUser'
  <2>1. capture[t].pc = "merging" /\ UNCHANGED <<consent, userLock>>
    BY <1>4 DEF Merge
  <2>2. PICK p : capture' = [capture EXCEPT ![t] = p]
    BY <1>4, MergeEffect
  <2>3. \A u \in Task : capture'[u].pc = "merging" => capture[u].pc = "merging"
    BY <1>0, <2>1, <2>2
  <2>4. QED
    BY <2>1, <2>3 DEF MergingHoldsUser, consent
<1>5. ASSUME NEW t \in Task, CommitCapture(t) PROVE MergingHoldsUser'
  BY <1>5, StopOthers DEF CommitCapture, consent
<1>6. ASSUME NEW t \in Task, AbandonCapture(t) PROVE MergingHoldsUser'
  BY <1>6, StopOthers DEF AbandonCapture, consent
<1>7. ASSUME NEW e \in Editor, EditStep(e) PROVE MergingHoldsUser'
  BY <1>7 DEF EditStep, CreateMemory, StartUpdate, FinishUpdate, FailUpdate, DeleteMemory,
              MergingHoldsUser, consent
<1>8. ASSUME NEW s \in Saver, SaveStep(s) PROVE MergingHoldsUser'
  <2>1. UNCHANGED <<userLock, capture>>
    BY <1>8 DEF SaveStep, SaveMemorySection, SaveOtherSection, ReplacePreferences, StartSave,
                CommitSave, FailSave
  <2>2. UNCHANGED preferences \/ userLock = None
    BY <1>8 DEF SaveStep, SaveMemorySection, SaveOtherSection, ReplacePreferences, StartSave,
                CommitSave, Write, FailSave, consent
  <2>3. QED
    BY <1>0, <2>1, <2>2 DEF MergingHoldsUser
<1>9. CASE UNCHANGED vars
  BY <1>9 DEF vars, MergingHoldsUser
<1>10. QED
  BY <1>1, <1>2, <1>3, <1>4, <1>5, <1>6, <1>7, <1>8, <1>9 DEF Next, CaptureStep

(* Initially no task merges. *)
LEMMA InitMergingHoldsUser == Init => MergingHoldsUser
BY DEF Init, MergingHoldsUser, Idle

(* From LockUser to CommitCapture a task alone holds the user's row and the stored    *)
(* flag says yes: the second check of the flag is as good as one at the commit.       *)
THEOREM LockKeepsConsent == Spec => []MergingHoldsUser
<1>1. QED
  BY InitType, NextType, InitMergingHoldsUser, NextMergingHoldsUser, PTL DEF Spec

(* No capture commits while the stored flag says no, however many captures and saves  *)
(* of preferences overlap.                                                           *)
THEOREM CapturesOnlyWithConsent == Spec => CaptureNeedsConsent
<1>1. MergingHoldsUser /\ [Next]_vars =>
          [\A t \in Task : CommitCapture(t) => preferences.memory]_vars
  BY DEF MergingHoldsUser, CommitCapture
<1>2. QED
  BY <1>1, LockKeepsConsent, PTL DEF Spec, CaptureNeedsConsent

-----------------------------------------------------------------------------
(* Keys, hand-written texts and deletions. *)

DistinctKeys(f) == \A i, j \in DOMAIN f : f[i].key = f[j].key => i = j

OwnKeys(f) == \A i \in DOMAIN f : OwnKey(f[i], i)

(* An id is never a slug. *)
LEMMA IdsAreNoSlugs == \A i \in RowId : i \in Nat /\ i \notin Slug /\ i # None
BY CaptureAssumption DEF CaptureAssumption, RowId

(* Writing one row keeps the keys distinct when the row keeps its key, gets the key   *)
(* made of its own id, or gets a key no other row has.                               *)
LEMMA OneRowWritten ==
    ASSUME NEW f \in SomeRows, NEW g \in SomeRows, NEW id \in RowId,
           DistinctKeys(f), OwnKeys(f),
           DOMAIN g = DOMAIN f \cup {id},
           \A i \in DOMAIN f \ {id} : g[i] = f[i],
           \/ id \in DOMAIN f /\ g[id].key = f[id].key
           \/ g[id].key.name = id
           \/ \A i \in DOMAIN f \ {id} : f[i].key # g[id].key
    PROVE  DistinctKeys(g)
<1>1. \A i \in DOMAIN f : i \in RowId /\ f[i].key.name \in Slug \cup {i}
  BY SomeRowsElim DEF OwnKeys, OwnKey
<1>2. \A i \in DOMAIN f \ {id} : f[i].key # g[id].key
  BY <1>1, IdsAreNoSlugs DEF DistinctKeys
<1>3. QED
  BY <1>2 DEF DistinctKeys

(* A transaction sees rows that own distinct keys. *)
LEMMA ViewKeys ==
    ASSUME TypeOK, StagingInv, NEW t \in Task
    PROVE  DistinctKeys(View(t)) /\ OwnKeys(View(t)) /\ \A i \in DOMAIN View(t) : i < nextId
BY ViewType DEF StagingInv, Staging, DistinctKeys, OwnKeys

(* Rows that are overridden by nothing stay what they are. *)
LEMMA ViewOfNothing ==
    ASSUME NEW f \in SomeRows PROVE Over(<<>>, f) = f
BY NoRows, SomeRowsElim DEF Over

(* Staging holds for a task that has staged nothing. *)
LEMMA NothingStaged ==
    ASSUME TypeOK', KeysUnique', NEW t \in Task, capture'[t].staged = <<>>,
           \A e \in Editor : editing'[e] \notin capture'[t].held
    PROVE  Staging(t)'
<1>1. View(t)' = rows'
  BY ViewOfNothing DEF View, TypeOK
<1>2. QED
  BY <1>1, NoRows DEF Staging, KeysUnique

(* A step that leaves the rows, the edits and what every task has in hand. *)
LEMMA HandsUnchanged ==
    ASSUME TypeOK, StagingInv, UNCHANGED <<rows, nextId, editing>>,
           \A t \in Task : /\ capture'[t].staged = capture[t].staged
                           /\ capture'[t].held = capture[t].held
                           /\ capture'[t].pc # "merging" => capture[t].pc # "merging"
    PROVE  StagingInv'
<1>1. \A t \in Task : Staging(t)'
  <2> SUFFICES ASSUME NEW t \in Task PROVE Staging(t)'
    OBVIOUS
  <2>1. View(t)' = View(t)
    BY DEF View
  <2>2. QED
    BY <2>1 DEF StagingInv, Staging
<1>2. QED
  BY <1>1 DEF StagingInv, KeysUnique

(* A task that ends leaves what the others have in hand. *)
LEMMA StopStaging ==
    ASSUME TypeOK, TypeOK', StagingInv, NEW t \in Task, Stop(t),
           UNCHANGED <<rows, nextId, editing>>
    PROVE  StagingInv'
<1>1. \A u \in Task \ {t} : capture'[u] = capture[u]
  BY DEF TypeOK, Stop
<1>2. capture'[t].staged = <<>> /\ capture'[t].held = {}
  <2>1. capture'[t] = [Idle EXCEPT !.pc = "done"]
    BY DEF TypeOK, Stop
  <2>2. QED
    BY <2>1 DEF Idle
<1>3. rows' = rows /\ nextId' = nextId /\ editing' = editing
  OBVIOUS
<1>4. KeysUnique'
  BY <1>3 DEF StagingInv, KeysUnique
<1>5. ASSUME NEW u \in Task \ {t} PROVE Staging(u)'
  <2>1. capture'[u] = capture[u]
    BY <1>1
  <2>2. View(u)' = View(u)
    BY <1>3, <2>1 DEF View
  <2>3. QED
    BY <1>3, <2>1, <2>2 DEF StagingInv, Staging
<1>6. Staging(t)'
  BY <1>2, <1>4, NothingStaged
<1>7. \A u \in Task : Staging(u)'
  BY <1>5, <1>6
<1>8. \A u \in Task : capture'[u].pc # "merging" => capture'[u].staged = <<>>
  BY <1>1, <1>2 DEF StagingInv
<1>9. QED
  BY <1>3, <1>4, <1>7, <1>8 DEF StagingInv

(* Merge: the row it stages is locked or new, and has a key of its own. *)
LEMMA MergeStaging ==
    ASSUME TypeOK, TypeOK', StagingInv, MergingHoldsUser, NEW t \in Task, Merge(t)
    PROVE  StagingInv'
<1> DEFINE c == Head(capture[t].todo)
           RowOf(key) == [category |-> c.category, key |-> key, content |-> c.content,
                          byHand |-> FALSE]
<1>1. PICK id \in RowId, key \in CanonicalKey :
          /\ c \in Candidate
          /\ RowOf(key) \in Row
          /\ capture' = [capture EXCEPT ![t] =
                [pc |-> "merging", todo |-> Tail(capture[t].todo),
                 merged |-> capture[t].merged \cup {c.content},
                 staged |-> Over([i \in {id} |-> RowOf(key)], capture[t].staged),
                 held |-> capture[t].held \cup LockedByMerge(t, c)]]
          /\ \/ /\ id \in MergeTargets(t, c)
                /\ key = View(t)[id].key
                /\ nextId' = nextId
             \/ /\ MergeTargets(t, c) = {}
                /\ id = nextId
                /\ key = AutoKey(c)
                /\ nextId' = nextId + 1
  BY MergeEffect
<1>2. /\ rows' = rows /\ editing' = editing
      /\ \A e \in Editor : editing[e] \notin LockedByMerge(t, c)
  BY DEF Merge, others
<1>3. /\ capture'[t].pc = "merging"
      /\ capture'[t].staged = Over([i \in {id} |-> RowOf(key)], capture[t].staged)
      /\ capture'[t].held = capture[t].held \cup LockedByMerge(t, c)
      /\ \A u \in Task \ {t} : capture'[u] = capture[u]
  BY <1>1 DEF TypeOK
<1>4. /\ DOMAIN capture'[t].staged = {id} \cup DOMAIN capture[t].staged
      /\ capture'[t].staged[id] = RowOf(key)
      /\ \A i \in DOMAIN capture[t].staged \ {id} :
             capture'[t].staged[i] = capture[t].staged[i]
  <2>1. /\ [i \in {id} |-> RowOf(key)] \in SomeRows
        /\ DOMAIN [i \in {id} |-> RowOf(key)] = {id}
        /\ [i \in {id} |-> RowOf(key)][id] = RowOf(key)
    BY <1>1, SingleRow
  <2>2. capture[t].staged \in SomeRows
    BY ViewType
  <2> HIDE DEF RowOf
  <2>3. QED
    BY <1>3, <2>1, <2>2, OverRows
<1>5. /\ View(t)' \in SomeRows
      /\ DOMAIN View(t)' = DOMAIN View(t) \cup {id}
      /\ View(t)'[id] = RowOf(key)
      /\ \A i \in DOMAIN View(t) \ {id} : View(t)'[i] = View(t)[i]
  <2>3. /\ View(t)' \in SomeRows
        /\ DOMAIN View(t)' = DOMAIN capture'[t].staged \cup DOMAIN rows
        /\ \A i \in DOMAIN capture'[t].staged : View(t)'[i] = capture'[t].staged[i]
        /\ \A i \in DOMAIN rows \ DOMAIN capture'[t].staged : View(t)'[i] = rows[i]
    BY <1>2, NextViewType
  <2>4. /\ DOMAIN View(t) = DOMAIN capture[t].staged \cup DOMAIN rows
        /\ \A i \in DOMAIN capture[t].staged : View(t)[i] = capture[t].staged[i]
        /\ \A i \in DOMAIN rows \ DOMAIN capture[t].staged : View(t)[i] = rows[i]
    BY ViewType
  <2> HIDE DEF RowOf
  <2>5. View(t)'[id] = RowOf(key)
    BY <1>4, <2>3
  <2>6. DOMAIN View(t)' = DOMAIN View(t) \cup {id}
    BY <1>4, <2>3, <2>4
  <2>7. ASSUME NEW i \in DOMAIN View(t) \ {id} PROVE View(t)'[i] = View(t)[i]
    <3>1. CASE i \in DOMAIN capture[t].staged
      BY <1>4, <2>3, <2>4, <3>1
    <3>2. CASE i \in DOMAIN rows \ DOMAIN capture[t].staged
      BY <1>4, <2>3, <2>4, <3>2
    <3>3. QED
      BY <2>4, <3>1, <3>2
  <2>8. QED
    BY <2>3, <2>5, <2>6, <2>7
<1>6. /\ MergeTargets(t, c) \subseteq DOMAIN View(t)
      /\ MergeTargets(t, c) \subseteq LockedByMerge(t, c)
      /\ MergeTargets(t, c) = {} => SameKey(t, c) = {}
  BY DEF MergeTargets, LockedByMerge, Duplicates, SameKey, SameCategory
<1>7. OwnKey(RowOf(key), id)
  <2>1. CASE id \in MergeTargets(t, c) /\ key = View(t)[id].key
    <3>1. OwnKey(View(t)[id], id)
      BY <1>6, <2>1, ViewKeys DEF OwnKeys
    <3>2. View(t)[id].category = c.category \/ View(t)[id].key = AutoKey(c)
      BY <2>1 DEF MergeTargets, SameKey, Duplicates, SameCategory
    <3>3. QED
      BY <1>1, <2>1, <3>1, <3>2 DEF OwnKey, AutoKey, Candidate
  <2>2. CASE key = AutoKey(c)
    BY <1>1, <2>2 DEF OwnKey, AutoKey, Candidate
  <2>3. QED
    BY <1>1, <2>1, <2>2
<1>8. id \in DOMAIN rows => id \in LockedByMerge(t, c)
  BY <1>1, <1>6 DEF StagingInv, TypeOK
<1>9. nextId' \in Nat /\ nextId \in Nat /\ nextId <= nextId' /\ id < nextId'
  <2>1. nextId \in Nat
    BY CaptureAssumption DEF TypeOK, CaptureAssumption
  <2>2. id \in DOMAIN View(t) => id < nextId
    BY ViewKeys
  <2>3. QED
    BY <1>1, <1>6, <2>1, <2>2
<1>10. DistinctKeys(View(t)')
  <2>1. \/ id \in DOMAIN View(t) /\ RowOf(key).key = View(t)[id].key
        \/ \A i \in DOMAIN View(t) \ {id} : View(t)[i].key # RowOf(key).key
    BY <1>1, <1>6 DEF SameKey
  <2>2. View(t) \in SomeRows /\ DistinctKeys(View(t)) /\ OwnKeys(View(t))
    BY ViewType, ViewKeys
  <2>3. QED
    BY <1>5, <2>1, <2>2, OneRowWritten
<1>11. Staging(t)'
  <2>1. \A i \in DOMAIN capture'[t].staged : i < nextId' /\ OwnKey(capture'[t].staged[i], i)
    <3>1. \A i \in DOMAIN capture[t].staged :
             i \in RowId /\ i < nextId /\ OwnKey(capture[t].staged[i], i)
      BY ViewType, SomeRowsElim DEF StagingInv, Staging
    <3>2. \A i \in DOMAIN capture[t].staged : i < nextId'
      BY <1>9, <3>1, IdsAreNoSlugs
    <3>3. QED
      BY <1>4, <1>7, <1>9, <3>1, <3>2
  <2>2. DOMAIN capture'[t].staged \cap DOMAIN rows' \subseteq capture'[t].held
    BY <1>2, <1>3, <1>4, <1>8 DEF StagingInv, Staging
  <2>3. \A e \in Editor : editing'[e] \notin capture'[t].held
    BY <1>2, <1>3 DEF StagingInv, Staging
  <2>4. QED
    BY <1>10, <2>1, <2>2, <2>3 DEF Staging, DistinctKeys
<1>12. ASSUME NEW u \in Task \ {t} PROVE Staging(u)'
  <2>1. View(u)' = View(u)
    BY <1>2, <1>3 DEF View
  <2>2. \A i \in DOMAIN capture[u].staged : i \in RowId /\ i < nextId
    BY ViewType, SomeRowsElim DEF StagingInv, Staging
  <2>3. \A i \in DOMAIN capture[u].staged : i < nextId'
    BY <1>9, <2>2, IdsAreNoSlugs
  <2>4. QED
    BY <1>2, <1>3, <2>1, <2>3 DEF StagingInv, Staging
<1>13. \A i \in DOMAIN rows : i < nextId'
  BY <1>9, SomeRowsElim, IdsAreNoSlugs DEF StagingInv, TypeOK
<1>14. QED
  BY <1>2, <1>3, <1>11, <1>12, <1>13 DEF StagingInv, KeysUnique

(* CommitCapture: what the task saw becomes the rows; no other task has staged any.   *)
LEMMA CommitStaging ==
    ASSUME TypeOK, TypeOK', StagingInv, MergingHoldsUser, NEW t \in Task, CommitCapture(t)
    PROVE  StagingInv'
<1>1. rows' = View(t) /\ nextId' = nextId /\ editing' = editing /\ Stop(t)
  BY DEF CommitCapture, View, others
<1>2. \A u \in Task \ {t} : capture'[u] = capture[u] /\ capture[u].staged = <<>>
  <2>1. \A u \in Task \ {t} : capture[u].pc # "merging"
    BY DEF MergingHoldsUser, CommitCapture
  <2>2. QED
    BY <1>1, <2>1 DEF StagingInv, Stop, TypeOK
<1>3. capture'[t].staged = <<>> /\ capture'[t].held = {}
  <2>1. capture'[t] = [Idle EXCEPT !.pc = "done"]
    BY <1>1 DEF TypeOK, Stop
  <2>2. QED
    BY <2>1 DEF Idle
<1>4. KeysUnique' /\ \A i \in DOMAIN rows' : i < nextId' /\ OwnKey(rows'[i], i)
  BY <1>1, ViewKeys DEF KeysUnique, DistinctKeys, OwnKeys
<1>5. \A u \in Task : /\ capture'[u].staged = <<>>
                      /\ \A e \in Editor : editing'[e] \notin capture'[u].held
  BY <1>1, <1>2, <1>3 DEF StagingInv, Staging
<1>6. \A u \in Task : Staging(u)'
  BY <1>4, <1>5, NothingStaged
<1>7. QED
  BY <1>4, <1>5, <1>6 DEF StagingInv

(* CreateMemory waits for the user's row, so that no task has staged anything. *)
LEMMA CreateStaging ==
    ASSUME TypeOK, TypeOK', StagingInv, MergingHoldsUser, NEW e \in Editor, CreateMemory(e)
    PROVE  StagingInv'
<1>1. PICK category \in Category, content \in Content :
          rows' = Over([i \in {nextId} |-> [category |-> category,
                                            key |-> ManualKey(category, nextId),
                                            content |-> content,
                                            byHand |-> TRUE]], rows)
  BY DEF CreateMemory
<1> DEFINE row == [category |-> category, key |-> ManualKey(category, nextId),
                   content |-> content, byHand |-> TRUE]
<1>2. /\ nextId \in RowId /\ nextId' = nextId + 1 /\ userLock = None
      /\ UNCHANGED <<capture, editing>>
  BY CaptureAssumption DEF CreateMemory, others, TypeOK, RowId, CaptureAssumption
<1>3. row \in Row /\ OwnKey(row, nextId) /\ row.key.name = nextId
  BY <1>2 DEF Row, CanonicalKey, ManualKey, OwnKey
<1>4. /\ DOMAIN rows' = DOMAIN rows \cup {nextId}
      /\ rows'[nextId] = row
      /\ \A i \in DOMAIN rows \ {nextId} : rows'[i] = rows[i]
  <2>1. /\ [i \in {nextId} |-> row] \in SomeRows
        /\ DOMAIN [i \in {nextId} |-> row] = {nextId}
        /\ [i \in {nextId} |-> row][nextId] = row
    BY <1>2, <1>3, SingleRow
  <2>2. rows \in SomeRows /\ rows' = Over([i \in {nextId} |-> row], rows)
    BY <1>1 DEF TypeOK
  <2> HIDE DEF row
  <2>3. QED
    BY <2>1, <2>2, OverRows
<1> HIDE DEF row
<1>5. \A i \in DOMAIN rows' : i < nextId' /\ OwnKey(rows'[i], i)
  <2>1. nextId \in Nat /\ \A i \in DOMAIN rows : i \in Nat /\ i < nextId /\ OwnKey(rows[i], i)
    BY <1>2, SomeRowsElim, IdsAreNoSlugs DEF StagingInv, TypeOK
  <2>2. QED
    BY <1>2, <1>3, <1>4, <2>1
<1>6. KeysUnique'
  <2>1. rows \in SomeRows /\ rows' \in SomeRows
    BY DEF TypeOK
  <2>2. DistinctKeys(rows) /\ OwnKeys(rows)
    BY DEF StagingInv, KeysUnique, DistinctKeys, OwnKeys
  <2>3. DistinctKeys(rows')
    BY <1>2, <1>3, <1>4, <2>1, <2>2, OneRowWritten
  <2>4. QED
    BY <2>3 DEF KeysUnique, DistinctKeys
<1>7. \A t \in Task : capture[t].pc # "merging"
  BY <1>2, CaptureAssumption DEF MergingHoldsUser, CaptureAssumption
<1>8. \A t \in Task : /\ capture'[t].staged = <<>>
                      /\ \A f \in Editor : editing'[f] \notin capture'[t].held
  BY <1>2, <1>7 DEF StagingInv, Staging
<1>9. \A t \in Task : Staging(t)'
  BY <1>6, <1>8, NothingStaged
<1>10. QED
  BY <1>5, <1>6, <1>8, <1>9 DEF StagingInv

(* StartUpdate locks a row no capture has in hand. *)
LEMMA StartUpdateStaging ==
    ASSUME TypeOK, StagingInv, NEW e \in Editor, StartUpdate(e)
    PROVE  StagingInv'
<1>1. PICK id \in DOMAIN rows : ~Locked(id) /\ editing' = [editing EXCEPT ![e] = id]
  BY DEF StartUpdate
<1>2. UNCHANGED <<rows, nextId, capture>>
  BY DEF StartUpdate, memories
<1>3. \A t \in Task, f \in Editor : editing'[f] \notin capture[t].held
  BY <1>1 DEF Locked, StagingInv, Staging, TypeOK
<1>4. \A t \in Task : Staging(t)'
  <2> SUFFICES ASSUME NEW t \in Task PROVE Staging(t)'
    OBVIOUS
  <2>1. View(t)' = View(t)
    BY <1>2 DEF View
  <2>2. QED
    BY <1>2, <1>3, <2>1 DEF StagingInv, Staging
<1>5. QED
  BY <1>2, <1>4 DEF StagingInv, KeysUnique

(* An edited row keeps its key or gets the one made of its id. *)
LEMMA EditedKey ==
    ASSUME TypeOK, StagingInv, NEW id \in DOMAIN rows,
           NEW category \in Category \cup {None}, NEW content \in Content \cup {None}
    PROVE  /\ OwnKey(Edited(id, category, content), id)
           /\ \/ Edited(id, category, content).key = rows[id].key
              \/ Edited(id, category, content).key.name = id
<1>1. OwnKey(rows[id], id)
  BY DEF StagingInv
<1>2. QED
  BY <1>1 DEF Edited, OwnKey, ManualKey

(* FinishUpdate changes one row, which no capture has in hand. *)
LEMMA FinishUpdateStaging ==
    ASSUME TypeOK, TypeOK', StagingInv, NEW e \in Editor, FinishUpdate(e)
    PROVE  StagingInv'
<1> DEFINE id == editing[e]
<1>1. PICK category \in Category \cup {None}, content \in Content \cup {None} :
          rows' = [rows EXCEPT ![id] = Edited(id, category, content)]
  BY DEF FinishUpdate
<1>2. /\ id \in RowId /\ UNCHANGED <<nextId, capture>>
      /\ editing' = [editing EXCEPT ![e] = None]
      /\ rows \in SomeRows /\ rows' \in SomeRows
  BY DEF FinishUpdate, TypeOK
<1>3. /\ DOMAIN rows' = DOMAIN rows
      /\ \A i \in DOMAIN rows \ {id} : rows'[i] = rows[i]
      /\ id \in DOMAIN rows => rows'[id] = Edited(id, category, content)
  BY <1>1
<1>4. id \in DOMAIN rows =>
          /\ OwnKey(rows'[id], id)
          /\ rows'[id].key = rows[id].key \/ rows'[id].key.name = id
  BY <1>3, EditedKey
<1> HIDE DEF id
<1>5. DistinctKeys(rows) /\ OwnKeys(rows)
  BY DEF StagingInv, KeysUnique, DistinctKeys, OwnKeys
<1>6. KeysUnique'
  <2>1. CASE id \in DOMAIN rows
    <3>1. DistinctKeys(rows')
      BY <1>2, <1>3, <1>4, <1>5, <2>1, OneRowWritten
    <3>2. QED
      BY <3>1 DEF DistinctKeys, KeysUnique
  <2>2. CASE id \notin DOMAIN rows
    BY <1>3, <2>2 DEF StagingInv, KeysUnique
  <2>3. QED
    BY <2>1, <2>2
<1>7. \A i \in DOMAIN rows' : i < nextId' /\ OwnKey(rows'[i], i)
  BY <1>2, <1>3, <1>4 DEF StagingInv
<1>8. ASSUME NEW t \in Task PROVE Staging(t)'
  <2>1. /\ capture'[t].staged = capture[t].staged /\ capture'[t].held = capture[t].held
        /\ capture[t].staged \in SomeRows
    BY <1>2, ViewType
  <2>2. \A f \in Editor : editing'[f] \notin capture'[t].held
    <3>1. None \notin capture[t].held
      BY IdsAreNoSlugs DEF TypeOK, Progress
    <3>2. QED
      BY <1>2, <2>1, <3>1 DEF StagingInv, Staging, TypeOK
  <2>3. id \notin DOMAIN capture[t].staged \cap DOMAIN rows
    BY DEF StagingInv, Staging, id
  <2>4. /\ View(t)' \in SomeRows
        /\ DOMAIN View(t)' = DOMAIN capture[t].staged \cup DOMAIN rows
        /\ \A i \in DOMAIN capture[t].staged : View(t)'[i] = capture[t].staged[i]
        /\ \A i \in DOMAIN rows \ DOMAIN capture[t].staged : View(t)'[i] = rows'[i]
    BY <1>3, <2>1, NextViewType
  <2>5. /\ DOMAIN View(t) = DOMAIN capture[t].staged \cup DOMAIN rows
        /\ \A i \in DOMAIN capture[t].staged : View(t)[i] = capture[t].staged[i]
        /\ \A i \in DOMAIN rows \ DOMAIN capture[t].staged : View(t)[i] = rows[i]
        /\ View(t) \in SomeRows
    BY ViewType
  <2>6. DistinctKeys(View(t)) /\ OwnKeys(View(t))
    BY ViewKeys
  <2>7. DistinctKeys(View(t)')
    <3>1. CASE id \in DOMAIN rows
      <4>1. id \notin DOMAIN capture[t].staged
        BY <2>3, <3>1
      <4>2. \A i \in DOMAIN View(t) \ {id} : View(t)'[i] = View(t)[i]
        BY <1>3, <2>4, <2>5
      <4>3. DOMAIN View(t)' = DOMAIN View(t) \cup {id} /\ id \in DOMAIN View(t)
        BY <2>4, <2>5, <3>1
      <4>4. View(t)'[id].key = View(t)[id].key \/ View(t)'[id].key.name = id
        BY <1>4, <2>4, <2>5, <3>1, <4>1
      <4>5. QED
        BY <1>2, <2>4, <2>5, <2>6, <4>2, <4>3, <4>4, OneRowWritten
    <3>2. CASE id \notin DOMAIN rows
      <4>1. \A i \in DOMAIN View(t) : View(t)'[i] = View(t)[i]
        BY <1>3, <2>4, <2>5, <3>2
      <4>2. QED
        BY <2>4, <2>5, <2>6, <4>1 DEF DistinctKeys
    <3>3. QED
      BY <3>1, <3>2
  <2>8. /\ \A i \in DOMAIN capture'[t].staged : i < nextId' /\ OwnKey(capture'[t].staged[i], i)
        /\ DOMAIN capture'[t].staged \cap DOMAIN rows' \subseteq capture'[t].held
    BY <1>2, <1>3, <2>1 DEF StagingInv, Staging
  <2>9. QED
    BY <2>2, <2>7, <2>8 DEF Staging, DistinctKeys
<1>9. QED
  BY <1>2, <1>6, <1>7, <1>8 DEF StagingInv

(* FailUpdate gives a row free. *)
LEMMA FailUpdateStaging ==
    ASSUME TypeOK, StagingInv, NEW e \in Editor, FailUpdate(e)
    PROVE  StagingInv'
<1>1. UNCHANGED <<rows, nextId, capture>> /\ editing' = [editing EXCEPT ![e] = None]
  BY DEF FailUpdate, memories
<1>2. ASSUME NEW t \in Task PROVE Staging(t)'
  <2>1. None \notin capture[t].held
    BY IdsAreNoSlugs DEF TypeOK, Progress
  <2>2. \A f \in Editor : editing'[f] \notin capture'[t].held
    BY <1>1, <2>1 DEF StagingInv, Staging, TypeOK
  <2>3. View(t)' = View(t)
    BY <1>1 DEF View
  <2>4. QED
    BY <1>1, <2>2, <2>3 DEF StagingInv, Staging
<1>3. QED
  BY <1>1, <1>2 DEF StagingInv, KeysUnique

(* DeleteMemory waits for the captures that have the row in hand. *)
LEMMA DeleteStaging ==
    ASSUME TypeOK, TypeOK', StagingInv, NEW e \in Editor, DeleteMemory(e)
    PROVE  StagingInv'
<1>1. PICK id \in DOMAIN rows : ~Locked(id) /\ rows' = [i \in DOMAIN rows \ {id} |-> rows[i]]
  BY DEF DeleteMemory
<1>2. UNCHANGED <<nextId, capture, editing>> /\ rows \in SomeRows /\ rows' \in SomeRows
  BY DEF DeleteMemory, others, TypeOK
<1>3. DOMAIN rows' = DOMAIN rows \ {id} /\ \A i \in DOMAIN rows' : rows'[i] = rows[i]
  BY <1>1
<1>4. ASSUME NEW t \in Task PROVE Staging(t)'
  <2>1. /\ capture'[t].staged = capture[t].staged /\ capture'[t].held = capture[t].held
        /\ capture[t].staged \in SomeRows
    BY <1>2, ViewType
  <2>3. /\ DOMAIN View(t)' = DOMAIN capture[t].staged \cup DOMAIN rows'
        /\ \A i \in DOMAIN capture[t].staged : View(t)'[i] = capture[t].staged[i]
        /\ \A i \in DOMAIN rows' \ DOMAIN capture[t].staged : View(t)'[i] = rows'[i]
    BY <2>1, NextViewType
  <2>4. \A i \in DOMAIN View(t)' : i \in DOMAIN View(t) /\ View(t)'[i] = View(t)[i]
    BY <1>3, <2>3, ViewType
  <2>5. QED
    BY <1>2, <1>3, <2>1, <2>4 DEF StagingInv, Staging
<1>5. QED
  BY <1>2, <1>3, <1>4 DEF StagingInv, KeysUnique

(* Every step keeps the agreement of rows and captures. *)
LEMMA NextStaging ==
    TypeOK /\ TypeOK' /\ MergingHoldsUser /\ StagingInv /\ [Next]_vars => StagingInv'
<1> SUFFICES ASSUME TypeOK, TypeOK', MergingHoldsUser, StagingInv, [Next]_vars
             PROVE  StagingInv'
  OBVIOUS
<1>0. capture \in [Task -> Progress]
  BY DEF TypeOK
<1>1. ASSUME NEW t \in Task, CheckConsent(t) PROVE StagingInv'
  <2>1. UNCHANGED <<rows, nextId, editing>>
    BY <1>1 DEF CheckConsent, memories, others
  <2>2. CASE Stop(t)
    BY <2>1, <2>2, StopStaging
  <2>3. CASE capture[t].pc = "scheduled" /\ capture' = [capture EXCEPT ![t].pc = "extracting"]
    <3>1. \A u \in Task : /\ capture'[u].staged = capture[u].staged
                          /\ capture'[u].held = capture[u].held
                          /\ capture'[u].pc # "merging" => capture[u].pc # "merging"
      BY <1>0, <2>3 DEF Progress
    <3>2. QED
      BY <2>1, <3>1, HandsUnchanged
  <2>4. QED
    BY <1>1, <2>2, <2>3 DEF CheckConsent
<1>2. ASSUME NEW t \in Task, Extract(t) PROVE StagingInv'
  <2>1. UNCHANGED <<rows, nextId, editing>> /\ capture[t].pc = "extracting"
    BY <1>2 DEF Extract, memories, others
  <2>2. PICK candidates :
            capture' = [capture EXCEPT ![t].pc = "extracted", ![t].todo = candidates]
    BY <1>2 DEF Extract
  <2>3. capture' = [capture EXCEPT ![t] =
                       [capture[t] EXCEPT !.pc = "extracted", !.todo = candidates]]
    BY <1>0, <2>2
  <2>4. /\ [capture[t] EXCEPT !.pc = "extracted", !.todo = candidates].staged = capture[t].staged
        /\ [capture[t] EXCEPT !.pc = "extracted", !.todo = candidates].held = capture[t].held
    BY <1>0 DEF Progress
  <2>5. \A u \in Task : /\ capture'[u].staged = capture[u].staged
                        /\ capture'[u].held = capture[u].held
                        /\ capture'[u].pc # "merging" => capture[u].pc # "merging"
    BY <1>0, <2>1, <2>3, <2>4
  <2>6. QED
    BY <2>1, <2>5, HandsUnchanged
<1>3. ASSUME NEW t \in Task, LockUser(t) PROVE StagingInv'
  <2>1. UNCHANGED <<rows, nextId, editing>>
    BY <1>3 DEF LockUser, memories, others
  <2>2. CASE Stop(t)
    BY <2>1, <2>2, StopStaging
  <2>3. CASE capture[t].pc = "extracted" /\ capture' = [capture EXCEPT ![t].pc = "merging"]
    <3>1. \A u \in Task : /\ capture'[u].staged = capture[u].staged
                          /\ capture'[u].held = capture[u].held
                          /\ capture'[u].pc # "merging" => capture[u].pc # "merging"
      BY <1>0, <2>3 DEF Progress
    <3>2. QED
      BY <2>1, <3>1, HandsUnchanged
  <2>4. QED
    BY <1>3, <2>2, <2>3 DEF LockUser
<1>4. ASSUME NEW t \in Task, Merge(t) PROVE StagingInv'
  BY <1>4, MergeStaging
<1>5. ASSUME NEW t \in Task, CommitCapture(t) PROVE StagingInv'
  BY <1>5, CommitStaging
<1>6. ASSUME NEW t \in Task, AbandonCapture(t) PROVE StagingInv'
  BY <1>6, StopStaging DEF AbandonCapture, memories, others
<1>7. ASSUME NEW e \in Editor, EditStep(e) PROVE StagingInv'
  BY <1>7, CreateStaging, StartUpdateStaging, FinishUpdateStaging, FailUpdateStaging,
     DeleteStaging DEF EditStep
<1>8. ASSUME NEW s \in Saver, SaveStep(s) PROVE StagingInv'
  <2>1. UNCHANGED <<rows, nextId, editing, capture>>
    BY <1>8 DEF SaveStep, SaveMemorySection, SaveOtherSection, ReplacePreferences, StartSave,
                CommitSave, FailSave, memories
  <2>2. QED
    BY <2>1, HandsUnchanged
<1>9. CASE UNCHANGED vars
  BY <1>9, HandsUnchanged DEF vars
<1>10. QED
  BY <1>1, <1>2, <1>3, <1>4, <1>5, <1>6, <1>7, <1>8, <1>9 DEF Next, CaptureStep

(* Initially there are no rows and nothing is staged. *)
LEMMA InitStaging == Init => StagingInv
<1> SUFFICES ASSUME Init PROVE StagingInv
  OBVIOUS
<1>1. rows = <<>> /\ DOMAIN rows = {}
  BY NoRows DEF Init
<1>2. \A t \in Task : capture[t].staged = <<>> /\ capture[t].held = {}
  BY DEF Init, Idle
<1>4. ASSUME NEW t \in Task PROVE Staging(t)
  <2>1. View(t) = rows
    BY <1>1, <1>2, NoRows, ViewOfNothing DEF View
  <2>2. QED
    BY <1>1, <1>2, <2>1, NoRows DEF Staging
<1>5. QED
  BY <1>1, <1>2, <1>4 DEF StagingInv, KeysUnique

(* The rows and what the captures have staged agree at all times: the locks of        *)
(* _find_merge_target keep edits and deletions away from the rows in hand.            *)
THEOREM StagingAgrees == Spec => []StagingInv
<1>1. QED
  BY InitType, NextType, InitMergingHoldsUser, NextMergingHoldsUser, InitStaging, NextStaging,
     PTL DEF Spec

(* The keys of a user's memories are distinct: the unique constraint is never what    *)
(* stops a capture or an edit.                                                       *)
THEOREM DistinctCanonicalKeys == Spec => []KeysUnique
<1>1. StagingInv => KeysUnique
  BY DEF StagingInv
<1>2. QED
  BY <1>1, StagingAgrees, PTL

(* A key names the category of its row, whatever edits and merges race.              *)
THEOREM KeysNameCategories == Spec => []KeyNamesCategory
<1>1. StagingInv => KeyNamesCategory
  BY DEF StagingInv, OwnKey, KeyNamesCategory
<1>2. QED
  BY <1>1, StagingAgrees, PTL

(* A row that vanishes was locked by nobody, hence in no capture's hand. *)
LEMMA VanishedWasFree ==
    ASSUME TypeOK, TypeOK', StagingInv, [Next]_vars,
           NEW i \in DOMAIN rows \ DOMAIN rows', NEW t \in Task
    PROVE  i \notin DOMAIN capture'[t].staged
<1>1. ASSUME NEW e \in Editor, DeleteMemory(e) PROVE i \notin DOMAIN capture'[t].staged
  <2>1. PICK id \in DOMAIN rows :
            ~Locked(id) /\ rows' = [j \in DOMAIN rows \ {id} |-> rows[j]]
    BY <1>1 DEF DeleteMemory
  <2>2. i = id /\ i \notin capture[t].held /\ capture' = capture
    BY <1>1, <2>1 DEF Locked, DeleteMemory
  <2>3. QED
    BY <2>2 DEF StagingInv, Staging
<1>2. ASSUME NEW e \in Editor, CreateMemory(e) PROVE FALSE
  <2>1. PICK new : rows' = Over(new, rows)
    BY <1>2 DEF CreateMemory
  <2>2. QED
    BY <2>1 DEF Over
<1>3. ASSUME NEW e \in Editor, FinishUpdate(e) PROVE FALSE
  BY <1>3 DEF FinishUpdate
<1>4. ASSUME NEW u \in Task, CommitCapture(u) PROVE FALSE
  BY <1>4 DEF CommitCapture, Over
<1>5. ASSUME UNCHANGED rows PROVE FALSE
  BY <1>5
<1>6. QED
  BY <1>1, <1>2, <1>3, <1>4, <1>5
     DEF Next, CaptureStep, CheckConsent, Extract, LockUser, Merge, AbandonCapture,
         EditStep, StartUpdate, FailUpdate, SaveStep, SaveMemorySection, SaveOtherSection,
         ReplacePreferences, StartSave, CommitSave, FailSave, memories, vars

(* A memory the user deleted is in no capture's hand, so none writes it again.        *)
THEOREM DeletedStaysDeleted == Spec => NoResurrection
<1>1. TypeOK /\ TypeOK' /\ StagingInv /\ [Next]_vars =>
          [\A i \in DOMAIN rows \ DOMAIN rows' : \A t \in Task :
              i \notin DOMAIN capture'[t].staged]_vars
  BY VanishedWasFree
<1>2. QED
  BY <1>1, TypeCorrect, StagingAgrees, PTL DEF Spec, NoResurrection

-----------------------------------------------------------------------------
(* Hand-written texts. *)

(* A further similar step leads to the candidate it is taken to. *)
LEMMA OneStepFurther ==
    ASSUME NEW old \in Content, NEW b, NEW new, NEW texts, LeadsTo(old, b, texts),
           b = new \/ <<b, new>> \in Similar
    PROVE  LeadsTo(old, new, texts \cup {new})
<1> SUFFICES ASSUME NEW S \in SUBSET Content, old \in S,
                    \A p \in Similar : p[1] \in S /\ p[2] \in texts \cup {new} => p[2] \in S
             PROVE  new \in S
  BY DEF LeadsTo
<1>1. b \in S
  BY DEF LeadsTo
<1>2. CASE <<b, new>> \in Similar
  <2>1. <<b, new>>[1] = b /\ <<b, new>>[2] = new
    OBVIOUS
  <2>2. QED
    BY <1>1, <1>2, <2>1
<1>3. QED
  BY <1>1, <1>2

(* With more candidates merged, what could be reached still can. *)
LEMMA MoreTextsLeadAsFar ==
    ASSUME NEW old, NEW new, NEW texts, NEW more, LeadsTo(old, new, texts)
    PROVE  LeadsTo(old, new, texts \cup more)
BY DEF LeadsTo

(* What a capture is about to write over a row has the row's key, and where the user  *)
(* wrote the row's text the candidates merged so far lead from it to the new one.    *)
TextsKept(t) ==
    \A i \in DOMAIN capture[t].staged \cap DOMAIN rows :
        /\ capture[t].staged[i].key = rows[i].key
        /\ rows[i].byHand =>
               LeadsTo(rows[i].content, capture[t].staged[i].content, capture[t].merged)

TextsInv == \A t \in Task : TextsKept(t)

(* Merge: only a candidate with a similar text reaches a row whose key is made of its *)
(* id, and such are the rows the user wrote.                                         *)
LEMMA MergeTexts ==
    ASSUME TypeOK, StagingInv, TextsInv, NEW t \in Task, Merge(t)
    PROVE  TextsInv'
<1> DEFINE c == Head(capture[t].todo)
           RowOf(key) == [category |-> c.category, key |-> key, content |-> c.content,
                          byHand |-> FALSE]
<1>1. PICK id \in RowId, key \in CanonicalKey :
          /\ c \in Candidate
          /\ RowOf(key) \in Row
          /\ capture' = [capture EXCEPT ![t] =
                [pc |-> "merging", todo |-> Tail(capture[t].todo),
                 merged |-> capture[t].merged \cup {c.content},
                 staged |-> Over([i \in {id} |-> RowOf(key)], capture[t].staged),
                 held |-> capture[t].held \cup LockedByMerge(t, c)]]
          /\ \/ /\ id \in MergeTargets(t, c)
                /\ key = View(t)[id].key
             \/ /\ MergeTargets(t, c) = {}
                /\ id = nextId
  BY MergeEffect
<1>2. rows' = rows /\ capture \in [Task -> Progress]
  BY DEF Merge, TypeOK
<1>3. /\ capture'[t].staged = Over([i \in {id} |-> RowOf(key)], capture[t].staged)
      /\ capture'[t].merged = capture[t].merged \cup {c.content}
      /\ \A u \in Task \ {t} : capture'[u] = capture[u]
  BY <1>1, <1>2
<1>4. /\ DOMAIN capture'[t].staged = {id} \cup DOMAIN capture[t].staged
      /\ capture'[t].staged[id] = RowOf(key)
      /\ \A i \in DOMAIN capture[t].staged \ {id} :
             capture'[t].staged[i] = capture[t].staged[i]
  <2>1. /\ [i \in {id} |-> RowOf(key)] \in SomeRows
        /\ DOMAIN [i \in {id} |-> RowOf(key)] = {id}
        /\ [i \in {id} |-> RowOf(key)][id] = RowOf(key)
    BY <1>1, SingleRow
  <2>2. capture[t].staged \in SomeRows
    BY ViewType
  <2> HIDE DEF RowOf
  <2>3. QED
    BY <1>3, <2>1, <2>2, OverRows
<1>5. ASSUME id \in DOMAIN rows
      PROVE  /\ key = rows[id].key
             /\ rows[id].byHand => LeadsTo(rows[id].content, c.content, capture'[t].merged)
  <2>1. id \in MergeTargets(t, c) /\ key = View(t)[id].key
    <3>1. id # nextId
      BY <1>1, <1>5, IdsAreNoSlugs DEF StagingInv
    <3>2. QED
      BY <1>1, <3>1
  <2>2. View(t)[id].key = rows[id].key
    BY <1>5, ViewType DEF TextsInv, TextsKept
  <2>3. ASSUME rows[id].byHand
        PROVE  LeadsTo(rows[id].content, c.content, capture'[t].merged)
    <3>1. rows[id].key.name = id
      BY <1>5, <2>3 DEF StagingInv, OwnKey
    <3>2. View(t)[id].key # AutoKey(c)
      BY <1>1, <2>2, <3>1, IdsAreNoSlugs DEF AutoKey, Candidate
    <3>3. <<View(t)[id].content, c.content>> \in Similar
      BY <2>1, <3>2 DEF MergeTargets, SameKey, Duplicates
    <3>4. LeadsTo(rows[id].content, View(t)[id].content, capture[t].merged)
      <4>1. CASE id \in DOMAIN capture[t].staged
        BY <1>5, <2>3, <4>1, ViewType DEF TextsInv, TextsKept
      <4>2. CASE id \notin DOMAIN capture[t].staged
        <5>1. View(t)[id] = rows[id]
          BY <1>5, <4>2, ViewType
        <5>2. QED
          BY <5>1 DEF LeadsTo
      <4>3. QED
        BY <4>1, <4>2
    <3>5. rows[id].content \in Content
      <4>1. rows[id] \in Row
        BY <1>5, SomeRowsElim DEF TypeOK
      <4>2. QED
        BY <4>1 DEF Row
    <3>6. LeadsTo(rows[id].content, c.content, capture[t].merged \cup {c.content})
      BY <3>3, <3>4, <3>5, OneStepFurther
    <3>7. QED
      BY <1>3, <3>6
  <2>4. QED
    BY <2>1, <2>2, <2>3
<1>6. TextsKept(t)'
  <2>1. RowOf(key).key = key /\ RowOf(key).content = c.content
    OBVIOUS
  <2> HIDE DEF RowOf, c
  <2>2. ASSUME NEW i \in DOMAIN capture'[t].staged \cap DOMAIN rows, i # id
        PROVE  /\ capture'[t].staged[i].key = rows[i].key
               /\ rows[i].byHand =>
                    LeadsTo(rows[i].content, capture'[t].staged[i].content, capture'[t].merged)
    <3>1. /\ i \in DOMAIN capture[t].staged \cap DOMAIN rows
          /\ capture'[t].staged[i] = capture[t].staged[i]
      BY <1>4, <2>2
    <3>2. /\ capture[t].staged[i].key = rows[i].key
          /\ rows[i].byHand =>
               LeadsTo(rows[i].content, capture[t].staged[i].content, capture[t].merged)
      BY <3>1 DEF TextsInv, TextsKept
    <3>3. ASSUME rows[i].byHand
          PROVE  LeadsTo(rows[i].content, capture'[t].staged[i].content, capture'[t].merged)
      <4>1. LeadsTo(rows[i].content, capture[t].staged[i].content, capture[t].merged)
        BY <3>2, <3>3
      <4>2. LeadsTo(rows[i].content, capture[t].staged[i].content,
                    capture[t].merged \cup {c.content})
        BY <4>1, MoreTextsLeadAsFar
      <4>3. QED
        BY <1>3, <3>1, <4>2
    <3>4. QED
      BY <3>1, <3>2, <3>3
  <2>3. ASSUME id \in DOMAIN rows
        PROVE  /\ capture'[t].staged[id].key = rows[id].key
               /\ rows[id].byHand =>
                    LeadsTo(rows[id].content, capture'[t].staged[id].content, capture'[t].merged)
    BY <1>4, <1>5, <2>1, <2>3
  <2>4. \A i \in DOMAIN capture'[t].staged \cap DOMAIN rows :
            /\ capture'[t].staged[i].key = rows[i].key
            /\ rows[i].byHand =>
                 LeadsTo(rows[i].content, capture'[t].staged[i].content, capture'[t].merged)
    BY <2>2, <2>3
  <2>5. TextsKept(t)' = (\A i \in DOMAIN capture'[t].staged \cap DOMAIN rows' :
            /\ capture'[t].staged[i].key = rows'[i].key
            /\ rows'[i].byHand =>
                 LeadsTo(rows'[i].content, capture'[t].staged[i].content, capture'[t].merged))
    BY DEF TextsKept, LeadsTo
  <2>6. QED
    BY <1>2, <2>4, <2>5
<1>7. ASSUME NEW u \in Task \ {t} PROVE TextsKept(u)'
  BY <1>2, <1>3 DEF TextsInv, TextsKept
<1>8. QED
  BY <1>6, <1>7 DEF TextsInv

(* Every step keeps the texts in hand similar to those they will replace. *)
LEMMA NextTexts ==
    ASSUME TypeOK, TypeOK', MergingHoldsUser, StagingInv, StagingInv', TextsInv,
           [Next]_vars
    PROVE  TextsInv'
<1>0. capture \in [Task -> Progress] /\ rows \in SomeRows
  BY DEF TypeOK
<1> DEFINE Kept(u) == \/ capture'[u].staged = <<>>
                      \/ /\ capture'[u].staged = capture[u].staged
                         /\ capture'[u].merged = capture[u].merged
<1>1. ASSUME UNCHANGED rows, \A t \in Task : Kept(t) PROVE TextsInv'
  <2> SUFFICES ASSUME NEW t \in Task PROVE TextsKept(t)'
    BY DEF TextsInv
  <2>1. CASE capture'[t].staged = <<>>
    BY <2>1, NoRows DEF TextsKept
  <2>2. CASE /\ capture'[t].staged = capture[t].staged
             /\ capture'[t].merged = capture[t].merged
    BY <1>1, <2>2 DEF TextsInv, TextsKept, LeadsTo
  <2>3. QED
    BY <1>1, <2>1, <2>2
<1>2. ASSUME NEW t \in Task, Stop(t) PROVE \A u \in Task : Kept(u)
  <2>1. capture' = [capture EXCEPT ![t] = [Idle EXCEPT !.pc = "done"]]
    BY <1>2 DEF Stop
  <2>2. [Idle EXCEPT !.pc = "done"].staged = <<>>
    BY DEF Idle
  <2>3. QED
    BY <1>0, <2>1, <2>2
<1>3. ASSUME NEW t \in Task, CheckConsent(t) PROVE TextsInv'
  <2>1. CASE capture' = [capture EXCEPT ![t].pc = "extracting"]
    BY <1>0, <1>1, <1>3, <2>1 DEF CheckConsent, memories, Progress
  <2>2. QED
    BY <1>1, <1>2, <1>3, <2>1 DEF CheckConsent, memories
<1>4. ASSUME NEW t \in Task, Extract(t) PROVE TextsInv'
  <2>1. PICK candidates :
            capture' = [capture EXCEPT ![t].pc = "extracted", ![t].todo = candidates]
    BY <1>4 DEF Extract
  <2>2. capture' = [capture EXCEPT ![t] =
                       [capture[t] EXCEPT !.pc = "extracted", !.todo = candidates]]
    BY <1>0, <2>1
  <2>3. /\ [capture[t] EXCEPT !.pc = "extracted", !.todo = candidates].staged
                = capture[t].staged
        /\ [capture[t] EXCEPT !.pc = "extracted", !.todo = candidates].merged
                = capture[t].merged
    BY <1>0 DEF Progress
  <2>4. \A u \in Task : Kept(u)
    BY <1>0, <2>2, <2>3
  <2>5. QED
    BY <1>1, <1>4, <2>4 DEF Extract, memories
<1>5. ASSUME NEW t \in Task, LockUser(t) PROVE TextsInv'
  <2>1. CASE capture' = [capture EXCEPT ![t].pc = "merging"]
    BY <1>0, <1>1, <1>5, <2>1 DEF LockUser, memories, Progress
  <2>2. QED
    BY <1>1, <1>2, <1>5, <2>1 DEF LockUser, memories
<1>6. ASSUME NEW t \in Task, Merge(t) PROVE TextsInv'
  BY <1>6, MergeTexts
<1>7. ASSUME NEW t \in Task, CommitCapture(t) PROVE TextsInv'
  <2>1. \A u \in Task : capture'[u].staged = <<>>
    <3>1. \A u \in Task : capture'[u].pc # "merging"
      <4>1. capture' = [capture EXCEPT ![t] = [Idle EXCEPT !.pc = "done"]]
        BY <1>7 DEF CommitCapture, Stop
      <4>2. [Idle EXCEPT !.pc = "done"].pc = "done"
        BY DEF Idle
      <4>3. \A u \in Task \ {t} : capture[u].pc # "merging"
        BY <1>7 DEF MergingHoldsUser, CommitCapture
      <4>4. QED
        BY <1>0, <4>1, <4>2, <4>3
    <3>2. QED
      BY <3>1 DEF StagingInv
  <2>2. QED
    BY <2>1, NoRows DEF TextsInv, TextsKept
<1>8. ASSUME NEW t \in Task, AbandonCapture(t) PROVE TextsInv'
  BY <1>1, <1>2, <1>8 DEF AbandonCapture, memories
<1>9. ASSUME NEW e \in Editor, CreateMemory(e) PROVE TextsInv'
  <2>1. \A t \in Task : capture'[t].pc # "merging"
    BY <1>9, CaptureAssumption DEF CreateMemory, MergingHoldsUser, CaptureAssumption
  <2>2. \A t \in Task : capture'[t].staged = <<>>
    BY <2>1 DEF StagingInv
  <2>3. QED
    BY <2>2, NoRows DEF TextsInv, TextsKept
<1>10. ASSUME NEW e \in Editor, FinishUpdate(e) PROVE TextsInv'
  <2>1. DOMAIN rows' = DOMAIN rows /\ capture' = capture
    BY <1>10 DEF FinishUpdate
  <2>2. \A i \in DOMAIN rows : i # editing[e] => rows'[i] = rows[i]
    BY <1>10 DEF FinishUpdate
  <2>3. \A t \in Task : editing[e] \notin DOMAIN capture[t].staged \cap DOMAIN rows
    BY DEF StagingInv, Staging
  <2>4. QED
    BY <2>1, <2>2, <2>3 DEF TextsInv, TextsKept
<1>11. ASSUME NEW e \in Editor, DeleteMemory(e) PROVE TextsInv'
  <2>1. PICK id \in DOMAIN rows : rows' = [i \in DOMAIN rows \ {id} |-> rows[i]]
    BY <1>11 DEF DeleteMemory
  <2>2. QED
    BY <1>11, <2>1 DEF TextsInv, TextsKept, DeleteMemory
<1>12. ASSUME UNCHANGED <<rows, capture>> PROVE TextsInv'
  BY <1>12 DEF TextsInv, TextsKept
<1>13. QED
  BY <1>3, <1>4, <1>5, <1>6, <1>7, <1>8, <1>9, <1>10, <1>11, <1>12
     DEF Next, CaptureStep, EditStep, StartUpdate, FailUpdate, SaveStep, SaveMemorySection,
         SaveOtherSection, ReplacePreferences, StartSave, CommitSave, FailSave, memories, vars

(* A text the user wrote is only ever replaced by a capture with one its candidates   *)
(* lead to, each similar to the one before: nothing is assumed of the similarity.    *)
THEOREM HandTextsKept == Spec => ManualTextKept
<1>1. Init => TextsInv
  BY NoRows DEF Init, Idle, TextsInv, TextsKept
<1>2. TypeOK /\ TypeOK' /\ MergingHoldsUser /\ StagingInv /\ StagingInv' /\ TextsInv
        /\ [Next]_vars => TextsInv'
  BY NextTexts
<1>3. TypeOK /\ TextsInv /\ [Next]_vars =>
          [\A t \in Task : CommitCapture(t) =>
              \A i \in DOMAIN rows \cap DOMAIN rows' :
                  rows[i].byHand =>
                      LeadsTo(rows[i].content, rows'[i].content, capture[t].merged)]_vars
  <2> SUFFICES ASSUME TypeOK, TextsInv, NEW t \in Task, CommitCapture(t),
                      NEW i \in DOMAIN rows \cap DOMAIN rows',
                      rows[i].byHand
               PROVE  LeadsTo(rows[i].content, rows'[i].content, capture[t].merged)
    OBVIOUS
  <2>1. rows' = View(t)
    BY DEF CommitCapture, View
  <2>2. CASE i \in DOMAIN capture[t].staged
    <3>1. rows'[i] = capture[t].staged[i]
      BY <2>1, <2>2, ViewType
    <3>2. QED
      BY <2>2, <3>1 DEF TextsInv, TextsKept
  <2>3. CASE i \notin DOMAIN capture[t].staged
    <3>1. rows'[i] = rows[i]
      BY <2>1, <2>3, ViewType
    <3>2. QED
      BY <3>1 DEF LeadsTo
  <2>4. QED
    BY <2>2, <2>3
<1>4. QED
  BY <1>1, <1>2, <1>3, TypeCorrect, LockKeepsConsent, StagingAgrees, PTL
     DEF Spec, ManualTextKept

=============================================================================
