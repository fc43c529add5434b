--------------------------- MODULE MemoryCapture ---------------------------
(***************************************************************************)
(* The long-term memories of one user and the consent that governs them.   *)
(*                                                                         *)
(* A capture task (services/memory/maintenance.py) reads the consent flag, *)
(* extracts candidates with no transaction open, locks the user's row,     *)
(* reads the flag again and merges the candidates into the memory rows in  *)
(* the same transaction (services/memory/store.py).  At the same time the  *)
(* user edits memories by hand (routes/memories.py) and saves preferences  *)
(* (routes/preferences.py), a read and a later write of one JSON document. *)
(*                                                                         *)
(* Row locks are PostgreSQL's: a statement that needs a locked row waits,  *)
(* and sees the row as it is once the lock is free.  The per-category      *)
(* advisory locks add nothing to the lock on the user's row, which every   *)
(* capture of this user holds first; they are not modelled.                *)
(***************************************************************************)
EXTENDS Integers, Sequences, FiniteSets

CONSTANTS
    Task,          \* capture tasks, one per answered chat message
    Editor,        \* sessions in which the user edits memories
    Saver,         \* sessions in which the user saves preferences
    Category,      \* the memory categories
    Slug,          \* what follows the category in an extracted canonical_key
    Content,       \* memory texts
    Similar,       \* the pairs of texts that count as duplicates; seldom transitive
    None,          \* no value
    MaxRows,       \* bound on the memory rows ever created
    MaxCandidates, \* bound on the candidates of one extraction
    MaxSaves       \* bound on the preference saves

ASSUME CaptureAssumption ==
    /\ MaxRows \in Nat /\ MaxCandidates \in Nat /\ MaxSaves \in Nat
    /\ Similar \subseteq Content \X Content
    /\ None \notin Task \cup Category \cup Content \cup 1..MaxRows
    /\ Slug \cap Nat = {}

VARIABLES
    rows,          \* user_memories: the committed rows by id
    nextId,        \* the id of the next row
    preferences,   \* users.preferences: the consent flag and everything else
    chosen,        \* the last value the user gave the consent flag
    userLock,      \* the task that holds the user's row, or None
    capture,       \* capture[t]: where task t is, the candidates it has to merge, the texts
                   \* of those it merged (a history), the rows its transaction wrote and
                   \* the rows it has locked
    editing,       \* editing[e]: the row editor e has locked, or None
    saving,        \* saving[s]: the document saver s loaded and the one it will write, or None
    saves          \* how many saves were started

vars == <<rows, nextId, preferences, chosen, userLock, capture, editing, saving, saves>>

RowId == 1..MaxRows
Candidate == [category : Category, slug : Slug, content : Content]
CanonicalKey == [category : Category, name : Slug \cup RowId]
\* byHand, a history: the user wrote the text, no capture replaced it since.
Row == [category : Category, key : CanonicalKey, content : Content, byHand : BOOLEAN]
Document == [memory : BOOLEAN, other : BOOLEAN]
Save == [loaded : Document, document : Document, choosesConsent : BOOLEAN]
SomeRows == UNION {[ids -> Row] : ids \in SUBSET RowId}
Progress == [pc : {"scheduled", "extracting", "extracted", "merging", "done"},
             todo : Seq(Candidate), merged : SUBSET Content, staged : SomeRows,
             held : SUBSET RowId]

Idle ==
    [pc |-> "scheduled", todo |-> <<>>, merged |-> {}, staged |-> <<>>, held |-> {}]

Init ==
    /\ rows = <<>>
    /\ nextId = 1
    /\ preferences = [memory |-> TRUE, other |-> FALSE]
    /\ chosen = TRUE
    /\ userLock = None
    /\ capture = [t \in Task |-> Idle]
    /\ editing = [e \in Editor |-> None]
    /\ saving = [s \in Saver |-> None]
    /\ saves = 0

memories == <<rows, nextId>>
consent == <<preferences, chosen>>
others == <<editing, saving, saves>>

\* new overrides old where both are defined.
Over(new, old) ==
    [i \in DOMAIN new \cup DOMAIN old |-> IF i \in DOMAIN new THEN new[i] ELSE old[i]]

\* A canonical_key starts with the category; an extracted one goes on with what the
\* model chose, a manual one with the id of the row.
AutoKey(c) == [category |-> c.category, name |-> c.slug]
ManualKey(category, id) == [category |-> category, name |-> id]

-----------------------------------------------------------------------------
(* A capture task. *)

Stop_KeepLock(t) ==
    /\ capture' = [capture EXCEPT ![t] = [Idle EXCEPT !.pc = "done"]]
    /\ UNCHANGED userLock

Stop(t) ==
    /\ capture' = [capture EXCEPT ![t] = [Idle EXCEPT !.pc = "done"]]
    /\ userLock' = IF userLock = t THEN None ELSE userLock

CheckConsent(t) ==
    /\ capture[t].pc = "scheduled"
    /\ IF preferences.memory
       THEN capture' = [capture EXCEPT ![t].pc = "extracting"] /\ UNCHANGED userLock
       ELSE Stop(t)
    /\ UNCHANGED <<memories, consent, others>>

\* The model's answer: some candidates that survive the sanitizer.
Extract(t) ==
    /\ capture[t].pc = "extracting"
    /\ \E n \in 1..MaxCandidates : \E candidates \in [1..n -> Candidate] :
          capture' = [capture EXCEPT ![t].pc = "extracted", ![t].todo = candidates]
    /\ UNCHANGED <<memories, consent, userLock, others>>

\* SELECT preferences FOR UPDATE: the flag is read again under the lock, and the lock
\* is kept until the memories are committed.
LockUser_NoRecheck(t) ==
    /\ capture[t].pc = "extracted"
    /\ userLock = None
    /\ capture' = [capture EXCEPT ![t].pc = "merging"] /\ userLock' = t
    /\ UNCHANGED <<memories, consent, others>>

LockUser(t) ==
    /\ capture[t].pc = "extracted"
    /\ userLock = None
    /\ IF preferences.memory
       THEN capture' = [capture EXCEPT ![t].pc = "merging"] /\ userLock' = t
       ELSE Stop(t)
    /\ UNCHANGED <<memories, consent, others>>

\* What the transaction of task t sees, and the rows its next candidate may merge into.
View(t) == Over(capture[t].staged, rows)

SameKey(t, c) == {i \in DOMAIN View(t) : View(t)[i].key = AutoKey(c)}
SameCategory(t, c) == {i \in DOMAIN View(t) : View(t)[i].category = c.category}
Duplicates(t, c) == {i \in SameCategory(t, c) : <<View(t)[i].content, c.content>> \in Similar}

\* _find_merge_target locks the row with the candidate's key; when there is none, all
\* rows of the category.
LockedByMerge(t, c) == IF SameKey(t, c) # {} THEN SameKey(t, c) ELSE SameCategory(t, c)

MergeTargets(t, c) == IF SameKey(t, c) # {} THEN SameKey(t, c) ELSE Duplicates(t, c)

\* One candidate is merged into an existing row, whose key stays, or becomes a new row.
Merge_InsertOnly(t) ==
    LET c == Head(capture[t].todo)
    IN  /\ capture[t].pc = "merging"
        /\ capture[t].todo # <<>>
        /\ nextId <= MaxRows
        /\ capture' = [capture EXCEPT
                ![t].todo = Tail(@),
                ![t].staged = Over([i \in {nextId} |-> [category |-> c.category,
                                                        key |-> AutoKey(c),
                                                        content |-> c.content,
                                                        byHand |-> FALSE]], @)]
        /\ nextId' = nextId + 1
        /\ UNCHANGED <<rows, consent, userLock, others>>

Merge(t) ==
    LET c == Head(capture[t].todo)
        Stage(id, row) ==
            capture' = [capture EXCEPT ![t] =
                [pc |-> "merging",
                 todo |-> Tail(@.todo),
                 merged |-> @.merged \cup {c.content},
                 staged |-> Over([i \in {id} |-> row], @.staged),
                 held |-> @.held \cup LockedByMerge(t, c)]]
    IN  /\ capture[t].pc = "merging"
        /\ capture[t].todo # <<>>
        /\ \A e \in Editor : editing[e] \notin LockedByMerge(t, c)
        /\ \/ \E id \in MergeTargets(t, c) :
                /\ Stage(id, [category |-> c.category, key |-> View(t)[id].key,
                              content |-> c.content, byHand |-> FALSE])
                /\ UNCHANGED nextId
           \/ /\ MergeTargets(t, c) = {}
              /\ nextId <= MaxRows
              /\ Stage(nextId, [category |-> c.category, key |-> AutoKey(c),
                                content |-> c.content, byHand |-> FALSE])
              /\ nextId' = nextId + 1
        /\ UNCHANGED <<rows, consent, userLock, others>>

CommitCapture(t) ==
    /\ capture[t].pc = "merging"
    /\ capture[t].todo = <<>>
    /\ rows' = Over(capture[t].staged, rows)
    /\ Stop(t)
    /\ UNCHANGED <<nextId, consent, others>>

\* The extraction found nothing, a provider or the database failed, or the task ran
\* out of its time: the transaction is rolled back and its locks are released.
AbandonCapture(t) ==
    /\ capture[t].pc # "done"
    /\ Stop(t)
    /\ UNCHANGED <<memories, consent, others>>

-----------------------------------------------------------------------------
(* The user edits memories by hand. *)

\* A row is locked by another transaction: an editor's, or a capture's.
Locked(id) ==
    \/ \E e \in Editor : editing[e] = id
    \/ \E t \in Task : id \in capture[t].held

\* The insert of a memory waits for the user's row, which its foreign key refers to.
CreateMemory(e) ==
    /\ editing[e] = None
    /\ userLock = None
    /\ nextId <= MaxRows
    /\ \E category \in Category, content \in Content :
          rows' = Over([i \in {nextId} |-> [category |-> category,
                                            key |-> ManualKey(category, nextId),
                                            content |-> content,
                                            byHand |-> TRUE]], rows)
    /\ nextId' = nextId + 1
    /\ UNCHANGED <<consent, userLock, capture, others>>

\* SELECT FOR UPDATE; the embedding is then computed with the row locked.
StartUpdate(e) ==
    /\ editing[e] = None
    /\ \E id \in DOMAIN rows : /\ ~Locked(id)
                               /\ editing' = [editing EXCEPT ![e] = id]
    /\ UNCHANGED <<memories, consent, userLock, capture, saving, saves>>

\* A new category or a new text makes the row a manual one; a new importance does not.
Edited_KeepKey(id, category, content) ==
    [category |-> IF category = None THEN rows[id].category ELSE category,
     key |-> rows[id].key,
     content |-> IF content = None THEN rows[id].content ELSE content,
     byHand |-> content # None \/ rows[id].byHand]

Edited(id, category, content) ==
    LET kept == IF category = None THEN rows[id].category ELSE category
    IN  [category |-> kept,
         key |-> IF category = None /\ content = None THEN rows[id].key
                 ELSE ManualKey(kept, id),
         content |-> IF content = None THEN rows[id].content ELSE content,
         byHand |-> content # None \/ rows[id].byHand]

FinishUpdate(e) ==
    /\ editing[e] # None
    /\ \E category \in Category \cup {None}, content \in Content \cup {None} :
          rows' = [rows EXCEPT ![editing[e]] = Edited(editing[e], category, content)]
    /\ editing' = [editing EXCEPT ![e] = None]
    /\ UNCHANGED <<nextId, consent, userLock, capture, saving, saves>>

FailUpdate(e) ==
    /\ editing[e] # None
    /\ editing' = [editing EXCEPT ![e] = None]
    /\ UNCHANGED <<memories, consent, userLock, capture, saving, saves>>

DeleteMemory_NoWait(e) ==
    /\ editing[e] = None
    /\ \E id \in DOMAIN rows : rows' = [i \in DOMAIN rows \ {id} |-> rows[i]]
    /\ UNCHANGED <<nextId, consent, userLock, capture, others>>

DeleteMemory(e) ==
    /\ editing[e] = None
    /\ \E id \in DOMAIN rows : /\ ~Locked(id)
                               /\ rows' = [i \in DOMAIN rows \ {id} |-> rows[i]]
    /\ UNCHANGED <<nextId, consent, userLock, capture, others>>

-----------------------------------------------------------------------------
(* The user saves preferences. *)

\* get_current_user loads the user, document included, at the start of the request;
\* the route computes the document it will write from it.
StartSave(s, document, choosesConsent) ==
    /\ saving[s] = None
    /\ saves < MaxSaves
    /\ saving' = [saving EXCEPT ![s] = [loaded |-> preferences, document |-> document,
                                       choosesConsent |-> choosesConsent]]
    /\ saves' = saves + 1
    /\ UNCHANGED <<memories, consent, userLock, capture, editing>>

SaveMemorySection(s) ==
    \E enabled \in BOOLEAN : StartSave(s, [preferences EXCEPT !.memory = enabled], TRUE)

\* Any of the other sections: learning reminder, job push, visibility.
SaveOtherSection(s) ==
    \E value \in BOOLEAN : StartSave(s, [preferences EXCEPT !.other = value], FALSE)

\* PUT /preferences replaces the document by the one the client sent.
ReplacePreferences(s) == \E document \in Document : StartSave(s, document, TRUE)

\* The whole document is written when it differs from the one that was loaded; the
\* write waits for a task that holds the user's row.
Write(s) ==
    IF saving[s].document = saving[s].loaded
    THEN UNCHANGED preferences
    ELSE userLock = None /\ preferences' = saving[s].document

CommitSave(s) ==
    /\ saving[s] # None
    /\ Write(s)
    /\ chosen' = IF saving[s].choosesConsent THEN saving[s].document.memory ELSE chosen
    /\ saving' = [saving EXCEPT ![s] = None]
    /\ UNCHANGED <<memories, userLock, capture, editing, saves>>

\* The request fails before its commit.
FailSave(s) ==
    /\ saving[s] # None
    /\ saving' = [saving EXCEPT ![s] = None]
    /\ UNCHANGED <<memories, consent, userLock, capture, editing, saves>>

-----------------------------------------------------------------------------
CaptureStep(t) ==
    \/ CheckConsent(t) \/ Extract(t) \/ LockUser(t) \/ Merge(t) \/ CommitCapture(t)
    \/ AbandonCapture(t)

EditStep(e) ==
    CreateMemory(e) \/ StartUpdate(e) \/ FinishUpdate(e) \/ FailUpdate(e) \/ DeleteMemory(e)

SaveStep(s) ==
    \/ SaveMemorySection(s) \/ SaveOtherSection(s) \/ ReplacePreferences(s)
    \/ CommitSave(s) \/ FailSave(s)

Next ==
    \/ \E t \in Task : CaptureStep(t)
    \/ \E e \in Editor : EditStep(e)
    \/ \E s \in Saver : SaveStep(s)

Spec == Init /\ [][Next]_vars

\* Every await of a task is bounded by memory_background_timeout_seconds, a request
\* runs to its end, and PostgreSQL grants a free lock.
Fairness ==
    /\ \A t \in Task : WF_vars(CaptureStep(t))
    /\ \A e \in Editor : WF_vars(FinishUpdate(e) \/ FailUpdate(e))
    /\ \A s \in Saver : WF_vars(CommitSave(s))

FairSpec == Spec /\ Fairness

-----------------------------------------------------------------------------
(* The variables have values of these kinds. *)
TypeOK ==
    /\ rows \in SomeRows
    /\ nextId \in 1..MaxRows + 1
    /\ preferences \in Document
    /\ chosen \in BOOLEAN
    /\ userLock \in Task \cup {None}
    /\ capture \in [Task -> Progress]
    /\ editing \in [Editor -> RowId \cup {None}]
    /\ saving \in [Saver -> Save \cup {None}]
    /\ saves \in 0..MaxSaves

(* No memory is written while the stored flag says no: the flag is read again under    *)
(* the lock on the user's row, and a save that turns it off waits for that lock.      *)
CaptureNeedsConsent ==
    [][\A t \in Task : CommitCapture(t) => preferences.memory]_vars

(* While a task merges it alone holds the user's row and the stored flag says yes.    *)
MergingHoldsUser ==
    \A t \in Task : capture[t].pc = "merging" => userLock = t /\ preferences.memory

(* A key always starts with the category of its row, also after edits and merges that *)
(* race: canonical_key would otherwise match a candidate of another category.         *)
KeyNamesCategory == \A i \in DOMAIN rows : rows[i].key.category = rows[i].category

(* A key names at most one row, the unique constraint on (user_id, canonical_key).    *)
KeysUnique ==
    \A i, j \in DOMAIN rows : rows[i].key = rows[j].key => i = j

(* Row i has a key of its own category, made from a slug or from the id i itself; a   *)
(* text the user wrote has the latter.                                               *)
OwnKey(row, i) ==
    /\ row.key.category = row.category
    /\ row.key.name \in Slug \cup {i}
    /\ row.byHand => row.key.name = i

(* The inductive invariant of the memories: what a capture has staged agrees with the *)
(* rows it read, because those are locked: nobody edits or deletes them meanwhile.    *)
Staging(t) ==
    LET staged == capture[t].staged
    IN  /\ \A i \in DOMAIN staged : i < nextId /\ OwnKey(staged[i], i)
        /\ DOMAIN staged \cap DOMAIN rows \subseteq capture[t].held
        /\ \A e \in Editor : editing[e] \notin capture[t].held
        /\ \A i, j \in DOMAIN View(t) : View(t)[i].key = View(t)[j].key => i = j

StagingInv ==
    /\ \A i \in DOMAIN rows : i < nextId /\ OwnKey(rows[i], i)
    /\ KeysUnique
    /\ \A t \in Task : Staging(t)
    /\ \A t \in Task : capture[t].pc # "merging" => capture[t].staged = <<>>

(* From one text to another in similar steps, each to one of the given texts.         *)
LeadsTo(old, new, texts) ==
    \A S \in SUBSET Content :
        old \in S /\ (\A p \in Similar : p[1] \in S /\ p[2] \in texts => p[2] \in S) => new \in S

(* A text the user wrote by hand is replaced by a capture only with one that counts   *)
(* as the same, or as the same as another candidate that does: an edit gives the row  *)
(* a key no candidate has.  Similarity is not transitive, so each further candidate   *)
(* may lead one step away (_find_merge_target compares with what the transaction      *)
(* wrote); the candidates of other captures, and unlike ones of this, never do.       *)
ManualTextKept ==
    [][\A t \in Task : CommitCapture(t) =>
          \A i \in DOMAIN rows \cap DOMAIN rows' :
              rows[i].byHand => LeadsTo(rows[i].content, rows'[i].content, capture[t].merged)]_vars

(* A deleted memory does not come back: no row vanishes while a capture is about to   *)
(* write it again.                                                                   *)
NoResurrection ==
    [][\A i \in DOMAIN rows \ DOMAIN rows' : \A t \in Task :
          i \notin DOMAIN capture'[t].staged]_vars

(* A save of preferences always ends, however long the user's row is locked.          *)
SaveEnds == \A s \in Saver : saving[s] # None ~> saving[s] = None

(* What the design says of the switch: once the user turned it off, nothing more is   *)
(* captured.                                                                          *)
OffMeansOff == [][\A t \in Task : CommitCapture(t) => chosen]_vars

=============================================================================
