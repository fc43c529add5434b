----------------------------- MODULE SyncProofs -----------------------------
(***************************************************************************)
(* Proofs about one account: the rows kept one per key (Records), the      *)
(* profile, the reports and the plans (Study), and both while snapshots    *)
(* are exported and imported (Sync).                                       *)
(*                                                                         *)
(* Each part has its inductive invariant, and that of Sync is their        *)
(* conjunction with what an import in flight knows: a fingerprint it has   *)
(* not read is carried by no row, but for imports that were in flight with *)
(* it.  The lemmas about the handlers of a part are used for the part by   *)
(* itself and again for the composition.                                   *)
(***************************************************************************)
EXTENDS Sync, FiniteSetTheorems, SequenceTheorems, TLAPS

-----------------------------------------------------------------------------
(* Rows kept one per key. *)

\* A request that leaves the program has found an enrollment, and enrollments stay.
LeavesFoundRow ==
    \A s \in Slot : pending[s] # None /\ pending[s].op = "leave" => rows["enrollment"] # None

RecordInv == RecordTypeOK /\ LeavesFoundRow

\* What a commit may leave behind: typed rows, and every row that was there, with the
\* identity it had, or no row where rows are deleted.
Kept(after) ==
    /\ after \in [Table -> {None} \cup Row]
    /\ \A t \in Table : rows[t] # None /\ after[t] # None => after[t].id = rows[t].id
    /\ rows["enrollment"] # None => after["enrollment"] # None

-----------------------------------------------------------------------------
\* The rows as they are are kept.
LEMMA UnchangedKept ==
    ASSUME RecordTypeOK
    PROVE  Kept(rows)
BY DEF RecordTypeOK, Kept

\* An update of the row that was read, and an insert where there is none, keep the rows
\* (the upserts of planning.py, account.py, knowledge.py, profile.py and cache.py).
LEMMA SavedKept ==
    ASSUME RecordTypeOK, NEW s \in Slot, NEW t \in Table, pending[s] # None
    PROVE  Kept(Saved(s, t))
<1>1. pending[s] \in Read
  BY DEF RecordTypeOK
<1>2. pending[s].by \in Int /\ pending[s].row \in {None} \cup Row
  BY <1>1, RecordsAssumption DEF Read, Write
<1>3. Inserted(s) \in Row
  BY <1>2 DEF Inserted, Row
<1>4. CASE pending[s].row = None /\ rows[t] = None
  <2>1. Saved(s, t) = [rows EXCEPT ![t] = Inserted(s)]
    BY <1>4 DEF Saved
  <2> QED
    BY <2>1, <1>3, <1>4 DEF RecordTypeOK, Kept
<1>5. CASE pending[s].row # None /\ Unchanged(s, t)
  <2>1. Saved(s, t) = [rows EXCEPT ![t] = Updated(s)]
    BY <1>5 DEF Saved
  <2>2. Updated(s) \in Row /\ Updated(s).id = pending[s].row.id
    BY <1>2, <1>5 DEF Updated, Row
  <2>3. rows[t].id = pending[s].row.id
    BY <1>5 DEF Unchanged
  <2> HIDE DEF Updated
  <2>4. \A u \in Table : Saved(s, t)[u] = IF u = t THEN Updated(s) ELSE rows[u]
    BY <2>1 DEF RecordTypeOK
  <2>5. Saved(s, t) \in [Table -> {None} \cup Row]
    BY <2>1, <2>2 DEF RecordTypeOK
  <2>6. \A u \in Table : rows[u] # None /\ Saved(s, t)[u] # None
                            => Saved(s, t)[u].id = rows[u].id
    BY <2>2, <2>3, <2>4
  <2>7. rows["enrollment"] # None => Saved(s, t)["enrollment"] # None
    <3>1. Updated(s) # None
      BY <2>2, RecordsAssumption
    <3> QED
      BY <3>1, <2>4 DEF Table
  <2> QED
    BY <2>5, <2>6, <2>7 DEF Kept
<1>6. CASE Saved(s, t) = rows
  BY <1>6, UnchangedKept
<1> QED
  BY <1>4, <1>5, <1>6 DEF Saved

\* Marking an enrollment as left keeps it (leave_program).
LEMMA LeftKept ==
    ASSUME RecordTypeOK, rows["enrollment"] # None
    PROVE  Kept([rows EXCEPT !["enrollment"] = Left(rows["enrollment"])])
<1>1. rows["enrollment"] \in Row
  BY DEF RecordTypeOK, Table
<1>2. Left(rows["enrollment"]) \in Row /\ Left(rows["enrollment"]).id = rows["enrollment"].id
  BY <1>1 DEF Left, Row
<1>3. Left(rows["enrollment"]) # None
  BY <1>2, RecordsAssumption
<1> HIDE DEF Left
<1> DEFINE after == [rows EXCEPT !["enrollment"] = Left(rows["enrollment"])]
<1>4. \A u \in Table : after[u] = IF u = "enrollment" THEN Left(rows["enrollment"]) ELSE rows[u]
  BY DEF RecordTypeOK
<1>5. after \in [Table -> {None} \cup Row]
  BY <1>2 DEF RecordTypeOK
<1> HIDE DEF after
<1>6. Kept(after)
  BY <1>2, <1>3, <1>4, <1>5 DEF Kept, Table
<1> QED
  BY <1>6 DEF after

\* A delete removes the row or leaves all as it is; enrollments are never deleted.
LEMMA RemovedKept ==
    ASSUME RecordTypeOK, NEW t \in Deleted
    PROVE  Kept([rows EXCEPT ![t] = None])
BY DEF RecordTypeOK, Kept, Deleted, Table

-----------------------------------------------------------------------------
\* A request reads the row as it is.
LEMMA BeginPreserves ==
    ASSUME RecordInv, NEW s \in Slot, NEW t \in Table,
           NEW op \in {"put", "leave", "remove"}, Begin(s, t, op),
           op = "leave" => rows["enrollment"] # None
    PROVE  RecordInv' /\ rows' = rows
<1> DEFINE read == [op |-> op, table |-> t, row |-> rows[t], by |-> writes + 1]
<1>1. /\ pending' = [pending EXCEPT ![s] = read] /\ writes < MaxWrites
      /\ writes' = writes + 1 /\ rows' = rows
  BY DEF Begin
<1>2. writes \in 0..MaxWrites /\ writes + 1 \in Write /\ writes' \in Write
  BY <1>1, RecordsAssumption DEF RecordInv, RecordTypeOK, Write
<1>3. read \in Read /\ read.op = op
  BY <1>2 DEF RecordInv, RecordTypeOK, Read
<1> HIDE DEF read
<1>4. RecordTypeOK'
  BY <1>1, <1>2, <1>3 DEF RecordInv, RecordTypeOK
<1>5. LeavesFoundRow'
  BY <1>1, <1>3 DEF RecordInv, RecordTypeOK, LeavesFoundRow
<1> QED
  BY <1>1, <1>4, <1>5 DEF RecordInv

\* A commit that keeps the rows preserves the invariant.
LEMMA EndPreserves ==
    ASSUME RecordInv, NEW s \in Slot, Kept(rows'), End(s)
    PROVE  RecordInv'
<1>1. pending' = [pending EXCEPT ![s] = None] /\ writes' = writes
  BY DEF End
<1>2. RecordTypeOK'
  BY <1>1 DEF RecordInv, RecordTypeOK, Kept
<1>3. LeavesFoundRow'
  BY <1>1 DEF RecordInv, RecordTypeOK, LeavesFoundRow, Kept
<1> QED
  BY <1>2, <1>3 DEF RecordInv

\* Both halves of an upsert.
LEMMA PutPreserves ==
    ASSUME RecordInv, NEW s \in Slot, NEW t \in Table, Put(s, t)
    PROVE  RecordInv' /\ Kept(rows')
<1>1. CASE Begin(s, t, "put")
  BY <1>1, BeginPreserves, UnchangedKept DEF RecordInv
<1>2. CASE pending[s] # None /\ rows' = Saved(s, t) /\ End(s)
  <2>1. Kept(rows')
    BY <1>2, SavedKept DEF RecordInv
  <2> QED
    BY <2>1, <1>2, EndPreserves
<1> QED
  BY <1>1, <1>2 DEF Put

\* Both halves of a delete.
LEMMA DeletePreserves ==
    ASSUME RecordInv, NEW s \in Slot, NEW t \in Deleted, Delete(s, t)
    PROVE  RecordInv' /\ Kept(rows')
<1>1. t \in Table
  BY DEF Deleted, Table
<1>2. CASE Begin(s, t, "remove")
  BY <1>1, <1>2, BeginPreserves, UnchangedKept DEF RecordInv
<1>3. CASE /\ rows' = IF Unchanged(s, t) THEN [rows EXCEPT ![t] = None] ELSE rows
           /\ End(s)
  <2>1. Kept(rows')
    BY <1>3, RemovedKept, UnchangedKept DEF RecordInv
  <2> QED
    BY <2>1, <1>3, EndPreserves
<1> QED
  BY <1>2, <1>3 DEF Delete

\* Both halves of adding a favourite (add_job_favorite).
LEMMA FavoritePreserves ==
    ASSUME RecordInv, NEW s \in Slot, AddJobFavorite(s)
    PROVE  RecordInv' /\ Kept(rows')
<1>1. "favorite" \in Table
  BY DEF Table
<1>2. CASE Begin(s, "favorite", "put")
  BY <1>1, <1>2, BeginPreserves, UnchangedKept DEF RecordInv
<1>3. CASE /\ pending[s] # None
           /\ rows' = IF pending[s].row # None THEN rows ELSE Saved(s, "favorite")
           /\ End(s)
  <2>1. Kept(rows')
    BY <1>1, <1>3, SavedKept, UnchangedKept DEF RecordInv
  <2> QED
    BY <2>1, <1>3, EndPreserves
<1> QED
  BY <1>2, <1>3 DEF AddJobFavorite

\* Both halves of leaving a program (leave_program).
LEMMA LeavePreserves ==
    ASSUME RecordInv, NEW s \in Slot, LeaveProgram(s)
    PROVE  RecordInv' /\ Kept(rows')
<1>1. "enrollment" \in Table
  BY DEF Table
<1>2. CASE rows["enrollment"] # None /\ Begin(s, "enrollment", "leave")
  BY <1>1, <1>2, BeginPreserves, UnchangedKept DEF RecordInv
<1>3. CASE /\ pending[s] # None /\ pending[s].op = "leave"
           /\ rows' = [rows EXCEPT !["enrollment"] = Left(rows["enrollment"])]
           /\ End(s)
  <2>1. rows["enrollment"] # None
    BY <1>3 DEF RecordInv, LeavesFoundRow
  <2>2. Kept(rows')
    BY <2>1, <1>3, LeftKept DEF RecordInv
  <2> QED
    BY <2>2, <1>3, EndPreserves
<1> QED
  BY <1>2, <1>3 DEF LeaveProgram

\* Every step preserves the invariant and keeps the rows.
LEMMA StepPreserves ==
    ASSUME RecordInv, [RecordNext]_recordVars
    PROVE  RecordInv' /\ Kept(rows')
<1>1. CASE RecordNext
  <2>1. PICK s \in Slot :
            \/ JoinProgram(s) \/ LeaveProgram(s)
            \/ UpsertJobApplication(s) \/ DeleteJobApplication(s)
            \/ AddJobFavorite(s) \/ RemoveJobFavorite(s)
            \/ UpsertLearningRecord(s) \/ DeleteLearningRecord(s)
            \/ UpsertLearningActivity(s) \/ UpdateKnowledgeProgress(s)
            \/ UploadAvatar(s) \/ DeleteAvatar(s) \/ ClearCache(s)
    BY <1>1 DEF RecordNext
  <2>2. ASSUME NEW t \in Table, Put(s, t) PROVE RecordInv' /\ Kept(rows')
    BY <2>2, PutPreserves
  <2>3. ASSUME NEW t \in Deleted, Delete(s, t) PROVE RecordInv' /\ Kept(rows')
    BY <2>3, DeletePreserves
  <2>4. CASE \/ JoinProgram(s) \/ UpsertJobApplication(s) \/ UpsertLearningRecord(s)
             \/ UpsertLearningActivity(s) \/ UpdateKnowledgeProgress(s)
             \/ UploadAvatar(s) \/ ClearCache(s)
    BY <2>2, <2>4 DEF Table, JoinProgram, UpsertJobApplication, UpsertLearningRecord,
                      UpsertLearningActivity, UpdateKnowledgeProgress, UploadAvatar, ClearCache
  <2>5. CASE \/ RemoveJobFavorite(s) \/ DeleteJobApplication(s)
             \/ DeleteLearningRecord(s) \/ DeleteAvatar(s)
    BY <2>3, <2>5 DEF Deleted, RemoveJobFavorite, DeleteJobApplication, DeleteLearningRecord,
                      DeleteAvatar
  <2>6. CASE AddJobFavorite(s)
    BY <2>6, FavoritePreserves
  <2>7. CASE LeaveProgram(s)
    BY <2>7, LeavePreserves
  <2> QED
    BY <2>1, <2>4, <2>5, <2>6, <2>7
<1>2. CASE UNCHANGED recordVars
  <2>1. rows' = rows /\ pending' = pending /\ writes' = writes
    BY <1>2 DEF recordVars
  <2>2. RecordInv'
    BY <2>1 DEF RecordInv, RecordTypeOK, LeavesFoundRow
  <2> QED
    BY <2>1, <2>2, UnchangedKept DEF RecordInv
<1> QED
  BY <1>1, <1>2

-----------------------------------------------------------------------------
\* The invariant holds in every state.
THEOREM RecordInvariant == RecordSpec => []RecordInv
<1>1. RecordInit => RecordInv
  BY RecordsAssumption DEF RecordInit, RecordInv, RecordTypeOK, LeavesFoundRow, Write
<1>2. RecordInv /\ [RecordNext]_recordVars => RecordInv'
  BY StepPreserves
<1> QED
  BY <1>1, <1>2, PTL DEF RecordSpec

\* The rows and the requests have their types.
THEOREM RecordsTypeCorrect == RecordSpec => []RecordTypeOK
<1>1. RecordInv => RecordTypeOK
  BY DEF RecordInv
<1> QED
  BY <1>1, RecordInvariant, PTL

\* No write of any number of requests replaces a row by another: what was read before a
\* delete does not bring the row back, and two inserts of a key do not overwrite.
THEOREM RowsKeptApart == RecordSpec => RowsKeepIdentity
<1>1. RecordInv /\ [RecordNext]_recordVars
        => [\A t \in Table :
              rows[t] # None /\ rows'[t] # None => rows'[t].id = rows[t].id]_recordVars
  BY StepPreserves DEF Kept
<1> QED
  BY <1>1, RecordInvariant, PTL DEF RecordSpec, RowsKeepIdentity

-----------------------------------------------------------------------------
(* Profile, reports and plans. *)

\* Counting.
LEMMA AtMost ==
    ASSUME NEW S, NEW T, IsFiniteSet(S), T \subseteq S
    PROVE  /\ IsFiniteSet(T) /\ Cardinality(T) \in Nat /\ Cardinality(S) \in Nat
           /\ Cardinality(T) <= Cardinality(S)
BY FS_Subset, FS_CardinalityType

\* A set that grew by one element at most.
LEMMA AtMostOneMore ==
    ASSUME NEW S, NEW x, NEW T, IsFiniteSet(S), T \subseteq S \cup {x}
    PROVE  /\ IsFiniteSet(T) /\ Cardinality(T) \in Nat /\ Cardinality(S) \in Nat
           /\ Cardinality(T) <= Cardinality(S) + 1
<1>1. IsFiniteSet(S \cup {x}) /\ Cardinality(S \cup {x}) \in {Cardinality(S), Cardinality(S) + 1}
  BY FS_AddElement
<1>2. Cardinality(S) \in Nat
  BY FS_CardinalityType
<1> QED BY <1>1, <1>2, AtMost

-----------------------------------------------------------------------------
\* What the proofs need of the types: sequences, and records of the right fields.
IsSeq(s) == \E S : s \in Seq(S)
IsPlan(p) == p = [status |-> p.status, items |-> p.items, analysed |-> p.analysed,
                  print |-> p.print]
IsReport(r) == r = [version |-> r.version, stale |-> r.stale, of |-> r.of, print |-> r.print]

StudyShape ==
    /\ IsSeq(profiles)
    /\ \A n \in DOMAIN plans : IsPlan(plans[n])
    /\ \A n \in DOMAIN reports : IsReport(reports[n])
    /\ flight = [h \in Handler |-> flight[h]]

\* The plans the adoptions in flight will archive, and the one an adoption will adopt.
Held == UNION {flight[g].holds : g \in {k \in Handler : flight[k] # None}}
Chosen(h) == IF flight[h].op = "adopt" THEN {flight[h].plan} ELSE {}

\* When an adoption in flight commits, the adopted plans that no adoption will archive are
\* as many as adoptions that overlapped, so its own makes one more at most: a plan adopted
\* since it read was adopted by one that overlapped it.
AdoptInv ==
    /\ IsFiniteSet(Adopted) /\ overlaps \in Nat
    /\ \A h \in Handler : flight[h] # None /\ ~Adopting(h) => flight[h].holds = {}
    /\ \A h \in Handler : flight[h] # None /\ flight[h].op = "adopt" => Adopting(h)
    /\ \A h \in Handler : Adopting(h) => Cardinality(Adopted \ (Held \cup Chosen(h))) <= overlaps
    /\ OneAdopted

StudyInv == StudyShape /\ FreshReports /\ AdoptInv

-----------------------------------------------------------------------------
\* A request starts.
LEMMA StartedAdopt ==
    ASSUME StudyInv, NEW h \in Handler, NEW loaded, NEW chosen, flight[h] = None,
           flight' = [flight EXCEPT ![h] = loaded], plans' = plans, overlaps' = overlaps,
           \/ loaded.holds = {} /\ ~(loaded.op = "save" /\ loaded.adopts) /\ loaded.op # "adopt"
           \/ loaded.holds = Archived(h, chosen) /\ loaded.op \in {"save", "adopt"}
                /\ loaded.adopts
                /\ chosen = IF loaded.op = "adopt" THEN {loaded.plan} ELSE {}
    PROVE  AdoptInv' /\ flight' = [g \in Handler |-> flight'[g]]
<1> USE DEF StudyInv, StudyShape, AdoptInv
<1>1. /\ flight'[h] = loaded
      /\ \A g \in Handler \ {h} : flight'[g] = flight[g]
      /\ flight' = [g \in Handler |-> flight'[g]]
  OBVIOUS
<1>2. Adopted' = Adopted
  BY DEF Adopted
<1>3. Held \subseteq Held'
  BY <1>1, Zenon DEF Held
<1>4. \A g \in Handler \ {h} : (Adopting(g)' <=> Adopting(g)) /\ Chosen(g)' = Chosen(g)
  BY <1>1, Zenon DEF Adopting, Chosen
<1>5. \A g \in Handler : flight'[g] # None /\ ~Adopting(g)' => flight'[g].holds = {}
  BY <1>1, <1>4, Zenon DEF Adopting
<1>8. \A g \in Handler : flight'[g] # None /\ flight'[g].op = "adopt" => Adopting(g)'
  BY <1>1, <1>4 DEF Adopting
<1>6. ASSUME NEW g \in Handler, Adopting(g)'
      PROVE  Cardinality((Adopted \ (Held \cup Chosen(g)))') <= overlaps
  <2>1. CASE g = h
    <3>1. loaded # None /\ loaded.holds = Archived(h, chosen) /\ chosen = Chosen(h)'
      BY <1>1, <1>6, <2>1 DEF Adopting, Chosen
    <3>2. loaded.holds \subseteq Held'
      BY <1>1, <3>1, Zenon DEF Held
    <3>3. Locked(h) \subseteq Held
      BY Zenon DEF Locked, Held
    <3>4. Adopted \ (Held' \cup Chosen(h)') = {}
      BY <1>3, <3>1, <3>2, <3>3, Zenon DEF Archived
    <3>5. (Adopted \ (Held \cup Chosen(g)))' = {}
      BY <1>2, <2>1, <3>4
    <3>6. Cardinality({}) = 0
      BY FS_EmptySet
    <3>7. overlaps >= 0
      OBVIOUS
    <3> QED BY <3>5, <3>6, <3>7
  <2>2. CASE g # h
    <3>1. (Adopted \ (Held \cup Chosen(g)))' \subseteq Adopted \ (Held \cup Chosen(g))
      BY <1>2, <1>3, <1>4, <2>2
    <3>2. Adopting(g)
      BY <1>4, <1>6, <2>2
    <3>3. IsFiniteSet(Adopted \ (Held \cup Chosen(g)))
      BY FS_Difference
    <3>4. Cardinality(Adopted \ (Held \cup Chosen(g))) <= overlaps
      BY <3>2
    <3>5. /\ Cardinality((Adopted \ (Held \cup Chosen(g)))') \in Nat
          /\ Cardinality(Adopted \ (Held \cup Chosen(g))) \in Nat
          /\ Cardinality((Adopted \ (Held \cup Chosen(g)))')
               <= Cardinality(Adopted \ (Held \cup Chosen(g)))
      BY <3>1, <3>3, AtMost
    <3> QED BY <3>4, <3>5
  <2> QED BY <2>1, <2>2
<1>7. OneAdopted'
  BY <1>2 DEF OneAdopted
<1> QED BY <1>1, <1>2, <1>5, <1>6, <1>7, <1>8

\* A request ends that adopts nothing.
LEMMA QuietEnd ==
    ASSUME StudyInv, NEW h \in Handler, flight[h] # None, ~Adopting(h),
           flight' = [flight EXCEPT ![h] = None], Adopted' \subseteq Adopted, overlaps' = overlaps
    PROVE  AdoptInv' /\ flight' = [g \in Handler |-> flight'[g]]
<1> USE DEF StudyInv, StudyShape, AdoptInv
<1>1. /\ flight'[h] = None
      /\ \A g \in Handler \ {h} : flight'[g] = flight[g]
      /\ flight' = [g \in Handler |-> flight'[g]]
  OBVIOUS
<1>2. flight[h].holds = {}
  OBVIOUS
<1>3. Held \subseteq Held'
  BY <1>1, <1>2, Zenon DEF Held
<1>4. \A g \in Handler \ {h} : (Adopting(g)' <=> Adopting(g)) /\ Chosen(g)' = Chosen(g)
  BY <1>1, Zenon DEF Adopting, Chosen
<1>5. ~Adopting(h)'
  BY <1>1 DEF Adopting
<1>6. ASSUME NEW g \in Handler, Adopting(g)'
      PROVE  Cardinality((Adopted \ (Held \cup Chosen(g)))') <= overlaps
  <2>1. g # h
    BY <1>5, <1>6
  <2>2. (Adopted \ (Held \cup Chosen(g)))' \subseteq Adopted \ (Held \cup Chosen(g))
    BY <1>3, <1>4, <2>1
  <2>3. Adopting(g)
    BY <1>4, <1>6, <2>1
  <2>4. IsFiniteSet(Adopted \ (Held \cup Chosen(g)))
    BY FS_Difference
  <2>5. Cardinality(Adopted \ (Held \cup Chosen(g))) <= overlaps
    BY <2>3
  <2> QED BY <2>2, <2>4, <2>5, AtMost
<1>7. OneAdopted' /\ IsFiniteSet(Adopted')
  BY AtMost DEF OneAdopted
<1>8. \A g \in Handler : /\ flight'[g] # None /\ ~Adopting(g)' => flight'[g].holds = {}
                         /\ flight'[g] # None /\ flight'[g].op = "adopt" => Adopting(g)'
  BY <1>1, <1>4
<1> QED BY <1>1, <1>6, <1>7, <1>8

\* An adoption ends: what it archived is the adopted plans that nothing else holds.
LEMMA AdoptionEnds ==
    ASSUME StudyInv, NEW h \in Handler, Adopting(h), CountOverlap(h), NEW new,
           flight' = [flight EXCEPT ![h] = None], Chosen(h) \subseteq {new},
           Adopted' \subseteq (Adopted \ flight[h].holds) \cup {new}
    PROVE  AdoptInv' /\ flight' = [g \in Handler |-> flight'[g]]
<1> USE DEF StudyInv, StudyShape, AdoptInv
<1>1. /\ flight'[h] = None
      /\ \A g \in Handler \ {h} : flight'[g] = flight[g]
      /\ flight' = [g \in Handler |-> flight'[g]]
  OBVIOUS
<1>2. Held \subseteq Held' \cup flight[h].holds
  BY <1>1, Zenon DEF Held
<1>3. \A g \in Handler \ {h} : (Adopting(g)' <=> Adopting(g)) /\ Chosen(g)' = Chosen(g)
  BY <1>1, Zenon DEF Adopting, Chosen
<1>4. ~Adopting(h)'
  BY <1>1 DEF Adopting
<1>5. \A g \in Handler : /\ flight'[g] # None /\ ~Adopting(g)' => flight'[g].holds = {}
                         /\ flight'[g] # None /\ flight'[g].op = "adopt" => Adopting(g)'
  BY <1>1, <1>3
<1>6. overlaps' \in Nat /\ overlaps' >= overlaps
      /\ ((\E g \in Handler \ {h} : Adopting(g)) => overlaps' = overlaps + 1)
  BY DEF CountOverlap
<1>7. ASSUME NEW g \in Handler, Adopting(g)'
      PROVE  Cardinality((Adopted \ (Held \cup Chosen(g)))') <= overlaps'
  <2>1. g # h
    BY <1>4, <1>7
  <2>2. (Adopted \ (Held \cup Chosen(g)))' \subseteq (Adopted \ (Held \cup Chosen(g))) \cup {new}
    BY <1>2, <1>3, <2>1
  <2>3. Adopting(g)
    BY <1>3, <1>7, <2>1
  <2>4. IsFiniteSet(Adopted \ (Held \cup Chosen(g)))
    BY FS_Difference
  <2>5. Cardinality(Adopted \ (Held \cup Chosen(g))) <= overlaps
    BY <2>3
  <2>6. overlaps' = overlaps + 1
    BY <1>6, <2>1, <2>3
  <2>7. Cardinality((Adopted \ (Held \cup Chosen(g)))')
          <= Cardinality(Adopted \ (Held \cup Chosen(g))) + 1
        /\ Cardinality((Adopted \ (Held \cup Chosen(g)))') \in Nat
        /\ Cardinality(Adopted \ (Held \cup Chosen(g))) \in Nat
    BY <2>2, <2>4, AtMostOneMore
  <2> QED BY <2>5, <2>6, <2>7
<1>8. OneAdopted' /\ IsFiniteSet(Adopted')
  <2>1. CASE \E g \in Handler \ {h} : Adopting(g)
    <3>1. Adopted' \subseteq Adopted \cup {new}
      OBVIOUS
    <3>2. overlaps' = overlaps + 1
      BY <1>6, <2>1
    <3>3. /\ IsFiniteSet(Adopted') /\ Cardinality(Adopted') \in Nat
          /\ Cardinality(Adopted) \in Nat /\ Cardinality(Adopted') <= Cardinality(Adopted) + 1
      BY <3>1, AtMostOneMore
    <3> QED BY <3>2, <3>3 DEF OneAdopted
  <2>2. CASE \A g \in Handler \ {h} : ~Adopting(g)
    <3> DEFINE rest == Adopted \ (Held \cup Chosen(h))
    <3>1. Held \subseteq flight[h].holds
      BY <2>2, Zenon DEF Held
    <3>2. Adopted' \subseteq rest \cup {new}
      BY <3>1
    <3>3. IsFiniteSet(rest)
      BY FS_Difference
    <3>4. Cardinality(rest) <= overlaps
      OBVIOUS
    <3> HIDE DEF rest
    <3>5. /\ IsFiniteSet(Adopted') /\ Cardinality(Adopted') \in Nat
          /\ Cardinality(rest) \in Nat /\ Cardinality(Adopted') <= Cardinality(rest) + 1
      BY <3>2, <3>3, AtMostOneMore
    <3> QED BY <1>6, <3>4, <3>5 DEF OneAdopted
  <2> QED BY <2>1, <2>2
<1> QED BY <1>1, <1>5, <1>6, <1>7, <1>8

-----------------------------------------------------------------------------
\* What a step leaves of the imported rows of one fingerprint.
PrintsKept ==
    \A print : print # None =>
        /\ Copies(plans', print) \subseteq Copies(plans, print)
        /\ Copies(reports', print) \subseteq Copies(reports, print)

\* Every request that starts reads and locks, and changes no row (the reads of profile.py
\* and planning.py).
LEMMA Starts ==
    ASSUME StudyInv, NEW h \in Handler,
           \/ StartSaveProfile(h)
           \/ \E given \in BOOLEAN : StartRecommend(h, given)
           \/ \E adopt \in BOOLEAN : StartSavePlan(h, adopt)
           \/ \E n \in DOMAIN plans : StartAdopt(h, n)
           \/ \E n \in DOMAIN plans, change \in {"edit", "recalculate", "preview"} :
                 StartChangePlan(h, n, change)
    PROVE  StudyInv' /\ PrintsKept
<1>1. /\ profiles' = profiles /\ reports' = reports /\ plans' = plans
      /\ overlooked' = overlooked /\ overlaps' = overlaps
  BY DEF StartSaveProfile, StartRecommend, StartSavePlan, StartAdopt, StartChangePlan, history
<1>2. AdoptInv' /\ flight' = [g \in Handler |-> flight'[g]]
  <2>1. CASE StartSaveProfile(h)
    <3> DEFINE loaded == [op |-> "profile", row |-> Current, number |-> requests + 1,
                          holds |-> {}]
    <3>1. flight[h] = None /\ flight' = [flight EXCEPT ![h] = loaded]
      BY <2>1 DEF StartSaveProfile, Start
    <3>2. loaded.holds = {} /\ loaded.op \notin {"save", "adopt"}
      OBVIOUS
    <3> HIDE DEF loaded
    <3> QED BY <1>1, <3>1, <3>2, StartedAdopt
  <2>2. ASSUME NEW given \in BOOLEAN, StartRecommend(h, given)
        PROVE  AdoptInv' /\ flight' = [g \in Handler |-> flight'[g]]
    <3> DEFINE row == IF given THEN [id |-> 0, version |-> 0, content |-> 0] ELSE Current
               loaded == [op |-> "recommend", number |-> requests + 1, holds |-> {}, row |-> row]
    <3>1. flight[h] = None /\ flight' = [flight EXCEPT ![h] = loaded]
      BY <2>2, Zenon DEF StartRecommend, Start
    <3> HIDE DEF row
    <3>2. loaded.holds = {} /\ loaded.op \notin {"save", "adopt"}
      OBVIOUS
    <3> HIDE DEF loaded
    <3> QED BY <1>1, <3>1, <3>2, StartedAdopt
  <2>3. CASE StartSavePlan(h, FALSE)
    <3> DEFINE loaded == [op |-> "save", number |-> requests + 1, adopts |-> FALSE,
                          holds |-> IF FALSE THEN Archived(h, {}) ELSE {}]
    <3>1. flight[h] = None /\ flight' = [flight EXCEPT ![h] = loaded]
      BY <2>3, Zenon DEF StartSavePlan, Start
    <3>2. loaded.holds = {} /\ ~loaded.adopts /\ loaded.op = "save"
      OBVIOUS
    <3> HIDE DEF loaded
    <3> QED BY <1>1, <3>1, <3>2, StartedAdopt
  <2>4. CASE StartSavePlan(h, TRUE)
    <3> DEFINE loaded == [op |-> "save", number |-> requests + 1, adopts |-> TRUE,
                          holds |-> IF TRUE THEN Archived(h, {}) ELSE {}]
    <3>1. flight[h] = None /\ flight' = [flight EXCEPT ![h] = loaded]
      BY <2>4, Zenon DEF StartSavePlan, Start
    <3>2. loaded.holds = Archived(h, {}) /\ loaded.adopts /\ loaded.op = "save"
      OBVIOUS
    <3> HIDE DEF loaded
    <3> QED BY <1>1, <3>1, <3>2, StartedAdopt
  <2>5. ASSUME NEW n \in DOMAIN plans, StartAdopt(h, n)
        PROVE  AdoptInv' /\ flight' = [g \in Handler |-> flight'[g]]
    <3> DEFINE loaded == [op |-> "adopt", plan |-> n, status |-> plans[n].status,
                          adopts |-> TRUE, holds |-> Archived(h, {n})]
    <3>1. flight[h] = None /\ flight' = [flight EXCEPT ![h] = loaded]
      BY <2>5, Zenon DEF StartAdopt, Start
    <3>2. loaded.holds = Archived(h, {n}) /\ loaded.adopts /\ loaded.op = "adopt"
          /\ loaded.plan = n
      OBVIOUS
    <3> HIDE DEF loaded
    <3> QED BY <1>1, <3>1, <3>2, StartedAdopt
  <2>6. ASSUME NEW n \in DOMAIN plans, NEW change \in {"edit", "recalculate", "preview"},
               StartChangePlan(h, n, change)
        PROVE  AdoptInv' /\ flight' = [g \in Handler |-> flight'[g]]
    <3> DEFINE loaded == [op |-> change, plan |-> n, row |-> plans[n], number |-> requests + 1,
                          holds |-> {}]
    <3>1. flight[h] = None /\ flight' = [flight EXCEPT ![h] = loaded]
      BY <2>6, Zenon DEF StartChangePlan, Start
    <3>2. loaded.holds = {} /\ loaded.op \notin {"save", "adopt"}
      OBVIOUS
    <3> HIDE DEF loaded
    <3> QED BY <1>1, <3>1, <3>2, StartedAdopt
  <2> QED BY <2>1, <2>2, <2>3, <2>4, <2>5, <2>6
<1>3. StudyShape'
  BY <1>1, <1>2 DEF StudyInv, StudyShape, IsSeq, IsPlan, IsReport
<1>4. FreshReports'
  BY <1>1 DEF StudyInv, FreshReports, Fresh, Current
<1>5. PrintsKept
  BY <1>1 DEF PrintsKept
<1> QED BY <1>2, <1>3, <1>4, <1>5 DEF StudyInv

-----------------------------------------------------------------------------
\* A request ends.
LEMMA ProfileSaved == ASSUME StudyInv, NEW h \in Handler, FinishSaveProfile(h)
                      PROVE  StudyInv' /\ PrintsKept
<1> USE DEF StudyInv, StudyShape
<1> DEFINE old == flight[h].row
           number == flight[h].number
           new == [id |-> number, version |-> 1, content |-> number]
           found == \E i \in DOMAIN profiles : profiles[i].id = old.id
           marked == [n \in DOMAIN reports |-> [reports[n] EXCEPT !.stale = TRUE]]
<1>1. /\ plans' = plans /\ overlaps' = overlaps /\ flight' = [flight EXCEPT ![h] = None]
      /\ flight[h] # None /\ flight[h].op = "profile"
  BY DEF FinishSaveProfile, Doing, Finish
<1>2. \/ /\ profiles' = Append(profiles, new) /\ overlooked' = overlooked \cup Fresh
         /\ reports' = reports
      \/ /\ found /\ profiles' = Written(old, number) /\ reports' = marked
         /\ overlooked' = overlooked
      \/ profiles' = profiles /\ reports' = reports /\ overlooked' = overlooked
  BY DEF FinishSaveProfile, MarkStale
<1>3. AdoptInv' /\ flight' = [g \in Handler |-> flight'[g]]
  <2>1. ~Adopting(h)
    BY <1>1 DEF Adopting
  <2>2. Adopted' \subseteq Adopted
    BY <1>1 DEF Adopted
  <2> QED BY <1>1, <2>1, <2>2, QuietEnd
<1>4. IsSeq(profiles')
  <2>1. PICK S : profiles \in Seq(S)
    BY DEF IsSeq
  <2>2. CASE profiles' = Append(profiles, new)
    <3> HIDE DEF new
    <3>1. profiles \in Seq(S \cup {new})
      BY <2>1
    <3>2. profiles' \in Seq(S \cup {new})
      BY <2>2, <3>1
    <3> QED BY <3>2 DEF IsSeq
  <2>3. CASE found /\ profiles' = Written(old, number)
    <3> DEFINE at == CHOOSE i \in DOMAIN profiles : profiles[i].id = old.id
               row == [id |-> old.id, version |-> old.version + 1, content |-> number]
    <3>1. profiles' = Append(RemoveAt(profiles, at), row)
      BY <2>3 DEF Written
    <3>2. at \in DOMAIN profiles
      BY <2>3
    <3> HIDE DEF at, row
    <3>3. at \in 1..Len(profiles)
      BY <2>1, <3>2
    <3>4. RemoveAt(profiles, at) \in Seq(S)
      <4>1. SubSeq(profiles, 1, at - 1) \in Seq(S)
        BY <2>1, <3>3
      <4>2. SubSeq(profiles, at + 1, Len(profiles)) \in Seq(S)
        BY <2>1, <3>3
      <4> QED BY <4>1, <4>2 DEF RemoveAt
    <3>5. RemoveAt(profiles, at) \in Seq(S \cup {row})
      BY <3>4
    <3>6. profiles' \in Seq(S \cup {row})
      BY <3>1, <3>5
    <3> QED BY <3>6 DEF IsSeq
  <2>4. CASE profiles' = profiles
    BY <2>4 DEF IsSeq
  <2> QED BY <1>2, <2>2, <2>3, <2>4
<1>5. /\ \A n \in DOMAIN reports' : IsReport(reports'[n])
      /\ DOMAIN reports' = DOMAIN reports
      /\ \A n \in DOMAIN reports : reports'[n].print = reports[n].print
  <2>1. CASE reports' = reports
    BY <2>1
  <2>2. CASE reports' = marked
    <3>1. ASSUME NEW n \in DOMAIN reports
          PROVE  IsReport(reports'[n]) /\ reports'[n].print = reports[n].print
      <4>1. reports'[n] = [reports[n] EXCEPT !.stale = TRUE]
        BY <2>2
      <4> QED BY <4>1 DEF IsReport
    <3>2. DOMAIN reports' = DOMAIN reports
      BY <2>2
    <3> QED BY <3>1, <3>2
  <2> QED BY <1>2, <2>1, <2>2
<1>6. FreshReports'
  <2>1. CASE /\ overlooked' = overlooked \cup Fresh /\ reports' = reports
    <3>1. Fresh' \ overlooked' = {}
      BY <2>1 DEF Fresh
    <3> QED BY <3>1 DEF FreshReports
  <2>2. CASE reports' = marked
    <3>1. \A n \in DOMAIN reports : marked[n].stale
      BY DEF IsReport
    <3>2. Fresh' = {}
      BY <2>2, <3>1 DEF Fresh
    <3> QED BY <3>2 DEF FreshReports
  <2>3. CASE profiles' = profiles /\ reports' = reports /\ overlooked' = overlooked
    BY <2>3 DEF FreshReports, Fresh, Current
  <2> QED BY <1>2, <2>1, <2>2, <2>3
<1>7. PrintsKept
  BY <1>1, <1>5 DEF PrintsKept, Copies
<1> QED BY <1>1, <1>3, <1>4, <1>5, <1>6, <1>7

\* The profile is deleted: every report still unmarked is overlooked (delete_profile).
LEMMA ProfileDeleted == ASSUME StudyInv, DeleteProfile PROVE StudyInv' /\ PrintsKept
<1> USE DEF StudyInv, StudyShape
<1>1. /\ profiles # <<>> /\ profiles' = Front(profiles) /\ overlooked' = overlooked \cup Fresh
      /\ reports' = reports /\ plans' = plans /\ flight' = flight /\ overlaps' = overlaps
  BY DEF DeleteProfile
<1>2. IsSeq(profiles')
  <2>1. PICK S : profiles \in Seq(S)
    BY DEF IsSeq
  <2>2. profiles' \in Seq(S)
    BY <1>1, <2>1 DEF Front
  <2> QED BY <2>2 DEF IsSeq
<1>3. Fresh' \ overlooked' = {}
  BY <1>1 DEF Fresh
<1>4. FreshReports'
  BY <1>3 DEF FreshReports
<1>5. AdoptInv'
  BY <1>1 DEF AdoptInv, Adopted, Adopting, Held, Chosen, OneAdopted
<1>6. PrintsKept
  BY <1>1 DEF PrintsKept
<1> QED BY <1>1, <1>2, <1>4, <1>5, <1>6

\* A report comes in fresh; it is overlooked at once if the profile is another by now
\* (recommend_route).
LEMMA Recommended == ASSUME StudyInv, NEW h \in Handler, FinishRecommend(h)
                     PROVE  StudyInv' /\ PrintsKept
<1> USE DEF StudyInv, StudyShape
<1> DEFINE read == flight[h].row
           id == Own(flight[h].number)
           new == [version |-> read.version, stale |-> FALSE, of |-> read.content,
                   print |-> None]
<1>1. /\ reports' = [n \in DOMAIN reports \cup {id} |-> IF n # id THEN reports[n] ELSE new]
      /\ overlooked' = IF Current = None \/ Current.content # read.content
                       THEN overlooked \cup {id} ELSE overlooked
      /\ plans' = plans /\ overlaps' = overlaps /\ flight' = [flight EXCEPT ![h] = None]
      /\ flight[h] # None /\ flight[h].op = "recommend" /\ profiles' = profiles
  BY DEF FinishRecommend, Doing, Finish
<1>2. AdoptInv' /\ flight' = [g \in Handler |-> flight'[g]]
  <2>1. ~Adopting(h)
    BY <1>1 DEF Adopting
  <2>2. Adopted' \subseteq Adopted
    BY <1>1 DEF Adopted
  <2> QED BY <1>1, <2>1, <2>2, QuietEnd
<1>3. /\ IsReport(new) /\ new.print = None /\ new.of = read.content
  BY DEF IsReport
<1> HIDE DEF new
<1>4. /\ DOMAIN reports' = DOMAIN reports \cup {id} /\ reports'[id] = new
      /\ \A n \in DOMAIN reports' \ {id} : reports'[n] = reports[n]
  BY <1>1
<1> HIDE DEF id
<1>5. \A n \in DOMAIN reports' : IsReport(reports'[n])
  BY <1>3, <1>4
<1>6. FreshReports'
  <2> SUFFICES ASSUME NEW n \in Fresh' \ overlooked', reports'[n].of # 0
               PROVE  Current # None /\ reports'[n].of = Current.content
    BY <1>1 DEF FreshReports, Current
  <2>1. CASE n = id
    <3>1. id \notin overlooked'
      BY <2>1
    <3>2. ~(Current = None \/ Current.content # read.content)
      BY <1>1, <3>1
    <3> QED BY <1>3, <1>4, <2>1, <3>2
  <2>2. CASE n # id
    <3>1. n \in Fresh /\ n \notin overlooked /\ reports'[n] = reports[n]
      BY <1>1, <1>4, <2>2 DEF Fresh
    <3> QED BY <3>1 DEF FreshReports
  <2> QED BY <2>1, <2>2
<1>7. PrintsKept
  BY <1>1, <1>3, <1>4 DEF PrintsKept, Copies
<1>8. IsSeq(profiles') /\ \A n \in DOMAIN plans' : IsPlan(plans'[n])
  BY <1>1
<1> QED BY <1>2, <1>5, <1>6, <1>7, <1>8

\* The plans as an adoption leaves them before it writes its own.
LEMMA Archiving ==
    ASSUME StudyInv, NEW h \in Handler
    PROVE  /\ DOMAIN AfterArchiving(h) = DOMAIN plans
           /\ \A n \in DOMAIN plans :
                 /\ IsPlan(AfterArchiving(h)[n])
                 /\ AfterArchiving(h)[n].print = plans[n].print
                 /\ AfterArchiving(h)[n].status = "adopted" =>
                       plans[n].status = "adopted" /\ n \notin flight[h].holds
<1> USE DEF StudyInv, StudyShape
<1>1. ASSUME NEW n \in DOMAIN plans, n \in flight[h].holds
      PROVE  /\ IsPlan(AfterArchiving(h)[n])
             /\ AfterArchiving(h)[n].print = plans[n].print
             /\ AfterArchiving(h)[n].status = "archived"
  <2>1. AfterArchiving(h)[n] = [plans[n] EXCEPT !.status = "archived"]
    BY <1>1 DEF AfterArchiving
  <2> QED BY <2>1 DEF IsPlan
<1>2. ASSUME NEW n \in DOMAIN plans, n \notin flight[h].holds
      PROVE  AfterArchiving(h)[n] = plans[n]
  BY <1>2 DEF AfterArchiving
<1>3. DOMAIN AfterArchiving(h) = DOMAIN plans
  BY DEF AfterArchiving
<1> QED BY <1>1, <1>2, <1>3

\* A plan is saved, adopted or not (save_course_plan).
LEMMA PlanSaved == ASSUME StudyInv, NEW h \in Handler, FinishSavePlan(h)
                   PROVE  StudyInv' /\ PrintsKept
<1> USE DEF StudyInv, StudyShape
<1> DEFINE id == Own(flight[h].number)
           status == IF flight[h].adopts THEN "adopted" ELSE "draft"
           new == [status |-> status, items |-> flight[h].number, analysed |-> FALSE,
                   print |-> None]
           left == AfterArchiving(h)
<1>1. /\ plans' = [n \in DOMAIN plans \cup {id} |-> IF n # id THEN left[n] ELSE new]
      /\ CountOverlap(h) /\ flight' = [flight EXCEPT ![h] = None]
      /\ flight[h] # None /\ flight[h].op = "save"
      /\ profiles' = profiles /\ reports' = reports /\ overlooked' = overlooked
  BY Zenon DEF FinishSavePlan, Doing, Finish
<1>2. /\ DOMAIN left = DOMAIN plans
      /\ \A n \in DOMAIN plans :
            /\ IsPlan(left[n]) /\ left[n].print = plans[n].print
            /\ left[n].status = "adopted"
                 => plans[n].status = "adopted" /\ n \notin flight[h].holds
  BY Archiving
<1> HIDE DEF left, status
<1>3. IsPlan(new) /\ new.print = None /\ new.status = status
  BY DEF IsPlan
<1> HIDE DEF new, id
<1>4. /\ DOMAIN plans' = DOMAIN plans \cup {id} /\ plans'[id] = new
      /\ \A n \in DOMAIN plans' \ {id} : n \in DOMAIN plans /\ plans'[n] = left[n]
  BY <1>1
<1>5. \A n \in DOMAIN plans' : IsPlan(plans'[n])
  BY <1>2, <1>3, <1>4
<1>6. AdoptInv' /\ flight' = [g \in Handler |-> flight'[g]]
  <2>1. CASE Adopting(h)
    <3>1. Chosen(h) \subseteq {id}
      BY <1>1 DEF Chosen
    <3>2. Adopted' \subseteq (Adopted \ flight[h].holds) \cup {id}
      BY <1>2, <1>4 DEF Adopted
    <3> QED BY <1>1, <2>1, <3>1, <3>2, AdoptionEnds
  <2>2. CASE ~Adopting(h)
    <3>1. ~flight[h].adopts
      BY <1>1, <2>2 DEF Adopting
    <3>2. status = "draft"
      BY <3>1 DEF status
    <3>3. Adopted' \subseteq Adopted
      BY <1>2, <1>3, <1>4, <3>2 DEF Adopted
    <3>4. overlaps' = overlaps
      BY <1>1, <2>2 DEF CountOverlap
    <3> QED BY <1>1, <2>2, <3>3, <3>4, QuietEnd
  <2> QED BY <2>1, <2>2
<1>7. FreshReports'
  BY <1>1 DEF FreshReports, Fresh, Current
<1>8. PrintsKept
  BY <1>1, <1>2, <1>3, <1>4 DEF PrintsKept, Copies
<1>9. IsSeq(profiles') /\ \A n \in DOMAIN reports' : IsReport(reports'[n])
  BY <1>1
<1> QED BY <1>5, <1>6, <1>7, <1>8, <1>9

\* A saved plan is adopted (adopt_saved_plan).
LEMMA PlanAdopted == ASSUME StudyInv, NEW h \in Handler, FinishAdopt(h)
                     PROVE  StudyInv' /\ PrintsKept
<1> USE DEF StudyInv, StudyShape
<1> DEFINE n == flight[h].plan
           left == AfterArchiving(h)
           now == [left[n] EXCEPT !.status = "adopted"]
<1>1. /\ plans' = IF flight[h].status = "adopted" THEN left
                  ELSE [left EXCEPT ![n].status = "adopted"]
      /\ CountOverlap(h) /\ flight' = [flight EXCEPT ![h] = None]
      /\ flight[h] # None /\ flight[h].op = "adopt"
      /\ profiles' = profiles /\ reports' = reports /\ overlooked' = overlooked
  BY DEF FinishAdopt, Doing, Finish
<1>2. /\ DOMAIN left = DOMAIN plans
      /\ \A m \in DOMAIN plans :
            /\ IsPlan(left[m]) /\ left[m].print = plans[m].print
            /\ left[m].status = "adopted"
                 => plans[m].status = "adopted" /\ m \notin flight[h].holds
  BY Archiving
<1> HIDE DEF left
<1>3. /\ DOMAIN plans' = DOMAIN plans
      /\ \A m \in DOMAIN plans : /\ IsPlan(plans'[m]) /\ plans'[m].print = plans[m].print
                                 /\ m # n => plans'[m] = left[m]
  <2>1. CASE plans' = left
    BY <1>2, <2>1
  <2>2. CASE plans' = [left EXCEPT ![n] = now]
    <3>1. n \in DOMAIN plans => IsPlan(now) /\ now.print = plans[n].print
      BY <1>2 DEF IsPlan
    <3> HIDE DEF now
    <3> QED BY <1>2, <2>2, <3>1
  <2> QED BY <1>1, <2>1, <2>2
<1>4. AdoptInv' /\ flight' = [g \in Handler |-> flight'[g]]
  <2>1. CASE Adopting(h)
    <3>1. Chosen(h) \subseteq {n}
      BY DEF Chosen
    <3>2. Adopted' \subseteq (Adopted \ flight[h].holds) \cup {n}
      BY <1>2, <1>3 DEF Adopted
    <3> QED BY <1>1, <2>1, <3>1, <3>2, AdoptionEnds
  <2>2. CASE ~Adopting(h)
    <3>1. FALSE
      BY <1>1, <2>2 DEF AdoptInv
    <3> QED BY <3>1
  <2> QED BY <2>1, <2>2
<1>5. FreshReports'
  BY <1>1 DEF FreshReports, Fresh, Current
<1>6. PrintsKept
  BY <1>1, <1>3 DEF PrintsKept, Copies
<1>7. IsSeq(profiles') /\ \A m \in DOMAIN reports' : IsReport(reports'[m])
  BY <1>1
<1> QED BY <1>3, <1>4, <1>5, <1>6, <1>7

\* A plan is edited, recalculated or previewed: none of them adopts it (update_saved_plan,
\* recalculate_saved_plan, preview_saved_plan_schedule).
LEMMA PlanChanged == ASSUME StudyInv, NEW h \in Handler, FinishChangePlan(h)
                     PROVE  StudyInv' /\ PrintsKept
<1> USE DEF StudyInv, StudyShape
<1> DEFINE n == flight[h].plan
           now == Changed(h, plans[n])
<1>1. /\ plans' = [plans EXCEPT ![n] = now] /\ flight' = [flight EXCEPT ![h] = None]
      /\ flight[h] # None /\ flight[h].op \in {"edit", "recalculate", "preview"}
      /\ profiles' = profiles /\ reports' = reports /\ overlooked' = overlooked
      /\ overlaps' = overlaps
  BY DEF FinishChangePlan, Finish, history
<1>2. n \in DOMAIN plans =>
         /\ IsPlan(now) /\ now.print = plans[n].print
         /\ now.status = "adopted" => plans[n].status = "adopted"
  <2> SUFFICES ASSUME n \in DOMAIN plans
               PROVE  /\ IsPlan(now) /\ now.print = plans[n].print
                      /\ now.status = "adopted" => plans[n].status = "adopted"
    OBVIOUS
  <2>1. IsPlan(plans[n])
    OBVIOUS
  <2>2. CASE flight[h].op = "edit"
    <3> DEFINE status == IF flight[h].row.status = "adopted" THEN "draft" ELSE plans[n].status
    <3>1. now = [plans[n] EXCEPT !.items = flight[h].number, !.status = status]
      BY <2>1, <2>2 DEF Changed, IsPlan
    <3>2. status = "adopted" => plans[n].status = "adopted"
      OBVIOUS
    <3> HIDE DEF status
    <3> QED BY <2>1, <3>1, <3>2 DEF IsPlan
  <2>3. CASE flight[h].op = "recalculate"
    <3> DEFINE analysed == IF flight[h].row.analysed THEN FALSE ELSE plans[n].analysed
    <3>1. now = [plans[n] EXCEPT !.items = flight[h].number, !.analysed = analysed]
      BY <2>1, <2>3 DEF Changed, IsPlan
    <3> HIDE DEF analysed
    <3> QED BY <2>1, <3>1 DEF IsPlan
  <2>4. CASE flight[h].op = "preview"
    <3>1. now = [plans[n] EXCEPT !.analysed = TRUE]
      BY <2>4 DEF Changed
    <3> QED BY <2>1, <3>1 DEF IsPlan
  <2> QED BY <1>1, <2>2, <2>3, <2>4
<1> HIDE DEF now, n
<1>3. /\ DOMAIN plans' = DOMAIN plans
      /\ \A m \in DOMAIN plans : /\ IsPlan(plans'[m]) /\ plans'[m].print = plans[m].print
                                 /\ plans'[m].status = "adopted" => plans[m].status = "adopted"
  BY <1>1, <1>2
<1>4. AdoptInv' /\ flight' = [g \in Handler |-> flight'[g]]
  <2>1. ~Adopting(h)
    BY <1>1 DEF Adopting
  <2>2. Adopted' \subseteq Adopted
    BY <1>3 DEF Adopted
  <2> QED BY <1>1, <2>1, <2>2, QuietEnd
<1>5. FreshReports'
  BY <1>1 DEF FreshReports, Fresh, Current
<1>6. PrintsKept
  BY <1>1, <1>3 DEF PrintsKept, Copies
<1>7. IsSeq(profiles') /\ \A m \in DOMAIN reports' : IsReport(reports'[m])
  BY <1>1
<1> QED BY <1>3, <1>4, <1>5, <1>6, <1>7

\* Every step keeps the invariant and copies no imported row.
LEMMA StudyStep == ASSUME StudyInv, [StudyNext]_studyVars PROVE StudyInv' /\ PrintsKept
<1>1. CASE UNCHANGED studyVars
  <2>1. /\ profiles' = profiles /\ reports' = reports /\ plans' = plans /\ flight' = flight
        /\ overlooked' = overlooked /\ overlaps' = overlaps
    BY <1>1 DEF studyVars
  <2>2. StudyShape' /\ FreshReports'
    BY <2>1 DEF StudyInv, StudyShape, FreshReports, Fresh, Current, IsSeq, IsPlan, IsReport
  <2>3. AdoptInv'
    BY <2>1 DEF StudyInv, AdoptInv, Adopted, Adopting, Held, Chosen, OneAdopted
  <2> QED BY <2>1, <2>2, <2>3 DEF StudyInv, PrintsKept
<1>2. CASE DeleteProfile
  BY <1>2, ProfileDeleted
<1>3. ASSUME NEW h \in Handler,
             FinishSaveProfile(h) \/ FinishRecommend(h) \/ FinishSavePlan(h)
               \/ FinishAdopt(h) \/ FinishChangePlan(h)
      PROVE  StudyInv' /\ PrintsKept
  BY <1>3, ProfileSaved, Recommended, PlanSaved, PlanAdopted, PlanChanged
<1> QED BY <1>1, <1>2, <1>3, Starts DEF StudyNext

\* The account starts empty.
LEMMA StudyStart == StudyInit => StudyInv
<1> SUFFICES ASSUME StudyInit PROVE StudyInv
  OBVIOUS
<1>1. /\ profiles = <<>> /\ reports = <<>> /\ plans = <<>> /\ overlaps = 0
      /\ flight = [h \in Handler |-> None]
  BY DEF StudyInit
<1>2. Adopted = {} /\ Fresh = {}
  BY <1>1 DEF Adopted, Fresh
<1>3. IsFiniteSet({}) /\ Cardinality({}) = 0
  BY FS_EmptySet
<1>4. \A h \in Handler : flight[h] = None
  BY <1>1
<1>5. AdoptInv
  BY <1>1, <1>2, <1>3, <1>4 DEF AdoptInv, Adopting, OneAdopted
<1>6. IsSeq(profiles)
  BY <1>1 DEF IsSeq
<1>7. StudyShape
  BY <1>1, <1>6 DEF StudyShape
<1> QED BY <1>2, <1>5, <1>7 DEF StudyInv, FreshReports

\* The inductive invariant holds of every behaviour of the profile, report and plan handlers.
THEOREM StudyInvariant == StudySpec => []StudyInv
<1>1. StudyInv /\ [StudyNext]_studyVars => StudyInv'
  BY StudyStep
<1> QED BY <1>1, StudyStart, PTL DEF StudySpec

\* A report not marked stale tells of the profile as it is, and one plan is adopted but for
\* adoptions that overlap, whatever handlers are in flight (profile.py, planning.py).
THEOREM StudySafe == StudySpec => [](FreshReports /\ OneAdopted)
<1>1. StudyInv => FreshReports /\ OneAdopted
  BY DEF StudyInv, AdoptInv
<1> QED BY <1>1, StudyInvariant, PTL

-----------------------------------------------------------------------------
(* Synchronisation. *)

\* The two tables rows are imported to by fingerprint, and the fingerprints an import has read.
Listed == {"learning_plans", "recommendation_reports"}
RowsOf(s) == IF s = "learning_plans" THEN plans ELSE reports
KnownTo(i, s) == IF s = "learning_plans" THEN i.planPrints ELSE i.reportPrints

\* An import still under way that has not seen a fingerprint was passed by no import of it,
\* unless both were in flight together.
OnceInv ==
    /\ crossings \in Nat
    /\ \A s \in Listed : \A p : p # None =>
        /\ IsFiniteSet(Copies(RowsOf(s), p))
        /\ Cardinality(Copies(RowsOf(s), p)) <= 1 + crossings
        /\ \A d \in Device :
              importing[d] # None /\ s \in importing[d].scopes /\ p \notin KnownTo(importing[d], s)
                => Cardinality(Copies(RowsOf(s), p)) <= crossings

\* An import in flight has a number, which its rows will carry.
ImportShape ==
    /\ importing = [d \in Device |-> importing[d]]
    /\ requests \in Nat
    /\ \A d \in Device : importing[d] # None => importing[d].number \in Nat

SyncInv == StudyInv /\ RecordInv /\ ImportShape /\ OnceInv

\* A step that adds no imported row and starts or ends no import.
LEMMA OnceKept ==
    ASSUME OnceInv, PrintsKept, importing' = importing, crossings' = crossings
    PROVE  OnceInv'
<1> SUFFICES ASSUME NEW s \in Listed, NEW p, p # None
             PROVE  /\ IsFiniteSet(Copies(RowsOf(s)', p))
                    /\ Cardinality(Copies(RowsOf(s)', p)) <= 1 + crossings
                    /\ \A d \in Device :
                          importing[d] # None /\ s \in importing[d].scopes
                             /\ p \notin KnownTo(importing[d], s)
                          => Cardinality(Copies(RowsOf(s)', p)) <= crossings
  BY DEF OnceInv, Copies, KnownTo
<1>1. Copies(RowsOf(s)', p) \subseteq Copies(RowsOf(s), p)
  BY DEF PrintsKept, RowsOf
<1>2. /\ IsFiniteSet(Copies(RowsOf(s)', p))
      /\ Cardinality(Copies(RowsOf(s)', p)) \in Nat /\ Cardinality(Copies(RowsOf(s), p)) \in Nat
      /\ Cardinality(Copies(RowsOf(s)', p)) <= Cardinality(Copies(RowsOf(s), p))
  BY <1>1, AtMost DEF OnceInv
<1> QED BY <1>2 DEF OnceInv

-----------------------------------------------------------------------------
\* An import starts: the fingerprints it does not know are those no row carries.
LEMMA ImportStarts ==
    ASSUME SyncInv, NEW d \in Device, NEW rid, NEW scopes, NEW strategy, NEW snap,
           StartImport(d, rid, scopes, strategy, snap)
    PROVE  SyncInv'
<1> USE DEF SyncInv
<1> DEFINE i == [rid |-> rid, scopes |-> scopes, strategy |-> strategy, snap |-> snap,
                 number |-> requests + 1, checkpoints |-> checkpoints, profile |-> Current,
                 planPrints |-> {plans[n].print : n \in DOMAIN plans},
                 reportPrints |-> {reports[n].print : n \in DOMAIN reports}, rows |-> rows]
<1>1. /\ profiles' = profiles /\ reports' = reports /\ plans' = plans /\ flight' = flight
      /\ overlooked' = overlooked /\ overlaps' = overlaps /\ crossings' = crossings
      /\ rows' = rows /\ pending' = pending /\ writes' = writes /\ requests' = requests + 1
      /\ importing' = [importing EXCEPT ![d] = i]
  BY DEF StartImport, history, recordVars
<1>2. /\ i.number = requests + 1
      /\ i.planPrints = {plans[n].print : n \in DOMAIN plans}
      /\ i.reportPrints = {reports[n].print : n \in DOMAIN reports}
  OBVIOUS
<1> HIDE DEF i
<1>3. /\ importing'[d] = i
      /\ \A e \in Device \ {d} : importing'[e] = importing[e]
      /\ importing' = [e \in Device |-> importing'[e]]
  BY <1>1 DEF ImportShape
<1>4. ImportShape'
  BY <1>1, <1>2, <1>3 DEF ImportShape
<1>5. StudyInv'
  <2>1. StudyShape' /\ FreshReports'
    BY <1>1 DEF StudyInv, StudyShape, FreshReports, Fresh, Current, IsSeq, IsPlan, IsReport
  <2>2. AdoptInv'
    BY <1>1 DEF StudyInv, AdoptInv, Adopted, Adopting, Held, Chosen, OneAdopted
  <2> QED BY <2>1, <2>2 DEF StudyInv
<1>6. RecordInv'
  BY <1>1 DEF RecordInv, RecordTypeOK, LeavesFoundRow
<1>7. OnceInv'
  <2> SUFFICES ASSUME NEW s \in Listed, NEW p, p # None
               PROVE  /\ IsFiniteSet(Copies(RowsOf(s), p))
                      /\ Cardinality(Copies(RowsOf(s), p)) <= 1 + crossings
                      /\ \A e \in Device :
                            importing'[e] # None /\ s \in importing'[e].scopes
                               /\ p \notin KnownTo(importing'[e], s)
                            => Cardinality(Copies(RowsOf(s), p)) <= crossings
    BY <1>1 DEF OnceInv, RowsOf, KnownTo, Copies
  <2>1. p \notin KnownTo(i, s) => Copies(RowsOf(s), p) = {}
    BY <1>2 DEF KnownTo, RowsOf, Copies
  <2>2. Cardinality({}) = 0 /\ 0 <= crossings
    BY FS_EmptySet DEF OnceInv
  <2>3. /\ IsFiniteSet(Copies(RowsOf(s), p))
        /\ Cardinality(Copies(RowsOf(s), p)) <= 1 + crossings
    BY DEF OnceInv
  <2>4. ASSUME NEW e \in Device, importing'[e] # None, s \in importing'[e].scopes,
               p \notin KnownTo(importing'[e], s)
        PROVE  Cardinality(Copies(RowsOf(s), p)) <= crossings
    <3>1. CASE e = d
      <4>1. Copies(RowsOf(s), p) = {}
        BY <1>3, <2>1, <2>4, <3>1
      <4> QED BY <2>2, <4>1
    <3>2. CASE e # d
      <4>1. importing'[e] = importing[e]
        BY <1>3, <3>2
      <4> QED BY <2>4, <4>1 DEF OnceInv
    <3> QED BY <3>1, <3>2
  <2> QED BY <2>3, <2>4
<1> QED BY <1>4, <1>5, <1>6, <1>7

-----------------------------------------------------------------------------
\* An import ends.  What it adds of one scope, by fingerprint.
LEMMA FirstsAre ==
    ASSUME NEW items, NEW known, NEW added \in Firsts(items, known)
    PROVE  \A p \in DOMAIN added : p \notin known
BY DEF Firsts

\* The plans an import adds: drafts under its own number, with fingerprints it did not know.
LEMMA PlansAdded ==
    ASSUME NEW i, NEW added \in NewPlans(i), plans' = PlansAfter(i, added)
    PROVE  /\ DOMAIN plans \subseteq DOMAIN plans'
           /\ \A n \in DOMAIN plans : plans'[n] = plans[n]
           /\ \A n \in DOMAIN plans' \ DOMAIN plans :
                 IsPlan(plans'[n]) /\ plans'[n].status = "draft"
                   /\ plans'[n].print \in DOMAIN added /\ n = <<i.number, plans'[n].print>>
           /\ \A p \in DOMAIN added :
                 p \notin KnownTo(i, "learning_plans") /\ "learning_plans" \in i.scopes
<1>1. /\ DOMAIN plans' = DOMAIN plans \cup Ids(i, added)
      /\ \A n \in DOMAIN plans : plans'[n] = plans[n]
      /\ \A n \in Ids(i, added) \ DOMAIN plans :
            plans'[n] = [status |-> "draft", items |-> added[n[2]].items,
                         analysed |-> added[n[2]].analysed, print |-> n[2]]
  BY DEF PlansAfter
<1>2. ASSUME NEW n \in DOMAIN plans' \ DOMAIN plans
      PROVE  /\ IsPlan(plans'[n]) /\ plans'[n].status = "draft"
             /\ plans'[n].print \in DOMAIN added /\ n = <<i.number, plans'[n].print>>
  <2>1. PICK p \in DOMAIN added : n = <<i.number, p>>
    BY <1>1 DEF Ids
  <2>2. n[2] = p
    BY <2>1
  <2> QED BY <1>1, <2>1, <2>2 DEF IsPlan
<1>3. ASSUME NEW p \in DOMAIN added
      PROVE  p \notin KnownTo(i, "learning_plans") /\ "learning_plans" \in i.scopes
  <2>1. CASE ImportsData(i, "learning_plans")
    <3>1. added \in Firsts(i.snap.plans, i.planPrints)
      BY <2>1 DEF NewPlans
    <3> QED BY <2>1, <3>1, FirstsAre DEF KnownTo, ImportsData, Imports
  <2>2. CASE ~ImportsData(i, "learning_plans")
    <3>1. DOMAIN added = {}
      BY <2>2 DEF NewPlans
    <3> QED BY <3>1
  <2> QED BY <2>1, <2>2
<1> QED BY <1>1, <1>2, <1>3

\* The reports an import adds: stale, under its own number, with fingerprints it did not know.
LEMMA ReportsAdded ==
    ASSUME NEW i, NEW added \in NewReports(i), reports' = ReportsAfter(i, added)
    PROVE  /\ DOMAIN reports \subseteq DOMAIN reports'
           /\ \A n \in DOMAIN reports : reports'[n] = reports[n]
           /\ \A n \in DOMAIN reports' \ DOMAIN reports :
                 IsReport(reports'[n]) /\ reports'[n].stale
                   /\ reports'[n].print \in DOMAIN added /\ n = <<i.number, reports'[n].print>>
           /\ \A p \in DOMAIN added :
                 p \notin KnownTo(i, "recommendation_reports")
                   /\ "recommendation_reports" \in i.scopes
<1>1. /\ DOMAIN reports' = DOMAIN reports \cup Ids(i, added)
      /\ \A n \in DOMAIN reports : reports'[n] = reports[n]
      /\ \A n \in Ids(i, added) \ DOMAIN reports :
            reports'[n] = [version |-> added[n[2]].version, stale |-> TRUE,
                           of |-> added[n[2]].of, print |-> n[2]]
  BY DEF ReportsAfter
<1>2. ASSUME NEW n \in DOMAIN reports' \ DOMAIN reports
      PROVE  /\ IsReport(reports'[n]) /\ reports'[n].stale
             /\ reports'[n].print \in DOMAIN added /\ n = <<i.number, reports'[n].print>>
  <2>1. PICK p \in DOMAIN added : n = <<i.number, p>>
    BY <1>1 DEF Ids
  <2>2. n[2] = p
    BY <2>1
  <2> QED BY <1>1, <2>1, <2>2 DEF IsReport
<1>3. ASSUME NEW p \in DOMAIN added
      PROVE  /\ p \notin KnownTo(i, "recommendation_reports")
             /\ "recommendation_reports" \in i.scopes
  <2>1. CASE ImportsData(i, "recommendation_reports")
    <3>1. added \in Firsts(i.snap.reports, i.reportPrints)
      BY <2>1 DEF NewReports
    <3> QED BY <2>1, <3>1, FirstsAre DEF KnownTo, ImportsData, Imports
  <2>2. CASE ~ImportsData(i, "recommendation_reports")
    <3>1. DOMAIN added = {}
      BY <2>2 DEF NewReports
    <3> QED BY <3>1
  <2> QED BY <2>1, <2>2
<1> QED BY <1>1, <1>2, <1>3

\* The copies of a fingerprint when an import that is not refused commits.
LEMMA OnceAfterImport ==
    ASSUME SyncInv, NEW d \in Device, importing[d] # None,
           importing' = [importing EXCEPT ![d] = None],
           crossings' = IF Crosses(d) THEN crossings + 1 ELSE crossings,
           NEW more \in NewPlans(importing[d]), plans' = PlansAfter(importing[d], more),
           NEW new \in NewReports(importing[d]), reports' = ReportsAfter(importing[d], new)
    PROVE  OnceInv'
<1> USE DEF SyncInv
<1> DEFINE i == importing[d]
<1>1. /\ importing'[d] = None
      /\ \A e \in Device \ {d} : importing'[e] = importing[e]
  BY DEF ImportShape
<1>2. crossings \in Nat /\ crossings' \in Nat /\ crossings' >= crossings
  BY DEF OnceInv
<1>3. ASSUME NEW s \in Listed, NEW p
      PROVE  \/ Copies(RowsOf(s)', p) \subseteq Copies(RowsOf(s), p)
             \/ /\ Copies(RowsOf(s)', p) \subseteq Copies(RowsOf(s), p) \cup {<<i.number, p>>}
                /\ s \in i.scopes /\ p \notin KnownTo(i, s)
  <2>1. CASE s = "learning_plans"
    <3>1. /\ DOMAIN plans \subseteq DOMAIN plans'
          /\ \A n \in DOMAIN plans : plans'[n] = plans[n]
          /\ \A n \in DOMAIN plans' \ DOMAIN plans :
                plans'[n].print \in DOMAIN more /\ n = <<i.number, plans'[n].print>>
          /\ \A q \in DOMAIN more :
                q \notin KnownTo(i, "learning_plans") /\ "learning_plans" \in i.scopes
      BY PlansAdded
    <3>2. IF p \in DOMAIN more
            THEN Copies(plans', p) \subseteq Copies(plans, p) \cup {<<i.number, p>>}
            ELSE Copies(plans', p) \subseteq Copies(plans, p)
      BY <3>1 DEF Copies
    <3> QED BY <2>1, <3>1, <3>2 DEF RowsOf
  <2>2. CASE s = "recommendation_reports"
    <3>1. /\ DOMAIN reports \subseteq DOMAIN reports'
          /\ \A n \in DOMAIN reports : reports'[n] = reports[n]
          /\ \A n \in DOMAIN reports' \ DOMAIN reports :
                reports'[n].print \in DOMAIN new /\ n = <<i.number, reports'[n].print>>
          /\ \A q \in DOMAIN new : /\ q \notin KnownTo(i, "recommendation_reports")
                                   /\ "recommendation_reports" \in i.scopes
      BY ReportsAdded
    <3>2. IF p \in DOMAIN new
            THEN Copies(reports', p) \subseteq Copies(reports, p) \cup {<<i.number, p>>}
            ELSE Copies(reports', p) \subseteq Copies(reports, p)
      BY <3>1 DEF Copies
    <3> QED BY <2>2, <3>1, <3>2 DEF RowsOf
  <2> QED BY <2>1, <2>2 DEF Listed
<1> SUFFICES ASSUME NEW s \in Listed, NEW p, p # None
             PROVE  /\ IsFiniteSet(Copies(RowsOf(s)', p))
                    /\ Cardinality(Copies(RowsOf(s)', p)) <= 1 + crossings'
                    /\ \A e \in Device :
                          importing'[e] # None /\ s \in importing'[e].scopes
                             /\ p \notin KnownTo(importing'[e], s)
                          => Cardinality(Copies(RowsOf(s)', p)) <= crossings'
  BY <1>2 DEF OnceInv, Copies, KnownTo
<1> DEFINE old == Copies(RowsOf(s), p)
           now == Copies(RowsOf(s)', p)
<1>4. /\ IsFiniteSet(old) /\ Cardinality(old) <= 1 + crossings
      /\ \A e \in Device :
            importing[e] # None /\ s \in importing[e].scopes /\ p \notin KnownTo(importing[e], s)
              => Cardinality(old) <= crossings
  BY DEF OnceInv
<1>5. \/ now \subseteq old
      \/ now \subseteq old \cup {<<i.number, p>>} /\ s \in i.scopes /\ p \notin KnownTo(i, s)
  BY <1>3
<1> HIDE DEF old, now
<1>6. CASE now \subseteq old
  <2>1. /\ IsFiniteSet(now) /\ Cardinality(now) \in Nat /\ Cardinality(old) \in Nat
        /\ Cardinality(now) <= Cardinality(old)
    BY <1>4, <1>6, AtMost
  <2>2. ASSUME NEW e \in Device, importing'[e] # None, s \in importing'[e].scopes,
               p \notin KnownTo(importing'[e], s)
        PROVE  Cardinality(now) <= crossings'
    <3>1. e # d /\ importing'[e] = importing[e]
      BY <1>1, <2>2
    <3>2. Cardinality(old) <= crossings
      BY <1>4, <2>2, <3>1
    <3> QED BY <1>2, <2>1, <3>2
  <2>3. Cardinality(now) <= 1 + crossings'
    BY <1>2, <1>4, <2>1
  <2> QED BY <2>1, <2>2, <2>3 DEF now
<1>7. CASE now \subseteq old \cup {<<i.number, p>>} /\ s \in i.scopes /\ p \notin KnownTo(i, s)
  <2>1. /\ IsFiniteSet(now) /\ Cardinality(now) \in Nat /\ Cardinality(old) \in Nat
        /\ Cardinality(now) <= Cardinality(old) + 1
    BY <1>4, <1>7, AtMostOneMore
  <2>2. Cardinality(old) <= crossings
    BY <1>4, <1>7
  <2>3. ASSUME NEW e \in Device, importing'[e] # None, s \in importing'[e].scopes,
               p \notin KnownTo(importing'[e], s)
        PROVE  Cardinality(now) <= crossings'
    <3>1. e # d /\ importing'[e] = importing[e]
      BY <1>1, <2>3
    <3>2. Crosses(d)
      BY <1>7, <2>3, <3>1 DEF Crosses
    <3> QED BY <1>2, <2>1, <2>2, <3>2
  <2>4. Cardinality(now) <= 1 + crossings'
    BY <1>2, <2>1, <2>2
  <2> QED BY <2>1, <2>3, <2>4 DEF now
<1> QED BY <1>5, <1>6, <1>7

\* The rest of the account after an import that is not refused.
LEMMA StudyAfterImport ==
    ASSUME SyncInv, NEW d \in Device, importing[d] # None,
           NEW more \in NewPlans(importing[d]), plans' = PlansAfter(importing[d], more),
           NEW new \in NewReports(importing[d]), reports' = ReportsAfter(importing[d], new),
           profiles' = ProfilesAfter(importing[d]), ~GoneBy(importing[d]),
           overlooked' = IF UpdatesProfile(importing[d]) \/ AddsProfile(importing[d])
                         THEN overlooked \cup Fresh ELSE overlooked,
           flight' = flight, overlaps' = overlaps
    PROVE  StudyInv'
<1> USE DEF SyncInv, StudyInv, StudyShape
<1> DEFINE i == importing[d]
<1>1. /\ DOMAIN plans \subseteq DOMAIN plans'
      /\ \A n \in DOMAIN plans : plans'[n] = plans[n]
      /\ \A n \in DOMAIN plans' \ DOMAIN plans :
            IsPlan(plans'[n]) /\ plans'[n].status = "draft"
  BY PlansAdded
<1>2. /\ DOMAIN reports \subseteq DOMAIN reports'
      /\ \A n \in DOMAIN reports : reports'[n] = reports[n]
      /\ \A n \in DOMAIN reports' \ DOMAIN reports :
            IsReport(reports'[n]) /\ reports'[n].stale
  BY ReportsAdded
<1>3. /\ \A n \in DOMAIN plans' : IsPlan(plans'[n])
      /\ \A n \in DOMAIN reports' : IsReport(reports'[n])
  BY <1>1, <1>2
<1>4. AdoptInv'
  <2>1. Adopted' = Adopted
    BY <1>1 DEF Adopted
  <2> QED BY <2>1 DEF AdoptInv, Adopting, Held, Chosen, OneAdopted
<1>5. Fresh' = Fresh
  BY <1>2 DEF Fresh
<1>6. FreshReports'
  <2>1. CASE UpdatesProfile(i) \/ AddsProfile(i)
    <3>1. Fresh' \ overlooked' = {}
      BY <1>5, <2>1
    <3> QED BY <3>1 DEF FreshReports
  <2>2. CASE ~(UpdatesProfile(i) \/ AddsProfile(i))
    <3>1. profiles' = profiles /\ overlooked' = overlooked
      BY <2>2 DEF ProfilesAfter
    <3>2. \A n \in Fresh : reports'[n] = reports[n]
      BY <1>2 DEF Fresh
    <3> QED BY <1>5, <3>1, <3>2 DEF FreshReports, Current
  <2> QED BY <2>1, <2>2
<1>7. IsSeq(profiles')
  <2>1. PICK S : profiles \in Seq(S)
    BY DEF IsSeq
  <2>2. CASE UpdatesProfile(i)
    <3> DEFINE at == CHOOSE k \in DOMAIN profiles : profiles[k].id = i.profile.id
               row == [id |-> i.profile.id, version |-> i.profile.version + 1,
                       content |-> i.snap.profile]
    <3>1. profiles' = Append(RemoveAt(profiles, at), row)
      BY <2>2 DEF ProfilesAfter, Written
    <3>2. \E k \in DOMAIN profiles : profiles[k].id = i.profile.id
      BY <2>2 DEF GoneBy
    <3>3. at \in 1..Len(profiles)
      BY <2>1, <3>2
    <3> HIDE DEF at, row
    <3>4. RemoveAt(profiles, at) \in Seq(S)
      <4>1. SubSeq(profiles, 1, at - 1) \in Seq(S)
        BY <2>1, <3>3
      <4>2. SubSeq(profiles, at + 1, Len(profiles)) \in Seq(S)
        BY <2>1, <3>3
      <4> QED BY <4>1, <4>2 DEF RemoveAt
    <3>5. RemoveAt(profiles, at) \in Seq(S \cup {row})
      BY <3>4
    <3>6. profiles' \in Seq(S \cup {row})
      BY <3>1, <3>5
    <3> QED BY <3>6 DEF IsSeq
  <2>3. CASE ~UpdatesProfile(i) /\ AddsProfile(i)
    <3> DEFINE row == [id |-> i.number, version |-> 1, content |-> i.snap.profile]
    <3>1. profiles' = Append(profiles, row)
      BY <2>3 DEF ProfilesAfter
    <3> HIDE DEF row
    <3>2. profiles \in Seq(S \cup {row})
      BY <2>1
    <3>3. profiles' \in Seq(S \cup {row})
      BY <3>1, <3>2
    <3> QED BY <3>3 DEF IsSeq
  <2>4. CASE ~UpdatesProfile(i) /\ ~AddsProfile(i)
    <3>1. profiles' = profiles
      BY <2>4 DEF ProfilesAfter
    <3> QED BY <3>1 DEF IsSeq
  <2> QED BY <2>2, <2>3, <2>4
<1> QED BY <1>3, <1>4, <1>6, <1>7

\* An import adds a row where there is none, and updates the row that is there.
LEMMA RowsAfterImport ==
    ASSUME SyncInv, NEW d \in Device, importing[d] # None, ~Refused(importing[d]),
           rows' = RowsAfter(importing[d]), pending' = pending, writes' = writes
    PROVE  RecordInv' /\ Kept(rows')
<1> USE DEF SyncInv
<1> DEFINE i == importing[d]
           new == [id |-> -i.number, by |-> -i.number, left |-> FALSE]
           same == [id |-> rows["record"].id, by |-> -i.number, left |-> FALSE]
<1>1. i.number \in Nat
  BY DEF ImportShape
<1>2. rows \in [Table -> {None} \cup Row] /\ "favorite" \in Table /\ "record" \in Table
  BY DEF RecordInv, RecordTypeOK, Table
<1>3. new \in Row
  BY <1>1 DEF Row
<1>4. /\ AddsFavorite(i) => rows["favorite"] = None
      /\ AddsRecord(i) => rows["record"] = None
      /\ UpdatesRecord(i) => rows["record"] # None
  BY DEF Refused, GoneBy
<1>5. UpdatesRecord(i) => same \in Row
  BY <1>1, <1>2, <1>4 DEF Row
<1>6. ASSUME NEW t \in Table
      PROVE  /\ rows'[t] \in {None} \cup Row
             /\ rows[t] # None => rows'[t] = rows[t] \/ (t = "record" /\ rows'[t] = same)
  <2>1. CASE t = "favorite" /\ AddsFavorite(i)
    <3>1. rows'[t] = new
      BY <2>1 DEF RowsAfter
    <3> QED BY <1>3, <1>4, <2>1, <3>1
  <2>2. CASE t = "record" /\ AddsRecord(i)
    <3>1. t # "favorite" /\ rows'[t] = RowsAfter(i)[t]
      BY <2>2
    <3>2. ~UpdatesRecord(i)
      BY <2>2 DEF AddsRecord, UpdatesRecord
    <3>4. RowsAfter(i)[t] = new
      BY <2>2, <3>1, <3>2 DEF RowsAfter
    <3>3. rows'[t] = new
      BY <3>1, <3>4
    <3> QED BY <1>3, <1>4, <2>2, <3>3
  <2>3. CASE t = "record" /\ ~AddsRecord(i) /\ UpdatesRecord(i)
    <3>1. rows'[t] = same
      BY <2>3 DEF RowsAfter
    <3> QED BY <1>5, <2>3, <3>1
  <2>4. CASE ~(t = "favorite" /\ AddsFavorite(i)) /\ ~(t = "record" /\ AddsRecord(i))
               /\ ~(t = "record" /\ UpdatesRecord(i))
    <3>1. rows'[t] = rows[t]
      BY <2>4 DEF RowsAfter
    <3> QED BY <1>2, <3>1
  <2> QED BY <2>1, <2>2, <2>3, <2>4
<1>7. same.id = rows["record"].id
  OBVIOUS
<1> HIDE DEF same
<1>8. DOMAIN rows' = Table /\ rows' = [t \in Table |-> rows'[t]]
  BY DEF RowsAfter
<1>9. rows' \in [Table -> {None} \cup Row]
  BY <1>6, <1>8, Zenon
<1>10. Kept(rows')
  <2>1. \A t \in Table : rows[t] # None => rows'[t].id = rows[t].id
    BY <1>6, <1>7
  <2>2. rows["enrollment"] # None => rows'["enrollment"] # None
    BY <1>6 DEF Table
  <2> QED BY <1>9, <2>1, <2>2 DEF Kept
<1>11. RecordInv'
  BY <1>9, <1>10 DEF RecordInv, RecordTypeOK, LeavesFoundRow, Kept
<1> QED BY <1>10, <1>11

-----------------------------------------------------------------------------
\* The end of an import, refused or not.
LEMMA ImportEnds ==
    ASSUME SyncInv, NEW d \in Device, FinishImport(d)
    PROVE  SyncInv' /\ Kept(rows')
<1> USE DEF SyncInv
<1>1. /\ importing[d] # None /\ importing' = [importing EXCEPT ![d] = None]
      /\ flight' = flight /\ requests' = requests /\ overlaps' = overlaps
      /\ pending' = pending /\ writes' = writes
  BY DEF FinishImport
<1>2. ImportShape'
  BY <1>1 DEF ImportShape
<1>3. CASE Refused(importing[d])
  <2>1. /\ profiles' = profiles /\ plans' = plans /\ reports' = reports /\ rows' = rows
        /\ overlooked' = overlooked /\ crossings' = crossings
    BY <1>3 DEF FinishImport
  <2>2. StudyShape' /\ FreshReports'
    BY <1>1, <2>1 DEF StudyInv, StudyShape, FreshReports, Fresh, Current, IsSeq, IsPlan, IsReport
  <2>3. AdoptInv'
    BY <1>1, <2>1 DEF StudyInv, AdoptInv, Adopted, Adopting, Held, Chosen, OneAdopted
  <2>4. RecordInv' /\ Kept(rows')
    BY <1>1, <2>1, UnchangedKept DEF RecordInv, RecordTypeOK, LeavesFoundRow
  <2>5. OnceInv'
    <3>1. \A e \in Device : importing'[e] = IF e = d THEN None ELSE importing[e]
      BY <1>1 DEF ImportShape
    <3>2. \A s \in Listed : RowsOf(s)' = RowsOf(s)
      BY <2>1 DEF RowsOf
    <3>3. \A e \in Device : importing'[e] # None => importing'[e] = importing[e]
      BY <3>1
    <3> SUFFICES ASSUME NEW s \in Listed, NEW p, p # None
                 PROVE  /\ IsFiniteSet(Copies(RowsOf(s)', p))
                        /\ Cardinality(Copies(RowsOf(s)', p)) <= 1 + crossings
                        /\ \A e \in Device :
                              importing'[e] # None /\ s \in importing'[e].scopes
                                 /\ p \notin KnownTo(importing'[e], s)
                              => Cardinality(Copies(RowsOf(s)', p)) <= crossings
      BY <2>1 DEF OnceInv, KnownTo, Copies
    <3> QED BY <3>2, <3>3 DEF OnceInv
  <2> QED BY <1>2, <2>2, <2>3, <2>4, <2>5 DEF StudyInv
<1>4. CASE ~Refused(importing[d])
  <2>1. /\ profiles' = ProfilesAfter(importing[d])
        /\ \E added \in NewPlans(importing[d]) : plans' = PlansAfter(importing[d], added)
        /\ \E added \in NewReports(importing[d]) : reports' = ReportsAfter(importing[d], added)
        /\ rows' = RowsAfter(importing[d])
        /\ overlooked' = IF UpdatesProfile(importing[d]) \/ AddsProfile(importing[d])
                         THEN overlooked \cup Fresh ELSE overlooked
        /\ crossings' = IF Crosses(d) THEN crossings + 1 ELSE crossings
    BY <1>4 DEF FinishImport
  <2>2. PICK more \in NewPlans(importing[d]) : plans' = PlansAfter(importing[d], more)
    BY <2>1
  <2>3. PICK new \in NewReports(importing[d]) : reports' = ReportsAfter(importing[d], new)
    BY <2>1
  <2>4. ~GoneBy(importing[d])
    BY <1>4 DEF Refused
  <2>5. OnceInv'
    BY <1>1, <2>1, <2>2, <2>3, OnceAfterImport
  <2>6. StudyInv'
    BY <1>1, <2>1, <2>2, <2>3, <2>4, StudyAfterImport
  <2>7. RecordInv' /\ Kept(rows')
    BY <1>1, <1>4, <2>1, RowsAfterImport
  <2> QED BY <1>2, <2>5, <2>6, <2>7
<1> QED BY <1>3, <1>4

\* A step that touches no row, no request and no import, but perhaps counts one.
LEMMA QuietSync ==
    ASSUME SyncInv, UNCHANGED <<profiles, reports, plans, flight, history, recordVars>>,
           importing' = importing, crossings' = crossings, requests' \in {requests, requests + 1}
    PROVE  SyncInv' /\ Kept(rows')
<1> USE DEF SyncInv
<1>1. /\ profiles' = profiles /\ reports' = reports /\ plans' = plans /\ flight' = flight
      /\ overlooked' = overlooked /\ overlaps' = overlaps
      /\ rows' = rows /\ pending' = pending /\ writes' = writes
  BY DEF history, recordVars
<1>2. StudyShape' /\ FreshReports'
  BY <1>1 DEF StudyInv, StudyShape, FreshReports, Fresh, Current, IsSeq, IsPlan, IsReport
<1>3. AdoptInv'
  BY <1>1 DEF StudyInv, AdoptInv, Adopted, Adopting, Held, Chosen, OneAdopted
<1>4. RecordInv' /\ Kept(rows')
  BY <1>1, UnchangedKept DEF RecordInv, RecordTypeOK, LeavesFoundRow
<1>5. ImportShape'
  BY DEF ImportShape
<1>6. OnceInv'
  <2>1. PrintsKept
    BY <1>1 DEF PrintsKept
  <2> QED BY <2>1, OnceKept
<1> QED BY <1>2, <1>3, <1>4, <1>5, <1>6 DEF StudyInv

\* Every step of the composition keeps the invariant, and no row of a table of Records
\* turns into another.
LEMMA SyncStep ==
    ASSUME SyncInv, [SyncNext]_syncVars
    PROVE  SyncInv' /\ Kept(rows')
<1>1. CASE ExportSnapshot
  BY <1>1, QuietSync DEF ExportSnapshot, studyVars, history
<1>2. CASE SyncWorker \/ PushSyncProvider
  BY <1>2, QuietSync DEF SyncWorker, PushSyncProvider, Push, studyVars, history
<1>3. CASE ChangePreferences
  BY <1>3, QuietSync DEF ChangePreferences
<1>4. ASSUME NEW d \in Device, NEW rid \in RequestId, NEW scopes \in ScopeChoices,
             \/ StartSyncData(d, rid, scopes)
             \/ \E strategy \in Strategy, snap \in copies :
                   StartImport(d, rid, scopes, strategy, snap)
      PROVE  SyncInv' /\ Kept(rows')
  <2>1. PICK strategy, snap : StartImport(d, rid, scopes, strategy, snap)
    BY <1>4 DEF StartSyncData
  <2>2. rows' = rows
    BY <2>1 DEF StartImport, recordVars
  <2> QED BY <2>1, <2>2, ImportStarts, UnchangedKept DEF SyncInv, RecordInv
<1>5. ASSUME NEW d \in Device, FinishImport(d)
      PROVE  SyncInv' /\ Kept(rows')
  BY <1>5, ImportEnds
<1>6. CASE StudyNext /\ UNCHANGED <<recordVars, syncOwn>>
  <2>1. /\ rows' = rows /\ pending' = pending /\ writes' = writes
        /\ importing' = importing /\ crossings' = crossings
    BY <1>6 DEF recordVars, syncOwn
  <2>2. StudyInv' /\ PrintsKept
    BY <1>6, StudyStep DEF SyncInv
  <2>3. requests' \in {requests, requests + 1}
    BY <1>6 DEF StudyNext, DeleteProfile, StartSaveProfile, FinishSaveProfile, StartRecommend,
          FinishRecommend, StartSavePlan, StartAdopt, StartChangePlan, FinishSavePlan,
          FinishAdopt, FinishChangePlan, Start, Finish
  <2>4. OnceInv'
    BY <2>1, <2>2, OnceKept DEF SyncInv
  <2>5. RecordInv' /\ Kept(rows')
    BY <2>1, UnchangedKept DEF SyncInv, RecordInv, RecordTypeOK, LeavesFoundRow
  <2>6. ImportShape'
    BY <2>1, <2>3 DEF SyncInv, ImportShape
  <2> QED BY <2>2, <2>4, <2>5, <2>6 DEF SyncInv
<1>7. CASE RecordNext /\ UNCHANGED <<studyVars, syncOwn>>
  <2>1. /\ profiles' = profiles /\ reports' = reports /\ plans' = plans /\ flight' = flight
        /\ overlooked' = overlooked /\ overlaps' = overlaps /\ requests' = requests
        /\ importing' = importing /\ crossings' = crossings
    BY <1>7 DEF studyVars, syncOwn
  <2>2. RecordInv' /\ Kept(rows')
    BY <1>7, StepPreserves DEF SyncInv
  <2>3. StudyShape' /\ FreshReports'
    BY <2>1 DEF SyncInv, StudyInv, StudyShape, FreshReports, Fresh, Current, IsSeq, IsPlan,
          IsReport
  <2>4. AdoptInv'
    BY <2>1 DEF SyncInv, StudyInv, AdoptInv, Adopted, Adopting, Held, Chosen, OneAdopted
  <2>5. ImportShape' /\ OnceInv'
    BY <2>1 DEF SyncInv, ImportShape, OnceInv, RowsOf, KnownTo, Copies
  <2> QED BY <2>2, <2>3, <2>4, <2>5 DEF SyncInv, StudyInv
<1>8. CASE UNCHANGED syncVars
  BY <1>8, QuietSync DEF syncVars, studyVars, syncOwn, history
<1> QED BY <1>1, <1>2, <1>3, <1>4, <1>5, <1>6, <1>7, <1>8 DEF SyncNext

\* Nothing is in flight at the start.
LEMMA SyncStart == SyncInit => SyncInv
<1> SUFFICES ASSUME SyncInit PROVE SyncInv
  OBVIOUS
<1>1. StudyInv
  BY StudyStart DEF SyncInit
<1>2. RecordInv
  BY RecordsAssumption DEF SyncInit, RecordInit, RecordInv, RecordTypeOK, LeavesFoundRow, Write
<1>3. ImportShape
  BY DEF SyncInit, StudyInit, ImportShape
<1>4. OnceInv
  <2>1. plans = <<>> /\ reports = <<>> /\ crossings = 0
    BY DEF SyncInit, StudyInit
  <2>2. \A s \in Listed : \A p : Copies(RowsOf(s), p) = {}
    BY <2>1 DEF Copies, RowsOf
  <2> QED BY <2>1, <2>2, FS_EmptySet DEF OnceInv
<1> QED BY <1>1, <1>2, <1>3, <1>4 DEF SyncInv

\* The inductive invariant holds while imports, exports and every other handler interleave.
THEOREM SyncInvariant == SyncSpec => []SyncInv
<1>1. SyncInit => SyncInv
  BY SyncStart
<1>2. SyncInv /\ [SyncNext]_syncVars => SyncInv'
  BY SyncStep
<1> QED BY <1>1, <1>2, PTL DEF SyncSpec

\* A plan or report of a snapshot is imported once, and once more at most for each import of
\* the same scope that was in flight with another, whatever the request ids and however often
\* it comes back (import_sync_snapshot).
THEOREM ImportedOnceAlways == SyncSpec => []ImportedOnce
<1>1. SyncInv => ImportedOnce
  <2> SUFFICES ASSUME SyncInv PROVE ImportedOnce
    OBVIOUS
  <2>1. \A p : p # None => Cardinality(Copies(plans, p)) <= 1 + crossings
    BY DEF SyncInv, OnceInv, RowsOf, Listed
  <2>2. \A p : p # None => Cardinality(Copies(reports, p)) <= 1 + crossings
    BY DEF SyncInv, OnceInv, RowsOf, Listed
  <2> QED BY <2>1, <2>2 DEF ImportedOnce, OnlyOnce
<1> QED BY <1>1, SyncInvariant, PTL

\* What holds of reports and plans holds beside synchronisation too.
THEOREM StudySafeUnderSync == SyncSpec => [](FreshReports /\ OneAdopted)
<1>1. SyncInv => FreshReports /\ OneAdopted
  BY DEF SyncInv, StudyInv, AdoptInv
<1> QED BY <1>1, SyncInvariant, PTL

\* Imports do not turn one row into another either (import_sync_snapshot, and the handlers of
\* Records).
THEOREM IdentityUnderSync == SyncSpec => RowsKeepIdentity
<1>1. SyncInv /\ [SyncNext]_syncVars
        => [\A t \in Table :
              rows[t] # None /\ rows'[t] # None => rows'[t].id = rows[t].id]_recordVars
  BY SyncStep DEF Kept
<1> QED BY <1>1, SyncInvariant, PTL DEF SyncSpec, RowsKeepIdentity

-----------------------------------------------------------------------------
\* The end of an import that keeps local data.
KeptHere ==
    /\ IsPrefix(profiles, profiles')
    /\ \A n \in DOMAIN plans : plans'[n] = plans[n]
    /\ \A n \in DOMAIN reports : reports'[n] = reports[n]
    /\ \A t \in Table : rows[t] # None => rows'[t] = rows[t]
    /\ preferences' = preferences

\* A sequence is a prefix of itself.
LEMMA PrefixOfItself ==
    ASSUME NEW s, IsSeq(s)
    PROVE  IsPrefix(s, s)
<1>1. PICK S : s \in Seq(S)
  BY DEF IsSeq
<1>2. SubSeq(s, 1, Len(s)) = s
  BY <1>1
<1> QED BY <1>1, <1>2 DEF IsPrefix

\* A sequence is a prefix of itself with one more element.
LEMMA PrefixOfLonger ==
    ASSUME NEW s, NEW x, IsSeq(s)
    PROVE  IsPrefix(s, Append(s, x))
<1>1. PICK S : s \in Seq(S)
  BY DEF IsSeq
<1>2. s \in Seq(S \cup {x}) /\ Append(s, x) \in Seq(S \cup {x})
  BY <1>1
<1>3. Len(Append(s, x)) = Len(s) + 1 /\ Len(s) \in Nat
  BY <1>2
<1>4. SubSeq(s, 1, Len(s)) = SubSeq(Append(s, x), 1, Len(s))
  BY <1>2, <1>3
<1> QED BY <1>3, <1>4 DEF IsPrefix

\* Such an import updates nothing, so all it leaves is what was there and what it adds.
LEMMA KeepsWhatIsHere ==
    ASSUME SyncInv, NEW d \in Device, KeepsLocal(d), FinishImport(d)
    PROVE  KeptHere
<1> USE DEF SyncInv
<1> DEFINE i == importing[d]
<1>1. ~Overwrites(i) /\ ~UpdatesProfile(i) /\ ~UpdatesRecord(i)
  BY DEF KeepsLocal, Overwrites, UpdatesProfile, UpdatesRecord, Strategy
<1>2. IsSeq(profiles)
  BY DEF StudyInv, StudyShape
<1>3. CASE Refused(i)
  <2>1. /\ profiles' = profiles /\ plans' = plans /\ reports' = reports /\ rows' = rows
        /\ preferences' = preferences
    BY <1>3 DEF FinishImport
  <2> QED BY <1>2, <2>1, PrefixOfItself DEF KeptHere
<1>4. CASE ~Refused(i)
  <2>1. /\ profiles' = ProfilesAfter(i)
        /\ \E added \in NewPlans(i) : plans' = PlansAfter(i, added)
        /\ \E added \in NewReports(i) : reports' = ReportsAfter(i, added)
        /\ rows' = RowsAfter(i) /\ preferences' = preferences
    BY <1>1, <1>4 DEF FinishImport
  <2>2. IsPrefix(profiles, profiles')
    <3>1. CASE AddsProfile(i)
      <4>1. PICK x : profiles' = Append(profiles, x)
        BY <1>1, <2>1, <3>1 DEF ProfilesAfter
      <4> QED BY <1>2, <4>1, PrefixOfLonger
    <3>2. CASE ~AddsProfile(i)
      <4>1. profiles' = profiles
        BY <1>1, <2>1, <3>2 DEF ProfilesAfter
      <4> QED BY <1>2, <4>1, PrefixOfItself
    <3> QED BY <3>1, <3>2
  <2>3. \A n \in DOMAIN plans : plans'[n] = plans[n]
    BY <2>1 DEF PlansAfter
  <2>4. \A n \in DOMAIN reports : reports'[n] = reports[n]
    BY <2>1 DEF ReportsAfter
  <2>5. ASSUME NEW t \in Table, rows[t] # None
        PROVE  rows'[t] = rows[t]
    <3>1. ~(t = "favorite" /\ AddsFavorite(i)) /\ ~(t = "record" /\ AddsRecord(i))
      BY <1>4, <2>5 DEF Refused
    <3> QED BY <1>1, <2>1, <3>1 DEF RowsAfter
  <2> QED BY <2>1, <2>2, <2>3, <2>4, <2>5 DEF KeptHere
<1> QED BY <1>3, <1>4

\* No other step ends an import.
LEMMA OnlyFinishEnds ==
    ASSUME SyncInv, NEW d \in Device, KeepsLocal(d), [SyncNext]_syncVars
    PROVE  FinishImport(d)
<1> USE DEF SyncInv, KeepsLocal
<1>1. CASE importing' = importing
  BY <1>1
<1>2. ASSUME NEW e \in Device, NEW rid, NEW scopes, NEW strategy, NEW snap,
             StartImport(e, rid, scopes, strategy, snap)
      PROVE  FALSE
  <2>1. importing[e] = None
    BY <1>2 DEF StartImport
  <2>2. importing'[d] = importing[d]
    BY <1>2, <2>1 DEF StartImport, ImportShape
  <2> QED BY <2>2
<1>3. ASSUME NEW e \in Device, FinishImport(e)
      PROVE  FinishImport(d)
  <2>1. CASE e = d
    BY <1>3, <2>1
  <2>2. CASE e # d
    <3>1. importing'[d] = importing[d]
      BY <1>3, <2>2 DEF FinishImport, ImportShape
    <3> QED BY <3>1
  <2> QED BY <2>1, <2>2
<1>4. (ExportSnapshot \/ SyncWorker \/ PushSyncProvider \/ ChangePreferences
         \/ (StudyNext /\ UNCHANGED <<recordVars, syncOwn>>)
         \/ (RecordNext /\ UNCHANGED <<studyVars, syncOwn>>)
         \/ UNCHANGED syncVars) => importing' = importing
  BY DEF ExportSnapshot, SyncWorker, PushSyncProvider, Push, ChangePreferences, syncOwn, syncVars
<1> QED BY <1>1, <1>2, <1>3, <1>4 DEF SyncNext, StartSyncData

\* An import under keep_local changes nothing the account has when it commits
\* (import_sync_snapshot).
THEOREM LocalKeptAlways == SyncSpec => LocalKept
<1>1. SyncInv /\ [SyncNext]_syncVars => \A d \in Device : KeepsLocal(d) => KeptHere
  BY KeepsWhatIsHere, OnlyFinishEnds
<1>2. SyncInv /\ [SyncNext]_syncVars
        => [\A d \in Device : KeepsLocal(d) =>
              /\ IsPrefix(profiles, profiles')
              /\ \A n \in DOMAIN plans : plans'[n] = plans[n]
              /\ \A n \in DOMAIN reports : reports'[n] = reports[n]
              /\ \A t \in Table : rows[t] # None => rows'[t] = rows[t]
              /\ preferences' = preferences]_syncVars
  BY <1>1 DEF KeptHere
<1> QED BY <1>2, SyncInvariant, PTL DEF SyncSpec, LocalKept

=============================================================================
