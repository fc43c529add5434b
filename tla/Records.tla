------------------------------ MODULE Records ------------------------------
(***************************************************************************)
(* The rows a user keeps one of per key: enrollments, favourites and job   *)
(* applications (apps/api/routes/planning.py), learning records and        *)
(* activities (account.py), progress on knowledge points (knowledge.py),   *)
(* the avatar (profile.py), the generation of a client cache (cache.py).   *)
(*                                                                         *)
(* A handler reads the row of its key and, at the commit, updates it or    *)
(* inserts one.  Each table has a unique constraint on its key: an insert  *)
(* that finds a row, and an update that finds none, fail and change        *)
(* nothing.  A handler touches one key of one table, so one key of each    *)
(* table is enough to see what two handlers do to each other.              *)
(***************************************************************************)
EXTENDS Integers, NoValue

CONSTANTS
    Slot,          \* slots for requests in flight
    MaxWrites      \* bound on the requests that start

VARIABLES
    rows,          \* rows[t]: the row of table t, or None
    pending,       \* pending[s]: the request in slot s with the row it has read, or None
    writes         \* how many requests started

recordVars == <<rows, pending, writes>>

Table == {"enrollment", "favorite", "application", "record", "activity", "progress",
          "avatar", "cache"}
\* The tables whose rows can be deleted; an enrollment is marked as left instead.
Deleted == {"favorite", "application", "record", "avatar"}

\* id: the request that inserted the row; by: the one whose values it holds.  An import
\* counts as a request with a negative number.
Write == 0..MaxWrites
Row == [id : Int, by : Int, left : BOOLEAN]
Read == [op : {"put", "leave", "remove"}, table : Table, row : {None} \cup Row, by : Write]

ASSUME RecordsAssumption == MaxWrites \in Nat /\ None \notin Row

RecordInit ==
    /\ rows = [t \in Table |-> None]
    /\ pending = [s \in Slot |-> None] /\ writes = 0

Begin(s, t, op) ==
    /\ pending[s] = None /\ writes < MaxWrites
    /\ pending' = [pending EXCEPT ![s] = [op |-> op, table |-> t, row |-> rows[t],
                                          by |-> writes + 1]]
    /\ writes' = writes + 1 /\ UNCHANGED rows
End(s) == pending' = [pending EXCEPT ![s] = None] /\ UNCHANGED writes

\* The row a request has read is still the row of its key.
Unchanged(s, t) == rows[t] # None /\ pending[s].row # None /\ rows[t].id = pending[s].row.id

Inserted(s) == [id |-> pending[s].by, by |-> pending[s].by, left |-> FALSE]
Updated(s) == [id |-> pending[s].row.id, by |-> pending[s].by, left |-> FALSE]
Left(row) == [id |-> row.id, by |-> row.by, left |-> TRUE]

Saved_Overwrites(s, t) == [rows EXCEPT ![t] = Inserted(s)]

\* What a commit leaves: the update of the row that was read, or the insert of a first
\* one; the table as it is when the database refuses.
Saved(s, t) ==
    IF pending[s].row = None
      THEN IF rows[t] = None THEN [rows EXCEPT ![t] = Inserted(s)] ELSE rows
      ELSE IF Unchanged(s, t)
             THEN [rows EXCEPT ![t] = Updated(s)]
             ELSE rows

Put(s, t) ==
    \/ Begin(s, t, "put")
    \/ /\ pending[s] # None /\ pending[s].op = "put" /\ pending[s].table = t
       /\ rows' = Saved(s, t) /\ End(s)

JoinProgram(s) == Put(s, "enrollment")
UpsertJobApplication(s) == Put(s, "application")
UpsertLearningRecord(s) == Put(s, "record")
UpsertLearningActivity(s) == Put(s, "activity")
UpdateKnowledgeProgress(s) == Put(s, "progress")
UploadAvatar(s) == Put(s, "avatar")
ClearCache(s) == Put(s, "cache")

\* A favourite that is there when it is read is left alone.
AddJobFavorite(s) ==
    \/ Begin(s, "favorite", "put")
    \/ /\ pending[s] # None /\ pending[s].op = "put" /\ pending[s].table = "favorite"
       /\ rows' = IF pending[s].row # None THEN rows ELSE Saved(s, "favorite")
       /\ End(s)

\* Without an enrollment the answer is 404; otherwise the row that was read is marked.
LeaveProgram(s) ==
    \/ rows["enrollment"] # None /\ Begin(s, "enrollment", "leave")
    \/ /\ pending[s] # None /\ pending[s].op = "leave"
       /\ rows' = [rows EXCEPT !["enrollment"] = Left(rows["enrollment"])]
       /\ End(s)

\* A delete of the row that was read; the answer is the same when it is gone by now.
Delete(s, t) ==
    \/ rows[t] # None /\ Begin(s, t, "remove")
    \/ /\ pending[s] # None /\ pending[s].op = "remove" /\ pending[s].table = t
       /\ rows' = IF Unchanged(s, t) THEN [rows EXCEPT ![t] = None] ELSE rows
       /\ End(s)

RemoveJobFavorite(s) == Delete(s, "favorite")
DeleteJobApplication(s) == Delete(s, "application")
DeleteLearningRecord(s) == Delete(s, "record")
DeleteAvatar(s) == Delete(s, "avatar")

RecordNext == \E s \in Slot :
    \/ JoinProgram(s) \/ LeaveProgram(s)
    \/ UpsertJobApplication(s) \/ DeleteJobApplication(s)
    \/ AddJobFavorite(s) \/ RemoveJobFavorite(s)
    \/ UpsertLearningRecord(s) \/ DeleteLearningRecord(s)
    \/ UpsertLearningActivity(s) \/ UpdateKnowledgeProgress(s)
    \/ UploadAvatar(s) \/ DeleteAvatar(s) \/ ClearCache(s)

RecordSpec == RecordInit /\ [][RecordNext]_recordVars

-----------------------------------------------------------------------------
RecordTypeOK ==
    /\ rows \in [Table -> {None} \cup Row]
    /\ pending \in [Slot -> {None} \cup Read]
    /\ writes \in Write

\* A row never passes from one insert to another: a row that was deleted comes back only
\* by an insert of its own, so an update that read the row before it was deleted does not
\* bring it back, and two inserts of one key do not replace each other (the read-then-write
\* handlers, held apart by the unique constraints only).
RowsKeepIdentity ==
    [][\A t \in Table :
        rows[t] # None /\ rows'[t] # None => rows'[t].id = rows[t].id]_recordVars

=============================================================================
