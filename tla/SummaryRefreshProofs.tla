------------------------ MODULE SummaryRefreshProofs ------------------------
(***************************************************************************)
(* Proofs about SummaryRefresh for any number of requests, any sizes and   *)
(* any bounds.  The first part allows every overlap of requests, tasks and *)
(* deletions.  The second part is about what holds while requests do not   *)
(* overlap (OneByOne): no turn is forgotten and none is both raw and       *)
(* summarised.  What it uses of turns and their window is in TurnsProofs.  *)
(***************************************************************************)
EXTENDS SummaryRefresh, TurnsProofs, SequenceTheorems

-----------------------------------------------------------------------------
(* What the building blocks do to the log. *)

(* Appending a flushed message keeps the log well typed and within its bound. *)
LEMMA FlushType ==
    ASSUME NEW r \in Request, NEW role \in {"user", "assistant"}, NEW size \in Sizes,
           TypeOK, Flush(r, role, size)
    PROVE  /\ log' \in Seq(Entry)
           /\ Len(log') = Len(log) + 1
           /\ Len(log') <= MaxMessages
<1> DEFINE e == [role |-> role, size |-> size, owner |-> r, state |-> "flushed"]
<1>1. e \in Entry
  BY DEF Entry
<1>2. log \in Seq(Entry) /\ log' = Append(log, e) /\ Len(log) < MaxMessages
  BY DEF TypeOK, Flush
<1> HIDE DEF e
<1>3. QED
  BY <1>1, <1>2, SummaryAssumption DEF SummaryAssumption

(* A commit, a rollback or a deletion changes the state of one message in place. *)
LEMMA StateChangeType ==
    ASSUME NEW i \in DOMAIN log, NEW s \in {"flushed", "committed", "gone"},
           TypeOK, log' = [log EXCEPT ![i].state = s]
    PROVE  log' \in Seq(Entry) /\ Len(log') = Len(log)
<1>1. log \in Seq(Entry)
  BY DEF TypeOK
<1>2. log[i] \in Entry
  BY <1>1, ElementOfSeq
<1>3. [log[i] EXCEPT !.state = s] \in Entry
  BY <1>2 DEF Entry
<1>4. log' = [log EXCEPT ![i] = [log[i] EXCEPT !.state = s]]
  OBVIOUS
<1>5. QED
  BY <1>1, <1>3, <1>4, ExceptSeq

(* So does the end of a transaction.                                                 *)
LEMMA SettleType ==
    ASSUME NEW r \in Request, NEW s \in {"committed", "gone"}, TypeOK, Settle(r, s)
    PROVE  log' \in Seq(Entry) /\ Len(log') = Len(log)
BY StateChangeType DEF Settle

(* The set a task takes as its batch lies beyond the cursor and ends at the message   *)
(* the cursor will name.                                                             *)
LEMMA BatchShape ==
    ASSUME TypeOK, NEW last \in TurnEnds(log, Unsummarised)
    PROVE  /\ last \in Batch(last)
           /\ last \in Ids
           /\ last <= Len(log)
           /\ Batch(last) \subseteq Ids
           /\ \A i \in Batch(last) : i <= last /\ i > cursor
<1>1. TurnEnds(log, Unsummarised) \subseteq Unsummarised
  BY DEF TurnEnds
<1>2. Visible \subseteq 1..Len(log)
  <2>1. log \in Seq(Entry)
    BY DEF TypeOK
  <2>2. QED
    BY <2>1 DEF Visible
<1>3. Candidates(log, Visible) \subseteq Visible
  <2>1. \A e \in TurnEnds(log, Visible) : TurnOf(log, Visible, e) \subseteq Visible
    BY DEF TurnEnds, TurnOf
  <2>2. QED
    BY <2>1 DEF Candidates, TurnMessages
<1>4. Unsummarised \subseteq 1..Len(log) /\ \A i \in Unsummarised : i > cursor
  BY <1>2, <1>3 DEF Unsummarised
<1>5. Len(log) \in Nat /\ MaxMessages \in Nat /\ Len(log) <= MaxMessages
  <2>1. log \in Seq(Entry) /\ Len(log) <= MaxMessages
    BY DEF TypeOK
  <2>2. QED
    BY <2>1, LenProperties, SummaryAssumption DEF SummaryAssumption
<1>last. last \in Unsummarised /\ last \in Int
  <2>1. last \in TurnEnds(log, Unsummarised)
    OBVIOUS
  <2>2. last \in 1..Len(log)
    BY <2>1, <1>1, <1>4
  <2>3. QED
    BY <2>1, <2>2, <1>1, <1>5
<1>6. Unsummarised \subseteq Ids
  BY <1>4, <1>5 DEF Ids
<1>7. \A e \in TurnEnds(log, Unsummarised) : TurnOf(log, Unsummarised, e) \subseteq {i \in Unsummarised : i <= e}
  <2> SUFFICES ASSUME NEW e \in TurnEnds(log, Unsummarised),
                      NEW i \in TurnOf(log, Unsummarised, e)
               PROVE  i \in Unsummarised /\ i <= e
    OBVIOUS
  <2>1. e \in Unsummarised /\ e \in Int
    <3>1. e \in Unsummarised
      BY <1>1
    <3>2. e \in 1..Len(log)
      BY <3>1, <1>4
    <3>3. QED
      BY <3>1, <3>2, <1>5
  <2>2. i = e \/ i \in {u \in Unsummarised : u < e}
    BY DEF TurnOf
  <2>3. CASE i = e
    BY <2>1, <2>3
  <2>4. CASE i \in {u \in Unsummarised : u < e}
    <3>1. i \in Unsummarised /\ i < e /\ i \in Int
      BY <2>4, <1>4, <1>5
    <3>2. QED
      BY <2>1, <3>1
  <2>5. QED
    BY <2>2, <2>3, <2>4
<1>8. Batch(last) \subseteq {i \in Unsummarised : i <= last}
  <2> SUFFICES ASSUME NEW i \in Batch(last) PROVE i \in Unsummarised /\ i <= last
    OBVIOUS
  <2>1. PICK e \in TurnEnds(log, Unsummarised) : e <= last /\ i \in TurnOf(log, Unsummarised, e)
    BY DEF Batch, TurnMessages
  <2>2. i \in Unsummarised /\ i <= e
    BY <2>1, <1>7
  <2>3. i \in Int /\ e \in Int /\ last \in Int
    BY <2>1, <2>2, <1>1, <1>4, <1>5, <1>last
  <2>4. QED
    BY <2>1, <2>2, <2>3
<1>9. last \in Batch(last)
  <2>1. last \in Int
    BY <1>last
  <2>2. last <= last
    BY <2>1
  <2>3. last \in TurnOf(log, Unsummarised, last)
    BY DEF TurnOf
  <2>4. QED
    BY <2>2, <2>3 DEF Batch, TurnMessages
<1>10. last \in Ids /\ last <= Len(log)
  BY <1>4, <1>5, <1>6, <1>last
<1>11. \A i \in Batch(last) : i \in Ids /\ i <= last /\ i > cursor
  BY <1>4, <1>6, <1>8
<1>12. QED
  BY <1>9, <1>10, <1>11

-----------------------------------------------------------------------------
(* Type correctness. *)

(* Initially every variable has its type. *)
LEMMA InitType == Init => TypeOK
<1> SUFFICES ASSUME Init PROVE TypeOK
  OBVIOUS
<1>1. NoTask \in Task /\ NoTask.through = 0
  BY SMT DEF NoTask, Task, Ids
<1>2. log \in Seq(Entry) /\ Len(log) = 0
  BY EmptySeq DEF Init
<1>3. MaxMessages \in Nat
  BY SummaryAssumption DEF SummaryAssumption
<1>4. QED
  BY <1>1, <1>2, <1>3 DEF Init, TypeOK, Ids, Answering

(* The end of a task leaves the tasks well typed. *)
LEMMA FinishType ==
    ASSUME NEW r \in Request, TypeOK, Finish(r)
    PROVE  /\ task' \in [Request -> Task]
           /\ \A q \in Request : task'[q].through <= Len(log)
           /\ pc' \in [Request -> Answering \cup {"idle", "scheduled", "summarising", "done"}]
<1>1. NoTask \in Task /\ NoTask.through = 0 /\ Len(log) \in Nat
  <2>1. NoTask \in Task /\ NoTask.through = 0
    BY SMT DEF NoTask, Task, Ids
  <2>2. QED
    BY <2>1, LenProperties DEF TypeOK
<1>2. QED
  BY <1>1 DEF Finish, Goto, TypeOK, Answering

(* A step of the next-state relation, or a stutter, preserves the types. *)
LEMMA NextType == TypeOK /\ [Next]_vars => TypeOK'
<1> SUFFICES ASSUME TypeOK, [Next]_vars PROVE TypeOK'
  OBVIOUS
<1> USE SummaryAssumption DEF SummaryAssumption
<1>0. log \in Seq(Entry) /\ Len(log) \in Nat /\ MaxMessages \in Nat
  BY LenProperties DEF TypeOK
<1>1. ASSUME NEW r \in Request, RequestStep(r) PROVE TypeOK'
  <2>1. CASE Ask(r)
    <3>1. PICK size \in Sizes : Flush(r, "user", size)
      BY <2>1 DEF Ask
    <3>2. log' \in Seq(Entry) /\ Len(log') = Len(log) + 1 /\ Len(log') <= MaxMessages
      BY <3>1, FlushType
    <3>3. \A q \in Request : task'[q].through <= Len(log')
      BY <2>1, <3>2, <1>0 DEF Ask, TypeOK, Task
    <3>4. cursor' \in 0..Len(log')
      BY <2>1, <3>2, <1>0 DEF Ask, TypeOK, summaryRow
    <3>5. QED
      BY <2>1, <3>2, <3>3, <3>4 DEF Ask, Goto, TypeOK, Answering, summaryRow
  <2>2. CASE StoreQuestion(r)
    BY <2>2, <1>0, SettleType DEF StoreQuestion, Goto, TypeOK, Answering, summaryRow
  <2>3. CASE FailAnswer(r)
    BY <2>3 DEF FailAnswer, Goto, TypeOK, Answering, summaryRow
  <2>4. CASE WriteAnswer(r)
    <3>1. PICK size \in Sizes : Flush(r, "assistant", size)
      BY <2>4 DEF WriteAnswer
    <3>2. log' \in Seq(Entry) /\ Len(log') = Len(log) + 1 /\ Len(log') <= MaxMessages
      BY <3>1, FlushType
    <3>3. \A q \in Request : task'[q].through <= Len(log')
      BY <2>4, <3>2, <1>0 DEF WriteAnswer, TypeOK, Task
    <3>4. cursor' \in 0..Len(log')
      BY <2>4, <3>2, <1>0 DEF WriteAnswer, TypeOK, summaryRow
    <3>5. QED
      BY <2>4, <3>2, <3>3, <3>4 DEF WriteAnswer, Goto, TypeOK, Answering, summaryRow
  <2>5. CASE StoreAnswer(r)
    BY <2>5, <1>0, SettleType DEF StoreAnswer, Goto, TypeOK, Answering, summaryRow
  <2>6. CASE Rollback(r)
    BY <2>6, <1>0, SettleType DEF Rollback, Goto, TypeOK, Answering, summaryRow
  <2>7. QED
    BY <1>1, <2>1, <2>2, <2>3, <2>4, <2>5, <2>6 DEF RequestStep
<1>2. ASSUME NEW r \in Request, TaskStep(r) PROVE TypeOK'
  <2>1. CASE ReadSnapshot(r)
    <3>1. PICK last \in TurnEnds(log, Unsummarised) :
             task' = [task EXCEPT ![r] = [revision |-> revision, previous |-> content,
                                          batch |-> Batch(last), through |-> last]]
      BY <2>1 DEF ReadSnapshot
    <3>2. Batch(last) \subseteq Ids /\ last \in Ids /\ last <= Len(log)
      BY <3>1, BatchShape
    <3>3. [revision |-> revision, previous |-> content,
           batch |-> Batch(last), through |-> last] \in Task
      BY <3>2 DEF TypeOK, Task, Ids
    <3>4. task' \in [Request -> Task] /\ \A q \in Request : task'[q].through <= Len(log)
      BY <3>1, <3>2, <3>3 DEF TypeOK
    <3>5. QED
      BY <2>1, <3>4 DEF ReadSnapshot, Goto, TypeOK, Answering, summaryRow
  <2>2. CASE SkipRefresh(r)
    BY <2>2 DEF SkipRefresh, Goto, TypeOK, Answering, summaryRow
  <2>3. CASE SwapSummary(r)
    <3>1. task[r] \in Task
      BY DEF TypeOK
    <3>2. content' \in [Ids -> Nat]
      BY <2>3, <3>1 DEF SwapSummary, Task
    <3>3. cursor' \in 0..Len(log)
      BY <2>3, <3>1, <1>0 DEF SwapSummary, Task, TypeOK
    <3>4. revision' \in Nat
      BY <2>3 DEF SwapSummary, TypeOK
    <3>5. Finish(r) /\ UNCHANGED <<log, lostCursors, deletes>>
      BY <2>3 DEF SwapSummary
    <3>6. QED
      BY <3>2, <3>3, <3>4, <3>5, FinishType DEF TypeOK
  <2>4. CASE AbandonRefresh(r)
    BY <2>4, FinishType DEF AbandonRefresh, TypeOK, summaryRow
  <2>5. QED
    BY <1>2, <2>1, <2>2, <2>3, <2>4 DEF TaskStep
<1>3. ASSUME NEW i \in DOMAIN log, DeleteMessage(i) PROVE TypeOK'
  <2>1. log' \in Seq(Entry) /\ Len(log') = Len(log)
    BY <1>3, StateChangeType DEF DeleteMessage
  <2>2. QED
    BY <1>3, <2>1, <1>0 DEF DeleteMessage, TypeOK
<1>4. CASE UNCHANGED vars
  BY <1>4 DEF vars, TypeOK
<1>5. QED
  BY <1>1, <1>2, <1>3, <1>4 DEF Next

(* Every variable always has a value of its kind, and the cursor is NULL or the       *)
(* position of a message.                                                            *)
THEOREM TypeCorrect == Spec => []TypeOK
BY InitType, NextType, PTL DEF Spec

-----------------------------------------------------------------------------
(* The inductive invariant. *)

(* Initially nothing is folded and no task runs. *)
LEMMA InitInv == Init => SummaryInv
BY DEF Init, SummaryInv, Ids

(* A step that leaves the row alone and starts no task keeps the invariant. *)
LEMMA RowKept ==
    ASSUME TypeOK, SummaryInv, summaryRow' = summaryRow,
           \A q \in Request : pc'[q] = "summarising" =>
               pc[q] = "summarising" /\ task'[q] = task[q]
    PROVE  SummaryInv'
<1>1. revision' = revision /\ cursor' = cursor /\ content' = content
      /\ lostCursors' = lostCursors
  BY DEF summaryRow
<1>2. ASSUME NEW q \in Request, pc'[q] = "summarising" PROVE CurrentTask(q)'
  <2>1. CurrentTask(q) /\ task'[q] = task[q]
    BY <1>2 DEF SummaryInv
  <2>2. QED
    BY <2>1, <1>1 DEF CurrentTask
<1>3. QED
  BY <1>1, <1>2 DEF SummaryInv

(* Reading the row gives the task the current text and messages beyond the cursor. *)
LEMMA ReadKeeps ==
    ASSUME NEW r \in Request, TypeOK, SummaryInv, ReadSnapshot(r)
    PROVE  SummaryInv'
<1>1. PICK last \in TurnEnds(log, Unsummarised) :
         task' = [task EXCEPT ![r] = [revision |-> revision, previous |-> content,
                                      batch |-> Batch(last), through |-> last]]
  BY DEF ReadSnapshot
<1>2. revision' = revision /\ cursor' = cursor /\ content' = content
      /\ lostCursors' = lostCursors
  BY DEF ReadSnapshot, summaryRow
<1>3. ASSUME NEW q \in Request, pc'[q] = "summarising" PROVE CurrentTask(q)'
  <2>1. CASE q = r
    <3>1. task'[r] = [revision |-> revision, previous |-> content,
                      batch |-> Batch(last), through |-> last]
      BY <1>1 DEF TypeOK
    <3>2. last \in Batch(last) /\ \A i \in Batch(last) : i <= last /\ i > cursor
      BY <1>1, BatchShape
    <3>3. task'[r].revision = revision /\ task'[r].previous = content
          /\ task'[r].batch = Batch(last) /\ task'[r].through = last
      BY <3>1
    <3>4. revision <= revision
      BY DEF TypeOK
    <3>5. QED
      BY <2>1, <3>2, <3>3, <3>4, <1>2 DEF CurrentTask
  <2>2. CASE q # r
    <3>1. pc[q] = "summarising" /\ task'[q] = task[q]
      BY <1>1, <1>3, <2>2 DEF ReadSnapshot, Goto, TypeOK
    <3>2. CurrentTask(q)
      BY <3>1 DEF SummaryInv
    <3>3. QED
      BY <3>1, <3>2, <1>2 DEF CurrentTask
  <2>3. QED
    BY <2>1, <2>2
<1>4. QED
  BY <1>2, <1>3 DEF SummaryInv

(* The compare-and-swap folds the batch of a task that is still current: the batch   *)
(* moves from beyond the cursor to below it, and every other task goes stale.        *)
LEMMA SwapKeeps ==
    ASSUME NEW r \in Request, TypeOK, SummaryInv, SwapSummary(r)
    PROVE  SummaryInv'
<1> DEFINE B == task[r].batch
<1>1. CurrentTask(r) /\ task[r].revision = revision
  BY DEF SwapSummary, SummaryInv
<1>2. /\ task[r].previous = content
      /\ task[r].through \in B
      /\ \A i \in B : i <= task[r].through /\ i > cursor
  BY <1>1 DEF CurrentTask
<1>3. /\ revision \in Nat /\ lostCursors \in Nat /\ content \in [Ids -> Nat]
      /\ cursor \in Nat /\ task[r].through \in Nat /\ Ids \subseteq Nat
  <2>1. Len(log) \in Nat
    BY LenProperties DEF TypeOK
  <2>2. QED
    BY <2>1, SummaryAssumption DEF TypeOK, Task, Ids, SummaryAssumption
<1>4. /\ revision' = revision + 1
      /\ cursor' = task[r].through
      /\ lostCursors' = lostCursors
      /\ \A i \in Ids : content'[i] = content[i] + (IF i \in B THEN 1 ELSE 0)
  BY <1>2 DEF SwapSummary
<1>5. ASSUME NEW i \in Ids
      PROVE  /\ content'[i] <= 1 + lostCursors'
             /\ i > cursor' => content'[i] <= lostCursors'
  <2> HIDE DEF B
  <2>1. /\ content[i] \in Nat /\ i \in Nat
        /\ content[i] <= 1 + lostCursors
        /\ i > cursor => content[i] <= lostCursors
    BY <1>3 DEF SummaryInv
  <2>2. CASE i \in B
    BY <1>2, <1>3, <1>4, <2>1, <2>2
  <2>3. CASE i \notin B
    BY <1>2, <1>3, <1>4, <2>1, <2>3
  <2>4. QED
    BY <2>2, <2>3
<1>6. ASSUME NEW q \in Request, pc'[q] = "summarising" PROVE CurrentTask(q)'
  <2>1. q # r /\ pc[q] = "summarising" /\ task'[q] = task[q]
    BY <1>6 DEF SwapSummary, Finish, Goto, TypeOK
  <2>2. CurrentTask(q) /\ task[q].revision \in Nat
    BY <2>1 DEF SummaryInv, TypeOK, Task
  <2>3. task'[q].revision <= revision' /\ task'[q].revision # revision'
    BY <2>1, <2>2, <1>3, <1>4 DEF CurrentTask
  <2>4. QED
    BY <2>1, <2>2, <2>3 DEF CurrentTask
<1>7. QED
  BY <1>5, <1>6 DEF SummaryInv

(* Losing the cursor raises the bound by one, so the messages that were below the    *)
(* cursor may be folded once more.                                                   *)
LEMMA DeleteKeeps ==
    ASSUME NEW i \in DOMAIN log, TypeOK, SummaryInv, DeleteMessage(i)
    PROVE  SummaryInv'
<1>1. pc' = pc /\ task' = task /\ revision' = revision /\ content' = content
  BY DEF DeleteMessage
<1>2. lostCursors \in Nat /\ content \in [Ids -> Nat] /\ cursor \in Nat /\ Ids \subseteq Nat
  <2>1. Len(log) \in Nat
    BY LenProperties DEF TypeOK
  <2>2. QED
    BY <2>1, SummaryAssumption DEF TypeOK, Ids, SummaryAssumption
<1>3. CASE cursor # i
  <2>1. cursor' = cursor /\ lostCursors' = lostCursors
    BY <1>3 DEF DeleteMessage
  <2>2. QED
    BY <1>1, <2>1, RowKept DEF summaryRow
<1>4. CASE cursor = i
  <2>1. cursor' = 0 /\ lostCursors' = lostCursors + 1
    BY <1>4 DEF DeleteMessage
  <2>2. ASSUME NEW j \in Ids
        PROVE  /\ content'[j] <= 1 + lostCursors'
               /\ j > cursor' => content'[j] <= lostCursors'
    <3>1. content[j] \in Nat /\ content[j] <= 1 + lostCursors
      BY <1>2 DEF SummaryInv
    <3>2. QED
      BY <1>1, <1>2, <2>1, <3>1
  <2>3. ASSUME NEW q \in Request, pc'[q] = "summarising" PROVE CurrentTask(q)'
    <3>1. CurrentTask(q) /\ task[q].batch \subseteq Ids
      BY <1>1, <2>3 DEF SummaryInv, TypeOK, Task
    <3>2. \A j \in task[q].batch : j > 0
      BY <3>1, SummaryAssumption DEF Ids, SummaryAssumption
    <3>3. QED
      BY <1>1, <2>1, <3>1, <3>2 DEF CurrentTask
  <2>4. QED
    BY <2>2, <2>3 DEF SummaryInv
<1>5. QED
  BY <1>3, <1>4

(* Every step preserves the invariant: only three actions touch the row or hand a     *)
(* task its batch.                                                                   *)
LEMMA NextInv == TypeOK /\ SummaryInv /\ [Next]_vars => SummaryInv'
<1> SUFFICES ASSUME TypeOK, SummaryInv, [Next]_vars PROVE SummaryInv'
  OBVIOUS
<1>1. ASSUME NEW r \in Request, RequestStep(r) PROVE SummaryInv'
  <2>1. summaryRow' = summaryRow /\ task' = task
    BY <1>1 DEF RequestStep, Ask, StoreQuestion, FailAnswer, WriteAnswer, StoreAnswer, Rollback
  <2>2. \E next \in {"asking", "generating", "storing", "scheduled", "done"} : Goto(r, next)
    BY <1>1 DEF RequestStep, Ask, StoreQuestion, FailAnswer, WriteAnswer, StoreAnswer, Rollback
  <2>3. \A q \in Request : pc'[q] = "summarising" => pc[q] = "summarising"
    BY <2>2 DEF Goto, TypeOK
  <2>4. QED
    BY <2>1, <2>3, RowKept
<1>2. ASSUME NEW r \in Request, TaskStep(r) PROVE SummaryInv'
  <2>1. CASE ReadSnapshot(r)
    BY <2>1, ReadKeeps
  <2>2. CASE SkipRefresh(r)
    <3>1. \A q \in Request : pc'[q] = "summarising" => pc[q] = "summarising" /\ task'[q] = task[q]
      BY <2>2 DEF SkipRefresh, Goto, TypeOK
    <3>2. QED
      BY <2>2, <3>1, RowKept DEF SkipRefresh
  <2>3. CASE SwapSummary(r)
    BY <2>3, SwapKeeps
  <2>4. CASE AbandonRefresh(r)
    <3>1. \A q \in Request : pc'[q] = "summarising" => pc[q] = "summarising" /\ task'[q] = task[q]
      BY <2>4 DEF AbandonRefresh, Finish, Goto, TypeOK
    <3>2. QED
      BY <2>4, <3>1, RowKept DEF AbandonRefresh
  <2>5. QED
    BY <1>2, <2>1, <2>2, <2>3, <2>4 DEF TaskStep
<1>3. ASSUME NEW i \in DOMAIN log, DeleteMessage(i) PROVE SummaryInv'
  BY <1>3, DeleteKeeps
<1>4. CASE UNCHANGED vars
  BY <1>4, RowKept DEF vars, summaryRow
<1>5. QED
  BY <1>1, <1>2, <1>3, <1>4 DEF Next

(* The text, the cursor and the tasks in flight always agree as SummaryInv says. *)
THEOREM SummaryInvariant == Spec => []SummaryInv
BY InitType, NextType, InitInv, NextInv, PTL DEF Spec

(* However requests, tasks and deletions overlap, a message enters the summary at     *)
(* most once for every time the cursor was lost, plus once.                          *)
THEOREM FoldedAtMostOnce == Spec => []FoldedOnce
<1>1. SummaryInv => FoldedOnce
  BY DEF SummaryInv, FoldedOnce
<1>2. QED
  BY <1>1, SummaryInvariant, PTL

-----------------------------------------------------------------------------
(* Refinement. *)

(* A step of the tasks, the requests or a deletion is a fold, a loss of the cursor or *)
(* a stutter of the abstract summary.                                                *)
LEMMA StepRefines ==
    TypeOK /\ SummaryInv /\ [Next]_vars => [Rolling!Next]_(Rolling!summary)
<1> SUFFICES ASSUME TypeOK, SummaryInv, [Next]_vars
             PROVE  Rolling!Next \/ UNCHANGED Rolling!summary
  OBVIOUS
<1> USE DEF Rolling!summary
<1>1. ASSUME NEW r \in Request, RequestStep(r) PROVE UNCHANGED Rolling!summary
  BY <1>1 DEF RequestStep, Ask, StoreQuestion, FailAnswer, WriteAnswer, StoreAnswer, Rollback,
              summaryRow
<1>2. ASSUME NEW r \in Request, TaskStep(r) PROVE Rolling!Next \/ UNCHANGED Rolling!summary
  <2>1. CASE ReadSnapshot(r) \/ SkipRefresh(r) \/ AbandonRefresh(r)
    BY <2>1 DEF ReadSnapshot, SkipRefresh, AbandonRefresh, summaryRow
  <2>2. CASE SwapSummary(r)
    <3> DEFINE B == task[r].batch
    <3>1. CurrentTask(r) /\ task[r].revision = revision
      BY <2>2 DEF SwapSummary, SummaryInv
    <3>2. /\ task[r].previous = content
          /\ task[r].through \in B
          /\ \A i \in B : i <= task[r].through /\ i > cursor
      BY <3>1 DEF CurrentTask
    <3>3. B \in SUBSET Ids
      BY DEF TypeOK, Task
    <3>4. Rolling!Fold(B)
      BY <2>2, <3>2 DEF Rolling!Fold, SwapSummary
    <3>5. QED
      BY <3>3, <3>4 DEF Rolling!Next
  <2>3. QED
    BY <1>2, <2>1, <2>2 DEF TaskStep
<1>3. ASSUME NEW i \in DOMAIN log, DeleteMessage(i)
      PROVE  Rolling!Next \/ UNCHANGED Rolling!summary
  <2>1. i # 0
    BY LenProperties DEF TypeOK
  <2>2. QED
    BY <1>3, <2>1 DEF DeleteMessage, Rolling!Next, Rolling!LoseCursor
<1>4. CASE UNCHANGED vars
  BY <1>4 DEF vars
<1>5. QED
  BY <1>1, <1>2, <1>3, <1>4 DEF Next

(* The tasks, reading, calling the model and swapping at different times, together    *)
(* implement the summary that changes by indivisible folds.                          *)
THEOREM ImplementsRollingSummary == Spec => RollingSpec
<1>1. Init => Rolling!Init
  BY DEF Init, Rolling!Init
<1>2. QED
  BY <1>1, StepRefines, TypeCorrect, SummaryInvariant, PTL DEF Spec, RollingSpec, Rolling!Spec

-----------------------------------------------------------------------------
(* What holds while requests do not overlap. *)

\* Requests that do not overlap, and no message deleted from outside.
OneByOne == MaxOpen <= 1 /\ MaxDeletes = 0

OneAtATime ==
    \A p, q \in Request : pc[p] \in Answering /\ pc[q] \in Answering => p = q

\* A message that is not committed yet is the last one, its request's question or answer.
FlushedIsLast ==
    \A i \in DOMAIN log : log[i].state = "flushed" =>
        /\ i = Len(log)
        /\ \/ pc[log[i].owner] = "asking" /\ log[i].role = "user"
           \/ pc[log[i].owner] = "storing" /\ log[i].role = "assistant"

\* While an answer is prepared, a question is the last message that is visible.
QuestionIsLast ==
    \A q \in Request : pc[q] \in {"generating", "storing"} =>
        \E u \in Visible : log[u].role = "user" /\ \A k \in Visible : k <= u

\* So every answer closes a turn.
Answered(l, S) == \A k \in S : l[k].role = "assistant" => k \in TurnEnds(l, S)
AnswersFollow == Answered(log, Visible)

\* The cursor is at a turn that left the window.
AtDropped(l, S, c) == c = 0 \/ c \in Dropped(l, S)
CursorDropped == AtDropped(log, Visible, cursor)

\* The summary stands for the turns up to the cursor, and the batch of a task that is
\* still current for those from the cursor to its end.
Accounted == \A i \in Ids : content[i] > 0 <=> i \in TurnsWithin(log, Visible, 0, cursor)

BatchExact ==
    \A r \in Request : pc[r] = "summarising" /\ task[r].revision = revision =>
        /\ task[r].through \in Dropped(log, Visible)
        /\ task[r].batch = TurnsWithin(log, Visible, cursor, task[r].through)

TalkInv == OneAtATime /\ FlushedIsLast /\ QuestionIsLast /\ AnswersFollow
FoldInv == CursorDropped /\ Accounted /\ BatchExact

(* What the types say of the log and of the messages that are visible in it.          *)
LEMMA LogFacts ==
    ASSUME TypeOK
    PROVE  /\ log \in Seq(Entry) /\ Len(log) \in Nat /\ DOMAIN log = 1..Len(log)
           /\ Visible \subseteq 1..Len(log)
           /\ Visible \subseteq Nat /\ 0 \notin Visible
           /\ Visible \subseteq Ids
           /\ Messages(log, Visible)
           /\ \A i \in DOMAIN log : /\ log[i] \in Entry
                                    /\ log[i].role \in {"user", "assistant"}
                                    /\ log[i].owner \in Request
                                    /\ log[i].state \in {"flushed", "committed", "gone"}
           /\ \A i \in Visible : log[i].role \in {"user", "assistant"}
<1>1. log \in Seq(Entry) /\ Len(log) \in Nat /\ DOMAIN log = 1..Len(log)
  BY LenProperties DEF TypeOK
<1>2. Visible \subseteq 1..Len(log)
  BY <1>1 DEF Visible
<1>3. \A i \in DOMAIN log : log[i] \in Entry
  BY <1>1, ElementOfSeq
<1>4. \A i \in DOMAIN log : /\ log[i].role \in {"user", "assistant"}
                            /\ log[i].owner \in Request
                            /\ log[i].state \in {"flushed", "committed", "gone"}
                            /\ log[i].size \in Nat
  BY <1>3, SummaryAssumption DEF Entry
<1>5. IsFiniteSet(Visible)
  <2>1. IsFiniteSet(1..Len(log))
    <3>1. 1 \in Int /\ Len(log) \in Int
      BY <1>1
    <3> QED BY <3>1, FS_Interval
  <2> QED BY <1>2, <2>1, FS_Subset
<1>6. Visible \subseteq Nat /\ 0 \notin Visible
  BY <1>1, <1>2
<1>7. Visible \subseteq Ids
  <2>1. MaxMessages \in Nat /\ Len(log) <= MaxMessages
    BY SummaryAssumption DEF TypeOK
  <2> QED BY <1>1, <1>2, <2>1 DEF Ids
<1>8. Messages(log, Visible)
  BY <1>1, <1>2, <1>4, <1>5, <1>6 DEF Messages
<1> QED BY <1>1, <1>2, <1>3, <1>4, <1>6, <1>7, <1>8

(* What a conversation that grows leaves as it was.                                  *)
LEMMA FoldsStay ==
    ASSUME NEW l, NEW S, NEW m, NEW R, Messages(l, S), Messages(m, R), Grows(l, S, m, R),
           \A i \in R : m[i].role \in {"user", "assistant"}, 0 \notin S,
           NEW c, AtDropped(l, S, c)
    PROVE  /\ AtDropped(m, R, c)
           /\ TurnsWithin(m, R, 0, c) = TurnsWithin(l, S, 0, c)
           /\ \A t \in Dropped(l, S) : /\ t \in Dropped(m, R)
                                       /\ TurnsWithin(m, R, c, t) = TurnsWithin(l, S, c, t)
<1>1. \A t \in Dropped(l, S) : t \in Dropped(m, R)
  BY DroppedStays
<1>2. Dropped(l, S) \subseteq S /\ S \subseteq Nat
  BY DEF Dropped, TurnEnds, Messages
<1>3. c \in Nat /\ (c = 0 \/ c \in S)
  <2>1. c = 0 \/ c \in Dropped(l, S)
    BY DEF AtDropped
  <2>2. c \in Dropped(l, S) => c \in S /\ c \in Nat
    BY <1>2
  <2>3. c = 0 => c \in Nat
    OBVIOUS
  <2> QED BY <2>1, <2>2, <2>3
<1>4. AtDropped(m, R, c)
  BY <1>1 DEF AtDropped
<1>5. TurnsWithin(m, R, 0, c) = TurnsWithin(l, S, 0, c)
  <2>1. 0 \in Nat
    OBVIOUS
  <2> QED BY <1>3, <2>1, WithinStays
<1>6. \A t \in Dropped(l, S) : TurnsWithin(m, R, c, t) = TurnsWithin(l, S, c, t)
  <2> TAKE t \in Dropped(l, S)
  <2>1. t \in S
    BY <1>2
  <2> QED BY <1>3, <2>1, WithinStays
<1> QED BY <1>1, <1>4, <1>5, <1>6

(* A step that only adds to the conversation leaves the row and the tasks as exact    *)
(* as they were.                                                                     *)
LEMMA FoldsKept ==
    ASSUME TypeOK, TypeOK', FoldInv, Grows(log, Visible, log', Visible'),
           summaryRow' = summaryRow,
           \A q \in Request : pc'[q] = "summarising" =>
               pc[q] = "summarising" /\ task'[q] = task[q]
    PROVE  FoldInv'
<1> DEFINE S == Visible
           R == Visible'
<1>1. Messages(log, S) /\ 0 \notin S
  BY LogFacts
<1>2. Messages(log', R) /\ \A i \in R : log'[i].role \in {"user", "assistant"}
  <2>1. (Messages(log, Visible))' /\ (\A i \in Visible : log[i].role \in {"user", "assistant"})'
    BY LogFacts, PTL
  <2> QED BY <2>1
<1>3. AtDropped(log, S, cursor)
  BY DEF FoldInv, CursorDropped
<1>4. /\ AtDropped(log', R, cursor)
      /\ TurnsWithin(log', R, 0, cursor) = TurnsWithin(log, S, 0, cursor)
      /\ \A t \in Dropped(log, S) :
            /\ t \in Dropped(log', R)
            /\ TurnsWithin(log', R, cursor, t) = TurnsWithin(log, S, cursor, t)
  <2>1. Grows(log, S, log', R)
    OBVIOUS
  <2> HIDE DEF S, R
  <2> QED BY <1>1, <1>2, <1>3, <2>1, FoldsStay
<1>5. revision' = revision /\ cursor' = cursor /\ content' = content
  BY DEF summaryRow
<1>6. CursorDropped'
  BY <1>4, <1>5 DEF CursorDropped
<1>7. Accounted'
  BY <1>4, <1>5 DEF FoldInv, Accounted
<1>8. BatchExact'
  <2> SUFFICES ASSUME NEW q \in Request, pc'[q] = "summarising", task'[q].revision = revision'
               PROVE  /\ task'[q].through \in Dropped(log', Visible')
                      /\ task'[q].batch = TurnsWithin(log', Visible', cursor', task'[q].through)
    BY DEF BatchExact
  <2>1. pc[q] = "summarising" /\ task'[q] = task[q]
    OBVIOUS
  <2>2. task[q].through \in Dropped(log, S) /\ task[q].batch = TurnsWithin(log, S, cursor, task[q].through)
    BY <1>5, <2>1 DEF FoldInv, BatchExact
  <2> QED BY <1>4, <1>5, <2>1, <2>2
<1> QED BY <1>6, <1>7, <1>8 DEF FoldInv
-----------------------------------------------------------------------------
(* What a step does to the messages that are visible. *)

(* With the same messages visible, the conversation grew by none.                    *)
LEMMA SameGrows ==
    ASSUME TypeOK, Visible' = Visible,
           \A i \in Visible : log'[i].role = log[i].role /\ log'[i].size = log[i].size
    PROVE  Grows(log, Visible, log', Visible')
BY DEF Grows

(* Flushing adds a last message that nobody sees yet.                                *)
LEMMA FlushGrows ==
    ASSUME TypeOK, NEW r \in Request, NEW role \in {"user", "assistant"}, NEW size \in Sizes,
           Flush(r, role, size)
    PROVE  /\ Visible' = Visible /\ \A i \in Visible : log'[i] = log[i]
           /\ Len(log') = Len(log) + 1 /\ DOMAIN log' = 1..Len(log')
           /\ \A i \in DOMAIN log : log'[i] = log[i]
           /\ log'[Len(log')].state = "flushed" /\ log'[Len(log')].role = role
           /\ log'[Len(log')].owner = r
<1> DEFINE e == [role |-> role, size |-> size, owner |-> r, state |-> "flushed"]
<1>1. log \in Seq(Entry) /\ Len(log) \in Nat /\ DOMAIN log = 1..Len(log)
  BY LogFacts
<1>2. e \in Entry /\ log' = Append(log, e)
  BY DEF Entry, Flush
<1>3. e.state = "flushed" /\ e.role = role /\ e.owner = r
  OBVIOUS
<1> HIDE DEF e
<1>4. /\ Len(log') = Len(log) + 1 /\ log' \in Seq(Entry)
      /\ \A i \in 1..Len(log) : log'[i] = log[i]
      /\ log'[Len(log) + 1] = e
  BY <1>1, <1>2, AppendProperties
<1>5. DOMAIN log' = 1..Len(log')
  BY <1>4, LenProperties
<1>6. Visible' = Visible
  <2>1. Visible' = {i \in DOMAIN log' : log'[i].state = "committed"}
    BY DEF Visible
  <2>2. \A i \in DOMAIN log' : i \in DOMAIN log \/ i = Len(log) + 1
    BY <1>1, <1>4, <1>5
  <2>3. DOMAIN log \subseteq DOMAIN log'
    BY <1>1, <1>4, <1>5
  <2> QED BY <1>1, <1>3, <1>4, <2>1, <2>2, <2>3 DEF Visible
<1>7. Visible \subseteq DOMAIN log
  BY DEF Visible
<1> QED BY <1>1, <1>3, <1>4, <1>5, <1>6, <1>7

(* A transaction that ends settles the last message, the only one that is flushed.   *)
LEMMA SettleLast ==
    ASSUME TypeOK, FlushedIsLast, NEW r \in Request, NEW s \in {"committed", "gone"}, Settle(r, s)
    PROVE  /\ Len(log') = Len(log) /\ DOMAIN log' = DOMAIN log /\ Len(log) \in DOMAIN log
           /\ log[Len(log)].owner = r /\ log[Len(log)].state = "flushed"
           /\ \A i \in DOMAIN log : log'[i].role = log[i].role /\ log'[i].size = log[i].size
           /\ \A i \in DOMAIN log' : log'[i].state # "flushed"
           /\ Visible' = IF s = "committed" THEN Visible \cup {Len(log)} ELSE Visible
<1>1. PICK i \in DOMAIN log : /\ log[i].owner = r /\ log[i].state = "flushed"
                              /\ log' = [log EXCEPT ![i].state = s]
  BY DEF Settle
<1>2. i = Len(log) /\ \A j \in DOMAIN log : log[j].state = "flushed" => j = i
  BY <1>1 DEF FlushedIsLast
<1>3. log \in Seq(Entry) /\ DOMAIN log = 1..Len(log) /\ log[i] \in Entry
  BY LogFacts
<1>4. /\ DOMAIN log' = DOMAIN log /\ Len(log') = Len(log)
  <2>1. DOMAIN log' = DOMAIN log
    BY <1>1
  <2>2. Len(log') = Len(log)
    <3>1. s \in {"flushed", "committed", "gone"}
      OBVIOUS
    <3> QED BY <1>1, <3>1, StateChangeType
  <2> QED BY <2>1, <2>2
<1>5. /\ \A j \in DOMAIN log : j # i => log'[j] = log[j]
      /\ log'[i] = [log[i] EXCEPT !.state = s]
  BY <1>1
<1>6. log'[i].state = s /\ log'[i].role = log[i].role /\ log'[i].size = log[i].size
  BY <1>3, <1>5 DEF Entry
<1>7. \A j \in DOMAIN log : log'[j].role = log[j].role /\ log'[j].size = log[j].size
  BY <1>5, <1>6
<1>8. \A j \in DOMAIN log' : log'[j].state # "flushed"
  BY <1>2, <1>4, <1>5, <1>6
<1>9. Visible' = IF s = "committed" THEN Visible \cup {i} ELSE Visible
  <2>1. Visible' = {j \in DOMAIN log' : log'[j].state = "committed"}
    BY DEF Visible
  <2> QED BY <1>1, <1>4, <1>5, <1>6, <2>1 DEF Visible
<1> QED BY <1>1, <1>2, <1>4, <1>7, <1>8, <1>9

(* The conversation of requests that do not overlap.                                 *)

(* Initially there is no message and nobody answers.                                 *)
LEMMA TalkInit == Init => TalkInv
<1> SUFFICES ASSUME Init PROVE TalkInv
  OBVIOUS
<1>1. DOMAIN log = {} /\ Visible = {}
  BY DEF Init, Visible
<1>2. \A q \in Request : pc[q] = "idle"
  BY DEF Init
<1> QED BY <1>1, <1>2 DEF TalkInv, OneAtATime, FlushedIsLast, QuestionIsLast, AnswersFollow,
                          Answered, Answering

(* Answers that followed a question still do when the conversation grows.           *)
LEMMA OldAnswers ==
    ASSUME TypeOK, TypeOK', AnswersFollow, Grows(log, Visible, log', Visible'),
           \A e \in Visible' : /\ log'[e].role = "assistant"
                               /\ e \notin TurnEnds(log', Visible')
                               => e \in Visible /\ log[e].role = "assistant"
    PROVE  AnswersFollow'
<1> DEFINE S == Visible
           R == Visible'
<1>1. Grows(log, S, log', R)
  OBVIOUS
<1>2. Messages(log', R)
  <2>1. (Messages(log, Visible))'
    BY LogFacts, PTL
  <2> QED BY <2>1
<1>3. \A e \in S : e \in TurnEnds(log', R) <=> e \in TurnEnds(log, S)
  <2> HIDE DEF S, R
  <2> QED BY <1>1, <1>2, TurnsStay
<1>4. \A e \in S : log[e].role = "assistant" => e \in TurnEnds(log, S)
  BY DEF AnswersFollow, Answered
<1>5. \A e \in R : log'[e].role = "assistant" => e \in TurnEnds(log', R)
  BY <1>3, <1>4
<1> QED BY <1>5 DEF AnswersFollow, Answered

(* Also when it grew by none.                                                        *)
LEMMA SameAnswered ==
    ASSUME TypeOK, TypeOK', AnswersFollow, Visible' = Visible,
           \A i \in Visible : log'[i].role = log[i].role /\ log'[i].size = log[i].size
    PROVE  AnswersFollow'
BY SameGrows, OldAnswers

(* With no message flushed, the places of requests do not matter to it.              *)
LEMMA AskTalk ==
    ASSUME OneByOne, TypeOK, TypeOK', TalkInv, NEW r \in Request, Ask(r)
    PROVE  TalkInv' /\ Grows(log, Visible, log', Visible')
<1>1. PICK size \in Sizes : Flush(r, "user", size)
  BY DEF Ask
<1>2. /\ Visible' = Visible /\ \A i \in Visible : log'[i] = log[i]
      /\ Len(log') = Len(log) + 1 /\ DOMAIN log' = 1..Len(log')
      /\ \A i \in DOMAIN log : log'[i] = log[i]
      /\ log'[Len(log')].state = "flushed" /\ log'[Len(log')].role = "user"
      /\ log'[Len(log')].owner = r
  BY <1>1, FlushGrows
<1>3. \A q \in Request : pc[q] \notin Answering
  <2> DEFINE A == {q \in Request : pc[q] \in Answering}
  <2> SUFFICES ASSUME NEW p \in Request, pc[p] \in Answering PROVE FALSE
    OBVIOUS
  <2>1. A = {p}
    BY DEF TalkInv, OneAtATime
  <2>2. Cardinality(A) = 1
    BY <2>1, FS_Singleton
  <2>3. Cardinality(A) < MaxOpen
    BY DEF Ask
  <2> HIDE DEF A
  <2> QED BY <2>2, <2>3, SummaryAssumption DEF OneByOne
<1>4. \A q \in Request : pc'[q] = IF q = r THEN "asking" ELSE pc[q]
  BY DEF Ask, Goto, TypeOK
<1>5. OneAtATime'
  BY <1>3, <1>4 DEF OneAtATime
<1>6. FlushedIsLast'
  <2>1. \A i \in DOMAIN log : log[i].state # "flushed"
    BY <1>3, LogFacts DEF TalkInv, FlushedIsLast, Answering
  <2>2. \A i \in DOMAIN log' : i \in DOMAIN log \/ i = Len(log')
    BY <1>2, LogFacts
  <2>3. \A i \in DOMAIN log' : log'[i].state = "flushed" => i = Len(log')
    BY <1>2, <2>1, <2>2
  <2>4. pc'[log'[Len(log')].owner] = "asking" /\ log'[Len(log')].role = "user"
    BY <1>2, <1>4
  <2> QED BY <2>3, <2>4 DEF FlushedIsLast
<1>7. QuestionIsLast'
  BY <1>3, <1>4 DEF QuestionIsLast, Answering
<1>8. Grows(log, Visible, log', Visible')
  BY <1>2, SameGrows
<1>9. AnswersFollow'
  BY <1>2, <1>8, SameAnswered DEF TalkInv
<1> QED BY <1>5, <1>6, <1>7, <1>8, <1>9 DEF TalkInv
(* The committed question is the last message that is visible.                       *)
LEMMA StoreQuestionTalk ==
    ASSUME TypeOK, TypeOK', TalkInv, NEW r \in Request, StoreQuestion(r)
    PROVE  TalkInv' /\ Grows(log, Visible, log', Visible')
<1>1. Settle(r, "committed") /\ pc[r] = "asking"
  BY DEF StoreQuestion
<1>2. /\ Len(log') = Len(log) /\ DOMAIN log' = DOMAIN log /\ Len(log) \in DOMAIN log
      /\ log[Len(log)].owner = r /\ log[Len(log)].state = "flushed"
      /\ \A i \in DOMAIN log : log'[i].role = log[i].role /\ log'[i].size = log[i].size
      /\ \A i \in DOMAIN log' : log'[i].state # "flushed"
      /\ Visible' = Visible \cup {Len(log)}
  BY <1>1, SettleLast DEF TalkInv
<1>3. log[Len(log)].role = "user"
  BY <1>1, <1>2 DEF TalkInv, FlushedIsLast
<1>4. \A q \in Request : pc'[q] = IF q = r THEN "generating" ELSE pc[q]
  BY DEF StoreQuestion, Goto, TypeOK
<1>5. \A q \in Request : pc[q] \in Answering => q = r
  BY <1>1 DEF TalkInv, OneAtATime, Answering
<1>6. OneAtATime'
  BY <1>4, <1>5 DEF OneAtATime
<1>7. FlushedIsLast'
  BY <1>2 DEF FlushedIsLast
<1>8. /\ Visible \subseteq DOMAIN log /\ Visible \subseteq Nat /\ Len(log) \in Nat
      /\ \A i \in Visible : i < Len(log)
  <2>1. Visible \subseteq 1..Len(log) /\ Len(log) \in Nat /\ DOMAIN log = 1..Len(log)
    BY LogFacts
  <2>2. Len(log) \notin Visible
    BY <1>2 DEF Visible
  <2> QED BY <2>1, <2>2
<1>9. QuestionIsLast'
  <2>1. Len(log) \in Visible' /\ log'[Len(log)].role = "user"
    BY <1>2, <1>3
  <2>2. \A k \in Visible' : k <= Len(log)
    BY <1>2, <1>8
  <2> QED BY <2>1, <2>2 DEF QuestionIsLast
<1>10. Grows(log, Visible, log', Visible')
  BY <1>2, <1>8 DEF Grows
<1>11. AnswersFollow'
  <2>1. \A e \in Visible' : log'[e].role = "assistant" => e \in Visible /\ log[e].role = "assistant"
    BY <1>2, <1>3, <1>8
  <2> QED BY <1>10, <2>1, OldAnswers DEF TalkInv
<1> QED BY <1>6, <1>7, <1>9, <1>10, <1>11 DEF TalkInv

(* The committed answer directly follows its question, so it closes a turn.          *)
LEMMA StoreAnswerTalk ==
    ASSUME TypeOK, TypeOK', TalkInv, NEW r \in Request, StoreAnswer(r)
    PROVE  TalkInv' /\ Grows(log, Visible, log', Visible')
<1>1. Settle(r, "committed") /\ pc[r] = "storing"
  BY DEF StoreAnswer
<1>2. /\ Len(log') = Len(log) /\ DOMAIN log' = DOMAIN log /\ Len(log) \in DOMAIN log
      /\ log[Len(log)].owner = r /\ log[Len(log)].state = "flushed"
      /\ \A i \in DOMAIN log : log'[i].role = log[i].role /\ log'[i].size = log[i].size
      /\ \A i \in DOMAIN log' : log'[i].state # "flushed"
      /\ Visible' = Visible \cup {Len(log)}
  BY <1>1, SettleLast DEF TalkInv
<1>3. log[Len(log)].role = "assistant"
  BY <1>1, <1>2 DEF TalkInv, FlushedIsLast
<1>4. /\ \A q \in Request : q # r => pc'[q] = pc[q]
      /\ pc'[r] \in {"scheduled", "done"}
  BY DEF StoreAnswer, Goto, TypeOK
<1>5. \A q \in Request : pc[q] \in Answering => q = r
  BY <1>1 DEF TalkInv, OneAtATime, Answering
<1>6. \A q \in Request : pc'[q] \notin Answering
  BY <1>4, <1>5 DEF Answering
<1>7. OneAtATime' /\ QuestionIsLast'
  BY <1>6 DEF OneAtATime, QuestionIsLast, Answering
<1>8. FlushedIsLast'
  BY <1>2 DEF FlushedIsLast
<1>9. /\ Visible \subseteq DOMAIN log /\ Visible \subseteq Nat /\ Len(log) \in Nat
      /\ \A i \in Visible : i < Len(log)
  <2>1. Visible \subseteq 1..Len(log) /\ Len(log) \in Nat /\ DOMAIN log = 1..Len(log)
    BY LogFacts
  <2>2. Len(log) \notin Visible
    BY <1>2 DEF Visible
  <2> QED BY <2>1, <2>2
<1>10. Grows(log, Visible, log', Visible')
  BY <1>2, <1>9 DEF Grows
<1>11. Len(log) \in TurnEnds(log', Visible')
  <2>1. PICK u \in Visible : log[u].role = "user" /\ \A k \in Visible : k <= u
    BY <1>1 DEF TalkInv, QuestionIsLast
  <2>2. u \in Visible' /\ u < Len(log) /\ log'[u].role = "user"
    BY <1>2, <1>9, <2>1
  <2>3. \A k \in Visible' : ~(u < k /\ k < Len(log))
    BY <1>2, <1>9, <2>1
  <2>4. log'[Len(log)].role = "assistant" /\ Len(log) \in Visible'
    BY <1>2, <1>3
  <2> QED BY <2>2, <2>3, <2>4 DEF TurnEnds, Closes
<1>12. AnswersFollow'
  <2>1. \A e \in Visible' : /\ log'[e].role = "assistant"
                            /\ e \notin TurnEnds(log', Visible')
                            => e \in Visible /\ log[e].role = "assistant"
    BY <1>2, <1>9, <1>11
  <2> QED BY <1>10, <2>1, OldAnswers DEF TalkInv
<1> QED BY <1>7, <1>8, <1>10, <1>12 DEF TalkInv

(* A message that is rolled back was never visible, and its request is over.         *)
LEMMA RollbackTalk ==
    ASSUME TypeOK, TypeOK', TalkInv, NEW r \in Request, Rollback(r)
    PROVE  TalkInv' /\ Grows(log, Visible, log', Visible')
<1>1. Settle(r, "gone") /\ pc[r] \in Answering
  BY DEF Rollback, Answering
<1>2. /\ DOMAIN log' = DOMAIN log
      /\ \A i \in DOMAIN log : log'[i].role = log[i].role /\ log'[i].size = log[i].size
      /\ \A i \in DOMAIN log' : log'[i].state # "flushed"
      /\ Visible' = Visible
  BY <1>1, SettleLast DEF TalkInv
<1>3. \A q \in Request : pc'[q] = IF q = r THEN "done" ELSE pc[q]
  BY DEF Rollback, Goto, TypeOK
<1>4. \A q \in Request : pc'[q] \notin Answering
  BY <1>1, <1>3 DEF TalkInv, OneAtATime, Answering
<1>5. OneAtATime' /\ QuestionIsLast'
  BY <1>4 DEF OneAtATime, QuestionIsLast, Answering
<1>6. FlushedIsLast'
  BY <1>2 DEF FlushedIsLast
<1>7. \A i \in Visible : log'[i].role = log[i].role /\ log'[i].size = log[i].size
  BY <1>2 DEF Visible
<1>8. AnswersFollow'
  BY <1>2, <1>7, SameAnswered DEF TalkInv
<1>9. Grows(log, Visible, log', Visible')
  BY <1>2, <1>7, SameGrows
<1> QED BY <1>5, <1>6, <1>8, <1>9 DEF TalkInv

(* The answer is flushed while its question is the last message that is visible.     *)
LEMMA WriteAnswerTalk ==
    ASSUME TypeOK, TypeOK', TalkInv, NEW r \in Request, WriteAnswer(r)
    PROVE  TalkInv' /\ Grows(log, Visible, log', Visible')
<1>1. PICK size \in Sizes : Flush(r, "assistant", size)
  BY DEF WriteAnswer
<1>2. /\ Visible' = Visible /\ \A i \in Visible : log'[i] = log[i]
      /\ Len(log') = Len(log) + 1 /\ DOMAIN log' = 1..Len(log')
      /\ \A i \in DOMAIN log : log'[i] = log[i]
      /\ log'[Len(log')].state = "flushed" /\ log'[Len(log')].role = "assistant"
      /\ log'[Len(log')].owner = r
  BY <1>1, FlushGrows
<1>3. pc[r] = "generating" /\ \A q \in Request : pc[q] \in Answering => q = r
  BY DEF WriteAnswer, TalkInv, OneAtATime, Answering
<1>4. \A q \in Request : pc'[q] = IF q = r THEN "storing" ELSE pc[q]
  BY DEF WriteAnswer, Goto, TypeOK
<1>5. OneAtATime'
  BY <1>3, <1>4 DEF OneAtATime
<1>6. FlushedIsLast'
  <2>1. \A i \in DOMAIN log : log[i].state # "flushed"
    BY <1>3, LogFacts DEF TalkInv, FlushedIsLast, Answering
  <2>2. \A i \in DOMAIN log' : i \in DOMAIN log \/ i = Len(log')
    BY <1>2, LogFacts
  <2>3. \A i \in DOMAIN log' : log'[i].state = "flushed" => i = Len(log')
    BY <1>2, <2>1, <2>2
  <2>4. pc'[log'[Len(log')].owner] = "storing" /\ log'[Len(log')].role = "assistant"
    BY <1>2, <1>4
  <2> QED BY <2>3, <2>4 DEF FlushedIsLast
<1>7. QuestionIsLast'
  <2>1. PICK u \in Visible : log[u].role = "user" /\ \A k \in Visible : k <= u
    BY <1>3 DEF TalkInv, QuestionIsLast
  <2>2. u \in Visible' /\ log'[u].role = "user" /\ \A k \in Visible' : k <= u
    BY <1>2, <2>1
  <2> QED BY <2>2 DEF QuestionIsLast
<1>8. Grows(log, Visible, log', Visible')
  BY <1>2, SameGrows
<1>9. AnswersFollow'
  BY <1>2, <1>8, SameAnswered DEF TalkInv
<1> QED BY <1>5, <1>6, <1>7, <1>8, <1>9 DEF TalkInv

(* A step that leaves the messages alone and starts no answer.                       *)
LEMMA QuietTalk ==
    ASSUME TypeOK, TypeOK', TalkInv, log' = log,
           \A q \in Request : pc'[q] \in Answering => pc'[q] = pc[q],
           \A q \in Request : pc[q] \in {"asking", "storing"} => pc'[q] = pc[q]
    PROVE  TalkInv' /\ Grows(log, Visible, log', Visible')
<1>1. Visible' = Visible
  BY DEF Visible
<1>2. OneAtATime'
  BY DEF TalkInv, OneAtATime
<1>3. FlushedIsLast'
  BY LogFacts DEF TalkInv, FlushedIsLast
<1>4. QuestionIsLast'
  BY <1>1 DEF TalkInv, QuestionIsLast, Answering
<1>5. AnswersFollow'
  BY <1>1, SameAnswered DEF TalkInv
<1>6. Grows(log, Visible, log', Visible')
  BY <1>1, SameGrows
<1> QED BY <1>2, <1>3, <1>4, <1>5, <1>6 DEF TalkInv

(* A task reads whole turns that left the window: those between the cursor and last. *)
LEMMA ReadFolds ==
    ASSUME TypeOK, TypeOK', TalkInv, FoldInv, NEW r \in Request, ReadSnapshot(r)
    PROVE  FoldInv'
<1> DEFINE S == Visible
           U == Unsummarised
<1>1. PICK last \in TurnEnds(log, Unsummarised) :
         task' = [task EXCEPT ![r] = [revision |-> revision, previous |-> content,
                                      batch |-> Batch(last), through |-> last]]
  BY DEF ReadSnapshot
<1>2. /\ log' = log /\ revision' = revision /\ cursor' = cursor /\ content' = content
      /\ Visible' = Visible
  BY DEF ReadSnapshot, summaryRow, Visible
<1>3. /\ Messages(log, S) /\ 0 \notin S /\ \A i \in S : log[i].role \in {"user", "assistant"}
      /\ \A k \in S : log[k].role = "assistant" => k \in TurnEnds(log, S)
      /\ cursor = 0 \/ cursor \in Dropped(log, S)
  BY LogFacts DEF TalkInv, AnswersFollow, Answered, FoldInv, CursorDropped, AtDropped
<1>4. U = {i \in Candidates(log, S) : i > cursor}
  BY DEF Unsummarised
<1>5. /\ TurnEnds(log, U) = {e \in Dropped(log, S) : e > cursor}
      /\ \A e \in TurnEnds(log, U) : TurnOf(log, U, e) = TurnOf(log, S, e)
  <2> HIDE DEF S, U
  <2> QED BY <1>3, <1>4, CandidateTurns
<1>6. /\ Dropped(log, S) \subseteq TurnEnds(log, S) /\ TurnEnds(log, S) \subseteq Nat
      /\ cursor \in Nat /\ last \in Dropped(log, S) /\ last > cursor
  <2>1. TurnEnds(log, S) \subseteq S /\ S \subseteq Nat
    BY LogFacts DEF TurnEnds
  <2>2. Dropped(log, S) \subseteq TurnEnds(log, S)
    BY DEF Dropped
  <2>3. last \in Dropped(log, S) /\ last > cursor
    BY <1>1, <1>5
  <2>4. cursor \in Nat
    BY LogFacts DEF TypeOK
  <2> QED BY <2>1, <2>2, <2>3, <2>4
<1>7. {e \in TurnEnds(log, U) : e <= last} = {e \in TurnEnds(log, S) : cursor < e /\ e <= last}
  <2>1. \A e \in TurnEnds(log, S) : e <= last => e \in Dropped(log, S)
    <3> HIDE DEF S
    <3> QED BY <1>3, <1>6, DroppedBefore
  <2> QED BY <1>5, <1>6, <2>1
<1>8. Batch(last) = TurnsWithin(log, S, cursor, last)
  <2>1. \A e \in {f \in TurnEnds(log, U) : f <= last} : TurnOf(log, U, e) = TurnOf(log, S, e)
    BY <1>5
  <2>2. Batch(last) = UNION {TurnOf(log, U, e) : e \in {f \in TurnEnds(log, U) : f <= last}}
    BY DEF Batch, TurnMessages
  <2>3. Batch(last) = UNION {TurnOf(log, S, e) : e \in {f \in TurnEnds(log, U) : f <= last}}
    BY <2>1, <2>2
  <2> QED BY <1>7, <2>3 DEF TurnsWithin, TurnMessages
<1>9. BatchExact'
  <2> SUFFICES ASSUME NEW q \in Request, pc'[q] = "summarising", task'[q].revision = revision'
               PROVE  /\ task'[q].through \in Dropped(log', Visible')
                      /\ task'[q].batch = TurnsWithin(log', Visible', cursor', task'[q].through)
    BY DEF BatchExact
  <2>1. CASE q = r
    <3>1. task'[r].through = last /\ task'[r].batch = Batch(last)
      BY <1>1 DEF TypeOK
    <3> QED BY <1>2, <1>6, <1>8, <2>1, <3>1
  <2>2. CASE q # r
    <3>1. pc[q] = "summarising" /\ task'[q] = task[q]
      BY <1>1, <2>2 DEF ReadSnapshot, Goto, TypeOK
    <3> QED BY <1>2, <3>1 DEF FoldInv, BatchExact
  <2> QED BY <2>1, <2>2
<1>10. CursorDropped' /\ Accounted'
  BY <1>2 DEF FoldInv, CursorDropped, Accounted
<1> QED BY <1>9, <1>10 DEF FoldInv

(* The turns up to the new cursor are those up to the old one and the batch.         *)
LEMMA SwapFolds ==
    ASSUME TypeOK, TypeOK', SummaryInv, TalkInv, FoldInv, NEW r \in Request, SwapSummary(r)
    PROVE  FoldInv'
<1> DEFINE S == Visible
           t == task[r].through
<1>1. /\ CurrentTask(r) /\ task[r].revision = revision /\ pc[r] = "summarising"
  BY DEF SwapSummary, SummaryInv
<1>2. /\ task[r].previous = content /\ t \in task[r].batch
      /\ \A i \in task[r].batch : i > cursor
  BY <1>1 DEF CurrentTask
<1>3. t \in Dropped(log, S) /\ task[r].batch = TurnsWithin(log, S, cursor, t)
  BY <1>1 DEF FoldInv, BatchExact
<1>4. /\ log' = log /\ Visible' = Visible /\ cursor' = t /\ revision' = revision + 1
      /\ \A i \in Ids : content'[i] = content[i] + (IF i \in task[r].batch THEN 1 ELSE 0)
  BY <1>2 DEF SwapSummary, Visible
<1>5. /\ TurnEnds(log, S) \subseteq Nat /\ cursor \in Nat /\ t \in Nat /\ cursor < t
  <2>1. TurnEnds(log, S) \subseteq S /\ S \subseteq Nat
    BY LogFacts DEF TurnEnds
  <2>2. cursor \in Nat /\ t \in Nat
    BY LogFacts DEF TypeOK, Task
  <2> QED BY <1>2, <2>1, <2>2
<1>6. TurnsWithin(log, S, 0, t) = TurnsWithin(log, S, 0, cursor) \cup TurnsWithin(log, S, cursor, t)
  <2> HIDE DEF t
  <2>1. {e \in TurnEnds(log, S) : 0 < e /\ e <= t}
           = {e \in TurnEnds(log, S) : 0 < e /\ e <= cursor}
               \cup {e \in TurnEnds(log, S) : cursor < e /\ e <= t}
    BY <1>5
  <2> QED BY <2>1 DEF TurnsWithin, TurnMessages
<1>7. Accounted'
  <2> SUFFICES ASSUME NEW i \in Ids
               PROVE  content'[i] > 0 <=> i \in TurnsWithin(log', Visible', 0, cursor')
    BY DEF Accounted
  <2>1. content[i] \in Nat
    BY DEF TypeOK
  <2>2. content[i] > 0 <=> i \in TurnsWithin(log, S, 0, cursor)
    BY DEF FoldInv, Accounted
  <2>3. content'[i] > 0 <=> content[i] > 0 \/ i \in task[r].batch
    BY <1>4, <2>1
  <2>4. i \in TurnsWithin(log, S, 0, t) <=> content[i] > 0 \/ i \in task[r].batch
    BY <1>3, <1>6, <2>2
  <2> QED BY <1>4, <2>3, <2>4
<1>8. CursorDropped'
  BY <1>3, <1>4 DEF CursorDropped, AtDropped
<1>9. BatchExact'
  <2> SUFFICES ASSUME NEW q \in Request, pc'[q] = "summarising", task'[q].revision = revision'
               PROVE  FALSE
    BY DEF BatchExact
  <2>1. q # r /\ pc[q] = "summarising" /\ task'[q] = task[q]
    BY DEF SwapSummary, Finish, Goto, TypeOK
  <2>2. task[q].revision <= revision /\ task[q].revision \in Nat /\ revision \in Nat
    BY <2>1 DEF SummaryInv, CurrentTask, TypeOK, Task
  <2> QED BY <1>4, <2>1, <2>2
<1> QED BY <1>7, <1>8, <1>9 DEF FoldInv

(* Initially there is no summary and no task.                                        *)
LEMMA FoldInit == Init => FoldInv
<1> SUFFICES ASSUME Init PROVE FoldInv
  OBVIOUS
<1>1. DOMAIN log = {} /\ Visible = {} /\ cursor = 0
  BY DEF Init, Visible
<1>2. \A q \in Request : pc[q] = "idle"
  BY DEF Init
<1>3. TurnsWithin(log, Visible, 0, 0) = {}
  BY <1>1 DEF TurnsWithin, TurnMessages, TurnEnds
<1>4. Accounted
  BY <1>1, <1>3 DEF Init, Accounted
<1> QED BY <1>1, <1>2, <1>4 DEF FoldInv, CursorDropped, AtDropped, BatchExact

(* Every step keeps what one request at a time guarantees.                           *)
LEMMA NextSerial ==
    ASSUME OneByOne, TypeOK, TypeOK', SummaryInv, TalkInv, FoldInv, [Next]_vars
    PROVE  TalkInv' /\ FoldInv'
<1>1. ASSUME NEW r \in Request, RequestStep(r) PROVE TalkInv' /\ FoldInv'
  <2>1. TalkInv' /\ Grows(log, Visible, log', Visible')
    <3>1. CASE FailAnswer(r)
      <4>1. /\ log' = log
            /\ \A q \in Request : pc'[q] = IF q = r THEN "done" ELSE pc[q]
            /\ pc[r] = "generating"
        BY <3>1 DEF FailAnswer, Goto, TypeOK
      <4> QED BY <4>1, QuietTalk DEF Answering
    <3> QED
      BY <1>1, <3>1, AskTalk, StoreQuestionTalk, WriteAnswerTalk, StoreAnswerTalk, RollbackTalk
         DEF RequestStep
  <2>2. summaryRow' = summaryRow /\ task' = task
    BY <1>1 DEF RequestStep, Ask, StoreQuestion, FailAnswer, WriteAnswer, StoreAnswer, Rollback
  <2>3. \E next \in {"asking", "generating", "storing", "scheduled", "done"} : Goto(r, next)
    BY <1>1 DEF RequestStep, Ask, StoreQuestion, FailAnswer, WriteAnswer, StoreAnswer, Rollback
  <2>4. \A q \in Request : pc'[q] = "summarising" => pc[q] = "summarising"
    BY <2>3 DEF Goto, TypeOK
  <2> QED BY <2>1, <2>2, <2>4, FoldsKept
<1>2. ASSUME NEW r \in Request, TaskStep(r) PROVE TalkInv' /\ FoldInv'
  <2>1. log' = log /\ pc[r] \in {"scheduled", "summarising"}
    BY <1>2 DEF TaskStep, ReadSnapshot, SkipRefresh, SwapSummary, AbandonRefresh
  <2>2. \E next \in {"summarising", "done"} : Goto(r, next)
    BY <1>2 DEF TaskStep, ReadSnapshot, SkipRefresh, SwapSummary, AbandonRefresh, Finish
  <2>3. TalkInv' /\ Grows(log, Visible, log', Visible')
    <3>1. \A q \in Request : \/ q # r /\ pc'[q] = pc[q]
                             \/ q = r /\ pc'[q] \in {"summarising", "done"}
      BY <2>2 DEF Goto, TypeOK
    <3> QED BY <2>1, <3>1, QuietTalk DEF Answering
  <2>4. CASE ReadSnapshot(r)
    BY <2>3, <2>4, ReadFolds
  <2>5. CASE SwapSummary(r)
    BY <2>3, <2>5, SwapFolds
  <2>6. CASE SkipRefresh(r) \/ AbandonRefresh(r)
    <3>1. /\ summaryRow' = summaryRow
          /\ \A q \in Request : pc'[q] = "summarising" => pc[q] = "summarising" /\ task'[q] = task[q]
      BY <2>6 DEF SkipRefresh, AbandonRefresh, Finish, Goto, TypeOK
    <3> QED BY <2>3, <3>1, FoldsKept
  <2> QED BY <1>2, <2>4, <2>5, <2>6 DEF TaskStep
<1>3. ASSUME NEW i \in DOMAIN log, DeleteMessage(i) PROVE FALSE
  <2>1. deletes < MaxDeletes /\ deletes \in Nat
    BY <1>3 DEF DeleteMessage, TypeOK
  <2> QED BY <2>1 DEF OneByOne
<1>4. CASE UNCHANGED vars
  <2>1. log' = log /\ pc' = pc /\ task' = task /\ summaryRow' = summaryRow
    BY <1>4 DEF vars, summaryRow
  <2>2. TalkInv' /\ Grows(log, Visible, log', Visible')
    BY <2>1, QuietTalk
  <2> QED BY <2>1, <2>2, FoldsKept
<1> QED BY <1>1, <1>2, <1>3, <1>4 DEF Next

(* The talk and the folds of requests that do not overlap always are as TalkInv and  *)
(* FoldInv say, for any sizes, limits and number of requests.                        *)
THEOREM SerialInvariant == ASSUME OneByOne PROVE Spec => [](TalkInv /\ FoldInv)
<1>1. Init => TalkInv /\ FoldInv
  BY TalkInit, FoldInit
<1>2. TypeOK /\ TypeOK' /\ SummaryInv /\ TalkInv /\ FoldInv /\ [Next]_vars
         => TalkInv' /\ FoldInv'
  BY NextSerial
<1> QED BY <1>1, <1>2, TypeCorrect, SummaryInvariant, PTL DEF Spec

(* What is in the summary belongs to turns that left the window.                     *)
LEMMA SummarisedLeft ==
    ASSUME TypeOK, TalkInv, FoldInv
    PROVE  SummarisedLeftWindow
<1> DEFINE S == Visible
<1> SUFFICES ASSUME NEW i \in Window(log, S), content[i] # 0 PROVE FALSE
  BY DEF SummarisedLeftWindow
<1>1. S \subseteq Nat /\ S \subseteq Ids /\ Messages(log, S)
  BY LogFacts
<1>2. \A e \in TurnEnds(log, S) : TurnOf(log, S, e) \subseteq S /\ e \in Nat
  BY <1>1, TurnParts
<1>3. i \in S
  BY <1>2 DEF Window, Pending, KeptEnds, TurnMessages
<1>4. i \in TurnsWithin(log, S, 0, cursor)
  <2>1. content[i] \in Nat /\ i \in Ids
    BY <1>1, <1>3 DEF TypeOK
  <2> QED BY <2>1 DEF FoldInv, Accounted
<1>5. PICK e \in TurnEnds(log, S) : 0 < e /\ e <= cursor /\ i \in TurnOf(log, S, e)
  BY <1>4 DEF TurnsWithin, TurnMessages
<1>6. cursor \in Dropped(log, S)
  <2>1. cursor # 0
    BY <1>2, <1>5
  <2> QED BY <2>1 DEF FoldInv, CursorDropped, AtDropped
<1>7. e \in Dropped(log, S)
  <2> HIDE DEF S
  <2> QED BY <1>1, <1>5, <1>6, DroppedBefore
<1>8. e \in S /\ log[e].role = "assistant"
  BY DEF TurnEnds, Closes
<1>9. i \notin Pending(log, S) /\ \A f \in TurnEnds(log, S) : i \in TurnOf(log, S, f) => e = f
  <2> HIDE DEF S
  <2> QED BY <1>1, <1>5, <1>8, TurnsApart
<1>10. e \notin KeptEnds(log, S)
  BY <1>7 DEF Dropped
<1> QED
  BY <1>9, <1>10 DEF Window, TurnMessages, KeptEnds

(* A turn that left the window is to be summarised or is in the summary.             *)
LEMMA NothingLost ==
    ASSUME TypeOK, TalkInv, FoldInv
    PROVE  NothingForgotten
<1> DEFINE S == Visible
<1> SUFFICES ASSUME NEW i \in TurnMessages(log, S, TurnEnds(log, S)),
                    i \notin Window(log, S), i \notin Unsummarised
             PROVE  content[i] > 0
  BY DEF NothingForgotten
<1>1. S \subseteq Nat /\ S \subseteq Ids /\ 0 \notin S /\ Messages(log, S)
  BY LogFacts
<1>2. PICK e \in TurnEnds(log, S) : i \in TurnOf(log, S, e)
  BY DEF TurnMessages
<1>3. e \in Dropped(log, S)
  BY <1>2 DEF Window, TurnMessages, Dropped
<1>4. i \in Candidates(log, S)
  BY <1>2, <1>3 DEF Candidates, TurnMessages, Dropped
<1>5. /\ i \in S /\ e \in S /\ i <= e /\ log[e].role = "assistant"
  BY <1>1, <1>2, TurnParts
<1>6. i <= cursor /\ cursor \in Nat /\ cursor # 0
  <2>1. ~(i > cursor)
    BY <1>4 DEF Unsummarised
  <2>2. cursor \in Nat
    BY LogFacts DEF TypeOK
  <2> QED BY <1>1, <1>5, <2>1, <2>2
<1>7. cursor \in TurnEnds(log, S) /\ cursor \in S /\ log[cursor].role = "assistant"
  BY <1>6 DEF FoldInv, CursorDropped, AtDropped, Dropped, TurnEnds, Closes
<1>8. e <= cursor
  <2>1. i <= cursor /\ cursor <= e => cursor = e
    <3> HIDE DEF S
    <3> QED BY <1>1, <1>2, <1>7, TurnsApart
  <2> QED BY <1>1, <1>5, <1>6, <2>1
<1>9. i \in TurnsWithin(log, S, 0, cursor)
  <2>1. 0 < e
    BY <1>1, <1>5
  <2> QED BY <1>2, <1>8, <2>1 DEF TurnsWithin, TurnMessages
<1> QED BY <1>1, <1>5, <1>9 DEF FoldInv, Accounted

(* While requests do not overlap, a turn that is in the summary never is raw in the  *)
(* window again: a window only moves forward, whatever the limits and the lengths.   *)
THEOREM SummarisedOutOfWindow == ASSUME OneByOne PROVE Spec => []SummarisedLeftWindow
BY SummarisedLeft, TypeCorrect, SerialInvariant, PTL

(* While requests do not overlap, no complete turn falls between the window and the  *)
(* summary: what left the window is summarised or still to be summarised.            *)
THEOREM NoTurnForgotten == ASSUME OneByOne PROVE Spec => []NothingForgotten
BY NothingLost, TypeCorrect, SerialInvariant, PTL

=============================================================================
