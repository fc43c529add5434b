--------------------------- MODULE SummaryRefresh ---------------------------
(***************************************************************************)
(* The rolling summary of one conversation.  Chat requests append the      *)
(* question and the answer to the conversation (routes/chat.py); after an  *)
(* answer is stored, a background task may fold the turns that left the    *)
(* raw window into the stored summary (services/memory/summarizer.py).     *)
(* The task reads the row and the messages, runs the model with no         *)
(* transaction open, and stores the result with a compare-and-swap on the  *)
(* row's revision.                                                         *)
(*                                                                         *)
(* A message gets its created_at, hence its place in log, when it is       *)
(* flushed, and becomes visible to other sessions when it is committed.    *)
(***************************************************************************)
EXTENDS Turns, FiniteSetsExt, Sequences

CONSTANTS
    Request,            \* chat requests on this conversation
    Sizes,              \* lengths a message can have
    TriggerSize,        \* settings.chat_summary_trigger_character_count
    MaxMessages,        \* bound on the length of the conversation
    MaxOpen,            \* bound on the requests that are answered at the same time
    MaxDeletes          \* bound on the messages deleted from outside

ASSUME SummaryAssumption ==
    /\ Sizes \subseteq Nat
    /\ TriggerSize \in Nat
    /\ MaxMessages \in Nat
    /\ MaxOpen \in Nat
    /\ MaxDeletes \in Nat

VARIABLES
    log,        \* the messages in created_at order
    pc,         \* pc[r]: where request r, then its background task, is
    task,       \* task[r]: what the task read before it called the model
    revision,   \* conversation_summaries.revision, 0 when there is no row
    cursor,     \* summarized_through_message_id as a position, 0 when it is NULL
    content,    \* content[i]: how often message i is accounted for in the summary text
    lostCursors,\* how many times the cursor's message was deleted
    deletes     \* how many messages were deleted

vars == <<log, pc, task, revision, cursor, content, lostCursors, deletes>>

Ids == 1..MaxMessages

Entry == [role : {"user", "assistant"}, size : Sizes, owner : Request,
          state : {"flushed", "committed", "gone"}]

Answering == {"asking", "generating", "storing"}

NoTask == [revision |-> 0, previous |-> [i \in Ids |-> 0], batch |-> {}, through |-> 0]

Task == [revision : Nat, previous : [Ids -> Nat], batch : SUBSET Ids, through : Nat]

\* What a session that reads the conversation now sees.
Visible == {i \in DOMAIN log : log[i].state = "committed"}

Init ==
    /\ log = <<>>
    /\ pc = [r \in Request |-> "idle"]
    /\ task = [r \in Request |-> NoTask]
    /\ revision = 0
    /\ cursor = 0
    /\ content = [i \in Ids |-> 0]
    /\ lostCursors = 0
    /\ deletes = 0

summaryRow == <<revision, cursor, content, lostCursors>>

Goto(r, label) == pc' = [pc EXCEPT ![r] = label]

Flush(r, role, size) ==
    /\ Len(log) < MaxMessages
    /\ log' = Append(log, [role |-> role, size |-> size, owner |-> r, state |-> "flushed"])

\* The transaction that holds r's flushed message ends.
Settle(r, state) ==
    \E i \in DOMAIN log :
        /\ log[i].owner = r
        /\ log[i].state = "flushed"
        /\ log' = [log EXCEPT ![i].state = state]

-----------------------------------------------------------------------------
(* The request: the question is stored first, the answer after generation. *)

Ask(r) ==
    /\ pc[r] = "idle"
    /\ Cardinality({q \in Request : pc[q] \in Answering}) < MaxOpen
    /\ \E size \in Sizes : Flush(r, "user", size)
    /\ Goto(r, "asking")
    /\ UNCHANGED <<task, summaryRow, deletes>>

StoreQuestion(r) ==
    /\ pc[r] = "asking"
    /\ Settle(r, "committed")
    /\ Goto(r, "generating")
    /\ UNCHANGED <<task, summaryRow, deletes>>

\* The graph timed out or raised, or the client went away: no answer is stored.
FailAnswer(r) ==
    /\ pc[r] = "generating"
    /\ Goto(r, "done")
    /\ UNCHANGED <<log, task, summaryRow, deletes>>

WriteAnswer(r) ==
    /\ pc[r] = "generating"
    /\ \E size \in Sizes : Flush(r, "assistant", size)
    /\ Goto(r, "storing")
    /\ UNCHANGED <<task, summaryRow, deletes>>

\* The refresh is scheduled only after the final event was sent, and not for an
\* input that was rejected as an injection.
StoreAnswer(r) ==
    /\ pc[r] = "storing"
    /\ Settle(r, "committed")
    /\ \E next \in {"scheduled", "done"} : Goto(r, next)
    /\ UNCHANGED <<task, summaryRow, deletes>>

\* The commit of the question or of the answer fails and is rolled back.
Rollback(r) ==
    /\ pc[r] \in {"asking", "storing"}
    /\ Settle(r, "gone")
    /\ Goto(r, "done")
    /\ UNCHANGED <<task, summaryRow, deletes>>

-----------------------------------------------------------------------------
(* The background task. *)

\* The complete turns outside the window that lie beyond the cursor.  A cursor that
\* is gone makes all of them candidates again.
Unsummarised_NoCursor == Candidates(log, Visible)

Unsummarised_NoWindow ==
    {i \in TurnMessages(log, Visible, TurnEnds(log, Visible)) : i > cursor}

Unsummarised == {i \in Candidates(log, Visible) : i > cursor}

WorthSummarising ==
    /\ TextSize(log, Unsummarised) >= TriggerSize
    /\ TurnEnds(log, Unsummarised) # {}

\* The batch is a non-empty prefix of the candidate turns.  How long a prefix fits
\* depends on the length of the previous summary, which the model chose, so any
\* may; when not even the first turn fits, its text is clipped and it is the batch.
Batch(last) ==
    TurnMessages(log, Unsummarised, {e \in TurnEnds(log, Unsummarised) : e <= last})

ReadSnapshot_CursorPastBatch(r) ==
    /\ pc[r] = "scheduled"
    /\ WorthSummarising
    /\ \E last \in TurnEnds(log, Unsummarised) :
          task' = [task EXCEPT ![r] = [revision |-> revision, previous |-> content,
                                       batch |-> Batch(last), through |-> Max(Unsummarised)]]
    /\ Goto(r, "summarising")
    /\ UNCHANGED <<log, summaryRow, deletes>>

ReadSnapshot(r) ==
    /\ pc[r] = "scheduled"
    /\ WorthSummarising
    /\ \E last \in TurnEnds(log, Unsummarised) :
          task' = [task EXCEPT ![r] = [revision |-> revision, previous |-> content,
                                       batch |-> Batch(last), through |-> last]]
    /\ Goto(r, "summarising")
    /\ UNCHANGED <<log, summaryRow, deletes>>

SkipRefresh(r) ==
    /\ pc[r] = "scheduled"
    /\ ~WorthSummarising
    /\ Goto(r, "done")
    /\ UNCHANGED <<log, task, summaryRow, deletes>>

Finish(r) ==
    /\ Goto(r, "done")
    /\ task' = [task EXCEPT ![r] = NoTask]

SwapSummary_NoRevisionCheck(r) ==
    /\ pc[r] = "summarising"
    /\ log[task[r].through].state = "committed"
    /\ revision' = revision + 1
    /\ cursor' = task[r].through
    /\ content' = [i \in Ids |-> task[r].previous[i] + (IF i \in task[r].batch THEN 1 ELSE 0)]
    /\ Finish(r)
    /\ UNCHANGED <<log, lostCursors, deletes>>

\* The model answered and no other task replaced the row since it was read.  The new
\* text stands for the previous text the task read plus its batch.  The foreign key
\* of the cursor must still name a message.
SwapSummary(r) ==
    /\ pc[r] = "summarising"
    /\ task[r].revision = revision
    /\ log[task[r].through].state = "committed"
    /\ revision' = revision + 1
    /\ cursor' = task[r].through
    /\ content' = [i \in Ids |-> task[r].previous[i] + (IF i \in task[r].batch THEN 1 ELSE 0)]
    /\ Finish(r)
    /\ UNCHANGED <<log, lostCursors, deletes>>

\* The update matched no row, the model failed or answered nothing, the foreign key
\* was violated, or the task ran out of its time: the stored summary stays.
AbandonRefresh(r) ==
    /\ pc[r] \in {"scheduled", "summarising"}
    /\ Finish(r)
    /\ UNCHANGED <<log, summaryRow, deletes>>

-----------------------------------------------------------------------------
(* A message is deleted outside the program; ON DELETE SET NULL clears the *)
(* cursor that names it.                                                   *)
DeleteMessage(i) ==
    /\ deletes < MaxDeletes
    /\ log[i].state = "committed"
    /\ log' = [log EXCEPT ![i].state = "gone"]
    /\ deletes' = deletes + 1
    /\ IF cursor = i
       THEN cursor' = 0 /\ lostCursors' = lostCursors + 1
       ELSE UNCHANGED <<cursor, lostCursors>>
    /\ UNCHANGED <<pc, task, revision, content>>

RequestStep(r) ==
    \/ Ask(r) \/ StoreQuestion(r) \/ FailAnswer(r) \/ WriteAnswer(r)
    \/ StoreAnswer(r) \/ Rollback(r)

TaskStep(r) ==
    ReadSnapshot(r) \/ SkipRefresh(r) \/ SwapSummary(r) \/ AbandonRefresh(r)

Next ==
    \/ \E r \in Request : RequestStep(r) \/ TaskStep(r)
    \/ \E i \in DOMAIN log : DeleteMessage(i)

Spec == Init /\ [][Next]_vars

-----------------------------------------------------------------------------
(* The variables have values of these kinds; the cursor, and the message up to which  *)
(* a task summarised, are positions in the log.                                      *)
TypeOK ==
    /\ log \in Seq(Entry)
    /\ Len(log) <= MaxMessages
    /\ pc \in [Request -> Answering \cup {"idle", "scheduled", "summarising", "done"}]
    /\ task \in [Request -> Task]
    /\ \A r \in Request : task[r].through <= Len(log)
    /\ revision \in Nat
    /\ cursor \in 0..Len(log)
    /\ content \in [Ids -> Nat]
    /\ lostCursors \in Nat
    /\ deletes \in Nat

(* The summary text accounts for a message at most once, plus once for every time    *)
(* the cursor was lost and the summary rebuilt: two tasks that summarised the same   *)
(* turns at the same time never both store their text (the compare-and-swap of       *)
(* persist_summary_if_revision_matches together with the cursor filter).             *)
FoldedOnce == \A i \in Ids : content[i] <= 1 + lostCursors

(* A running task whose revision is still current holds the current text and a batch *)
(* that lies beyond the current cursor, even when the cursor was lost in between.    *)
CurrentTask(r) ==
    /\ task[r].revision <= revision
    /\ task[r].through \in task[r].batch
    /\ \A i \in task[r].batch : i <= task[r].through
    /\ task[r].revision = revision =>
          /\ task[r].previous = content
          /\ \A i \in task[r].batch : i > cursor

(* The inductive invariant: FoldedOnce with what the messages beyond the cursor and  *)
(* the tasks in flight contribute to it.                                             *)
SummaryInv ==
    /\ \A i \in Ids : /\ content[i] <= 1 + lostCursors
                      /\ i > cursor => content[i] <= lostCursors
    /\ \A r \in Request : pc[r] = "summarising" => CurrentTask(r)

(* No complete turn falls between the window and the summary: a message of a turn is *)
(* raw in the window, still to be summarised, or accounted for in the summary text.  *)
(* It needs requests that do not overlap: see UnansweredKept and the README.         *)
NothingForgotten ==
    \A i \in TurnMessages(log, Visible, TurnEnds(log, Visible)) :
        i \in Window(log, Visible) \/ i \in Unsummarised \/ content[i] > 0

(* A turn whose text is in the summary has left the raw window for good, so the      *)
(* model is not given the same turn twice.                                           *)
SummarisedLeftWindow ==
    \A i \in Window(log, Visible) : content[i] = 0

(* The tasks together implement the summary that changes by indivisible folds. *)
Rolling == INSTANCE RollingSummary
RollingSpec == Rolling!Spec

=============================================================================
