----------------------------- MODULE ChatStream -----------------------------
(***************************************************************************)
(* One chat request from its first event to its last: the generator of     *)
(* routes/chat.py that the server sends as an event stream, the task that  *)
(* runs the agent graph beside it, and the queue between them.             *)
(*                                                                         *)
(* The generator and the task run on one event loop and interleave where   *)
(* they await.  A client that disconnects cancels the generator, at an     *)
(* await or at a yield; neither is an Exception, so no handler of the      *)
(* generator sees it and only the inner finally runs, at once or when the  *)
(* abandoned generator is finalised.                                       *)
(***************************************************************************)
EXTENDS Integers, Sequences, SequencesExt

CONSTANTS
    MaxTokens,      \* bound on the text fragments of one answer
    MaxCitations,   \* bound on the citations of one answer
    MemoryLimit,    \* ticks the memory retrieval can take (settings.embedding_api_timeout_seconds)
    ResponseLimit   \* settings.agent_response_timeout_seconds in ticks

ASSUME StreamAssumption ==
    /\ MaxTokens \in Nat /\ MaxCitations \in Nat
    /\ MemoryLimit \in Nat /\ ResponseLimit \in Nat

VARIABLES
    kind,       \* what answers: the injection guard, the mock or the agent graph
    pc,         \* where the generator is
    graph,      \* the task that runs the graph
    queue,      \* what the task put and the generator did not take yet
    produced,   \* how many fragments the graph emitted
    sent,       \* the events the generator yielded
    citations,  \* how many citations of the result are still to be sent
    warned,     \* the final event says that the answer was not stored
    stored,     \* the answer is committed
    scheduled,  \* the memory refresh is a background task of the response
    listening,  \* the client is connected
    clock,      \* ticks since the request started
    began       \* when the present bounded wait started

vars == <<kind, pc, graph, queue, produced, sent, citations, warned, stored, scheduled,
          listening, clock, began>>

task == <<graph, queue, produced>>
outcome == <<warned, stored, scheduled>>
time == <<clock, began>>

Item == [type : {"token", "result", "error"}, part : 0..MaxTokens]
Event == [type : {"node_update", "token", "citation", "final", "error"}, part : 0..MaxTokens]

Signal(type) == [type |-> type, part |-> 0]
\* Fragment number part of the answer; part 0 is the whole answer at once.
Token(part) == [type |-> "token", part |-> part]

Init ==
    /\ kind \in {"injection", "mock", "graph"}
    /\ pc = "start"
    /\ graph = "none" /\ queue = <<>> /\ produced = 0
    /\ sent = <<>>
    /\ citations = 0
    /\ warned = FALSE /\ stored = FALSE /\ scheduled = FALSE
    /\ listening = TRUE
    /\ clock = 0 /\ began = 0

Goto(from, to) == pc = from /\ pc' = to

Yield(event) == sent' = Append(sent, event)

-----------------------------------------------------------------------------
(* The generator, up to the result. *)

AnnounceRetrieval ==
    /\ Goto("start", "routing")
    /\ Yield(Signal("node_update"))
    /\ UNCHANGED <<kind, task, citations, outcome, listening, time>>

\* A rejected input and the mock have a result without citations at once.
AnswerAtOnce ==
    /\ kind \in {"injection", "mock"}
    /\ Goto("routing", "finalizing")
    /\ UNCHANGED <<kind, task, sent, citations, outcome, listening, time>>

\* The conversation is read; memories are recalled only with the user's consent.
LoadContext ==
    /\ kind = "graph"
    /\ \E next \in {"recalling", "announcing"} : Goto("routing", next)
    /\ began' = clock
    /\ UNCHANGED <<kind, task, sent, citations, outcome, listening, clock>>

\* A failed retrieval is rolled back and leaves the answer without memories.
RecallMemories ==
    /\ Goto("recalling", "announcing")
    /\ UNCHANGED <<kind, task, sent, citations, outcome, listening, time>>

AnnounceGeneration ==
    /\ Goto("announcing", "opening")
    /\ Yield(Signal("node_update"))
    /\ UNCHANGED <<kind, task, citations, outcome, listening, time>>

StartGraph ==
    /\ Goto("opening", "generating")
    /\ graph' = "running"
    /\ began' = clock
    /\ UNCHANGED <<kind, queue, produced, sent, citations, outcome, listening, clock>>

\* queue.get() returned an item of this type.
Take(type) ==
    /\ pc = "generating"
    /\ queue # <<>> /\ Head(queue).type = type
    /\ queue' = Tail(queue)
    /\ UNCHANGED <<kind, graph, produced, outcome, listening, time>>

TakeToken ==
    /\ Take("token")
    /\ Yield(Head(queue))
    /\ UNCHANGED <<pc, citations>>

TakeResult ==
    /\ Take("result")
    /\ pc' = "finalizing"
    /\ citations' \in 0..MaxCitations
    /\ UNCHANGED sent

\* The graph timed out or raised.
TakeError ==
    /\ Take("error")
    /\ pc' = "failed"
    /\ Yield(Signal("error"))
    /\ UNCHANGED citations

\* The conversation could not be read, or the graph not be built.
FailGeneration ==
    /\ kind = "graph"
    /\ Goto("routing", "failed")
    /\ Yield(Signal("error"))
    /\ UNCHANGED <<kind, task, citations, outcome, listening, time>>

-----------------------------------------------------------------------------
(* The generator, from the result on. *)

AnnounceResult ==
    /\ Goto("finalizing", "answering")
    /\ Yield(Signal("node_update"))
    /\ UNCHANGED <<kind, task, citations, outcome, listening, time>>

StreamedTokens == \E i \in DOMAIN sent : sent[i].type = "token"

\* An answer that was not streamed is sent whole.
SendAnswer ==
    /\ Goto("answering", "citing")
    /\ IF StreamedTokens THEN UNCHANGED sent ELSE Yield(Token(0))
    /\ UNCHANGED <<kind, task, citations, outcome, listening, time>>

SendCitation ==
    /\ Goto("citing", "citing")
    /\ citations > 0
    /\ citations' = citations - 1
    /\ Yield(Signal("citation"))
    /\ UNCHANGED <<kind, task, outcome, listening, time>>

CommitAnswer ==
    /\ citations = 0
    /\ Goto("citing", "replying")
    /\ stored' = TRUE
    /\ UNCHANGED <<kind, task, sent, citations, warned, scheduled, listening, time>>

\* The commit raised; the database may have committed all the same.
FailCommit ==
    /\ citations = 0
    /\ Goto("citing", "replying")
    /\ warned' = TRUE
    /\ stored' \in BOOLEAN
    /\ UNCHANGED <<kind, task, sent, citations, scheduled, listening, time>>

SendFinal ==
    /\ Goto("replying", "sent")
    /\ Yield(Signal("final"))
    /\ UNCHANGED <<kind, task, citations, outcome, listening, time>>

\* The result has not the expected form or cannot be serialised.
FailTransfer_UntilEnd ==
    /\ pc \in {"finalizing", "answering", "citing", "replying", "sent"}
    /\ pc' = "failed"
    /\ Yield(Signal("error"))
    /\ UNCHANGED <<kind, task, citations, outcome, listening, time>>

FailTransfer ==
    /\ \/ pc \in {"finalizing", "answering", "replying"}
       \/ pc = "citing" /\ citations > 0
    /\ pc' = "failed"
    /\ Yield(Signal("error"))
    /\ UNCHANGED <<kind, task, citations, outcome, listening, time>>

\* The generator is resumed after the final event.
Schedule_AnyAnswer ==
    /\ Goto("sent", "ended")
    /\ scheduled' = (kind # "injection")
    /\ UNCHANGED <<kind, task, sent, citations, warned, stored, listening, time>>

Schedule ==
    /\ Goto("sent", "ended")
    /\ scheduled' = (kind # "injection" /\ ~warned)
    /\ UNCHANGED <<kind, task, sent, citations, warned, stored, listening, time>>

\* The generator is resumed after an error event.
Return ==
    /\ Goto("failed", "ended")
    /\ UNCHANGED <<kind, task, sent, citations, outcome, listening, time>>

-----------------------------------------------------------------------------
(* The task that runs the graph. *)

EmitToken ==
    /\ graph = "running"
    /\ produced < MaxTokens
    /\ produced' = produced + 1
    /\ queue' = Append(queue, Token(produced + 1))
    /\ UNCHANGED <<kind, pc, graph, sent, citations, outcome, listening, time>>

\* The task puts its last item and ends.
EndGraph(type) ==
    /\ graph = "running"
    /\ graph' = "done"
    /\ queue' = Append(queue, Signal(type))
    /\ UNCHANGED <<kind, pc, produced, sent, citations, outcome, listening, time>>

FinishGraph == EndGraph("result")

FailGraph == EndGraph("error")

TimeOutGraph_Never ==
    /\ clock > began + ResponseLimit
    /\ EndGraph("error")

TimeOutGraph ==
    /\ clock >= began + ResponseLimit
    /\ EndGraph("error")

\* A tick passes in a bounded wait: for the memories or for the graph.
Tick ==
    /\ \/ pc = "recalling" /\ clock < began + MemoryLimit
       \/ graph = "running" /\ clock < began + ResponseLimit
    /\ clock' = clock + 1
    /\ UNCHANGED <<kind, pc, task, sent, citations, outcome, listening, began>>

-----------------------------------------------------------------------------
(* The client goes away. *)

Disconnect ==
    /\ listening
    /\ pc # "ended"
    /\ listening' = FALSE
    /\ UNCHANGED <<kind, pc, task, sent, citations, outcome, time>>

\* The server cancels the generator.  A commit under way may or may not take effect.
Abandon ==
    /\ ~listening
    /\ pc \notin {"closing", "ended"}
    /\ pc' = "closing"
    /\ stored' \in IF pc = "citing" /\ citations = 0 THEN BOOLEAN ELSE {stored}
    /\ UNCHANGED <<kind, task, sent, citations, warned, scheduled, listening, time>>

\* The inner finally cancels the task, which puts its error where nobody reads it.
CancelGraph ==
    /\ pc = "closing"
    /\ EndGraph("error")

Close ==
    /\ graph # "running"
    /\ Goto("closing", "ended")
    /\ UNCHANGED <<kind, task, sent, citations, outcome, listening, time>>

-----------------------------------------------------------------------------
GeneratorStep ==
    \/ AnnounceRetrieval \/ AnswerAtOnce \/ LoadContext \/ RecallMemories \/ AnnounceGeneration
    \/ StartGraph \/ TakeToken \/ TakeResult \/ TakeError \/ FailGeneration
    \/ AnnounceResult \/ SendAnswer \/ SendCitation \/ CommitAnswer \/ FailCommit
    \/ SendFinal \/ FailTransfer \/ Schedule \/ Return

GraphStep == EmitToken \/ FinishGraph \/ FailGraph \/ TimeOutGraph

Cleanup == CancelGraph \/ Close

Next == GeneratorStep \/ GraphStep \/ Tick \/ Disconnect \/ Abandon \/ Cleanup

Spec == Init /\ [][Next]_vars

\* The event loop runs what is ready, timers fire, the database and the embedding
\* service answer or raise, and an abandoned generator is finalised.  The graph itself
\* owes nothing: it may hang until it is timed out.
FairSpec ==
    /\ Spec
    /\ WF_vars(GeneratorStep)
    /\ WF_vars(Tick) /\ WF_vars(TimeOutGraph)
    /\ WF_vars(Cleanup)

-----------------------------------------------------------------------------
Sent(type) == \E i \in DOMAIN sent : sent[i].type = type

(* The variables have values of these kinds.                                         *)
TypeOK ==
    /\ kind \in {"injection", "mock", "graph"}
    /\ pc \in {"start", "routing", "recalling", "announcing", "opening", "generating",
               "finalizing", "answering", "citing", "replying", "sent", "failed",
               "closing", "ended"}
    /\ graph \in {"none", "running", "done"}
    /\ queue \in Seq(Item)
    /\ produced \in 0..MaxTokens
    /\ sent \in Seq(Event)
    /\ citations \in 0..MaxCitations
    /\ warned \in BOOLEAN /\ stored \in BOOLEAN /\ scheduled \in BOOLEAN
    /\ listening \in BOOLEAN
    /\ clock \in Nat /\ began \in Nat

(* A final event that carries no warning tells of a stored answer, and the memory    *)
(* refresh is scheduled only for a stored answer whose final event was sent, never   *)
(* for a rejected input.                                                             *)
AnswerAccounted ==
    /\ Sent("final") /\ ~warned => stored
    /\ scheduled => stored /\ ~warned /\ Sent("final") /\ kind # "injection"

(* The graph does not outlive the request: it shares the request's database session. *)
GraphEndsFirst ==
    pc \in {"start", "finalizing", "answering", "citing", "replying", "sent", "failed", "ended"}
        => graph # "running"

(* The generator keeps the promise of SseStream, whatever fails.                     *)
StreamState ==
    IF pc = "ended" THEN "closed"
    ELSE IF Sent("final") \/ Sent("error") THEN "terminated" ELSE "open"

Sse == INSTANCE SseStream
         WITH events <- [i \in DOMAIN sent |-> sent[i].type], state <- StreamState
SseSpec == Sse!Spec

(* Every request comes to an end, also when the graph hangs or the client is gone.   *)
StreamEnds == <>[](pc = "ended" /\ graph # "running")

=============================================================================
