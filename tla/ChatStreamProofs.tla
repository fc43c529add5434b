---------------------------- MODULE ChatStreamProofs ----------------------------
(***************************************************************************)
(* Proofs about ChatStream for answers of any length, any number of        *)
(* citations and any limits.                                               *)
(***************************************************************************)
EXTENDS ChatStream, SequenceTheorems, TLAPS

-----------------------------------------------------------------------------
(* What a yield does to the events. *)

(* The types of the events that were sent. *)
Types == [i \in DOMAIN sent |-> sent[i].type]

(* A yielded event is the last one, and no earlier one changes. *)
LEMMA YieldEvent ==
    ASSUME NEW event \in Event, sent \in Seq(Event), Yield(event)
    PROVE  /\ sent' \in Seq(Event)
           /\ Types' = Append(Types, event.type)
           /\ \A type : Sent(type)' <=> (Sent(type) \/ event.type = type)
<1>1. sent' = Append(sent, event) /\ Len(sent) \in Nat
  BY DEF Yield
<1>2. sent' \in Seq(Event)
  BY <1>1
<1>3. /\ DOMAIN sent = 1..Len(sent) /\ DOMAIN sent' = 1..Len(sent) + 1
      /\ \A i \in 1..Len(sent) : sent'[i] = sent[i]
      /\ sent'[Len(sent) + 1] = event
  BY <1>1
<1>4. \A type : Sent(type)' <=> (Sent(type) \/ event.type = type)
  BY <1>1, <1>3 DEF Sent
<1>5. Types' = Append(Types, event.type)
  <2> DEFINE T == {"node_update", "token", "citation", "final", "error"}
             n == Len(sent)
  <2>1. \A i \in 1..n : sent[i] \in Event
    BY <1>3
  <2>2. Types \in Seq(T) /\ Len(Types) = n /\ event.type \in T
    BY <1>1, <1>3, <2>1 DEF Types, Event
  <2>3. /\ Append(Types, event.type) \in Seq(T)
        /\ Len(Append(Types, event.type)) = n + 1
        /\ \A i \in 1..n : Append(Types, event.type)[i] = Types[i]
        /\ Append(Types, event.type)[n + 1] = event.type
    BY <2>2, AppendProperties
  <2>4. /\ Types' \in Seq(T)
        /\ Len(Types') = n + 1
        /\ \A i \in 1..n : Types'[i] = Types[i]
        /\ Types'[n + 1] = event.type
    BY <1>1, <1>3, <2>1, <2>2 DEF Types, Event
  <2>5. \A i \in 1..n + 1 : Types'[i] = Append(Types, event.type)[i]
    BY <1>1, <2>3, <2>4
  <2> HIDE DEF T
  <2>6. QED
    BY <2>3, <2>4, <2>5, SeqEqual
<1>6. QED
  BY <1>2, <1>4, <1>5

(* Signals and fragments are events and items. *)
LEMMA EventTypes ==
    /\ \A type \in {"node_update", "token", "citation", "final", "error"} :
          Signal(type) \in Event /\ Signal(type).type = type
    /\ \A type \in {"result", "error"} : Signal(type) \in Item /\ Signal(type).type = type
    /\ \A part \in 0..MaxTokens :
          Token(part) \in Event /\ Token(part) \in Item /\ Token(part).type = "token"
BY StreamAssumption DEF StreamAssumption, Signal, Token, Event, Item

-----------------------------------------------------------------------------
(* Type correctness. *)

(* Initially every variable has its type. *)
LEMMA InitType == Init => TypeOK
<1> SUFFICES ASSUME Init PROVE TypeOK
  OBVIOUS
<1>1. queue \in Seq(Item) /\ sent \in Seq(Event)
  BY DEF Init
<1>2. 0 \in 0..MaxTokens /\ 0 \in 0..MaxCitations
  BY StreamAssumption DEF StreamAssumption
<1>3. QED
  BY <1>1, <1>2 DEF Init, TypeOK

(* The head of the queue is an item; a fragment that is taken is an event. *)
LEMMA TakeType ==
    ASSUME TypeOK, NEW type, Take(type)
    PROVE  /\ queue' \in Seq(Item)
           /\ Head(queue) \in Item /\ Head(queue).type = type
           /\ type = "token" => Head(queue) \in Event
<1>1. queue \in Seq(Item) /\ queue # <<>> /\ queue' = Tail(queue) /\ Head(queue).type = type
  BY DEF TypeOK, Take
<1>2. Head(queue) \in Item /\ Tail(queue) \in Seq(Item)
  BY <1>1, HeadTailProperties
<1>3. type = "token" => Head(queue) \in Event
  BY <1>1, <1>2 DEF Item, Event
<1>4. QED
  BY <1>1, <1>2, <1>3

(* A generator's step keeps the types. *)
LEMMA GeneratorType == ASSUME TypeOK, GeneratorStep PROVE TypeOK'
<1> USE DEF task, outcome, time, Goto
<1>0. sent \in Seq(Event) /\ queue \in Seq(Item) /\ 0 \in 0..MaxTokens
  BY StreamAssumption DEF TypeOK, StreamAssumption
<1>1. \A type \in {"node_update", "token", "citation", "final", "error"} :
          Yield(Signal(type)) => sent' \in Seq(Event)
  BY <1>0, EventTypes, YieldEvent
<1>2. CASE AnnounceRetrieval \/ AnnounceGeneration \/ AnnounceResult \/ SendFinal
           \/ FailGeneration \/ FailTransfer
  BY <1>1, <1>2 DEF AnnounceRetrieval, AnnounceGeneration, AnnounceResult, SendFinal,
                    FailGeneration, FailTransfer, TypeOK
<1>3. CASE AnswerAtOnce \/ LoadContext \/ RecallMemories \/ StartGraph \/ CommitAnswer
           \/ FailCommit \/ Schedule \/ Return
  BY <1>3 DEF AnswerAtOnce, LoadContext, RecallMemories, StartGraph, CommitAnswer,
              FailCommit, Schedule, Return, TypeOK
<1>4. CASE TakeToken
  <2>1. queue' \in Seq(Item) /\ sent' \in Seq(Event)
    BY <1>0, <1>4, TakeType, YieldEvent DEF TakeToken
  <2>2. QED
    BY <1>4, <2>1 DEF TakeToken, Take, TypeOK
<1>5. CASE TakeResult
  <2>1. queue' \in Seq(Item)
    BY <1>5, TakeType DEF TakeResult
  <2>2. QED
    BY <1>5, <2>1 DEF TakeResult, Take, TypeOK
<1>6. CASE TakeError
  <2>1. queue' \in Seq(Item) /\ sent' \in Seq(Event)
    BY <1>1, <1>6, TakeType DEF TakeError
  <2>2. QED
    BY <1>6, <2>1 DEF TakeError, Take, TypeOK
<1>7. CASE SendAnswer
  <2>1. sent' \in Seq(Event)
    BY <1>0, <1>7, EventTypes, YieldEvent DEF SendAnswer
  <2>2. QED
    BY <1>7, <2>1 DEF SendAnswer, TypeOK
<1>8. CASE SendCitation
  <2>1. sent' \in Seq(Event) /\ citations' \in 0..MaxCitations
    BY <1>1, <1>8, StreamAssumption DEF SendCitation, TypeOK, StreamAssumption
  <2>2. QED
    BY <1>8, <2>1 DEF SendCitation, TypeOK
<1>9. QED
  BY <1>2, <1>3, <1>4, <1>5, <1>6, <1>7, <1>8 DEF GeneratorStep

(* The end of the graph's task keeps the types. *)
LEMMA EndGraphType ==
    ASSUME TypeOK, NEW type \in {"result", "error"}, EndGraph(type) PROVE TypeOK'
<1>1. queue' \in Seq(Item)
  BY EventTypes, AppendProperties DEF EndGraph, TypeOK
<1>2. QED
  BY <1>1 DEF EndGraph, TypeOK, outcome, time

(* Every step keeps the types. *)
LEMMA NextType == TypeOK /\ [Next]_vars => TypeOK'
<1> SUFFICES ASSUME TypeOK, [Next]_vars PROVE TypeOK'
  OBVIOUS
<1>1. CASE GeneratorStep
  BY <1>1, GeneratorType
<1>2. CASE EmitToken
  <2>1. produced + 1 \in 0..MaxTokens
    BY <1>2, StreamAssumption DEF EmitToken, TypeOK, StreamAssumption
  <2>2. queue' \in Seq(Item)
    BY <1>2, <2>1, EventTypes, AppendProperties DEF EmitToken, TypeOK
  <2>3. QED
    BY <1>2, <2>1, <2>2 DEF EmitToken, TypeOK, outcome, time
<1>3. CASE FinishGraph \/ FailGraph \/ TimeOutGraph \/ CancelGraph
  BY <1>3, EndGraphType DEF FinishGraph, FailGraph, TimeOutGraph, CancelGraph
<1>4. CASE Tick
  <2>1. clock' \in Nat
    BY <1>4 DEF Tick, TypeOK
  <2>2. QED
    BY <1>4, <2>1 DEF Tick, TypeOK, task, outcome
<1>5. CASE Disconnect
  BY <1>5 DEF Disconnect, TypeOK, task, outcome, time
<1>6. CASE Close
  BY <1>6 DEF Close, Goto, TypeOK, task, outcome, time
<1>7. CASE Abandon
  BY <1>7 DEF Abandon, TypeOK, task, time
<1>8. CASE UNCHANGED vars
  BY <1>8 DEF vars, TypeOK
<1>9. QED
  BY <1>1, <1>2, <1>3, <1>4, <1>5, <1>6, <1>7, <1>8 DEF Next, GraphStep, Cleanup

(* The generator, the task, the queue and the events keep their types. *)
THEOREM TypeCorrect == Spec => []TypeOK
BY InitType, NextType, PTL DEF Spec

-----------------------------------------------------------------------------
(* The inductive invariant: where the generator is decides which terminal event was   *)
(* sent, whether the graph may run and what is known of the answer.                  *)

Running ==
    /\ graph = "running" => pc \in {"generating", "closing"}
    /\ pc \in {"start", "routing", "recalling", "announcing", "opening"} => queue = <<>>

(* The last item of the queue is put when the task ends. *)
LastItem == \A i \in DOMAIN queue : queue[i].type # "token" => graph # "running"

Terminals ==
    /\ Sent("final") => pc \in {"sent", "closing", "ended"}
    /\ Sent("error") => pc \in {"failed", "closing", "ended"}
    /\ pc = "sent" => Sent("final")
    /\ pc = "failed" => Sent("error")
    /\ pc = "closing" => ~listening

Accounted ==
    /\ pc = "replying" \/ Sent("final") => stored \/ warned
    /\ scheduled => /\ stored /\ ~warned /\ Sent("final") /\ kind # "injection"
                    /\ pc = "ended"

StreamInv == Running /\ LastItem /\ Terminals /\ Accounted

(* Which types a yield of one event adds. *)
LEMMA YieldSignal ==
    ASSUME TypeOK, NEW type \in {"node_update", "token", "citation", "final", "error"},
           Yield(Signal(type))
    PROVE  /\ Types' = Append(Types, type)
           /\ \A other : Sent(other)' <=> (Sent(other) \/ other = type)
<1>1. Signal(type) \in Event /\ Signal(type).type = type /\ sent \in Seq(Event)
  BY EventTypes DEF TypeOK
<1>2. QED
  BY <1>1, YieldEvent

(* When no event is sent, what was sent is what it was. *)
LEMMA NothingSent ==
    ASSUME sent' = sent
    PROVE  Types' = Types /\ \A type : Sent(type)' <=> Sent(type)
BY DEF Types, Sent

(* Initially the graph does not run and nothing was sent. *)
LEMMA InitInv == Init => StreamInv
<1> SUFFICES ASSUME Init PROVE StreamInv
  OBVIOUS
<1>1. sent = <<>> /\ queue = <<>> /\ pc = "start" /\ graph = "none" /\ scheduled = FALSE
  BY DEF Init
<1>2. \A type : ~Sent(type)
  BY <1>1 DEF Sent
<1>3. QED
  BY <1>1, <1>2 DEF StreamInv, Running, LastItem, Terminals, Accounted

(* The queue after its head was taken, or after an item was put. *)
LEMMA TakeKeepsLast ==
    ASSUME TypeOK, LastItem, graph' = graph, queue # <<>>, queue' = Tail(queue)
    PROVE  LastItem'
<1>1. queue \in Seq(Item)
  BY DEF TypeOK
<1>2. /\ DOMAIN queue = 1..Len(queue) /\ DOMAIN queue' = 1..Len(queue) - 1 /\ Len(queue) \in Nat
      /\ \A i \in 1..Len(queue) - 1 : queue'[i] = queue[i + 1]
  BY <1>1
<1>3. QED
  BY <1>2 DEF LastItem

(* The result and the error are put by a task that no longer runs. *)
LEMMA TakenAfterEnd ==
    ASSUME TypeOK, LastItem, NEW type \in {"result", "error"}, Take(type)
    PROVE  graph # "running"
<1>1. queue \in Seq(Item) /\ queue # <<>> /\ Head(queue).type = type
  BY DEF TypeOK, Take
<1>2. 1 \in DOMAIN queue /\ Head(queue) = queue[1]
  BY <1>1
<1>3. QED
  BY <1>1, <1>2 DEF LastItem

(* A generator's step keeps the invariant. *)
LEMMA GeneratorInv == ASSUME TypeOK, StreamInv, GeneratorStep PROVE StreamInv'
<1> USE DEF task, outcome, time, Goto
<1>1. CASE AnnounceRetrieval \/ AnnounceGeneration \/ AnnounceResult
  <2>1. Yield(Signal("node_update")) /\ UNCHANGED <<graph, queue, stored, warned, scheduled, kind, listening>>
    BY <1>1 DEF AnnounceRetrieval, AnnounceGeneration, AnnounceResult
  <2>2. \A type : type # "node_update" => (Sent(type)' <=> Sent(type))
    BY <2>1, YieldSignal
  <2>3. QED
    BY <1>1, <2>1, <2>2 DEF AnnounceRetrieval, AnnounceGeneration, AnnounceResult, StreamInv,
                            Running, LastItem, Terminals, Accounted
<1>2. CASE AnswerAtOnce \/ LoadContext \/ RecallMemories
  <2>1. \A type : Sent(type)' <=> Sent(type)
    BY <1>2, NothingSent DEF AnswerAtOnce, LoadContext, RecallMemories
  <2>2. QED
    BY <1>2, <2>1 DEF AnswerAtOnce, LoadContext, RecallMemories, StreamInv, Running, LastItem,
                      Terminals, Accounted
<1>3. CASE StartGraph
  <2>1. \A type : Sent(type)' <=> Sent(type)
    BY <1>3, NothingSent DEF StartGraph
  <2>2. LastItem'
    BY <1>3 DEF StartGraph, StreamInv, Running, LastItem
  <2>3. QED
    BY <1>3, <2>1, <2>2 DEF StartGraph, StreamInv, Running, Terminals, Accounted
<1>4. CASE TakeToken
  <2>1. LastItem' /\ pc = "generating" /\ UNCHANGED <<pc, graph, stored, warned, scheduled, kind, listening>>
    BY <1>4, TakeKeepsLast DEF TakeToken, Take, StreamInv
  <2>2. \A type : type # "token" => (Sent(type)' <=> Sent(type))
    <3>1. Head(queue) \in Event /\ Head(queue).type = "token" /\ Yield(Head(queue))
      BY <1>4, TakeType DEF TakeToken
    <3>2. QED
      BY <3>1, YieldEvent DEF TypeOK
  <2>3. QED
    BY <2>1, <2>2 DEF StreamInv, Running, Terminals, Accounted
<1>5. CASE TakeResult
  <2>1. LastItem' /\ graph # "running"
    BY <1>5, TakeKeepsLast, TakenAfterEnd DEF TakeResult, Take, StreamInv
  <2>2. \A type : Sent(type)' <=> Sent(type)
    BY <1>5, NothingSent DEF TakeResult
  <2>3. QED
    BY <1>5, <2>1, <2>2 DEF TakeResult, Take, StreamInv, Running, Terminals, Accounted
<1>6. CASE TakeError
  <2>1. LastItem' /\ graph # "running"
    BY <1>6, TakeKeepsLast, TakenAfterEnd DEF TakeError, Take, StreamInv
  <2>2. \A type : Sent(type)' <=> (Sent(type) \/ type = "error")
    BY <1>6, YieldSignal DEF TakeError
  <2>3. QED
    BY <1>6, <2>1, <2>2 DEF TakeError, Take, StreamInv, Running, Terminals, Accounted
<1>7. CASE FailGeneration \/ FailTransfer
  <2>1. \A type : Sent(type)' <=> (Sent(type) \/ type = "error")
    BY <1>7, YieldSignal DEF FailGeneration, FailTransfer
  <2>2. QED
    BY <1>7, <2>1 DEF FailGeneration, FailTransfer, StreamInv, Running, LastItem, Terminals,
                      Accounted
<1>8. CASE SendAnswer
  <2>1. \A type : type # "token" => (Sent(type)' <=> Sent(type))
    <3>1. sent' = sent \/ Yield(Token(0))
      BY <1>8 DEF SendAnswer
    <3>2. Token(0) \in Event /\ Token(0).type = "token" /\ sent \in Seq(Event)
      BY EventTypes, StreamAssumption DEF StreamAssumption, TypeOK
    <3>3. QED
      BY <3>1, <3>2, YieldEvent, NothingSent
  <2>2. QED
    BY <1>8, <2>1 DEF SendAnswer, StreamInv, Running, LastItem, Terminals, Accounted
<1>9. CASE SendCitation
  <2>1. \A type : type # "citation" => (Sent(type)' <=> Sent(type))
    BY <1>9, YieldSignal DEF SendCitation
  <2>2. QED
    BY <1>9, <2>1 DEF SendCitation, StreamInv, Running, LastItem, Terminals, Accounted
<1>10. CASE CommitAnswer \/ FailCommit
  <2>1. \A type : Sent(type)' <=> Sent(type)
    BY <1>10, NothingSent DEF CommitAnswer, FailCommit
  <2>2. stored' \/ warned'
    BY <1>10 DEF CommitAnswer, FailCommit
  <2>3. QED
    BY <1>10, <2>1, <2>2 DEF CommitAnswer, FailCommit, StreamInv, Running, LastItem, Terminals,
                             Accounted
<1>11. CASE SendFinal
  <2>1. \A type : Sent(type)' <=> (Sent(type) \/ type = "final")
    BY <1>11, YieldSignal DEF SendFinal
  <2>2. QED
    BY <1>11, <2>1 DEF SendFinal, StreamInv, Running, LastItem, Terminals, Accounted
<1>12. CASE Schedule
  <2>1. \A type : Sent(type)' <=> Sent(type)
    BY <1>12, NothingSent DEF Schedule
  <2>2. QED
    BY <1>12, <2>1 DEF Schedule, StreamInv, Running, LastItem, Terminals, Accounted
<1>13. CASE Return
  <2>1. \A type : Sent(type)' <=> Sent(type)
    BY <1>13, NothingSent DEF Return
  <2>2. QED
    BY <1>13, <2>1 DEF Return, StreamInv, Running, LastItem, Terminals, Accounted
<1>14. QED
  BY <1>1, <1>2, <1>3, <1>4, <1>5, <1>6, <1>7, <1>8, <1>9, <1>10, <1>11, <1>12, <1>13
     DEF GeneratorStep

(* Every step keeps the invariant. *)
LEMMA NextInv == TypeOK /\ StreamInv /\ [Next]_vars => StreamInv'
<1> SUFFICES ASSUME TypeOK, StreamInv, [Next]_vars PROVE StreamInv'
  OBVIOUS
<1> USE DEF task, outcome, time
<1>1. CASE GeneratorStep
  BY <1>1, GeneratorInv
<1>2. ASSUME ~GeneratorStep PROVE sent' = sent
  BY <1>2 DEF Next, GraphStep, Cleanup, EmitToken, FinishGraph, FailGraph, TimeOutGraph,
              EndGraph, CancelGraph, Tick, Disconnect, Abandon, Close, vars
<1>3. ASSUME ~GeneratorStep PROVE \A type : Sent(type)' <=> Sent(type)
  BY <1>2, <1>3, NothingSent
<1>4. CASE ~GeneratorStep /\ EmitToken
  <2>1. LastItem'
    <3>1. queue \in Seq(Item) /\ Token(produced + 1) \in Item /\ Token(produced + 1).type = "token"
      BY <1>4, EventTypes, StreamAssumption DEF EmitToken, TypeOK, StreamAssumption
    <3>2. queue' = Append(queue, Token(produced + 1)) /\ graph' = graph
      BY <1>4 DEF EmitToken
    <3>3. /\ DOMAIN queue' = 1..Len(queue) + 1 /\ DOMAIN queue = 1..Len(queue) /\ Len(queue) \in Nat
          /\ \A i \in 1..Len(queue) : queue'[i] = queue[i]
          /\ queue'[Len(queue) + 1] = Token(produced + 1)
      BY <3>1, <3>2
    <3>4. QED
      BY <3>1, <3>2, <3>3 DEF StreamInv, LastItem
  <2>2. QED
    BY <1>3, <1>4, <2>1 DEF EmitToken, StreamInv, Running, Terminals, Accounted
<1>5. CASE ~GeneratorStep /\ \E type : EndGraph(type)
  BY <1>3, <1>5 DEF EndGraph, StreamInv, Running, LastItem, Terminals, Accounted
<1>6. CASE ~GeneratorStep /\ (Tick \/ Disconnect)
  BY <1>3, <1>6 DEF Tick, Disconnect, StreamInv, Running, LastItem, Terminals, Accounted
<1>7. CASE ~GeneratorStep /\ Abandon
  BY <1>3, <1>7 DEF Abandon, StreamInv, Running, LastItem, Terminals, Accounted
<1>8. CASE ~GeneratorStep /\ Close
  BY <1>3, <1>8 DEF Close, Goto, StreamInv, Running, LastItem, Terminals, Accounted
<1>9. CASE ~GeneratorStep /\ UNCHANGED vars
  BY <1>3, <1>9 DEF vars, StreamInv, Running, LastItem, Terminals, Accounted
<1>10. QED
  BY <1>1, <1>4, <1>5, <1>6, <1>7, <1>8, <1>9
     DEF Next, GraphStep, Cleanup, FinishGraph, FailGraph, TimeOutGraph, CancelGraph

(* The generator, the graph, the terminal events and the stored answer agree.         *)
THEOREM StreamInvariant == Spec => []StreamInv
BY InitType, NextType, InitInv, NextInv, PTL DEF Spec

(* A final event without a warning tells of a stored answer, and the memory refresh   *)
(* is scheduled for no other, whatever fails, disconnects or times out.              *)
THEOREM FinalTellsOfStoredAnswer == Spec => []AnswerAccounted
<1>1. StreamInv => AnswerAccounted
  BY DEF StreamInv, Accounted, AnswerAccounted
<1>2. QED
  BY <1>1, StreamInvariant, PTL

(* The graph has ended before the request ends and before the answer is stored, so    *)
(* the database session they share is never used by both.                            *)
THEOREM NoGraphOutlivesRequest == Spec => []GraphEndsFirst
<1>1. StreamInv => GraphEndsFirst
  BY DEF StreamInv, Running, GraphEndsFirst
<1>2. QED
  BY <1>1, StreamInvariant, PTL

-----------------------------------------------------------------------------
(* Refinement. *)

(* One more event and no other change of the mapped state is progress. *)
LEMMA ProgressRefines ==
    ASSUME TypeOK, StreamInv, NEW type \in {"node_update", "token", "citation"},
           Types' = Append(Types, type), \A t : Sent(t)' <=> (Sent(t) \/ t = type),
           pc \notin {"sent", "failed", "closing", "ended"},
           pc' \notin {"sent", "failed", "closing", "ended"},
           listening' = listening
    PROVE  Sse!SendProgress
<1>1. ~Sent("final") /\ ~Sent("error")
  BY DEF StreamInv, Terminals
<1>2. StreamState = "open" /\ StreamState' = "open"
  BY <1>1 DEF StreamState
<1>3. QED
  BY <1>2 DEF Sse!SendProgress, Sse!Progress, Types

(* A terminal event ends the open stream. *)
LEMMA TerminalRefines ==
    ASSUME TypeOK, StreamInv, NEW type \in {"final", "error"}, Yield(Signal(type)),
           pc \notin {"sent", "failed", "closing", "ended"},
           pc' \in {"sent", "failed"}, listening' = listening
    PROVE  Sse!Terminate
<1>1. ~Sent("final") /\ ~Sent("error")
  BY DEF StreamInv, Terminals
<1>2. Types' = Append(Types, type) /\ Sent(type)'
  BY YieldSignal
<1>3. StreamState = "open" /\ StreamState' = "terminated"
  BY <1>1, <1>2 DEF StreamState
<1>4. QED
  BY <1>2, <1>3 DEF Sse!Terminate, Sse!Terminal, Types

(* A step that sends nothing and ends nothing is a stutter. *)
LEMMA SilentRefines ==
    ASSUME sent' = sent, listening' = listening, pc' = "ended" <=> pc = "ended"
    PROVE  UNCHANGED <<[i \in DOMAIN sent |-> sent[i].type], StreamState, listening>>
BY NothingSent DEF StreamState, Types

(* The end of the generator closes a stream that is terminated, or that nobody reads. *)
LEMMA EndRefines ==
    ASSUME sent' = sent, listening' = listening, pc # "ended", pc' = "ended",
           Sent("final") \/ Sent("error") \/ ~listening
    PROVE  Sse!Close
BY NothingSent DEF StreamState, Types, Sse!Close

(* Every step of the generator, the task and the client is one of SseStream or none.  *)
LEMMA StepRefines ==
    TypeOK /\ StreamInv /\ [Next]_vars =>
        [Sse!Next]_<<[i \in DOMAIN sent |-> sent[i].type], StreamState, listening>>
<1> SUFFICES ASSUME TypeOK, StreamInv, [Next]_vars
             PROVE  Sse!Next \/ UNCHANGED <<[i \in DOMAIN sent |-> sent[i].type], StreamState, listening>>
  OBVIOUS
<1> USE DEF Goto, task, outcome, time
<1>1. CASE AnnounceRetrieval \/ AnnounceGeneration \/ AnnounceResult
  <2>1. Sse!SendProgress
    BY <1>1, YieldSignal, ProgressRefines DEF AnnounceRetrieval, AnnounceGeneration, AnnounceResult
  <2>2. QED
    BY <2>1 DEF Sse!Next
<1>2. CASE AnswerAtOnce \/ LoadContext \/ RecallMemories \/ StartGraph \/ TakeResult
           \/ CommitAnswer \/ FailCommit
  BY <1>2, SilentRefines DEF AnswerAtOnce, LoadContext, RecallMemories, StartGraph, TakeResult,
                             Take, CommitAnswer, FailCommit
<1>3. CASE TakeToken
  <2>1. Head(queue) \in Event /\ Head(queue).type = "token" /\ Yield(Head(queue))
    BY <1>3, TakeType DEF TakeToken
  <2>2. Types' = Append(Types, "token") /\ \A t : Sent(t)' <=> (Sent(t) \/ t = "token")
    BY <2>1, YieldEvent DEF TypeOK
  <2>3. Sse!SendProgress
    BY <1>3, <2>2, ProgressRefines DEF TakeToken, Take
  <2>4. QED
    BY <2>3 DEF Sse!Next
<1>4. CASE SendAnswer
  <2>1. CASE Yield(Token(0))
    <3>1. Token(0) \in Event /\ Token(0).type = "token"
      BY EventTypes, StreamAssumption DEF StreamAssumption
    <3>2. Types' = Append(Types, "token") /\ \A t : Sent(t)' <=> (Sent(t) \/ t = "token")
      BY <2>1, <3>1, YieldEvent DEF TypeOK
    <3>3. Sse!SendProgress
      BY <1>4, <3>2, ProgressRefines DEF SendAnswer
    <3>4. QED
      BY <3>3 DEF Sse!Next
  <2>2. CASE sent' = sent
    BY <1>4, <2>2, SilentRefines DEF SendAnswer
  <2>3. QED
    BY <1>4, <2>1, <2>2 DEF SendAnswer
<1>5. CASE SendCitation
  <2>1. Sse!SendProgress
    BY <1>5, YieldSignal, ProgressRefines DEF SendCitation
  <2>2. QED
    BY <2>1 DEF Sse!Next
<1>6. CASE TakeError \/ FailGeneration \/ FailTransfer
  <2>1. Sse!Terminate
    BY <1>6, TerminalRefines DEF TakeError, Take, FailGeneration, FailTransfer
  <2>2. QED
    BY <2>1 DEF Sse!Next
<1>7. CASE SendFinal
  <2>1. Sse!Terminate
    BY <1>7, TerminalRefines DEF SendFinal
  <2>2. QED
    BY <2>1 DEF Sse!Next
<1>8. CASE Schedule \/ Return \/ Close
  <2>1. Sse!Close
    BY <1>8, EndRefines DEF Schedule, Return, Close, StreamInv, Terminals
  <2>2. QED
    BY <2>1 DEF Sse!Next
<1>9. CASE EmitToken \/ Tick \/ Abandon
  BY <1>9, SilentRefines DEF EmitToken, Tick, Abandon
<1>10. CASE FinishGraph \/ FailGraph \/ TimeOutGraph \/ CancelGraph
  BY <1>10, SilentRefines DEF FinishGraph, FailGraph, TimeOutGraph, CancelGraph, EndGraph
<1>11. CASE Disconnect
  <2>1. Sse!Disconnect
    BY <1>11, NothingSent DEF Disconnect, Sse!Disconnect, StreamState, Types
  <2>2. QED
    BY <2>1 DEF Sse!Next
<1>12. CASE UNCHANGED vars
  BY <1>12, SilentRefines DEF vars
<1>13. QED
  BY <1>1, <1>2, <1>3, <1>4, <1>5, <1>6, <1>7, <1>8, <1>9, <1>10, <1>11, <1>12
     DEF Next, GeneratorStep, GraphStep, Cleanup

(* The generator, with its task, its queue and its failures, implements the promise   *)
(* of SseStream: progress, then one terminal event, then the end.                    *)
THEOREM ImplementsSseStream == Spec => SseSpec
<1>1. Init => Sse!Init
  <2> SUFFICES ASSUME Init PROVE Sse!Init
    OBVIOUS
  <2>1. sent = <<>> /\ pc = "start" /\ listening = TRUE
    BY DEF Init
  <2>2. [i \in DOMAIN sent |-> sent[i].type] = <<>>
    BY <2>1
  <2>3. StreamState = "open"
    BY <2>1 DEF StreamState, Sent
  <2>4. QED
    BY <2>1, <2>2, <2>3 DEF Sse!Init
<1>2. QED
  BY <1>1, StepRefines, TypeCorrect, StreamInvariant, PTL DEF Spec, SseSpec, Sse!Spec

=============================================================================
