----------------------------- MODULE SseStream -----------------------------
(***************************************************************************)
(* What the chat endpoint promises to the browser: a sequence of progress  *)
(* events, then exactly one terminal event, final or error, and nothing    *)
(* after it.  The stream closes without a terminal event only when nobody  *)
(* listens any more.                                                       *)
(***************************************************************************)
EXTENDS Sequences

VARIABLES
    events,     \* the types of the events sent so far
    state,      \* open, terminated (the terminal event was sent) or closed
    listening   \* the client is still connected

Progress == {"node_update", "token", "citation"}
Terminal == {"final", "error"}

Init ==
    /\ events = <<>>
    /\ state = "open"
    /\ listening = TRUE

SendProgress ==
    /\ state = "open"
    /\ \E type \in Progress : events' = Append(events, type)
    /\ UNCHANGED <<state, listening>>

Terminate ==
    /\ state = "open"
    /\ \E type \in Terminal : events' = Append(events, type)
    /\ state' = "terminated"
    /\ UNCHANGED listening

Disconnect ==
    /\ listening
    /\ listening' = FALSE
    /\ UNCHANGED <<events, state>>

Close ==
    /\ \/ state = "terminated"
       \/ state = "open" /\ ~listening
    /\ state' = "closed"
    /\ UNCHANGED <<events, listening>>

Next == SendProgress \/ Terminate \/ Disconnect \/ Close

Spec == Init /\ [][Next]_<<events, state, listening>>

=============================================================================
