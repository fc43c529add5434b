------------------------------ MODULE ChatClient ------------------------------
(***************************************************************************)
(* The chat in the browser: the store (apps/web/src/stores/chat.ts) on top *)
(* of the stream reader (sendMessage of apps/web/src/api/client.ts), and   *)
(* the view that allows the calls (views/ChatView.vue).                    *)
(*                                                                         *)
(* Questions are numbered in the order they are sent.  A stream ends by    *)
(* the server closing it, by the connection breaking, by the timer of      *)
(* ninety seconds or by the user; the server's events are those of module  *)
(* ChatStream: a final answer or an error, once, then the end.  Tokens,    *)
(* citations and status lines only change what is shown of the answer in   *)
(* progress and are left out.                                              *)
(***************************************************************************)
EXTENDS Naturals, Sequences, SequencesExt, FiniteSets, NoValue

CONSTANTS
    MaxSends,    \* bound on the questions sent
    MaxOpens     \* bound on the conversations opened from the list

VARIABLES
    messages,    \* what is shown: questions, answers, and a loaded conversation as one entry
    conv,        \* currentConvId: the question that began the conversation, or None
    streaming,   \* whether the store waits for an answer
    streams,     \* the requests, by question
    failed,      \* lastFailedMessage, as the question it repeats, or None
    loads,       \* conversations whose messages were asked for, with the answer under way
    opens        \* how many were opened

chatVars == <<messages, conv, streaming, streams, failed, loads, opens>>

Sent == DOMAIN streams
\* "disturbed" is what the history of a stream adds to the code's state: another conversation
\* was loaded, or another answer came to be under way, before its end.
Stream == [conv : Sent \cup {None}, state : {"open", "answered", "failed", "closed"},
           disturbed : BOOLEAN]

ChatInit ==
    /\ messages = <<>> /\ conv = None /\ streaming = FALSE /\ streams = <<>>
    /\ failed = None /\ loads = {} /\ opens = 0

Entry(role, n, alone) == [role |-> role, of |-> n, undisturbed |-> alone]

-----------------------------------------------------------------------------
(* The user *)

Ask ==
    /\ Len(streams) < MaxSends
    /\ failed' = None /\ streaming' = TRUE
    /\ messages' = Append(messages, Entry("user", Len(streams) + 1, TRUE))
    /\ streams' = Append(streams, [conv |-> conv, state |-> "open",
                                    disturbed |-> \E n \in Sent : streams[n].state = "open"])
    /\ UNCHANGED <<conv, loads, opens>>

\* A blank message, or one while an answer streams, is ignored.
Send == ~streaming /\ Ask
Retry == failed # None /\ Send

\* The controller is that of the latest request; an aborted request reports nothing.
Cancel ==
    /\ streaming /\ streams # <<>>
    /\ streaming' = FALSE
    /\ streams' = [streams EXCEPT ![Len(streams)].state = "closed"]
    /\ UNCHANGED <<messages, conv, failed, loads, opens>>

NewChat_Always ==
    /\ conv' = None /\ messages' = <<>> /\ failed' = None
    /\ UNCHANGED <<streaming, streams, loads, opens>>

\* Nothing happens while an answer streams: the question on screen must stay.
NewChat ==
    /\ ~streaming
    /\ conv' = None /\ messages' = <<>> /\ failed' = None
    /\ UNCHANGED <<streaming, streams, loads, opens>>

\* Conversations known to the list: those some question began.
OpenConversation(c) ==
    /\ opens < MaxOpens /\ opens' = opens + 1
    /\ conv' = c /\ loads' = loads \cup {c}
    /\ UNCHANGED <<messages, streaming, streams, failed>>

-----------------------------------------------------------------------------
(* What arrives *)

\* The list is replaced by the conversation that was asked for, whatever is shown or streams
\* by now; a load that fails leaves it alone.
MessagesLoaded(c) ==
    /\ c \in loads /\ loads' = loads \ {c}
    /\ \/ UNCHANGED <<messages, streams>>
       \/ /\ messages' = <<Entry("loaded", c, TRUE)>>
          /\ streams' = [n \in Sent |-> [streams[n] EXCEPT !.disturbed = TRUE]]
    /\ UNCHANGED <<conv, streaming, failed, opens>>

\* A conversation without an id takes that of the answer.
FinalEvent(n) ==
    /\ streams[n].state = "open"
    /\ messages' = Append(messages, Entry("assistant", n, ~streams[n].disturbed))
    /\ conv' = IF conv # None THEN conv
               ELSE IF streams[n].conv # None THEN streams[n].conv ELSE n
    /\ streaming' = FALSE
    /\ streams' = [streams EXCEPT ![n].state = "answered"]
    /\ UNCHANGED <<failed, loads, opens>>

ReportError(n) == failed' = n /\ streaming' = FALSE

ErrorEvent(n) ==
    /\ streams[n].state = "open"
    /\ streams' = [streams EXCEPT ![n].state = "failed"]
    /\ ReportError(n)
    /\ UNCHANGED <<messages, conv, loads, opens>>

\* The server ends the response, or refuses the request: an error unless the answer or an
\* error came before.
ServerCloses(n) ==
    /\ streams[n].state # "closed"
    /\ streams' = [streams EXCEPT ![n].state = "closed"]
    /\ IF streams[n].state = "open" THEN ReportError(n) ELSE UNCHANGED <<failed, streaming>>
    /\ UNCHANGED <<messages, conv, loads, opens>>

\* An error is reported once, but also after an answer; then the store stops waiting for
\* whatever it waits for by now, and the answer under way has lost its protection.
EndsBadly_Silent(n) ==
    /\ streams[n].state # "closed"
    /\ streams' = [streams EXCEPT ![n].state = "closed"]
    /\ UNCHANGED <<messages, conv, streaming, failed, loads, opens>>

EndsBadly(n) ==
    /\ streams[n].state # "closed"
    /\ streams' = [m \in Sent |->
          IF m = n THEN [streams[n] EXCEPT !.state = "closed"]
          ELSE [streams[m] EXCEPT !.disturbed = @ \/ streams[n].state = "answered"]]
    /\ IF streams[n].state = "failed" THEN UNCHANGED <<failed, streaming>> ELSE ReportError(n)
    /\ UNCHANGED <<messages, conv, loads, opens>>

ConnectionBreaks(n) == EndsBadly(n)
Timeout(n) == EndsBadly(n)

ChatNext ==
    \/ Send \/ Retry \/ Cancel \/ NewChat
    \/ \E c \in Sent : OpenConversation(c) \/ MessagesLoaded(c)
    \/ \E n \in Sent :
          FinalEvent(n) \/ ErrorEvent(n) \/ ServerCloses(n) \/ ConnectionBreaks(n) \/ Timeout(n)

\* The browser's timer fires on every request that has not ended.
ChatFairness == \A n \in 1..MaxSends : WF_chatVars(n \in Sent /\ Timeout(n))

ChatSpec == ChatInit /\ [][ChatNext]_chatVars /\ ChatFairness

-----------------------------------------------------------------------------
\* An answer stands directly under its question, unless the user opened another
\* conversation while it streamed or the connection of an earlier answer broke meanwhile
\* (send, newChat, cancel and retry of the store).
AnswersOwnQuestion ==
    \A k \in DOMAIN messages :
        messages[k].role = "assistant" /\ messages[k].undisturbed =>
            k > 1 /\ messages[k - 1] = Entry("user", messages[k].of, TRUE)

\* The store never waits forever: the button comes back whatever the server does
\* (sendMessage: the timer of CLIENT_STREAM_TIMEOUT_MS, reportError).
StreamingEnds == streaming ~> ~streaming

=============================================================================
