------------------------------- MODULE Turns -------------------------------
(***************************************************************************)
(* The vocabulary of services/memory/conversation.py: complete turns, the  *)
(* trailing segment of unanswered user messages, the window of raw         *)
(* messages sent to the model and the candidates for the summary.          *)
(*                                                                         *)
(* A conversation is a sequence log of messages in created_at order; a     *)
(* message has a role and a size.  The operators work on a set S of        *)
(* indices of log, the messages a reader sees.  They say WHAT the loops of *)
(* the code compute; module TurnLoops has the loops and compares the two.  *)
(***************************************************************************)
EXTENDS Integers, FiniteSets

CONSTANTS
    RecentTurnLimit,   \* settings.chat_recent_turn_limit
    CharacterBudget,   \* settings.chat_context_character_budget
    SeparatorSize      \* length of _MESSAGE_SEPARATOR

ASSUME TurnsAssumption ==
    /\ RecentTurnLimit \in Nat
    /\ CharacterBudget \in Nat
    /\ SeparatorSize \in Nat

\* The assistant message e closes a turn: the message just before it in S is a user's.
\* An assistant message right after another one closes nothing.
Closes(log, S, e) ==
    /\ log[e].role = "assistant"
    /\ \E u \in S : /\ u < e
                    /\ log[u].role = "user"
                    /\ \A k \in S : ~(u < k /\ k < e)

TurnEnds(log, S) == {e \in S : Closes(log, S, e)}

\* The messages of the turn that e closes: e and the user messages directly before it.
TurnOf(log, S, e) ==
    {e} \cup {u \in S : /\ u < e
                        /\ \A k \in S : u <= k /\ k < e => log[k].role = "user"}

\* The user messages after the last assistant message.
Pending(log, S) == {u \in S : \A k \in S : k >= u => log[k].role = "user"}

TurnMessages(log, S, Ends) == UNION {TurnOf(log, S, e) : e \in Ends}

\* The characters of the messages' texts, each as its place in its message.
Characters(log, T) == UNION {{i} \X (1..log[i].size) : i \in T}

\* The length of the messages' text, joined by the separator.
TextSize(log, T) ==
    Cardinality(Characters(log, T))
      + SeparatorSize * (IF T = {} THEN 0 ELSE Cardinality(T) - 1)

KeptEnds_EachAlone(log, S) ==
    {e \in TurnEnds(log, S) :
        /\ Cardinality({f \in TurnEnds(log, S) : f >= e}) <= RecentTurnLimit
        /\ TextSize(log, Pending(log, S) \cup TurnOf(log, S, e)) <= CharacterBudget}

\* The turns whose messages stay raw: the newest ones, at most RecentTurnLimit of
\* them, that fit the budget together with the pending segment.
KeptEnds(log, S) ==
    {e \in TurnEnds(log, S) :
        LET newest == {f \in TurnEnds(log, S) : f >= e}
        IN  /\ Cardinality(newest) <= RecentTurnLimit
            /\ TextSize(log, Pending(log, S) \cup TurnMessages(log, S, newest))
                 <= CharacterBudget}

Window(log, S) == Pending(log, S) \cup TurnMessages(log, S, KeptEnds(log, S))

Candidates(log, S) ==
    TurnMessages(log, S, TurnEnds(log, S) \ KeptEnds(log, S))

============================================================================
