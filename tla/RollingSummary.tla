--------------------------- MODULE RollingSummary ---------------------------
(***************************************************************************)
(* What the summary of one conversation promises, whatever the refresh     *)
(* tasks do: it changes only by folding in, in one indivisible step, a     *)
(* non-empty set of messages that all lie beyond the cursor, and the       *)
(* cursor then names the last of them.  The one other thing that happens   *)
(* to it is the loss of the cursor, when the message it names is deleted.  *)
(***************************************************************************)
EXTENDS Integers

CONSTANT Ids              \* positions of messages in the conversation, from 1 on

VARIABLES
    revision,   \* number of times the summary was replaced
    cursor,     \* position of the last message folded in, 0 when there is none
    content     \* content[i]: how many times message i was folded in

summary == <<revision, cursor, content>>

Init ==
    /\ revision = 0
    /\ cursor = 0
    /\ content = [i \in Ids |-> 0]

Fold(B) ==
    /\ \A i \in B : i > cursor
    /\ \E last \in B : /\ \A i \in B : i <= last
                       /\ cursor' = last
    /\ content' = [i \in Ids |-> content[i] + (IF i \in B THEN 1 ELSE 0)]
    /\ revision' = revision + 1

LoseCursor ==
    /\ cursor # 0
    /\ cursor' = 0
    /\ UNCHANGED <<revision, content>>

Next == (\E B \in SUBSET Ids : Fold(B)) \/ LoseCursor

Spec == Init /\ [][Next]_summary

=============================================================================
