----------------------------- MODULE MCAccounts -----------------------------
(* Sessions, contacts and friendships on small instances.  The three write no  *)
(* common row, so a behaviour of one says nothing about another: each instance *)
(* explores one of them, chosen at the start, with the others at rest.         *)
EXTENDS Sessions, Contacts, Friends, TLC

CONSTANTS u1, u2, p1, p2, r1, r2

VARIABLE part

Init ==
    /\ SessionInit /\ ContactInit /\ FriendInit
    /\ part \in {"sessions", "contacts", "friends"}

Next ==
    /\ \/ part = "sessions" /\ SessionNext /\ UNCHANGED <<contactVars, friendVars>>
       \/ part = "contacts" /\ ContactNext /\ UNCHANGED <<sessionVars, friendVars>>
       \/ part = "friends" /\ FriendNext /\ UNCHANGED <<sessionVars, contactVars>>
    /\ UNCHANGED part

Spec == Init /\ [][Next]_<<sessionVars, contactVars, friendVars, part>>

\* The members of these sets are not told apart.
Symmetry == Permutations({u1, u2}) \cup Permutations({p1, p2}) \cup Permutations({r1, r2})

=============================================================================
