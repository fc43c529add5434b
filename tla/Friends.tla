------------------------------ MODULE Friends ------------------------------
(***************************************************************************)
(* Friendship requests between users (apps/api/routes/friends.py).  A      *)
(* handler reads the row and commits later; the unique pair and the        *)
(* primary key are all that holds two handlers apart.  Requests that cross *)
(* make two rows, one each way.                                            *)
(***************************************************************************)
EXTENDS Integers, FiniteSets, NoValue

CONSTANTS
    Person,        \* users
    Call,          \* slots for requests in flight
    MaxRows        \* bound on the rows ever created

ASSUME FriendAssumption == MaxRows \in Nat

VARIABLES
    friendships,   \* user_friendships: <<requester, addressee>> -> row
    call,          \* call[k]: the handler in slot k and the row it has read, or None
    nextRow,
    agreed         \* history: the rows their addressee read and chose to accept

friendVars == <<friendships, call, nextRow, agreed>>

Pair == {p \in Person \X Person : p[1] # p[2]}
Friendship == [id : 1..MaxRows, status : {"pending", "accepted"}]
Back(p) == <<p[2], p[1]>>

FriendInit ==
    /\ friendships = <<>> /\ call = [k \in Call |-> None] /\ nextRow = 1 /\ agreed = {}

AreFriends(a, b) ==
    \/ a = b
    \/ \E p \in {<<a, b>>, <<b, a>>} \cap DOMAIN friendships : friendships[p].status = "accepted"

Begin(k, loaded) == call[k] = None /\ call' = [call EXCEPT ![k] = loaded]
End(k) == call' = [call EXCEPT ![k] = None]
Doing(k, op) == call[k] # None /\ call[k].op = op

\* A request is refused while a row exists, either way.
StartRequest(k, p) ==
    /\ p \notin DOMAIN friendships /\ Back(p) \notin DOMAIN friendships
    /\ Begin(k, [op |-> "request", pair |-> p])
    /\ UNCHANGED <<friendships, nextRow, agreed>>

FinishRequest(k) ==
    /\ Doing(k, "request") /\ nextRow <= MaxRows
    /\ LET p == call[k].pair IN
       IF p \in DOMAIN friendships THEN UNCHANGED <<friendships, nextRow>>
       ELSE /\ friendships' = [q \in DOMAIN friendships \cup {p} |->
                                 IF q = p THEN [id |-> nextRow, status |-> "pending"]
                                 ELSE friendships[q]]
            /\ nextRow' = nextRow + 1
    /\ End(k)
    /\ UNCHANGED agreed

StartAccept(k, p, user) ==
    /\ p \in DOMAIN friendships /\ p[2] = user /\ friendships[p].status = "pending"
    /\ Begin(k, [op |-> "accept", pair |-> p, id |-> friendships[p].id])
    /\ agreed' = agreed \cup {friendships[p].id}
    /\ UNCHANGED <<friendships, nextRow>>

StillThere_AsPair(k) == call[k].pair \in DOMAIN friendships

\* An update or a delete names the row by its id: it fails when the row is gone, though
\* the same request may have been sent again.
StillThere(k) ==
    /\ call[k].pair \in DOMAIN friendships
    /\ friendships[call[k].pair].id = call[k].id

FinishAccept(k) ==
    /\ Doing(k, "accept")
    /\ friendships' = IF StillThere(k)
                      THEN [friendships EXCEPT ![call[k].pair].status = "accepted"]
                      ELSE friendships
    /\ End(k)
    /\ UNCHANGED <<nextRow, agreed>>

\* Either of the two may remove the row, pending or accepted.
StartRemove(k, p) ==
    /\ p \in DOMAIN friendships
    /\ Begin(k, [op |-> "remove", pair |-> p, id |-> friendships[p].id])
    /\ UNCHANGED <<friendships, nextRow, agreed>>

FinishRemove(k) ==
    /\ Doing(k, "remove")
    /\ friendships' = IF StillThere(k)
                      THEN [q \in DOMAIN friendships \ {call[k].pair} |-> friendships[q]]
                      ELSE friendships
    /\ End(k)
    /\ UNCHANGED <<nextRow, agreed>>

FriendNext ==
    \E k \in Call :
        \/ \E p \in Pair : StartRequest(k, p) \/ StartRemove(k, p)
        \/ \E p \in Pair, user \in Person : StartAccept(k, p, user)
        \/ FinishRequest(k) \/ FinishAccept(k) \/ FinishRemove(k)

FriendSpec == FriendInit /\ [][FriendNext]_friendVars

-----------------------------------------------------------------------------
FriendTypeOK ==
    /\ DOMAIN friendships \subseteq Pair
    /\ \A p \in DOMAIN friendships : friendships[p] \in Friendship
    /\ nextRow \in 1..(MaxRows + 1) /\ agreed \subseteq 1..MaxRows

\* Who is a friend of whom was agreed to: the addressee read this very request and chose
\* to accept it, though it may have been withdrawn and sent again in between
\* (accept_friend_request, remove_friend).
FriendsAgreed ==
    \A p \in DOMAIN friendships :
        friendships[p].status = "accepted" => friendships[p].id \in agreed

=============================================================================
