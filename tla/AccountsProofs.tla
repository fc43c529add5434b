--------------------------- MODULE AccountsProofs ---------------------------
(***************************************************************************)
(* Sessions: a token that was ended is never accepted again, and one that  *)
(* nobody ended is accepted, for any number of users, tokens and requests  *)
(* in flight.  Friends: nobody is anybody's friend without having agreed   *)
(* to it, for any number of users, of requests in flight and of rows.      *)
(* Contacts: a contact is verified only by its own code, and a challenge   *)
(* is posted a bounded number of times, for any number of handlers and any *)
(* limits.                                                                 *)
(***************************************************************************)
EXTENDS Sessions, Contacts, Friends, FiniteSetTheorems, TLAPS

-----------------------------------------------------------------------------
(* Sessions.  The two properties follow from who owns what: tokens are     *)
(* numbered as they are issued, every token has a session, and a token     *)
(* column holds a token of its own user.  A logout in flight that saw      *)
(* another token in the column will not find its own there, because tokens *)
(* never return; a change of password in flight revokes every session it   *)
(* saw that is not revoked already.                                        *)

TokensNumbered == \E n \in 0..MaxTokens : DOMAIN sessions = 1..n

SessionsOwned == \A t \in DOMAIN sessions : sessions[t].user \in DOMAIN users

ColumnsOwned ==
    \A u \in DOMAIN users : users[u].token # None =>
        users[u].token \in DOMAIN sessions /\ sessions[users[u].token].user = u

LinksKnown == links \subseteq (DOMAIN users) \X (DOMAIN users)

AliveActive == \A t \in alive : Active(t)

LoginOK(r) == request[r].user \in DOMAIN users

LogoutOK(r) ==
    /\ request[r].user \in DOMAIN users
    /\ request[r].token \in DOMAIN sessions
    /\ sessions[request[r].token].user = request[r].user
    /\ \/ request[r].column = request[r].token
       \/ users[request[r].user].token # request[r].token

ChangeOK(r) ==
    /\ request[r].user \in DOMAIN users
    /\ request[r].old \in Password /\ request[r].new \in Password
    /\ request[r].revokes \subseteq request[r].before
    /\ request[r].before \subseteq DOMAIN sessions
    /\ \A s \in request[r].before :
          /\ sessions[s].user = request[r].user
          /\ s \in request[r].revokes \/ sessions[s].revoked

LinkOK(r) == request[r].user \in DOMAIN users /\ request[r].other \in DOMAIN users

\* What is known of a request in flight.
RequestOK(r) == request[r] # None =>
    /\ request[r].op \in {"login", "switch"} => LoginOK(r)
    /\ request[r].op = "logout" => LogoutOK(r)
    /\ request[r].op = "change" => ChangeOK(r)
    /\ request[r].op = "link" => LinkOK(r)

RequestsOK == DOMAIN request = Request /\ \A r \in Request : RequestOK(r)

\* Accounts and sessions by themselves.
StoreInv ==
    /\ SessionTypeOK /\ TokensNumbered /\ SessionsOwned /\ ColumnsOwned /\ LinksKnown
    /\ AliveActive

SessionInv == StoreInv /\ EndedStaysEnded /\ RequestsOK

\* What every step leaves of accounts and sessions: none disappears, a session keeps its
\* user and stays revoked or expired, and a column changes to nothing or to a new token.
Advance ==
    /\ DOMAIN users \subseteq DOMAIN users'
    /\ DOMAIN sessions \subseteq DOMAIN sessions'
    /\ \A t \in DOMAIN sessions :
          /\ sessions'[t].user = sessions[t].user
          /\ sessions[t].revoked => sessions'[t].revoked
          /\ sessions[t].expired => sessions'[t].expired
    /\ \A u \in DOMAIN users :
          \/ users'[u].token = users[u].token
          \/ users'[u].token = None
          \/ users'[u].token \notin DOMAIN sessions

-----------------------------------------------------------------------------
\* The next token is one past the tokens there are.
LEMMA NextTokenIsNew ==
    ASSUME TokensNumbered
    PROVE  /\ NextToken \notin DOMAIN sessions
           /\ NextToken \in Nat \ {0}
           /\ DOMAIN sessions \cup {NextToken} = 1..NextToken
<1>1. PICK n \in 0..MaxTokens : DOMAIN sessions = 1..n
  BY DEF TokensNumbered
<1>2. Cardinality(DOMAIN sessions) = n
  BY <1>1, FS_Interval, SessionAssumption
<1>3. NextToken = n + 1 /\ n \in Nat
  BY <1>2, SessionAssumption DEF NextToken
<1> QED
  BY <1>1, <1>3

\* None is not a token.
LEMMA TokensAreThere ==
    ASSUME SessionTypeOK
    PROVE  None \notin DOMAIN sessions /\ DOMAIN sessions \subseteq Token
BY SessionAssumption DEF SessionTypeOK, Token

\* The caller of an accepted token is the user of its session (get_current_user).
LEMMA CallerOwnsToken ==
    ASSUME StoreInv, NEW t \in Token, Accepted(t)
    PROVE  /\ t \in DOMAIN sessions
           /\ Caller(t) = sessions[t].user /\ Caller(t) \in DOMAIN users
<1>1. t # None
  BY SessionAssumption DEF Token
<1>2. CASE TokenOwners(t) # {}
  <2>1. Caller(t) \in TokenOwners(t)
    BY <1>2 DEF Caller
  <2>2. Caller(t) \in DOMAIN users /\ users[Caller(t)].token = t
    BY <2>1 DEF TokenOwners
  <2> QED
    BY <2>2, <1>1 DEF StoreInv, ColumnsOwned
<1>3. CASE TokenOwners(t) = {}
  <2>1. Caller(t) = sessions[t].user /\ t \in DOMAIN sessions
    BY <1>3 DEF Caller, Accepted, Active
  <2> QED
    BY <2>1 DEF StoreInv, SessionsOwned
<1> QED
  BY <1>2, <1>3

\* What is known of a request stays true while other requests advance.
LEMMA RequestCarried ==
    ASSUME StoreInv, Advance, NEW r \in Request, RequestOK(r), request'[r] = request[r]
    PROVE  RequestOK(r)'
<1>0. SUFFICES ASSUME request[r] # None PROVE RequestOK(r)'
  BY DEF RequestOK
<1>1. request[r].op \in {"login", "switch"} => LoginOK(r)'
  BY <1>0 DEF RequestOK, LoginOK, Advance
<1>2. request[r].op = "logout" => LogoutOK(r)'
  <2> SUFFICES ASSUME request[r].op = "logout" PROVE LogoutOK(r)'
    OBVIOUS
  <2>1. LogoutOK(r)
    BY <1>0 DEF RequestOK
  <2>2. request[r].token # None
    BY <2>1, TokensAreThere DEF LogoutOK, StoreInv
  <2> QED
    BY <2>1, <2>2 DEF LogoutOK, Advance
<1>3. request[r].op = "change" => ChangeOK(r)'
  <2> SUFFICES ASSUME request[r].op = "change" PROVE ChangeOK(r)'
    OBVIOUS
  <2>1. ChangeOK(r)
    BY <1>0 DEF RequestOK
  <2> QED
    BY <2>1 DEF ChangeOK, Advance
<1>4. request[r].op = "link" => LinkOK(r)'
  BY <1>0 DEF RequestOK, LinkOK, Advance
<1> QED
  BY <1>1, <1>2, <1>3, <1>4 DEF RequestOK

\* A step of no request, or the last step of one, keeps what is known of the others.
LEMMA RequestsCarried ==
    ASSUME SessionInv, Advance,
           \/ request' = request
           \/ \E r \in Request : request' = [request EXCEPT ![r] = None]
    PROVE  RequestsOK'
<1>1. DOMAIN request' = Request
  BY DEF SessionInv, RequestsOK
<1>2. ASSUME NEW q \in Request PROVE RequestOK(q)'
  <2>1. CASE request'[q] = None
    BY <2>1 DEF RequestOK
  <2>2. CASE request'[q] = request[q]
    BY <2>2, RequestCarried DEF SessionInv, RequestsOK
  <2> QED
    BY <2>1, <2>2 DEF SessionInv, RequestsOK
<1> QED
  BY <1>1, <1>2 DEF RequestsOK

\* The first step of a request keeps what is known of the others.
LEMMA LoadCarries ==
    ASSUME SessionInv, NEW r \in Request, NEW loaded, request' = [request EXCEPT ![r] = loaded],
           UNCHANGED <<users, sessions, links, alive, ended>>, RequestOK(r)'
    PROVE  SessionInv'
<1>1. Advance
  BY DEF Advance
<1>2. StoreInv' /\ EndedStaysEnded'
  BY DEF SessionInv, StoreInv, SessionTypeOK, TokensNumbered, SessionsOwned, ColumnsOwned,
         LinksKnown, AliveActive, Active, EndedStaysEnded, Accepted, TokenOwners
<1>3. ASSUME NEW q \in Request, q # r PROVE RequestOK(q)'
  <2>1. request'[q] = request[q]
    BY <1>3 DEF SessionInv, RequestsOK
  <2> QED
    BY <2>1, <1>1, RequestCarried DEF SessionInv, RequestsOK
<1>4. DOMAIN request' = Request
  BY DEF SessionInv, RequestsOK
<1> QED
  BY <1>2, <1>3, <1>4 DEF SessionInv, RequestsOK

\* A token that is not accepted is not accepted after a step.
LEMMA EndedCarried ==
    ASSUME StoreInv, Advance, NEW t \in DOMAIN sessions, ~Accepted(t)
    PROVE  ~Accepted(t)' \/ \E u \in DOMAIN users' \ DOMAIN users : users'[u].token = t
<1>1. t # None
  BY TokensAreThere DEF StoreInv
<1>2. ~Active(t)'
  BY DEF Accepted, Active, Advance
<1>3. ASSUME NEW u \in DOMAIN users PROVE users'[u].token # t
  BY <1>1 DEF Advance, Accepted, TokenOwners
<1> QED
  BY <1>2, <1>3 DEF Accepted, TokenOwners

-----------------------------------------------------------------------------
\* Pairs of a set.
LEMMA PairsOfSet ==
    ASSUME NEW S, NEW a, NEW b, <<a, b>> \in S \X S
    PROVE  a \in S /\ b \in S
OBVIOUS

LEMMA PairsOfSuperset ==
    ASSUME NEW S, NEW T, S \subseteq T
    PROVE  S \X S \subseteq T \X T
OBVIOUS

\* A new token for a user: what a registration, a login and a switch leave.
LEMMA Issued ==
    ASSUME SessionInv, NEW u \in User, NEW account \in Account, account.token = NextToken,
           Issue(u, account), UNCHANGED <<links, ended>>
    PROVE  Advance /\ StoreInv' /\ EndedStaysEnded'
<1> DEFINE n == NextToken
           new == NewSession(u)
<1>1. /\ n \in Token
      /\ DOMAIN users' = DOMAIN users \cup {u}
      /\ \A v \in DOMAIN users' : users'[v] = IF v = u THEN account ELSE users[v]
      /\ DOMAIN sessions' = DOMAIN sessions \cup {n}
      /\ \A t \in DOMAIN sessions' : sessions'[t] = IF t = n THEN new ELSE sessions[t]
      /\ alive' = alive \cup {n}
  BY DEF Issue
<1>2. new \in Session /\ new.user = u /\ ~new.revoked /\ ~new.expired
  BY DEF NewSession, Session
<1>3. /\ n \notin DOMAIN sessions /\ n \in Nat \ {0}
      /\ DOMAIN sessions \cup {n} = 1..n
  BY NextTokenIsNew DEF SessionInv, StoreInv
<1>4. account.token = n
  OBVIOUS
<1> HIDE DEF n, new
<1>5. SessionTypeOK'
  BY <1>1, <1>2, <1>3 DEF SessionInv, StoreInv, SessionTypeOK
<1>6. TokensNumbered'
  BY <1>1, <1>3, SessionAssumption DEF TokensNumbered, Token
<1>7. SessionsOwned'
  BY <1>1, <1>2 DEF SessionInv, StoreInv, SessionsOwned
<1>8. ColumnsOwned'
  BY <1>1, <1>2, <1>3, <1>4 DEF SessionInv, StoreInv, ColumnsOwned
<1>9. LinksKnown'
  <2>1. links' = links /\ DOMAIN users \subseteq DOMAIN users'
    BY <1>1
  <2>2. (DOMAIN users) \X (DOMAIN users) \subseteq (DOMAIN users') \X (DOMAIN users')
    BY <2>1, PairsOfSuperset
  <2> QED
    BY <2>1, <2>2 DEF SessionInv, StoreInv, LinksKnown
<1>10. AliveActive'
  BY <1>1, <1>2, <1>3 DEF SessionInv, StoreInv, SessionTypeOK, AliveActive, Active
<1>11. Advance
  BY <1>1, <1>3, <1>4 DEF Advance
<1>12. EndedStaysEnded'
  <2> SUFFICES ASSUME NEW t \in ended PROVE ~Accepted(t)'
    BY DEF EndedStaysEnded
  <2>1. t \in DOMAIN sessions /\ ~Accepted(t)
    BY DEF SessionInv, StoreInv, SessionTypeOK, EndedStaysEnded
  <2>2. t # n
    BY <2>1, <1>3
  <2>3. \A v \in DOMAIN users' \ DOMAIN users : users'[v].token # t
    BY <1>1, <1>4, <2>2
  <2> QED
    BY <2>1, <2>3, <1>11, EndedCarried DEF SessionInv
<1> QED
  BY <1>5, <1>6, <1>7, <1>8, <1>9, <1>10, <1>11, <1>12 DEF StoreInv

\* An account with a new token is an account.
LEMMA WithTokenTyped ==
    ASSUME NEW account \in Account, NEW t \in Token \cup {None}
    PROVE  WithToken(account, t) \in Account /\ WithToken(account, t).token = t
BY DEF WithToken, Account

\* A registration (register).
LEMMA RegisterPreserves ==
    ASSUME SessionInv, NEW u \in User, NEW p \in Password, Register(u, p)
    PROVE  SessionInv'
<1> DEFINE account == [token |-> NextToken, password |-> p, earlier |-> <<>>]
<1>1. Issue(u, account) /\ UNCHANGED <<links, request, ended>> /\ NextToken \in Token
  BY DEF Register, Issue
<1>2. account \in Account /\ account.token = NextToken
  BY <1>1 DEF Account
<1> HIDE DEF account
<1>3. Advance /\ StoreInv' /\ EndedStaysEnded'
  BY <1>1, <1>2, Issued
<1>4. RequestsOK'
  BY <1>1, <1>3, RequestsCarried
<1> QED
  BY <1>3, <1>4 DEF SessionInv

\* The commit of a login or of a switch to a linked account.
LEMMA TokenCommitPreserves ==
    ASSUME SessionInv, NEW r \in Request, FinishLogin(r) \/ FinishSwitch(r)
    PROVE  SessionInv'
<1> DEFINE u == request[r].user
           account == WithToken(users[u], NextToken)
<1>1. /\ Issue(u, account) /\ NextToken \in Token
      /\ request' = [request EXCEPT ![r] = None]
      /\ UNCHANGED <<links, ended>>
      /\ request[r] # None /\ request[r].op \in {"login", "switch"}
  BY DEF FinishLogin, FinishSwitch, Issue, Answer, Loaded
<1>2. u \in DOMAIN users
  BY <1>1 DEF SessionInv, RequestsOK, RequestOK, LoginOK
<1>3. u \in User /\ users[u] \in Account
  BY <1>2 DEF SessionInv, StoreInv, SessionTypeOK
<1>4. account \in Account /\ account.token = NextToken
  BY <1>1, <1>3, WithTokenTyped
<1> HIDE DEF u, account
<1>5. Advance /\ StoreInv' /\ EndedStaysEnded'
  BY <1>1, <1>3, <1>4, Issued
<1>6. RequestsOK'
  BY <1>1, <1>5, RequestsCarried
<1> QED
  BY <1>5, <1>6 DEF SessionInv

\* The first half of a login and of a switch.
LEMMA StartLoginPreserves ==
    ASSUME SessionInv, NEW r \in Request, NEW u \in User, StartLogin(r, u)
    PROVE  SessionInv'
<1> DEFINE q == [op |-> "login", user |-> u]
<1>1. q.op = "login" /\ q.user = u
  OBVIOUS
<1>2. /\ request' = [request EXCEPT ![r] = q] /\ u \in DOMAIN users
      /\ UNCHANGED <<users, sessions, links, alive, ended>>
  BY DEF StartLogin, Load
<1> HIDE DEF q
<1>3. request'[r] = q
  BY <1>2 DEF SessionInv, RequestsOK
<1>4. RequestOK(r)'
  BY <1>1, <1>2, <1>3 DEF RequestOK, LoginOK
<1> QED
  BY <1>2, <1>4, LoadCarries

LEMMA StartSwitchPreserves ==
    ASSUME SessionInv, NEW r \in Request, NEW t \in Token, NEW v \in User, StartSwitch(r, t, v)
    PROVE  SessionInv'
<1> DEFINE q == [op |-> "switch", user |-> v]
<1>1. q.op = "switch" /\ q.user = v
  OBVIOUS
<1>2. /\ request' = [request EXCEPT ![r] = q] /\ <<Caller(t), v>> \in links
      /\ UNCHANGED <<users, sessions, links, alive, ended>>
  BY DEF StartSwitch, Load
<1> HIDE DEF q
<1>3. request'[r] = q
  BY <1>2 DEF SessionInv, RequestsOK
<1>4. v \in DOMAIN users
  <2>1. <<Caller(t), v>> \in (DOMAIN users) \X (DOMAIN users)
    BY <1>2 DEF SessionInv, StoreInv, LinksKnown
  <2> QED
    BY <2>1, PairsOfSet
<1>5. RequestOK(r)'
  BY <1>1, <1>2, <1>3, <1>4 DEF RequestOK, LoginOK
<1> QED
  BY <1>2, <1>5, LoadCarries

\* The first half of a logout: the caller's column as it is loaded.
LEMMA StartLogoutPreserves ==
    ASSUME SessionInv, NEW r \in Request, NEW t \in Token, StartLogout(r, t)
    PROVE  SessionInv'
<1> DEFINE q == [op |-> "logout", user |-> Caller(t), token |-> t,
                 column |-> users[Caller(t)].token]
<1>1. q.op = "logout" /\ q.user = Caller(t) /\ q.token = t /\ q.column = users[Caller(t)].token
  OBVIOUS
<1>2. /\ request' = [request EXCEPT ![r] = q] /\ Accepted(t)
      /\ UNCHANGED <<users, sessions, links, alive, ended>>
  BY DEF StartLogout, Load
<1>3. t \in DOMAIN sessions /\ Caller(t) = sessions[t].user /\ Caller(t) \in DOMAIN users
  BY <1>2, CallerOwnsToken DEF SessionInv
<1> HIDE DEF q
<1>4. request'[r] = q
  BY <1>2 DEF SessionInv, RequestsOK
<1>5. RequestOK(r)'
  BY <1>1, <1>2, <1>3, <1>4 DEF RequestOK, LogoutOK
<1> QED
  BY <1>2, <1>5, LoadCarries

\* The first half of a link.
LEMMA StartLinkPreserves ==
    ASSUME SessionInv, NEW r \in Request, NEW t \in Token, NEW v \in User, StartLink(r, t, v)
    PROVE  SessionInv'
<1> DEFINE q == [op |-> "link", user |-> Caller(t), other |-> v,
                 inserts |-> <<Caller(t), v>> \notin links]
<1>1. q.op = "link" /\ q.user = Caller(t) /\ q.other = v
  OBVIOUS
<1>2. /\ request' = [request EXCEPT ![r] = q] /\ Accepted(t) /\ v \in DOMAIN users
      /\ UNCHANGED <<users, sessions, links, alive, ended>>
  BY DEF StartLink, Load
<1>3. Caller(t) \in DOMAIN users
  BY <1>2, CallerOwnsToken DEF SessionInv
<1> HIDE DEF q
<1>4. request'[r] = q
  BY <1>2 DEF SessionInv, RequestsOK
<1>5. RequestOK(r)'
  BY <1>1, <1>2, <1>3, <1>4 DEF RequestOK, LinkOK
<1> QED
  BY <1>2, <1>5, LoadCarries

\* The first half of a change of password: what it will revoke is what is not revoked.
LEMMA StartChangePreserves ==
    ASSUME SessionInv, NEW r \in Request, NEW t \in Token, NEW p \in Password,
           StartChangePassword(r, t, p)
    PROVE  SessionInv'
<1> DEFINE u == Caller(t)
           q == [op |-> "change", user |-> u, old |-> users[u].password, new |-> p,
                 revokes |-> {s \in SessionsOf(u) : ~sessions[s].revoked},
                 before |-> SessionsOf(u)]
<1>1. /\ q.op = "change" /\ q.user = u /\ q.old = users[u].password /\ q.new = p
      /\ q.before = SessionsOf(u)
      /\ q.revokes = {s \in SessionsOf(u) : ~sessions[s].revoked}
  OBVIOUS
<1>2. /\ request' = [request EXCEPT ![r] = q] /\ Accepted(t)
      /\ UNCHANGED <<users, sessions, links, alive, ended>>
  BY DEF StartChangePassword, Load
<1>3. u \in DOMAIN users
  BY <1>2, CallerOwnsToken DEF SessionInv
<1> HIDE DEF q, u
<1>4. users[u].password \in Password
  BY <1>3 DEF SessionInv, StoreInv, SessionTypeOK, Account
<1>5. request'[r] = q
  BY <1>2 DEF SessionInv, RequestsOK
<1>6. ChangeOK(r)'
  <2>1. q.before \subseteq DOMAIN sessions /\ q.revokes \subseteq q.before
    BY <1>1 DEF SessionsOf
  <2>2. \A s \in q.before : sessions[s].user = q.user /\ (s \in q.revokes \/ sessions[s].revoked)
    BY <1>1 DEF SessionsOf
  <2> QED
    BY <1>1, <1>2, <1>3, <1>4, <1>5, <2>1, <2>2 DEF ChangeOK
<1>7. RequestOK(r)'
  BY <1>1, <1>5, <1>6 DEF RequestOK
<1> QED
  BY <1>2, <1>7, LoadCarries

-----------------------------------------------------------------------------
\* Links name accounts for as long as no account disappears.
LEMMA StepKeepsLinks ==
    ASSUME StoreInv, Advance, links' = links
    PROVE  LinksKnown'
<1>1. (DOMAIN users) \X (DOMAIN users) \subseteq (DOMAIN users') \X (DOMAIN users')
  BY PairsOfSuperset DEF Advance
<1> QED
  BY <1>1 DEF StoreInv, LinksKnown

\* Accounts whose columns change to nothing at most.
Cleared ==
    /\ DOMAIN users' = DOMAIN users
    /\ \A u \in DOMAIN users :
          users'[u] \in Account /\ users'[u].token \in {users[u].token, None}

LEMMA UnchangedIsCleared ==
    ASSUME SessionInv, users' = users
    PROVE  Cleared
BY DEF Cleared, SessionInv, StoreInv, SessionTypeOK

\* One session ends, whoever ends it.
LEMMA SessionEnds ==
    ASSUME SessionInv, NEW t \in DOMAIN sessions,
           \/ sessions' = [sessions EXCEPT ![t] = AsRevoked(@)]
           \/ sessions' = [sessions EXCEPT ![t] = AsExpired(@)],
           alive' = alive \ {t}, Cleared, links' = links
    PROVE  /\ Advance
           /\ ended' = ended \/ ended' = ended \cup {t} => SessionTypeOK'
           /\ TokensNumbered' /\ SessionsOwned' /\ ColumnsOwned' /\ LinksKnown' /\ AliveActive'
           /\ ~Active(t)'
<1>1. sessions[t] \in Session
  BY DEF SessionInv, StoreInv, SessionTypeOK
<1> DEFINE new == sessions'[t]
<1>2. /\ DOMAIN sessions' = DOMAIN sessions
      /\ \A s \in DOMAIN sessions : s # t => sessions'[s] = sessions[s]
      /\ new = AsRevoked(sessions[t]) \/ new = AsExpired(sessions[t])
  OBVIOUS
<1>a. AsRevoked(sessions[t]) \in Session /\ AsExpired(sessions[t]) \in Session
  BY <1>1 DEF AsRevoked, AsExpired, Session
<1>b. /\ AsRevoked(sessions[t]).user = sessions[t].user /\ AsRevoked(sessions[t]).revoked
      /\ AsRevoked(sessions[t]).expired = sessions[t].expired
      /\ AsExpired(sessions[t]).user = sessions[t].user /\ AsExpired(sessions[t]).expired
      /\ AsExpired(sessions[t]).revoked = sessions[t].revoked
  BY DEF AsRevoked, AsExpired
<1> HIDE DEF new
<1>3. /\ new \in Session /\ new.user = sessions[t].user
      /\ sessions[t].revoked => new.revoked
      /\ sessions[t].expired => new.expired
      /\ new.revoked \/ new.expired
  BY <1>2, <1>a, <1>b
<1> USE DEF new
<1>4. Advance
  BY <1>2, <1>3 DEF Advance, Cleared
<1>5. ended' = ended \/ ended' = ended \cup {t} => SessionTypeOK'
  BY <1>2, <1>3 DEF SessionInv, StoreInv, SessionTypeOK, Cleared
<1>6. TokensNumbered'
  BY <1>2 DEF SessionInv, StoreInv, TokensNumbered
<1>7. SessionsOwned'
  BY <1>2, <1>3 DEF SessionInv, StoreInv, SessionsOwned, Cleared
<1>8. ColumnsOwned'
  BY <1>2, <1>3 DEF SessionInv, StoreInv, ColumnsOwned, Cleared
<1>9. LinksKnown'
  BY <1>4, StepKeepsLinks DEF SessionInv
<1>10. AliveActive'
  BY <1>2 DEF SessionInv, StoreInv, AliveActive, Active
<1>11. ~Active(t)'
  BY <1>3 DEF Active
<1> QED
  BY <1>4, <1>5, <1>6, <1>7, <1>8, <1>9, <1>10, <1>11

\* What ended stays ended when no account is added.
LEMMA EndedStays ==
    ASSUME SessionInv, Advance, DOMAIN users' = DOMAIN users, NEW t \in ended
    PROVE  ~Accepted(t)'
<1>1. t \in DOMAIN sessions /\ ~Accepted(t)
  BY DEF SessionInv, StoreInv, SessionTypeOK, EndedStaysEnded
<1>2. DOMAIN users' \ DOMAIN users = {}
  OBVIOUS
<1> QED
  BY <1>1, <1>2, EndedCarried DEF SessionInv

\* A session is revoked by its owner (revoke_session).
LEMMA RevokePreserves ==
    ASSUME SessionInv, NEW t \in Token, NEW s \in Token, RevokeSession(t, s)
    PROVE  SessionInv'
<1>1. /\ s \in DOMAIN sessions
      /\ sessions' = [sessions EXCEPT ![s] = AsRevoked(@)] /\ alive' = alive \ {s}
      /\ users' = users /\ links' = links /\ request' = request /\ ended' = ended
  BY DEF RevokeSession, SessionsOf
<1>2. Advance /\ StoreInv'
  BY <1>1, SessionEnds, UnchangedIsCleared DEF StoreInv
<1>3. RequestsOK'
  BY <1>1, <1>2, RequestsCarried
<1>4. EndedStaysEnded'
  BY <1>1, <1>2, EndedStays DEF EndedStaysEnded
<1> QED
  BY <1>2, <1>3, <1>4 DEF SessionInv

\* A session passes its thirty days.
LEMMA ExpirePreserves ==
    ASSUME SessionInv, NEW s \in Token, Expire(s)
    PROVE  SessionInv'
<1>1. /\ s \in DOMAIN sessions
      /\ sessions' = [sessions EXCEPT ![s] = AsExpired(@)] /\ alive' = alive \ {s}
      /\ users' = users /\ links' = links /\ request' = request /\ ended' = ended
  BY DEF Expire, Active
<1>2. Advance /\ StoreInv'
  BY <1>1, SessionEnds, UnchangedIsCleared DEF StoreInv
<1>3. RequestsOK'
  BY <1>1, <1>2, RequestsCarried
<1>4. EndedStaysEnded'
  BY <1>1, <1>2, EndedStays DEF EndedStaysEnded
<1> QED
  BY <1>2, <1>3, <1>4 DEF SessionInv

\* The commit of a logout: its token is in no column afterwards (logout).
LEMMA LogoutEnds ==
    ASSUME SessionInv, NEW r \in Request, FinishLogout(r),
           NEW t, t = request[r].token, NEW u, u = request[r].user
    PROVE  SessionInv'
<1>1. /\ sessions' = [sessions EXCEPT ![t] = AsRevoked(@)]
      /\ users' = IF request[r].column = t
                  THEN [users EXCEPT ![u] = WithToken(@, None)] ELSE users
      /\ alive' = alive \ {t} /\ ended' = ended \cup {t}
      /\ request' = [request EXCEPT ![r] = None] /\ links' = links
      /\ request[r] # None /\ request[r].op = "logout"
  BY DEF FinishLogout, Loaded, Answer
<1>2. /\ u \in DOMAIN users /\ t \in DOMAIN sessions /\ sessions[t].user = u
      /\ request[r].column = t \/ users[u].token # t
  BY <1>1 DEF SessionInv, RequestsOK, RequestOK, LogoutOK
<1>3. t # None
  BY <1>2, TokensAreThere DEF SessionInv, StoreInv
<1>4. WithToken(users[u], None) \in Account /\ WithToken(users[u], None).token = None
  BY <1>2, WithTokenTyped DEF SessionInv, StoreInv, SessionTypeOK
<1> DEFINE cleared == WithToken(users[u], None)
<1>5. /\ users' = IF request[r].column = t THEN [users EXCEPT ![u] = cleared] ELSE users
      /\ cleared \in Account /\ cleared.token = None
  BY <1>1, <1>4
<1> HIDE DEF cleared
<1>6. Cleared
  BY <1>2, <1>5 DEF Cleared, SessionInv, StoreInv, SessionTypeOK
<1>7. users'[u].token # t
  BY <1>2, <1>3, <1>5
<1>8. Advance /\ StoreInv' /\ ~Active(t)'
  BY <1>1, <1>2, <1>6, SessionEnds DEF StoreInv
<1>9. ~Accepted(t)'
  <2>1. ASSUME NEW v \in DOMAIN users PROVE users'[v].token # t
    <3>1. CASE v = u
      BY <3>1, <1>7
    <3>2. CASE v # u
      <4>1. users'[v] = users[v]
        BY <3>2, <1>5
      <4> QED
        BY <4>1, <3>2, <1>2, <1>3 DEF SessionInv, StoreInv, ColumnsOwned
    <3> QED
      BY <3>1, <3>2
  <2> QED
    BY <2>1, <1>6, <1>8 DEF Accepted, TokenOwners, Cleared
<1>10. EndedStaysEnded'
  BY <1>1, <1>6, <1>8, <1>9, EndedStays DEF EndedStaysEnded, Cleared
<1>11. RequestsOK'
  BY <1>1, <1>8, RequestsCarried
<1> QED
  BY <1>8, <1>10, <1>11 DEF SessionInv

LEMMA LogoutPreserves ==
    ASSUME SessionInv, NEW r \in Request, FinishLogout(r)
    PROVE  SessionInv'
BY LogoutEnds

\* The commit of a change of password: a new token, and what it saw is revoked
\* (change_password).
LEMMA ChangePreserves ==
    ASSUME SessionInv, NEW r \in Request, FinishChangePassword(r)
    PROVE  SessionInv'
<1> DEFINE u == request[r].user
           n == NextToken
           account == [token |-> n, password |-> request[r].new,
                       earlier |-> Append(users[u].earlier, request[r].old)]
           before == request[r].before
           revokes == request[r].revokes
           new == NewSession(u)
<1>1. /\ n \in Token
      /\ users' = [users EXCEPT ![u] = account]
      /\ sessions' = [t \in DOMAIN sessions \cup {n} |->
                         IF t = n THEN new
                         ELSE IF t \in revokes THEN AsRevoked(sessions[t]) ELSE sessions[t]]
      /\ alive' = (alive \ before) \cup {n} /\ ended' = ended \cup before
      /\ request' = [request EXCEPT ![r] = None] /\ links' = links
      /\ request[r] # None /\ request[r].op = "change"
  BY DEF FinishChangePassword, Loaded, Answer, Revoked
<1>2. /\ u \in DOMAIN users /\ request[r].old \in Password /\ request[r].new \in Password
      /\ revokes \subseteq before /\ before \subseteq DOMAIN sessions
      /\ \A s \in before : sessions[s].user = u /\ (s \in revokes \/ sessions[s].revoked)
  BY <1>1 DEF SessionInv, RequestsOK, RequestOK, ChangeOK
<1>3. /\ n \notin DOMAIN sessions /\ n \in Nat \ {0} /\ DOMAIN sessions \cup {n} = 1..n
  BY NextTokenIsNew DEF SessionInv, StoreInv
<1>4. users[u] \in Account /\ u \in User
  BY <1>2 DEF SessionInv, StoreInv, SessionTypeOK
<1>5. users[u].earlier \in Seq(Password)
  BY <1>4 DEF Account
<1>6. Append(users[u].earlier, request[r].old) \in Seq(Password)
  BY <1>2, <1>5
<1>7. account \in Account /\ account.token = n
  BY <1>1, <1>2, <1>6 DEF Account
<1>8. new \in Session /\ new.user = u /\ ~new.revoked /\ ~new.expired
  BY <1>4 DEF NewSession, Session
<1> HIDE DEF u, n, account, before, revokes, new
<1>9. ASSUME NEW t \in DOMAIN sessions
      PROVE  /\ AsRevoked(sessions[t]) \in Session /\ AsRevoked(sessions[t]).revoked
             /\ AsRevoked(sessions[t]).user = sessions[t].user
             /\ AsRevoked(sessions[t]).expired = sessions[t].expired
  BY DEF SessionInv, StoreInv, SessionTypeOK, AsRevoked, Session
<1>10. /\ DOMAIN sessions' = DOMAIN sessions \cup {n} /\ sessions'[n] = new
       /\ \A t \in DOMAIN sessions :
             sessions'[t] = IF t \in revokes THEN AsRevoked(sessions[t]) ELSE sessions[t]
  BY <1>1, <1>3
<1>11. \A t \in DOMAIN sessions :
          /\ sessions'[t] \in Session /\ sessions'[t].user = sessions[t].user
          /\ sessions[t].revoked => sessions'[t].revoked
          /\ sessions'[t].expired = sessions[t].expired
          /\ t \in before => sessions'[t].revoked
          /\ t \notin before => sessions'[t] = sessions[t]
  <2> SUFFICES ASSUME NEW t \in DOMAIN sessions
               PROVE  /\ sessions'[t] \in Session /\ sessions'[t].user = sessions[t].user
                      /\ sessions[t].revoked => sessions'[t].revoked
                      /\ sessions'[t].expired = sessions[t].expired
                      /\ t \in before => sessions'[t].revoked
                      /\ t \notin before => sessions'[t] = sessions[t]
    OBVIOUS
  <2>1. CASE t \in revokes
    BY <2>1, <1>2, <1>9, <1>10
  <2>2. CASE t \notin revokes
    <3>1. sessions'[t] = sessions[t]
      BY <2>2, <1>10
    <3>2. sessions[t] \in Session
      BY DEF SessionInv, StoreInv, SessionTypeOK
    <3> QED
      BY <3>1, <3>2, <2>2, <1>2
  <2> QED
    BY <2>1, <2>2
<1>12. /\ DOMAIN users' = DOMAIN users /\ users'[u] = account
       /\ \A v \in DOMAIN users : v # u => users'[v] = users[v]
  BY <1>1, <1>2
<1>13. Advance
  BY <1>3, <1>7, <1>10, <1>11, <1>12 DEF Advance
<1>14. SessionTypeOK'
  BY <1>1, <1>2, <1>7, <1>8, <1>10, <1>11, <1>12 DEF SessionInv, StoreInv, SessionTypeOK
<1>15. TokensNumbered'
  BY <1>1, <1>3, <1>10, SessionAssumption DEF TokensNumbered, Token
<1>16. SessionsOwned'
  BY <1>2, <1>8, <1>10, <1>11, <1>12 DEF SessionInv, StoreInv, SessionsOwned
<1>17. ColumnsOwned'
  BY <1>2, <1>3, <1>7, <1>8, <1>10, <1>11, <1>12 DEF SessionInv, StoreInv, ColumnsOwned
<1>18. LinksKnown'
  BY <1>1, <1>13, StepKeepsLinks DEF SessionInv
<1>19. AliveActive'
  <2> SUFFICES ASSUME NEW t \in alive' PROVE Active(t)'
    BY DEF AliveActive
  <2>1. CASE t = n
    BY <2>1, <1>8, <1>10 DEF Active
  <2>2. CASE t \in alive \ before
    <3>1. t \in DOMAIN sessions /\ ~sessions[t].revoked /\ ~sessions[t].expired
      BY <2>2 DEF SessionInv, StoreInv, AliveActive, Active
    <3> QED
      BY <3>1, <2>2, <1>10, <1>11 DEF Active
  <2> QED
    BY <2>1, <2>2, <1>1
<1>20. EndedStaysEnded'
  <2>1. ASSUME NEW t \in ended PROVE ~Accepted(t)'
    BY <1>12, <1>13, EndedStays
  <2>2. ASSUME NEW t \in before PROVE ~Accepted(t)'
    <3>1. t \in DOMAIN sessions /\ sessions[t].user = u /\ t # n /\ t # None
      BY <1>2, <1>3, TokensAreThere DEF SessionInv, StoreInv
    <3>2. ~Active(t)'
      BY <3>1, <1>11 DEF Active
    <3>3. ASSUME NEW v \in DOMAIN users PROVE users'[v].token # t
      BY <3>1, <1>7, <1>12 DEF SessionInv, StoreInv, ColumnsOwned
    <3> QED
      BY <3>2, <3>3, <1>12 DEF Accepted, TokenOwners
  <2> QED
    BY <2>1, <2>2, <1>1 DEF EndedStaysEnded
<1>21. RequestsOK'
  BY <1>1, <1>13, RequestsCarried
<1> QED
  BY <1>14, <1>15, <1>16, <1>17, <1>18, <1>19, <1>20, <1>21 DEF SessionInv, StoreInv

\* Links change and nothing else does.
LEMMA LinksChange ==
    ASSUME SessionInv, UNCHANGED <<users, sessions, alive, ended>>,
           links' \subseteq (DOMAIN users) \X (DOMAIN users),
           \/ request' = request
           \/ \E r \in Request : request' = [request EXCEPT ![r] = None]
    PROVE  SessionInv'
<1>1. Advance
  BY DEF Advance
<1>2. RequestsOK'
  BY <1>1, RequestsCarried
<1>3. LinksKnown'
  BY DEF LinksKnown
<1>4. (DOMAIN users) \X (DOMAIN users) \subseteq User \X User
  BY PairsOfSuperset DEF SessionInv, StoreInv, SessionTypeOK
<1>5. SessionTypeOK'
  BY <1>4 DEF SessionInv, StoreInv, SessionTypeOK
<1>6. TokensNumbered' /\ SessionsOwned' /\ ColumnsOwned' /\ AliveActive' /\ EndedStaysEnded'
  BY DEF SessionInv, StoreInv, TokensNumbered, SessionsOwned, ColumnsOwned, AliveActive,
         Active, EndedStaysEnded, Accepted, TokenOwners
<1> QED
  BY <1>2, <1>3, <1>5, <1>6 DEF SessionInv, StoreInv

\* The commit of a link, whole or not at all (link_account).
LEMMA LinkPreserves ==
    ASSUME SessionInv, NEW r \in Request, FinishLink(r)
    PROVE  SessionInv'
<1> DEFINE there == <<request[r].user, request[r].other>>
           back == <<request[r].other, request[r].user>>
<1>1. /\ links' \subseteq links \cup {there, back}
      /\ request' = [request EXCEPT ![r] = None]
      /\ UNCHANGED <<users, sessions, alive, ended>>
      /\ request[r] # None /\ request[r].op = "link"
  BY DEF FinishLink, Loaded, Answer
<1>2. request[r].user \in DOMAIN users /\ request[r].other \in DOMAIN users
  BY <1>1 DEF SessionInv, RequestsOK, RequestOK, LinkOK
<1>3. there \in (DOMAIN users) \X (DOMAIN users) /\ back \in (DOMAIN users) \X (DOMAIN users)
  BY <1>2
<1> HIDE DEF there, back
<1>4. links' \subseteq (DOMAIN users) \X (DOMAIN users)
  BY <1>1, <1>3 DEF SessionInv, StoreInv, LinksKnown
<1> QED
  BY <1>1, <1>4, LinksChange

\* An unlink removes both ways (unlink_account).
LEMMA UnlinkPreserves ==
    ASSUME SessionInv, NEW t \in Token, NEW v \in User, Unlink(t, v)
    PROVE  SessionInv'
<1>1. links' \subseteq links /\ UNCHANGED <<users, sessions, request, alive, ended>>
  BY DEF Unlink
<1>2. links' \subseteq (DOMAIN users) \X (DOMAIN users)
  BY <1>1 DEF SessionInv, StoreInv, LinksKnown
<1> QED
  BY <1>1, <1>2, LinksChange

-----------------------------------------------------------------------------
\* The inductive invariant holds of every behaviour.
THEOREM SessionInvariant == SessionSpec => []SessionInv
<1>1. SessionInit => SessionInv
  <2> SUFFICES ASSUME SessionInit PROVE SessionInv
    OBVIOUS
  <2>1. /\ DOMAIN users = {} /\ DOMAIN sessions = {} /\ links = {}
        /\ request = [r \in Request |-> None] /\ alive = {} /\ ended = {}
    BY DEF SessionInit
  <2>2. TokensNumbered
    <3>1. 1..0 = {} /\ 0 \in 0..MaxTokens
      BY SessionAssumption
    <3> QED
      BY <3>1, <2>1 DEF TokensNumbered
  <2>3. SessionTypeOK
    BY <2>1 DEF SessionTypeOK
  <2>4. SessionsOwned /\ ColumnsOwned /\ LinksKnown /\ AliveActive /\ EndedStaysEnded
    BY <2>1 DEF SessionsOwned, ColumnsOwned, LinksKnown, AliveActive, EndedStaysEnded
  <2>5. RequestsOK
    BY <2>1 DEF RequestsOK, RequestOK
  <2> QED
    BY <2>2, <2>3, <2>4, <2>5 DEF SessionInv, StoreInv
<1>2. SessionInv /\ [SessionNext]_sessionVars => SessionInv'
  <2> SUFFICES ASSUME SessionInv, [SessionNext]_sessionVars PROVE SessionInv'
    OBVIOUS
  <2>1. CASE UNCHANGED sessionVars
    <3>1. UNCHANGED <<users, sessions, links, request, alive, ended>>
      BY <2>1 DEF sessionVars
    <3>2. links' \subseteq (DOMAIN users) \X (DOMAIN users)
      BY <3>1 DEF SessionInv, StoreInv, LinksKnown
    <3> QED
      BY <3>1, <3>2, LinksChange
  <2>2. CASE \E u \in User, p \in Password : Register(u, p)
    BY <2>2, RegisterPreserves
  <2>3. CASE \E t \in Token, s \in Token : RevokeSession(t, s)
    BY <2>3, RevokePreserves
  <2>4. CASE \E t \in Token, v \in User : Unlink(t, v)
    BY <2>4, UnlinkPreserves
  <2>5. CASE \E s \in Token : Expire(s)
    BY <2>5, ExpirePreserves
  <2>6. ASSUME NEW r \in Request,
               \/ \E u \in User : StartLogin(r, u)
               \/ \E t \in Token : StartLogout(r, t)
               \/ \E t \in Token, p \in Password : StartChangePassword(r, t, p)
               \/ \E t \in Token, v \in User : StartLink(r, t, v)
               \/ \E t \in Token, v \in User : StartSwitch(r, t, v)
        PROVE  SessionInv'
    BY <2>6, StartLoginPreserves, StartLogoutPreserves, StartChangePreserves,
       StartLinkPreserves, StartSwitchPreserves
  <2>7. ASSUME NEW r \in Request,
               \/ FinishLogin(r) \/ FinishLogout(r) \/ FinishChangePassword(r)
               \/ FinishLink(r) \/ FinishSwitch(r)
        PROVE  SessionInv'
    BY <2>7, TokenCommitPreserves, LogoutPreserves, ChangePreserves, LinkPreserves
  <2> QED
    BY <2>1, <2>2, <2>3, <2>4, <2>5, <2>6, <2>7 DEF SessionNext
<1> QED
  BY <1>1, <1>2, PTL DEF SessionSpec

\* Accounts, sessions and links keep their types (apps/api/routes/auth.py).
THEOREM SessionsTypeCorrect == SessionSpec => []SessionTypeOK
<1>1. SessionInv => SessionTypeOK
  BY DEF SessionInv, StoreInv
<1> QED
  BY <1>1, SessionInvariant, PTL

\* A token that a logout or a change of password ended is never accepted again, whatever
\* was in flight when it ended.
THEOREM EndedForGood == SessionSpec => []EndedStaysEnded
<1>1. SessionInv => EndedStaysEnded
  BY DEF SessionInv
<1> QED
  BY <1>1, SessionInvariant, PTL

\* A token that nobody ended is accepted, whatever its user's other requests do.
THEOREM AliveAccepted == SessionSpec => []LiveStaysLive
<1>1. SessionInv => LiveStaysLive
  BY DEF SessionInv, StoreInv, AliveActive, LiveStaysLive, Accepted
<1> QED
  BY <1>1, SessionInvariant, PTL

-----------------------------------------------------------------------------
(* Friends.  The invariant adds to FriendsAgreed what is known of an       *)
(* acceptance in flight: that the row it names was agreed to.              *)

FriendCall ==
    [op : {"request"}, pair : Pair]
    \cup [op : {"accept", "remove"}, pair : Pair, id : 1..MaxRows]

FriendTypes ==
    /\ DOMAIN friendships \subseteq Pair
    /\ friendships \in [DOMAIN friendships -> Friendship]
    /\ call \in [Call -> FriendCall \cup {None}]
    /\ nextRow \in 1..(MaxRows + 1)
    /\ agreed \subseteq 1..MaxRows

AcceptsAgreed == \A k \in Call : Doing(k, "accept") => call[k].id \in agreed

FriendInv == FriendTypes /\ AcceptsAgreed /\ FriendsAgreed

-----------------------------------------------------------------------------
\* What a finished request leaves of the table of requests in flight.
LEMMA CallEnds ==
    ASSUME NEW k \in Call, FriendTypes, End(k)
    PROVE  /\ call' \in [Call -> FriendCall \cup {None}]
           /\ call'[k] = None
           /\ \A g \in Call \ {k} : call'[g] = call[g]
  BY DEF FriendTypes, End

\* What a started one adds to it.
LEMMA CallBegins ==
    ASSUME NEW k \in Call, NEW loaded \in FriendCall, FriendTypes, Begin(k, loaded)
    PROVE  /\ call' \in [Call -> FriendCall \cup {None}]
           /\ call'[k] = loaded
           /\ \A g \in Call \ {k} : call'[g] = call[g]
  BY DEF FriendTypes, Begin

\* A request that is under way has read a pair, and an acceptance or a removal a row.
LEMMA LoadedRow ==
    ASSUME NEW k \in Call, FriendTypes, call[k] # None
    PROVE  /\ call[k].pair \in Pair
           /\ call[k].op \in {"accept", "remove"} => call[k].id \in 1..MaxRows
  BY DEF FriendTypes, FriendCall

\* The handlers that read: nothing is stored, and what they agree to is remembered.
LEMMA StartsKeepInv ==
    ASSUME NEW k \in Call, NEW p \in Pair, NEW user \in Person, FriendInv,
           StartRequest(k, p) \/ StartRemove(k, p) \/ StartAccept(k, p, user)
    PROVE  FriendInv'
  <1>1. CASE StartRequest(k, p)
    <2> DEFINE loaded == [op |-> "request", pair |-> p]
    <2>1. loaded \in FriendCall
      BY DEF FriendCall
    <2>2. loaded.op = "request"
      OBVIOUS
    <2> HIDE DEF loaded
    <2>3. Begin(k, loaded) /\ UNCHANGED <<friendships, nextRow, agreed>>
      BY <1>1 DEF StartRequest, loaded
    <2>4. /\ call' \in [Call -> FriendCall \cup {None}]
          /\ call'[k] = loaded
          /\ \A g \in Call \ {k} : call'[g] = call[g]
      BY <2>1, <2>3, CallBegins DEF FriendInv
    <2>5. FriendTypes'
      BY <2>3, <2>4 DEF FriendInv, FriendTypes
    <2>6. AcceptsAgreed'
      BY <2>2, <2>3, <2>4 DEF FriendInv, AcceptsAgreed, Doing
    <2>7. FriendsAgreed'
      BY <2>3 DEF FriendInv, FriendsAgreed
    <2> QED
      BY <2>5, <2>6, <2>7 DEF FriendInv
  <1>2. CASE StartRemove(k, p)
    <2> DEFINE loaded == [op |-> "remove", pair |-> p, id |-> friendships[p].id]
    <2>0. friendships[p].id \in 1..MaxRows
      BY <1>2 DEF StartRemove, FriendInv, FriendTypes, Friendship
    <2>1. loaded \in FriendCall
      BY <2>0 DEF FriendCall
    <2>2. loaded.op = "remove"
      OBVIOUS
    <2> HIDE DEF loaded
    <2>3. Begin(k, loaded) /\ UNCHANGED <<friendships, nextRow, agreed>>
      BY <1>2 DEF StartRemove, loaded
    <2>4. /\ call' \in [Call -> FriendCall \cup {None}]
          /\ call'[k] = loaded
          /\ \A g \in Call \ {k} : call'[g] = call[g]
      BY <2>1, <2>3, CallBegins DEF FriendInv
    <2>5. FriendTypes'
      BY <2>3, <2>4 DEF FriendInv, FriendTypes
    <2>6. AcceptsAgreed'
      BY <2>2, <2>3, <2>4 DEF FriendInv, AcceptsAgreed, Doing
    <2>7. FriendsAgreed'
      BY <2>3 DEF FriendInv, FriendsAgreed
    <2> QED
      BY <2>5, <2>6, <2>7 DEF FriendInv
  <1>3. CASE StartAccept(k, p, user)
    <2> DEFINE loaded == [op |-> "accept", pair |-> p, id |-> friendships[p].id]
    <2>0. friendships[p].id \in 1..MaxRows
      BY <1>3 DEF StartAccept, FriendInv, FriendTypes, Friendship
    <2>1. loaded \in FriendCall
      BY <2>0 DEF FriendCall
    <2>2. loaded.id = friendships[p].id
      OBVIOUS
    <2> HIDE DEF loaded
    <2>3. /\ Begin(k, loaded) /\ UNCHANGED <<friendships, nextRow>>
          /\ agreed' = agreed \cup {friendships[p].id}
      BY <1>3 DEF StartAccept, loaded
    <2>4. /\ call' \in [Call -> FriendCall \cup {None}]
          /\ call'[k] = loaded
          /\ \A g \in Call \ {k} : call'[g] = call[g]
      BY <2>1, <2>3, CallBegins DEF FriendInv
    <2>5. FriendTypes'
      BY <2>0, <2>3, <2>4 DEF FriendInv, FriendTypes
    <2>6. AcceptsAgreed'
      BY <2>2, <2>3, <2>4 DEF FriendInv, AcceptsAgreed, Doing
    <2>7. FriendsAgreed'
      BY <2>3 DEF FriendInv, FriendsAgreed
    <2> QED
      BY <2>5, <2>6, <2>7 DEF FriendInv
  <1> QED
    BY <1>1, <1>2, <1>3

\* The insert: a row that is pending, under a number of its own.
LEMMA RequestKeepsInv ==
    ASSUME NEW k \in Call, FriendInv, FinishRequest(k)
    PROVE  FriendInv'
  <1> DEFINE p == call[k].pair
  <1>1. p \in Pair
    BY LoadedRow DEF FriendInv, FinishRequest, Doing
  <1>2. /\ call' \in [Call -> FriendCall \cup {None}]
        /\ call'[k] = None
        /\ \A g \in Call \ {k} : call'[g] = call[g]
    BY CallEnds DEF FriendInv, FinishRequest
  <1>3. AcceptsAgreed'
    BY <1>2 DEF FriendInv, AcceptsAgreed, Doing, FinishRequest
  <1>4. CASE p \in DOMAIN friendships
    BY <1>2, <1>3, <1>4 DEF FriendInv, FriendTypes, FriendsAgreed, FinishRequest
  <1>5. CASE p \notin DOMAIN friendships
    <2> DEFINE row == [id |-> nextRow, status |-> "pending"]
    <2>1. nextRow \in 1..MaxRows
      BY FriendAssumption DEF FriendInv, FriendTypes, FinishRequest
    <2>2. row \in Friendship
      BY <2>1 DEF Friendship
    <2>3. row.status # "accepted"
      OBVIOUS
    <2> HIDE DEF row
    <2>4. /\ friendships' = [q \in DOMAIN friendships \cup {p} |->
                                IF q = p THEN row ELSE friendships[q]]
          /\ nextRow' = nextRow + 1 /\ UNCHANGED agreed
      BY <1>5 DEF FinishRequest, row
    <2> HIDE DEF p
    <2>5. FriendTypes'
      BY <1>1, <1>2, <2>1, <2>2, <2>4, FriendAssumption DEF FriendInv, FriendTypes
    <2>6. FriendsAgreed'
      BY <2>3, <2>4 DEF FriendInv, FriendsAgreed
    <2> QED
      BY <1>3, <2>5, <2>6 DEF FriendInv
  <1> QED
    BY <1>4, <1>5

\* The acceptance: the row it marks is the one that was read.
LEMMA AcceptKeepsInv ==
    ASSUME NEW k \in Call, FriendInv, FinishAccept(k)
    PROVE  FriendInv'
  <1> DEFINE p == call[k].pair
  <1>1. call[k].id \in agreed
    BY DEF FriendInv, AcceptsAgreed, FinishAccept
  <1>2. /\ call' \in [Call -> FriendCall \cup {None}]
        /\ call'[k] = None
        /\ \A g \in Call \ {k} : call'[g] = call[g]
    BY CallEnds DEF FriendInv, FinishAccept
  <1>3. AcceptsAgreed'
    BY <1>2 DEF FriendInv, AcceptsAgreed, Doing, FinishAccept
  <1>4. CASE ~StillThere(k)
    BY <1>2, <1>3, <1>4 DEF FriendInv, FriendTypes, FriendsAgreed, FinishAccept
  <1>5. CASE StillThere(k)
    <2>1. /\ p \in DOMAIN friendships /\ friendships[p].id = call[k].id
          /\ friendships' = [friendships EXCEPT ![p].status = "accepted"]
          /\ UNCHANGED <<nextRow, agreed>>
      BY <1>5 DEF FinishAccept, StillThere
    <2> HIDE DEF p
    <2>2. friendships[p] \in Friendship
      BY <2>1 DEF FriendInv, FriendTypes
    <2>3. friendships[p] = [id |-> friendships[p].id, status |-> friendships[p].status]
      BY <2>2 DEF Friendship
    <2>4. DOMAIN friendships' = DOMAIN friendships
      BY <2>1
    <2>5. /\ friendships'[p].id = friendships[p].id
          /\ friendships'[p] = [id |-> friendships[p].id, status |-> "accepted"]
      BY <2>1, <2>3
    <2>6. \A q \in DOMAIN friendships \ {p} : friendships'[q] = friendships[q]
      BY <2>1
    <2>7. friendships'[p] \in Friendship
      BY <2>2, <2>5 DEF Friendship
    <2>8. FriendTypes'
      BY <1>2, <2>1, <2>4, <2>6, <2>7 DEF FriendInv, FriendTypes
    <2>9. FriendsAgreed'
      BY <1>1, <2>1, <2>4, <2>5, <2>6 DEF FriendInv, FriendsAgreed
    <2> QED
      BY <1>3, <2>8, <2>9 DEF FriendInv
  <1> QED
    BY <1>4, <1>5

\* The removal takes a row away and changes none.
LEMMA RemoveKeepsInv ==
    ASSUME NEW k \in Call, FriendInv, FinishRemove(k)
    PROVE  FriendInv'
  <1> DEFINE p == call[k].pair
  <1>1. /\ call' \in [Call -> FriendCall \cup {None}]
        /\ call'[k] = None
        /\ \A g \in Call \ {k} : call'[g] = call[g]
    BY CallEnds DEF FriendInv, FinishRemove
  <1>2. AcceptsAgreed'
    BY <1>1 DEF FriendInv, AcceptsAgreed, Doing, FinishRemove
  <1>3. \/ friendships' = friendships
        \/ friendships' = [q \in DOMAIN friendships \ {p} |-> friendships[q]]
    BY DEF FinishRemove
  <1>4. UNCHANGED <<nextRow, agreed>>
    BY DEF FinishRemove
  <1> HIDE DEF p
  <1>5. FriendTypes' /\ FriendsAgreed'
    BY <1>1, <1>3, <1>4 DEF FriendInv, FriendTypes, FriendsAgreed
  <1> QED
    BY <1>2, <1>5 DEF FriendInv

\* The inductive invariant holds of every behaviour.
THEOREM FriendInvariant == FriendSpec => []FriendInv
  <1>1. FriendInit => FriendInv
    BY FriendAssumption
    DEF FriendInit, FriendInv, FriendTypes, AcceptsAgreed, FriendsAgreed, Doing
  <1>2. FriendInv /\ [FriendNext]_friendVars => FriendInv'
    <2> SUFFICES ASSUME FriendInv, [FriendNext]_friendVars PROVE FriendInv'
      OBVIOUS
    <2>1. CASE UNCHANGED friendVars
      BY <2>1 DEF friendVars, FriendInv, FriendTypes, AcceptsAgreed, FriendsAgreed, Doing
    <2>2. CASE FriendNext
      <3>1. PICK k \in Call :
               \/ \E p \in Pair : StartRequest(k, p) \/ StartRemove(k, p)
               \/ \E p \in Pair, user \in Person : StartAccept(k, p, user)
               \/ FinishRequest(k) \/ FinishAccept(k) \/ FinishRemove(k)
        BY <2>2 DEF FriendNext
      <3>2. CASE \E p \in Pair : StartRequest(k, p) \/ StartRemove(k, p)
        <4>1. PICK p \in Pair : StartRequest(k, p) \/ StartRemove(k, p)
          BY <3>2
        <4>2. p[1] \in Person
          BY DEF Pair
        <4> QED
          BY <4>1, <4>2, StartsKeepInv
      <3>3. CASE \E p \in Pair, user \in Person : StartAccept(k, p, user)
        BY <3>3, StartsKeepInv
      <3> QED
        BY <3>1, <3>2, <3>3, RequestKeepsInv, AcceptKeepsInv, RemoveKeepsInv
    <2> QED
      BY <2>1, <2>2
  <1> QED
    BY <1>1, <1>2, PTL DEF FriendSpec

\* Rows, calls and numbers keep their types (apps/api/routes/friends.py).
THEOREM FriendsTypeCorrect == FriendSpec => []FriendTypeOK
  <1>1. FriendInv => FriendTypeOK
    BY DEF FriendInv, FriendTypes, FriendTypeOK
  <1> QED
    BY <1>1, FriendInvariant, PTL

\* Who is a friend of whom was agreed to by the addressee of this very request, however
\* many requests, acceptances and removals overlap (accept_friend_request).
THEOREM FriendshipsAgreed == FriendSpec => []FriendsAgreed
  <1>1. FriendInv => FriendsAgreed
    BY DEF FriendInv
  <1> QED
    BY <1>1, FriendInvariant, PTL

-----------------------------------------------------------------------------
(* Contacts.  The invariant carries the codes through every place they     *)
(* pass: the row a handler is about to commit, the row in the table, the   *)
(* attempts the worker has not committed, the attempt to verify in flight. *)
(* Ids are never used again, so a row the worker looked up cannot come     *)
(* back as another one.                                                    *)


Posted == [contact : 1..MaxContacts, purpose : Purpose]

IsCodeFor(code, c, purpose) ==
    /\ code \in 1..Len(posted)
    /\ posted[code].contact = c /\ posted[code].purpose = purpose
Backed(row) == IsCodeFor(row.code, row.contact, row.purpose)

PostedOK == posted \in Seq(Posted) /\ Len(posted) <= MaxCodes

CountersOK ==
    /\ nextChallenge \in 1..(MaxChallenges + 1) /\ nextContact \in Nat \ {0}
    /\ clock \in 0..MaxClock /\ lost \in Nat
    /\ posts \in [1..MaxChallenges -> Nat]

ContactsOK ==
    /\ DOMAIN contacts \subseteq 1..MaxContacts
    /\ \A c \in DOMAIN contacts :
          /\ contacts[c] \in Contact
          /\ contacts[c].verified => IsCodeFor(contacts[c].proof, c, "contact_verification")

ChallengesOK ==
    /\ DOMAIN challenges \subseteq 1..MaxChallenges
    /\ \A i \in DOMAIN challenges :
          challenges[i] \in Challenge /\ Backed(challenges[i]) /\ i < nextChallenge

\* The challenges the worker is busy with, and those it has posted but not committed.
Batch == worker.due \cup DOMAIN worker.staged
Staged == DOMAIN worker.staged

\* A challenge that is stored but not committed.
CodeOK(h) ==
    /\ handling[h].row \in Challenge /\ Backed(handling[h].row)
    /\ handling[h].row.deliveries = 1
    /\ handling[h].challenge \in 1..MaxChallenges
    /\ handling[h].challenge < nextChallenge
    /\ handling[h].challenge \notin DOMAIN challenges
    /\ handling[h].challenge \notin Batch
    /\ posts[handling[h].challenge] <= 1

VerifyOK(h) ==
    /\ handling[h].result.tries \in {None} \cup 0..MaxTries
    /\ handling[h].code \in 0..MaxCodes
    /\ handling[h].result.ok =>
          IsCodeFor(handling[h].code, handling[h].contact, "contact_verification")

PendingCode(h) == handling[h] # None /\ handling[h].op = "code"
PendingVerify(h) == handling[h] # None /\ handling[h].op = "verify"
\* A request that is done, or will only choose the primary contact.
Harmless(it) == it = None \/ it.op = "primary"

HandlingOK ==
    /\ DOMAIN handling = Handler
    /\ \A h \in Handler : PendingCode(h) => CodeOK(h)
    /\ \A h \in Handler : PendingVerify(h) => VerifyOK(h)
    /\ \A g, h \in Handler : PendingCode(g) /\ PendingCode(h) /\ g # h
                                => handling[g].challenge # handling[h].challenge

WorkerOK ==
    /\ worker.due \cap DOMAIN worker.staged = {}
    /\ ~worker.busy => worker.due = {} /\ DOMAIN worker.staged = {}
    /\ \A i \in Batch : i \in Nat /\ i < nextChallenge
    /\ \A i \in Batch : i \in DOMAIN challenges => challenges[i].deliveries < MaxDeliveries
    /\ \A i \in DOMAIN worker.staged : i \in DOMAIN challenges =>
          /\ worker.staged[i].outcome \in Outcome
          /\ IsCodeFor(worker.staged[i].code, challenges[i].contact, challenges[i].purpose)

PostsOK == \A i \in 1..MaxChallenges :
    /\ posts[i] <= MaxDeliveries + lost
    /\ i >= nextChallenge => posts[i] = 0
    /\ i \in DOMAIN challenges =>
          posts[i] <= challenges[i].deliveries + lost + (IF i \in Staged THEN 1 ELSE 0)

ContactInv ==
    /\ PostedOK /\ CountersOK /\ ContactsOK /\ ChallengesOK /\ HandlingOK /\ WorkerOK
    /\ PostsOK

\* The codes posted so far stay what they are.
Grows == Len(posted) <= Len(posted') /\ \A n \in 1..Len(posted) : posted'[n] = posted[n]

-----------------------------------------------------------------------------
(* What the handlers make of a row. *)

LEMMA SupersededRow ==
    ASSUME NEW row \in Challenge
    PROVE  /\ Superseded(row) \in Challenge
           /\ Superseded(row).code = row.code /\ Superseded(row).contact = row.contact
           /\ Superseded(row).purpose = row.purpose
           /\ Superseded(row).deliveries = row.deliveries
BY DEF Superseded, Challenge

LEMMA ReceivedRow ==
    ASSUME NEW row \in Challenge, NEW status \in Outcome \cup {"delivered"}, CountersOK
    PROVE  /\ Received(row, status) \in Challenge
           /\ Received(row, status).code = row.code
           /\ Received(row, status).contact = row.contact
           /\ Received(row, status).purpose = row.purpose
           /\ Received(row, status).deliveries = row.deliveries
BY DEF Received, Challenge, CountersOK

LEMMA AttemptedRow ==
    ASSUME NEW row \in Challenge, NEW result, CountersOK,
           result.tries \in {None} \cup 0..MaxTries
    PROVE  /\ Attempted(row, result) \in Challenge
           /\ Attempted(row, result).code = row.code
           /\ Attempted(row, result).contact = row.contact
           /\ Attempted(row, result).purpose = row.purpose
           /\ Attempted(row, result).deliveries = row.deliveries
BY DEF Attempted, Challenge, CountersOK

LEMMA DeliveredRow ==
    ASSUME NEW row \in Challenge, NEW attempt, CountersOK, attempt.code \in 1..MaxCodes,
           attempt.outcome \in Outcome, row.deliveries < MaxDeliveries
    PROVE  /\ Delivered(row, attempt) \in Challenge
           /\ Delivered(row, attempt).code = attempt.code
           /\ Delivered(row, attempt).contact = row.contact
           /\ Delivered(row, attempt).purpose = row.purpose
           /\ Delivered(row, attempt).deliveries = row.deliveries + 1
<1>1. /\ Attempts(row, attempt) = row.deliveries + 1
      /\ Attempts(row, attempt) \in 0..MaxDeliveries
  BY ContactAssumption DEF Attempts, Challenge
<1>2. MaxCodes \in Nat /\ attempt.code \in 0..MaxCodes /\ clock \in 0..MaxClock
  BY ContactAssumption DEF CountersOK
<1>3. CASE attempt.outcome = "sent"
  <2>1. Delivered(row, attempt) =
          [row EXCEPT !.code = attempt.code, !.message = attempt.code, !.status = "sent",
                      !.deliveries = Attempts(row, attempt), !.updated = clock]
    BY <1>3 DEF Delivered
  <2> QED
    BY <2>1, <1>1, <1>2 DEF Challenge, Outcome
<1>4. CASE attempt.outcome # "sent"
  <2>1. Delivered(row, attempt) =
          [row EXCEPT !.code = attempt.code, !.deliveries = Attempts(row, attempt),
                      !.updated = clock]
    BY <1>4 DEF Delivered
  <2> QED
    BY <2>1, <1>1, <1>2 DEF Challenge
<1> QED
  BY <1>3, <1>4

\* An attempt is right only for the code of the row, and counts to the limit.
LEMMA CheckedRow ==
    ASSUME NEW row \in Challenge, NEW code
    PROVE  /\ Checked(row, code).tries \in {None} \cup 0..MaxTries
           /\ Checked(row, code).ok => row.code = code
BY ContactAssumption DEF Checked, Challenge

-----------------------------------------------------------------------------
\* A step that leaves the challenges, the codes and who works on them alone.
LEMMA ContactsOnly ==
    ASSUME ContactInv, ContactsOK', clock' \in 0..MaxClock, nextContact' \in Nat \ {0},
           UNCHANGED <<challenges, handling, worker, nextChallenge, posted, posts, lost>>
    PROVE  ContactInv'
<1>1. PostedOK' /\ CountersOK' /\ ChallengesOK'
  BY DEF ContactInv, PostedOK, CountersOK, ChallengesOK, Backed, IsCodeFor
<1>2. HandlingOK'
  BY DEF ContactInv, HandlingOK, PendingCode, PendingVerify, CodeOK, VerifyOK, Backed,
         IsCodeFor, Batch
<1>3. WorkerOK' /\ PostsOK'
  BY DEF ContactInv, WorkerOK, PostsOK, Batch, Staged, IsCodeFor
<1> QED
  BY <1>1, <1>2, <1>3 DEF ContactInv

\* A step that leaves the contacts alone while the codes grow.
LEMMA ContactsStay ==
    ASSUME ContactInv, contacts' = contacts, Grows
    PROVE  ContactsOK'
<1>1. ASSUME NEW c \in DOMAIN contacts, contacts[c].verified
      PROVE  IsCodeFor(contacts[c].proof, c, "contact_verification")'
  BY <1>1 DEF ContactInv, ContactsOK, PostedOK, IsCodeFor, Grows
<1> QED
  BY <1>1 DEF ContactInv, ContactsOK

LEMMA AddContactPreserves ==
    ASSUME ContactInv, NEW primary \in BOOLEAN, AddContact(primary)
    PROVE  ContactInv'
<1> DEFINE new == [verified |-> FALSE, primary |-> primary, proof |-> 0]
<1>1. /\ contacts' = [c \in DOMAIN contacts \cup {nextContact} |->
                         IF c = nextContact THEN new ELSE contacts[c]]
      /\ nextContact' = nextContact + 1 /\ nextContact <= MaxContacts
      /\ UNCHANGED <<challenges, handling, worker, clock, nextChallenge, posted, posts, lost>>
  BY DEF AddContact, history
<1>2. new \in Contact /\ ~new.verified
  BY ContactAssumption DEF Contact
<1> HIDE DEF new
<1>3. ContactsOK'
  BY <1>1, <1>2 DEF ContactInv, ContactsOK, CountersOK, IsCodeFor
<1> QED
  BY <1>1, <1>3, ContactsOnly DEF ContactInv, CountersOK

LEMMA MinutePreserves ==
    ASSUME ContactInv, Minute
    PROVE  ContactInv'
<1>1. /\ clock' = clock + 1 /\ clock < MaxClock /\ contacts' = contacts
      /\ UNCHANGED <<challenges, handling, worker, nextContact, nextChallenge, posted, posts,
                     lost>>
  BY DEF Minute, history, counters
<1>2. Grows
  BY <1>1 DEF Grows, ContactInv, PostedOK
<1> QED
  BY <1>1, <1>2, ContactsStay, ContactsOnly, ContactAssumption DEF ContactInv, CountersOK

\* Nothing changes.
LEMMA StutterPreserves ==
    ASSUME ContactInv, UNCHANGED contactVars
    PROVE  ContactInv'
<1>1. /\ contacts' = contacts
      /\ UNCHANGED <<challenges, handling, worker, clock, nextContact, nextChallenge, posted,
                     posts, lost>>
  BY DEF contactVars
<1>2. Grows
  BY <1>1 DEF Grows, ContactInv, PostedOK
<1> QED
  BY <1>1, <1>2, ContactsStay, ContactsOnly DEF ContactInv, CountersOK

\* What is known of a request in flight stays true while its challenge is left alone.
LEMMA PendingKept ==
    ASSUME ContactInv, NEW h \in Handler, handling'[h] = handling[h], Grows,
           Len(posted') \in Nat, nextChallenge' \in Nat, nextChallenge <= nextChallenge',
           PendingCode(h) => /\ handling[h].challenge \notin DOMAIN challenges'
                             /\ handling[h].challenge \notin Batch'
                             /\ posts'[handling[h].challenge] = posts[handling[h].challenge]
    PROVE  /\ (PendingCode(h) => CodeOK(h))'
           /\ (PendingVerify(h) => VerifyOK(h))'
<1>1. ASSUME PendingCode(h) PROVE CodeOK(h)'
  <2>1. CodeOK(h)
    BY <1>1 DEF ContactInv, HandlingOK
  <2>2. Backed(handling[h].row)'
    BY <2>1 DEF CodeOK, Backed, IsCodeFor, Grows, ContactInv, PostedOK
  <2> QED
    BY <1>1, <2>1, <2>2 DEF CodeOK, ContactInv, CountersOK
<1>2. ASSUME PendingVerify(h) PROVE VerifyOK(h)'
  <2>1. VerifyOK(h)
    BY <1>2 DEF ContactInv, HandlingOK
  <2> QED
    BY <2>1 DEF VerifyOK, IsCodeFor, Grows, ContactInv, PostedOK
<1> QED
  BY <1>1, <1>2 DEF PendingCode, PendingVerify

\* Other requests in flight keep what is known of them when one of them ends.
LEMMA HandlingKept ==
    ASSUME ContactInv, Grows, Len(posted') \in Nat,
           nextChallenge' \in Nat, nextChallenge <= nextChallenge',
           \/ handling' = handling
           \/ \E h \in Handler : \E it : handling' = [handling EXCEPT ![h] = it] /\ Harmless(it),
           \A h \in Handler : PendingCode(h) /\ handling'[h] = handling[h] =>
              /\ handling[h].challenge \notin DOMAIN challenges'
              /\ handling[h].challenge \notin Batch'
              /\ posts'[handling[h].challenge] = posts[handling[h].challenge]
    PROVE  HandlingOK'
<1>1. DOMAIN handling' = Handler
  BY DEF ContactInv, HandlingOK
<1>2. ASSUME NEW h \in Handler PROVE handling'[h] = handling[h] \/ Harmless(handling'[h])
  BY DEF ContactInv, HandlingOK
<1>3. ASSUME NEW h \in Handler
      PROVE  (PendingCode(h) => CodeOK(h))' /\ (PendingVerify(h) => VerifyOK(h))'
  <2>1. CASE Harmless(handling'[h])
    BY <2>1 DEF PendingCode, PendingVerify, Harmless
  <2>2. CASE handling'[h] = handling[h]
    BY <2>2, PendingKept
  <2> QED
    BY <1>2, <2>1, <2>2
<1>4. \A g, h \in Handler : PendingCode(g)' /\ PendingCode(h)' /\ g # h
                               => handling'[g].challenge # handling'[h].challenge
  BY <1>2 DEF ContactInv, HandlingOK, PendingCode, Harmless
<1> QED
  BY <1>1, <1>3, <1>4 DEF HandlingOK

-----------------------------------------------------------------------------
\* Rows that change nothing of their code and their deliveries, or disappear.
RowsStay ==
    /\ DOMAIN challenges' \subseteq DOMAIN challenges
    /\ \A i \in DOMAIN challenges' :
          /\ challenges'[i] \in Challenge
          /\ challenges'[i].code = challenges[i].code
          /\ challenges'[i].contact = challenges[i].contact
          /\ challenges'[i].purpose = challenges[i].purpose
          /\ challenges'[i].deliveries = challenges[i].deliveries

LEMMA RowsStayOK ==
    ASSUME ContactInv, RowsStay, UNCHANGED <<worker, nextChallenge, posted, posts, lost>>
    PROVE  ChallengesOK' /\ WorkerOK' /\ PostsOK'
<1>1. ChallengesOK'
  BY DEF ContactInv, ChallengesOK, RowsStay, Backed, IsCodeFor
<1>2. WorkerOK'
  BY DEF ContactInv, WorkerOK, RowsStay, Batch, IsCodeFor
<1>3. PostsOK'
  BY DEF ContactInv, PostsOK, RowsStay, Staged
<1> QED
  BY <1>1, <1>2, <1>3

\* A step of a handler that posts nothing and works on rows that are there.
LEMMA HandlerStep ==
    ASSUME ContactInv, RowsStay, ContactsOK',
           UNCHANGED <<worker, clock, nextContact, nextChallenge, posted, posts, lost>>,
           \/ handling' = handling
           \/ \E h \in Handler : \E it : handling' = [handling EXCEPT ![h] = it] /\ Harmless(it)
    PROVE  ContactInv'
<1>1. Grows /\ Len(posted') \in Nat
  BY DEF Grows, ContactInv, PostedOK
<1>2. Batch' = Batch
  BY DEF Batch
<1>3. \A h \in Handler : PendingCode(h) =>
         /\ handling[h].challenge \notin DOMAIN challenges'
         /\ handling[h].challenge \notin Batch'
         /\ posts'[handling[h].challenge] = posts[handling[h].challenge]
  BY <1>2 DEF RowsStay, ContactInv, HandlingOK, CodeOK
<1>4. HandlingOK'
  BY <1>1, <1>3, HandlingKept DEF ContactInv, CountersOK
<1>5. PostedOK' /\ CountersOK'
  BY DEF ContactInv, PostedOK, CountersOK
<1> QED
  BY <1>4, <1>5, RowsStayOK DEF ContactInv

\* A receipt changes the status (verification_provider_callback).
LEMMA ReceiptPreserves ==
    ASSUME ContactInv, NEW i \in 1..MaxChallenges, NEW status \in Outcome \cup {"delivered"},
           Receipt(i, status)
    PROVE  ContactInv'
<1>1. /\ challenges' = [challenges EXCEPT ![i] = Received(@, status)]
      /\ contacts' = contacts /\ handling' = handling
      /\ UNCHANGED <<worker, clock, nextContact, nextChallenge, posted, posts, lost>>
  BY DEF Receipt, counters, history
<1>2. \A j \in DOMAIN challenges : challenges[j] \in Challenge
  BY DEF ContactInv, ChallengesOK
<1>3. RowsStay
  <2>1. \A j \in DOMAIN challenges :
           challenges'[j] = IF j = i THEN Received(challenges[j], status) ELSE challenges[j]
    BY <1>1
  <2> QED
    BY <1>1, <1>2, <2>1, ReceivedRow DEF RowsStay, ContactInv
<1>4. Grows
  BY <1>1 DEF Grows, ContactInv, PostedOK
<1> QED
  BY <1>1, <1>3, <1>4, ContactsStay, HandlerStep

\* A contact goes with its challenges; the contact promoted keeps its code (delete_contact).
LEMMA DeleteContactPreserves ==
    ASSUME ContactInv, NEW gone \in 1..MaxContacts, DeleteContact(gone)
    PROVE  ContactInv'
<1> DEFINE left == DOMAIN contacts \ {gone}
           verified == {d \in left : contacts[d].verified}
           promoted == {d \in verified : contacts[gone].primary /\ \A e \in verified : d <= e}
<1>1. /\ contacts' = [d \in left |-> [contacts[d] EXCEPT !.primary = @ \/ d \in promoted]]
      /\ challenges' = [i \in {j \in DOMAIN challenges : challenges[j].contact # gone} |->
                           challenges[i]]
      /\ handling' = handling
      /\ UNCHANGED <<worker, clock, nextContact, nextChallenge, posted, posts, lost>>
  BY DEF DeleteContact, counters, history
<1>2. left \subseteq DOMAIN contacts
  OBVIOUS
<1> HIDE DEF left, verified, promoted
<1>3. DOMAIN contacts' = left
  BY <1>1
<1>4. ASSUME NEW c \in left
      PROVE  /\ contacts'[c] \in Contact
             /\ contacts'[c].verified = contacts[c].verified
             /\ contacts'[c].proof = contacts[c].proof
  <2>1. contacts[c] \in Contact
    BY <1>2 DEF ContactInv, ContactsOK
  <2>2. contacts'[c] = [contacts[c] EXCEPT !.primary = contacts[c].primary \/ c \in promoted]
    BY <1>1
  <2> QED
    BY <2>1, <2>2 DEF Contact
<1>5. ContactsOK'
  BY <1>1, <1>2, <1>3, <1>4 DEF ContactInv, ContactsOK, IsCodeFor
<1>6. RowsStay
  BY <1>1 DEF RowsStay, ContactInv, ChallengesOK
<1> QED
  BY <1>1, <1>5, <1>6, HandlerStep

\* The choice of the primary contact verifies none (set_primary_contact).
LEMMA ChoosePrimary ==
    ASSUME ContactInv, NEW h \in Handler,
           (\E c \in 1..MaxContacts : StartPrimary(h, c)) \/ FinishPrimary(h)
    PROVE  ContactInv'
<1>1. UNCHANGED <<challenges, worker, clock, nextContact, nextChallenge, posted, posts, lost>>
  BY DEF StartPrimary, FinishPrimary, counters, history
<1>2. RowsStay
  BY <1>1 DEF RowsStay, ContactInv, ChallengesOK
<1>3. CASE \E c \in 1..MaxContacts : StartPrimary(h, c)
  <2>1. PICK c \in 1..MaxContacts : StartPrimary(h, c)
    BY <1>3
  <2> DEFINE it == [op |-> "primary", contact |-> c, promotes |-> ~contacts[c].primary,
                    demotes |-> {d \in DOMAIN contacts \ {c} : contacts[d].primary}]
  <2>3. handling' = [handling EXCEPT ![h] = it] /\ it.op = "primary"
    BY <2>1 DEF StartPrimary
  <2> HIDE DEF it
  <2>2. ContactsOK'
    BY <1>1, <1>3 DEF StartPrimary, ContactInv, ContactsOK, IsCodeFor
  <2> QED
    BY <1>1, <1>2, <2>2, <2>3, HandlerStep DEF Harmless
<1>4. CASE FinishPrimary(h)
  <2>1. ASSUME NEW c \in DOMAIN contacts
        PROVE  /\ contacts'[c] \in Contact
               /\ contacts'[c].verified = contacts[c].verified
               /\ contacts'[c].proof = contacts[c].proof
    <3> DEFINE primary == PrimaryAfter(handling[h], c)
    <3>1. contacts[c] \in Contact /\ primary \in BOOLEAN
      BY DEF ContactInv, ContactsOK, PrimaryAfter
    <3>2. contacts'[c] = contacts[c] \/ contacts'[c] = [contacts[c] EXCEPT !.primary = primary]
      BY <1>4, Zenon DEF FinishPrimary
    <3> HIDE DEF primary
    <3> QED
      BY <3>1, <3>2 DEF Contact
  <2>2. DOMAIN contacts' = DOMAIN contacts /\ handling' = [handling EXCEPT ![h] = None]
    BY <1>4 DEF FinishPrimary
  <2>3. ContactsOK'
    BY <1>1, <2>1, <2>2 DEF ContactInv, ContactsOK, IsCodeFor
  <2> QED
    BY <1>1, <1>2, <2>2, <2>3, HandlerStep DEF Harmless
<1> QED
  BY <1>3, <1>4

\* The commit of an attempt: a contact it verifies was sent the code (verify_contact).
LEMMA FinishVerifyPreserves ==
    ASSUME ContactInv, NEW h \in Handler, FinishVerify(h)
    PROVE  ContactInv'
<1> DEFINE it == handling[h]
           new == [verified |-> TRUE, primary |-> contacts[it.contact].primary \/ it.promotes,
                   proof |-> it.code]
<1>1. /\ it # None /\ it.op = "verify"
      /\ challenges' = [challenges EXCEPT ![it.challenge] = Attempted(@, it.result)]
      /\ contacts' = IF it.result.ok THEN [contacts EXCEPT ![it.contact] = new] ELSE contacts
      /\ handling' = [handling EXCEPT ![h] = None]
      /\ UNCHANGED <<worker, clock, nextContact, nextChallenge, posted, posts, lost>>
  BY DEF FinishVerify, counters, history
<1>2. VerifyOK(h)
  BY <1>1 DEF ContactInv, HandlingOK, PendingVerify
<1>3. RowsStay
  <2>1. \A j \in DOMAIN challenges :
           challenges'[j] = IF j = it.challenge THEN Attempted(challenges[j], it.result)
                            ELSE challenges[j]
    BY <1>1
  <2>2. \A j \in DOMAIN challenges : challenges[j] \in Challenge
    BY DEF ContactInv, ChallengesOK
  <2>3. it.result.tries \in {None} \cup 0..MaxTries
    BY <1>2 DEF VerifyOK
  <2> HIDE DEF it
  <2> QED
    BY <1>1, <2>1, <2>2, <2>3, AttemptedRow DEF RowsStay, ContactInv
<1>4. new.verified = TRUE /\ new.proof = it.code
  OBVIOUS
<1>5. new \in Contact
  BY <1>2 DEF Contact, VerifyOK
<1>6. it.result.ok => IsCodeFor(it.code, it.contact, "contact_verification")
  BY <1>2 DEF VerifyOK
<1> HIDE DEF it, new
<1>7. ContactsOK'
  BY <1>1, <1>4, <1>5, <1>6 DEF ContactInv, ContactsOK, IsCodeFor
<1> QED
  BY <1>1, <1>3, <1>7, HandlerStep DEF Harmless

\* The commit of a request for a code: the row comes in, its predecessors are used up.
LEMMA CommitCodePreserves ==
    ASSUME ContactInv, NEW h \in Handler, CommitCode(h)
    PROVE  ContactInv'
<1> DEFINE it == handling[h]
           n == it.challenge
<1>1. /\ it # None /\ it.op = "code"
      /\ challenges' = [i \in DOMAIN challenges \cup {n} |->
                           IF i = n THEN it.row
                           ELSE IF i \in it.supersedes THEN Superseded(challenges[i])
                           ELSE challenges[i]]
      /\ contacts' = contacts /\ handling' = [handling EXCEPT ![h] = None]
      /\ UNCHANGED <<worker, clock, nextContact, nextChallenge, posted, posts, lost>>
  BY DEF CommitCode, counters, history
<1>2. PendingCode(h) /\ CodeOK(h)
  BY <1>1 DEF ContactInv, HandlingOK, PendingCode
<1>3. /\ it.row \in Challenge /\ Backed(it.row) /\ it.row.deliveries = 1
      /\ n \in 1..MaxChallenges /\ n < nextChallenge
      /\ n \notin DOMAIN challenges /\ n \notin Batch /\ posts[n] <= 1
  BY <1>2 DEF CodeOK
<1>4. \A g \in Handler : g # h /\ PendingCode(g) => handling[g].challenge # n
  BY <1>2 DEF ContactInv, HandlingOK
<1>5. \A g \in Handler : handling'[g] = IF g = h THEN None ELSE handling[g]
  BY <1>1 DEF ContactInv, HandlingOK
<1> DEFINE row == it.row
           supersedes == it.supersedes
<1>6. /\ DOMAIN challenges' = DOMAIN challenges \cup {n}
      /\ challenges'[n] = row
      /\ \A i \in DOMAIN challenges :
            challenges'[i] = IF i \in supersedes THEN Superseded(challenges[i]) ELSE challenges[i]
  BY <1>1, <1>3
<1> HIDE DEF row, supersedes, n
<1>7. \A i \in DOMAIN challenges :
         /\ challenges'[i] \in Challenge
         /\ challenges'[i].code = challenges[i].code
         /\ challenges'[i].contact = challenges[i].contact
         /\ challenges'[i].purpose = challenges[i].purpose
         /\ challenges'[i].deliveries = challenges[i].deliveries
  <2>1. \A i \in DOMAIN challenges : challenges[i] \in Challenge
    BY DEF ContactInv, ChallengesOK
  <2> QED
    BY <1>6, <2>1, SupersededRow
<1>8. row \in Challenge /\ Backed(row) /\ row.deliveries = 1
  BY <1>3 DEF row
<1>9. ChallengesOK'
  BY <1>1, <1>3, <1>6, <1>7, <1>8 DEF ContactInv, ChallengesOK, Backed, IsCodeFor
<1>10. Grows /\ Len(posted') \in Nat
  BY <1>1 DEF Grows, ContactInv, PostedOK
<1>11. Batch' = Batch /\ Staged' = Staged
  BY <1>1 DEF Batch, Staged
<1>12. \A g \in Handler : PendingCode(g) /\ handling'[g] = handling[g] =>
         /\ handling[g].challenge \notin DOMAIN challenges'
         /\ handling[g].challenge \notin Batch'
         /\ posts'[handling[g].challenge] = posts[handling[g].challenge]
  <2> SUFFICES ASSUME NEW g \in Handler, PendingCode(g), handling'[g] = handling[g]
               PROVE  /\ handling[g].challenge \notin DOMAIN challenges'
                      /\ handling[g].challenge \notin Batch'
                      /\ posts'[handling[g].challenge] = posts[handling[g].challenge]
    OBVIOUS
  <2>1. g # h
    BY <1>5 DEF PendingCode
  <2>2. handling[g].challenge # n /\ CodeOK(g)
    BY <2>1, <1>4 DEF ContactInv, HandlingOK
  <2> QED
    BY <2>2, <1>1, <1>6, <1>11 DEF CodeOK
<1>13. HandlingOK'
  <2>1. nextChallenge' \in Nat /\ nextChallenge <= nextChallenge'
    BY <1>1, ContactAssumption DEF ContactInv, CountersOK
  <2>2. \E g \in Handler : \E new : handling' = [handling EXCEPT ![g] = new] /\ Harmless(new)
    BY <1>1 DEF Harmless
  <2> QED
    BY <1>10, <1>12, <2>1, <2>2, HandlingKept
<1>14. WorkerOK'
  <2>1. DOMAIN worker.staged \subseteq Batch
    BY DEF Batch
  <2> QED
    BY <2>1, <1>1, <1>3, <1>6, <1>7, <1>11 DEF ContactInv, WorkerOK, IsCodeFor
<1>15. PostsOK'
  <2>1. lost \in Nat /\ posts[n] \in Nat
    BY <1>3 DEF ContactInv, CountersOK
  <2> QED
    BY <2>1, <1>1, <1>3, <1>6, <1>7, <1>8, <1>11 DEF ContactInv, PostsOK
<1>16. PostedOK' /\ CountersOK' /\ ContactsOK'
  BY <1>1, <1>10, ContactsStay DEF ContactInv, PostedOK, CountersOK
<1> QED
  BY <1>9, <1>13, <1>14, <1>15, <1>16 DEF ContactInv

\* An attempt that is right has the code of a row of its own contact.
LEMMA StartVerifyPreserves ==
    ASSUME ContactInv, NEW h \in Handler, NEW c \in 1..MaxContacts,
           NEW code \in 0..Len(posted), StartVerify(h, c, code)
    PROVE  ContactInv'
<1>1. PICK i \in ToVerify(c) :
         handling' = [handling EXCEPT ![h] =
            [op |-> "verify", contact |-> c, challenge |-> i,
             result |-> Checked(challenges[i], code), code |-> code,
             promotes |-> Checked(challenges[i], code).ok /\ VerifiedPrimaries = {}]]
  BY DEF StartVerify
<1> DEFINE result == Checked(challenges[i], code)
           it == [op |-> "verify", contact |-> c, challenge |-> i, result |-> result,
                  code |-> code, promotes |-> result.ok /\ VerifiedPrimaries = {}]
<1>2. /\ contacts' = contacts
      /\ UNCHANGED <<challenges, worker, clock, nextContact, nextChallenge, posted, posts, lost>>
  BY DEF StartVerify, counters, history
<1>3. /\ i \in DOMAIN challenges /\ challenges[i] \in Challenge /\ Backed(challenges[i])
      /\ challenges[i].contact = c /\ challenges[i].purpose = "contact_verification"
  BY DEF ToVerify, ChallengesOf, ContactInv, ChallengesOK
<1>4. result.tries \in {None} \cup 0..MaxTries /\ (result.ok => challenges[i].code = code)
  BY <1>3, CheckedRow
<1>5. it.op = "verify" /\ it.contact = c /\ it.code = code /\ it.result = result
  OBVIOUS
<1>6. handling' = [handling EXCEPT ![h] = it]
  BY <1>1
<1> HIDE DEF it, result
<1>7. result.ok => IsCodeFor(code, c, "contact_verification")
  BY <1>3, <1>4 DEF Backed
<1>8. code \in 0..MaxCodes
  BY ContactAssumption DEF ContactInv, PostedOK
<1>9. Grows /\ Len(posted') \in Nat
  BY <1>2 DEF Grows, ContactInv, PostedOK
<1>10. DOMAIN handling' = Handler /\ handling'[h] = it
       /\ \A g \in Handler : g # h => handling'[g] = handling[g]
  BY <1>6 DEF ContactInv, HandlingOK
<1>11. ASSUME NEW g \in Handler
       PROVE  (PendingCode(g) => CodeOK(g))' /\ (PendingVerify(g) => VerifyOK(g))'
  <2>1. CASE g = h
    <3>1. ~PendingCode(h)'
      BY <1>5, <1>10 DEF PendingCode
    <3>2. VerifyOK(h)'
      BY <1>2, <1>4, <1>5, <1>7, <1>8, <1>10 DEF VerifyOK, IsCodeFor
    <3> QED
      BY <2>1, <3>1, <3>2
  <2>2. CASE g # h
    <3>1. handling'[g] = handling[g] /\ Batch' = Batch
      BY <2>2, <1>2, <1>10 DEF Batch
    <3>2. PendingCode(g) => CodeOK(g)
      BY DEF ContactInv, HandlingOK
    <3> QED
      BY <3>1, <3>2, <1>2, <1>9, PendingKept DEF CodeOK, ContactInv, CountersOK
  <2> QED
    BY <2>1, <2>2
<1>12. \A f, g \in Handler : PendingCode(f)' /\ PendingCode(g)' /\ f # g
                                => handling'[f].challenge # handling'[g].challenge
  BY <1>5, <1>10 DEF ContactInv, HandlingOK, PendingCode
<1>13. HandlingOK'
  BY <1>10, <1>11, <1>12 DEF HandlingOK
<1>14. RowsStay
  BY <1>2 DEF RowsStay, ContactInv, ChallengesOK
<1>15. PostedOK' /\ CountersOK' /\ ContactsOK'
  BY <1>2, <1>9, ContactsStay DEF ContactInv, PostedOK, CountersOK
<1> QED
  BY <1>2, <1>13, <1>14, <1>15, RowsStayOK DEF ContactInv

-----------------------------------------------------------------------------
\* A new code: the codes there were stay, and the new one is for its row.
LEMMA PostedCode ==
    ASSUME ContactInv, NEW i \in 1..MaxChallenges, NEW c \in 1..MaxContacts,
           NEW purpose \in Purpose, Post(i, c, purpose)
    PROVE  /\ Grows /\ Len(posted') \in Nat /\ PostedOK'
           /\ NextCode \in 1..MaxCodes
           /\ NextCode \in 1..Len(posted')
           /\ posted'[NextCode].contact = c /\ posted'[NextCode].purpose = purpose
           /\ posts' = [posts EXCEPT ![i] = posts[i] + 1]
<1> DEFINE new == [contact |-> c, purpose |-> purpose]
<1>1. /\ posted' = Append(posted, new) /\ NextCode <= MaxCodes
      /\ posts' = [posts EXCEPT ![i] = posts[i] + 1]
  BY DEF Post
<1>2. posted \in Seq(Posted) /\ Len(posted) \in Nat
  BY DEF ContactInv, PostedOK
<1>3. new \in Posted /\ new.contact = c /\ new.purpose = purpose
  BY DEF Posted
<1> HIDE DEF new
<1>4. /\ posted' \in Seq(Posted) /\ Len(posted') = Len(posted) + 1
      /\ posted'[Len(posted) + 1] = new
      /\ \A n \in 1..Len(posted) : posted'[n] = posted[n]
  BY <1>1, <1>2, <1>3
<1>5. NextCode = Len(posted) + 1 /\ MaxCodes \in Nat
  BY ContactAssumption DEF NextCode
<1> QED
  BY <1>1, <1>2, <1>3, <1>4, <1>5 DEF Grows, PostedOK

\* A request for a code: the row it will commit carries the code just posted, and its
\* number is a new one.
LEMMA RequestCodePreserves ==
    ASSUME ContactInv, NEW h \in Handler, NEW c \in 1..MaxContacts, NEW purpose \in Purpose,
           NEW outcome \in Outcome, RequestCode(h, c, purpose, outcome)
    PROVE  ContactInv'
<1> DEFINE n == nextChallenge
           message == IF outcome = "sent" THEN NextCode ELSE 0
           row == [contact |-> c, purpose |-> purpose, code |-> NextCode, consumed |-> FALSE,
                   tries |-> 0, status |-> outcome, deliveries |-> 1, message |-> message,
                   created |-> clock, updated |-> clock]
           it == [op |-> "code", contact |-> c, challenge |-> n,
                  supersedes |-> {i \in ChallengesOf(c, purpose) : ~challenges[i].consumed},
                  row |-> row]
<1>1. /\ handling' = [handling EXCEPT ![h] = it]
      /\ n <= MaxChallenges /\ Post(n, c, purpose) /\ nextChallenge' = n + 1
      /\ UNCHANGED <<contacts, challenges, worker, clock, nextContact, lost>>
  BY DEF RequestCode
<1>2. n \in 1..MaxChallenges /\ n \in Nat /\ n + 1 \in 1..(MaxChallenges + 1)
  BY <1>1, ContactAssumption DEF ContactInv, CountersOK
<1>3. /\ Grows /\ Len(posted') \in Nat /\ PostedOK'
      /\ NextCode \in 1..MaxCodes /\ NextCode \in 1..Len(posted')
      /\ posted'[NextCode].contact = c /\ posted'[NextCode].purpose = purpose
      /\ posts' = [posts EXCEPT ![n] = posts[n] + 1]
  BY <1>1, <1>2, PostedCode
<1>4. row \in Challenge
  <2>1. message \in 0..MaxCodes /\ clock \in 0..MaxClock /\ 1 \in 0..MaxDeliveries
        /\ 0 \in 0..MaxTries /\ outcome \in Outcome \cup {"delivered"}
    BY <1>3, ContactAssumption DEF ContactInv, CountersOK
  <2> HIDE DEF message
  <2> QED
    BY <1>3, <2>1 DEF Challenge
<1>5. /\ row.code = NextCode /\ row.contact = c /\ row.purpose = purpose /\ row.deliveries = 1
  OBVIOUS
<1> HIDE DEF row, message
<1>6. it.op = "code" /\ it.challenge = n /\ it.row = row
  OBVIOUS
<1> HIDE DEF it
<1>7. /\ n \notin DOMAIN challenges /\ n \notin Batch
      /\ \A g \in Handler : PendingCode(g) => handling[g].challenge < n
      /\ posts[n] = 0
  <2>1. \A i \in DOMAIN challenges : i \in 1..MaxChallenges /\ i < n
    BY DEF ContactInv, ChallengesOK
  <2>2. \A i \in Batch : i < n
    BY DEF ContactInv, WorkerOK, Batch
  <2>3. \A g \in Handler : PendingCode(g) => handling[g].challenge < n
    BY DEF ContactInv, HandlingOK, CodeOK
  <2>4. posts[n] = 0
    BY <1>2 DEF ContactInv, PostsOK
  <2>5. ~(n < n)
    BY <1>2
  <2> HIDE DEF n
  <2> QED
    BY <2>1, <2>2, <2>3, <2>4, <2>5
<1>8. Batch' = Batch /\ Staged' = Staged
  BY <1>1 DEF Batch, Staged
<1>9. DOMAIN handling' = Handler /\ handling'[h] = it
      /\ \A g \in Handler : g # h => handling'[g] = handling[g]
  BY <1>1 DEF ContactInv, HandlingOK
<1>10. posts'[n] = 1 /\ (\A i \in 1..MaxChallenges : i # n => posts'[i] = posts[i])
       /\ posts' \in [1..MaxChallenges -> Nat]
  BY <1>2, <1>3, <1>7 DEF ContactInv, CountersOK
<1> HIDE DEF n
<1>12. ASSUME NEW g \in Handler
       PROVE  (PendingCode(g) => CodeOK(g))' /\ (PendingVerify(g) => VerifyOK(g))'
  <2>1. CASE g = h
    <3>1. ~PendingVerify(h)'
      BY <1>6, <1>9 DEF PendingVerify
    <3>2. CodeOK(h)'
      BY <1>1, <1>2, <1>3, <1>4, <1>5, <1>6, <1>7, <1>8, <1>9, <1>10
      DEF CodeOK, Backed, IsCodeFor
    <3> QED
      BY <2>1, <3>1, <3>2
  <2>2. CASE g # h
    <3>1. handling'[g] = handling[g]
      BY <2>2, <1>9
    <3>2. PendingCode(g) => CodeOK(g) /\ handling[g].challenge # n
      BY <1>2, <1>7 DEF ContactInv, HandlingOK, CodeOK
    <3>3. nextChallenge' \in Nat /\ nextChallenge <= nextChallenge'
      BY <1>1, <1>2 DEF n
    <3>4. PendingCode(g) => /\ handling[g].challenge \notin DOMAIN challenges'
                            /\ handling[g].challenge \notin Batch'
                            /\ posts'[handling[g].challenge] = posts[handling[g].challenge]
      BY <3>2, <1>1, <1>8, <1>10 DEF CodeOK
    <3> QED
      BY <3>1, <3>3, <3>4, <1>3, PendingKept
  <2> QED
    BY <2>1, <2>2
<1>13. \A f, g \in Handler : PendingCode(f)' /\ PendingCode(g)' /\ f # g
                                => handling'[f].challenge # handling'[g].challenge
  <2>1. \A g \in Handler : PendingCode(g) => handling[g].challenge # n
    BY <1>2, <1>7 DEF ContactInv, HandlingOK, CodeOK
  <2> QED
    BY <2>1, <1>6, <1>9 DEF ContactInv, HandlingOK, PendingCode
<1>14. HandlingOK'
  BY <1>9, <1>12, <1>13 DEF HandlingOK
<1>15. ChallengesOK'
  <2>1. \A i \in DOMAIN challenges : i \in Nat /\ i < n
    BY ContactAssumption DEF ContactInv, ChallengesOK, n
  <2>2. \A i \in DOMAIN challenges : Backed(challenges[i])'
    BY <1>1, <1>3 DEF ContactInv, ChallengesOK, Backed, IsCodeFor, Grows, PostedOK
  <2>3. challenges' = challenges /\ nextChallenge' = n + 1
    BY <1>1
  <2>4. \A i \in DOMAIN challenges : i < nextChallenge'
    BY <2>1, <2>3, <1>2
  <2> QED
    BY <2>2, <2>3, <2>4 DEF ContactInv, ChallengesOK, Backed
<1>16. WorkerOK'
  <2>1. \A i \in Batch : i \in Nat /\ i < nextChallenge'
    <3>1. \A i \in Batch : i \in Nat /\ i < n
      BY DEF ContactInv, WorkerOK, n
    <3> QED
      BY <3>1, <1>1, <1>2
  <2> QED
    BY <2>1, <1>1, <1>3, <1>8 DEF ContactInv, WorkerOK, IsCodeFor, Grows, PostedOK
<1>17. PostsOK'
  <2>1. lost \in Nat /\ MaxDeliveries \in Nat /\ MaxDeliveries > 0
    BY ContactAssumption DEF ContactInv, CountersOK
  <2> QED
    BY <2>1, <1>1, <1>2, <1>7, <1>8, <1>10 DEF ContactInv, PostsOK, CountersOK, n
<1>18. CountersOK' /\ ContactsOK'
  BY <1>1, <1>2, <1>3, <1>10, ContactsStay DEF ContactInv, CountersOK
<1> QED
  BY <1>3, <1>14, <1>15, <1>16, <1>17, <1>18 DEF ContactInv

-----------------------------------------------------------------------------
(* The delivery worker. *)

\* The batch is what is due: rows that have posts left.
LEMMA WakeWorkerPreserves ==
    ASSUME ContactInv, WakeWorker
    PROVE  ContactInv'
<1> DEFINE new == [busy |-> TRUE, due |-> Due, staged |-> <<>>]
<1>1. /\ worker' = new
      /\ contacts' = contacts /\ handling' = handling
      /\ UNCHANGED <<challenges, clock, nextContact, nextChallenge, posted, posts, lost>>
  BY DEF WakeWorker, counters, history
<1>2. new.busy = TRUE /\ new.due = Due /\ DOMAIN new.staged = {}
  OBVIOUS
<1> HIDE DEF new
<1>3. \A i \in Due : i \in DOMAIN challenges /\ challenges[i].deliveries < MaxDeliveries
  BY DEF Due, RetryAllowed
<1>4. Batch' \subseteq Due /\ Staged' = {}
  BY <1>1, <1>2 DEF Batch, Staged
<1>5. WorkerOK'
  <2>1. \A i \in Due : i \in Nat /\ i < nextChallenge
    BY <1>3, ContactAssumption DEF ContactInv, ChallengesOK
  <2> QED
    BY <1>1, <1>2, <1>3, <1>4, <2>1 DEF WorkerOK, Batch
<1>6. Grows /\ Len(posted') \in Nat
  BY <1>1 DEF Grows, ContactInv, PostedOK
<1>7. \A h \in Handler : PendingCode(h) =>
         /\ handling[h].challenge \notin DOMAIN challenges'
         /\ handling[h].challenge \notin Batch'
         /\ posts'[handling[h].challenge] = posts[handling[h].challenge]
  BY <1>1, <1>3, <1>4 DEF ContactInv, HandlingOK, CodeOK
<1>8. HandlingOK'
  BY <1>1, <1>6, <1>7, HandlingKept, ContactAssumption DEF ContactInv, CountersOK
<1>9. PostedOK' /\ CountersOK' /\ ContactsOK' /\ ChallengesOK'
  BY <1>1, <1>6, ContactsStay
  DEF ContactInv, PostedOK, CountersOK, ChallengesOK, Backed, IsCodeFor
<1>10. PostsOK'
  <2>1. Staged = {}
    BY DEF WakeWorker, ContactInv, WorkerOK, Staged
  <2> QED
    BY <1>1, <1>4, <2>1 DEF ContactInv, PostsOK
<1> QED
  BY <1>5, <1>8, <1>9, <1>10 DEF ContactInv

\* The worker has no batch any more: what it posted is lost, or in the rows.
LEMMA BatchEnds ==
    ASSUME ContactInv, worker' = Idle, lost' \in Nat, ChallengesOK', PostsOK',
           DOMAIN challenges' = DOMAIN challenges,
           UNCHANGED <<contacts, handling, clock, nextContact, nextChallenge, posted, posts>>
    PROVE  ContactInv'
<1>1. Batch' = {}
  BY DEF Batch, Idle
<1>2. Grows /\ Len(posted') \in Nat
  BY DEF Grows, ContactInv, PostedOK
<1>3. \A h \in Handler : PendingCode(h) =>
         /\ handling[h].challenge \notin DOMAIN challenges'
         /\ handling[h].challenge \notin Batch'
         /\ posts'[handling[h].challenge] = posts[handling[h].challenge]
  BY <1>1 DEF ContactInv, HandlingOK, CodeOK
<1>4. HandlingOK'
  BY <1>2, <1>3, HandlingKept, ContactAssumption DEF ContactInv, CountersOK
<1>5. PostedOK' /\ CountersOK' /\ ContactsOK' /\ WorkerOK'
  BY <1>1, <1>2, ContactsStay DEF ContactInv, PostedOK, CountersOK, WorkerOK, Idle
<1> QED
  BY <1>4, <1>5 DEF ContactInv

\* A batch that is lost is counted as one (a crash, or a commit that fails).
LEMMA LostBatch ==
    ASSUME ContactInv, worker' = Idle, lost' = lost + 1,
           UNCHANGED <<contacts, challenges, handling, clock, nextContact, nextChallenge, posted,
                       posts>>
    PROVE  ContactInv'
<1>1. ChallengesOK'
  BY DEF ContactInv, ChallengesOK, Backed, IsCodeFor
<1>2. PostsOK'
  <2>1. Staged' = {}
    BY DEF Staged, Idle
  <2>2. \A i \in DOMAIN challenges : challenges[i].deliveries \in Nat
    BY ContactAssumption DEF ContactInv, ChallengesOK, Challenge
  <2>3. MaxDeliveries \in Nat /\ lost \in Nat /\ posts \in [1..MaxChallenges -> Nat]
    BY ContactAssumption DEF ContactInv, CountersOK
  <2> QED
    BY <2>1, <2>2, <2>3 DEF ContactInv, PostsOK
<1> QED
  BY <1>1, <1>2, BatchEnds DEF ContactInv, CountersOK

LEMMA CrashWorkerPreserves ==
    ASSUME ContactInv, CrashWorker
    PROVE  ContactInv'
<1>1. /\ worker' = Idle /\ lost' = lost + 1
      /\ UNCHANGED <<contacts, challenges, handling, clock, nextContact, nextChallenge, posted,
                     posts>>
  BY DEF CrashWorker, counters
<1> QED
  BY <1>1, LostBatch

\* The commit of a batch: every post is counted in its row and the row has the code of
\* the last one; or a row is gone and nothing is written.
LEMMA CommitDeliveriesPreserves ==
    ASSUME ContactInv, CommitDeliveries
    PROVE  ContactInv'
<1>1. /\ worker' = Idle
      /\ UNCHANGED <<contacts, handling, clock, nextContact, nextChallenge, posted, posts>>
  BY DEF CommitDeliveries, counters
<1>2. CASE ~(DOMAIN worker.staged \subseteq DOMAIN challenges)
  <2>1. lost' = lost + 1 /\ challenges' = challenges
    BY <1>2 DEF CommitDeliveries
  <2> QED
    BY <1>1, <2>1, LostBatch
<1>3. CASE DOMAIN worker.staged \subseteq DOMAIN challenges
  <2> DEFINE staged == worker.staged
  <2>1. /\ challenges' = [i \in DOMAIN challenges |->
                            IF i \in DOMAIN staged THEN Delivered(challenges[i], staged[i])
                            ELSE challenges[i]]
        /\ lost' = lost
    BY <1>3 DEF CommitDeliveries
  <2>2. \A i \in DOMAIN challenges :
           challenges[i] \in Challenge /\ Backed(challenges[i]) /\ i < nextChallenge
    BY DEF ContactInv, ChallengesOK
  <2>3. \A i \in DOMAIN staged :
           /\ i \in DOMAIN challenges /\ challenges[i].deliveries < MaxDeliveries
           /\ staged[i].outcome \in Outcome
           /\ IsCodeFor(staged[i].code, challenges[i].contact, challenges[i].purpose)
    BY <1>1, <1>3 DEF ContactInv, WorkerOK, Batch
  <2>4. Staged = DOMAIN staged /\ Staged' = {}
    BY <1>1 DEF Staged, Idle
  <2> HIDE DEF staged
  <2>5. \A i \in DOMAIN staged : staged[i].code \in 1..MaxCodes
    BY <2>3, ContactAssumption DEF IsCodeFor, ContactInv, PostedOK
  <2>6. CountersOK
    BY DEF ContactInv
  <2>7. DOMAIN challenges' = DOMAIN challenges
    BY <2>1
  <2>8. ASSUME NEW i \in DOMAIN staged
        PROVE  /\ challenges'[i] \in Challenge
               /\ challenges'[i].code = staged[i].code
               /\ challenges'[i].contact = challenges[i].contact
               /\ challenges'[i].purpose = challenges[i].purpose
               /\ challenges'[i].deliveries = challenges[i].deliveries + 1
    <3>1. challenges'[i] = Delivered(challenges[i], staged[i])
      BY <2>1, <2>3
    <3> QED
      BY <3>1, <2>2, <2>3, <2>5, <2>6, DeliveredRow
  <2>9. ASSUME NEW i \in DOMAIN challenges, i \notin DOMAIN staged
        PROVE  challenges'[i] = challenges[i]
    BY <2>1, <2>9
  <2>10. ChallengesOK'
    <3>1. ASSUME NEW i \in DOMAIN challenges
          PROVE  challenges'[i] \in Challenge /\ Backed(challenges[i])' /\ i < nextChallenge'
      <4>1. CASE i \in DOMAIN staged
        BY <4>1, <1>1, <2>2, <2>3, <2>8 DEF Backed, IsCodeFor
      <4>2. CASE i \notin DOMAIN staged
        BY <4>2, <1>1, <2>2, <2>9 DEF Backed, IsCodeFor
      <4> QED
        BY <4>1, <4>2
    <3> QED
      BY <3>1, <2>7 DEF ContactInv, ChallengesOK
  <2>11. PostsOK'
    <3>1. \A i \in DOMAIN challenges : challenges[i].deliveries \in Nat
      BY <2>2, ContactAssumption DEF Challenge
    <3>2. MaxDeliveries \in Nat /\ lost \in Nat /\ posts \in [1..MaxChallenges -> Nat]
      BY ContactAssumption DEF ContactInv, CountersOK
    <3>3. ASSUME NEW i \in 1..MaxChallenges, i \in DOMAIN challenges
          PROVE  posts[i] <= challenges'[i].deliveries + lost
      <4>1. posts[i] <= challenges[i].deliveries + lost + (IF i \in Staged THEN 1 ELSE 0)
        BY <3>3 DEF ContactInv, PostsOK
      <4>2. CASE i \in DOMAIN staged
        BY <4>1, <4>2, <2>4, <2>8, <3>1, <3>2, <3>3
      <4>3. CASE i \notin DOMAIN staged
        BY <4>1, <4>3, <2>4, <2>9, <3>1, <3>2, <3>3
      <4> QED
        BY <4>2, <4>3
    <3>4. \A i \in DOMAIN challenges' : challenges'[i].deliveries \in Nat
      BY <2>10, ContactAssumption DEF ChallengesOK, Challenge
    <3> QED
      BY <1>1, <2>1, <2>4, <2>7, <3>2, <3>3, <3>4 DEF ContactInv, PostsOK
  <2> QED
    BY <1>1, <2>1, <2>6, <2>7, <2>10, <2>11, BatchEnds DEF CountersOK
<1> QED
  BY <1>2, <1>3

\* One post of the worker: a row that is there has a code of its own staged; one that is
\* gone never returns.
LEMMA RetryDeliveryPreserves ==
    ASSUME ContactInv, NEW i \in 1..MaxChallenges, NEW outcome \in Outcome,
           RetryDelivery(i, outcome)
    PROVE  ContactInv'
<1> DEFINE known == i \in DOMAIN challenges
           attempt == IF known THEN [code |-> NextCode, outcome |-> outcome] ELSE None
           due == worker.due
           staged == worker.staged
           after == [j \in DOMAIN staged \cup {i} |-> IF j = i THEN attempt ELSE staged[j]]
           new == [busy |-> TRUE, due |-> due \ {i}, staged |-> after]
<1>1. /\ i \in due /\ worker' = new
      /\ IF known THEN Post(i, challenges[i].contact, challenges[i].purpose)
         ELSE UNCHANGED <<posted, posts>>
      /\ contacts' = contacts /\ handling' = handling /\ challenges' = challenges
      /\ clock' = clock /\ nextContact' = nextContact /\ nextChallenge' = nextChallenge
      /\ lost' = lost
  BY DEF RetryDelivery, counters
<1>2. /\ new.busy = TRUE /\ new.due = due \ {i} /\ new.staged = after
      /\ DOMAIN after = DOMAIN staged \cup {i}
      /\ after[i] = attempt /\ \A j \in DOMAIN staged : j # i => after[j] = staged[j]
  OBVIOUS
<1>3. known => attempt.code = NextCode /\ attempt.outcome = outcome
  OBVIOUS
<1> HIDE DEF attempt, after, new
<1>4. /\ worker'.busy = TRUE /\ worker'.due = due \ {i} /\ worker'.staged = after
  BY <1>1, <1>2
<1>5. /\ Batch = due \cup DOMAIN staged /\ Batch' = Batch
      /\ Staged = DOMAIN staged /\ Staged' = DOMAIN staged \cup {i}
      /\ due \cap DOMAIN staged = {} /\ i \notin DOMAIN staged /\ i \in Batch
  BY <1>1, <1>2, <1>4 DEF Batch, Staged, ContactInv, WorkerOK
<1>6. /\ Grows /\ Len(posted') \in Nat /\ PostedOK'
      /\ known => /\ NextCode \in 1..Len(posted')
                  /\ posted'[NextCode].contact = challenges[i].contact
                  /\ posted'[NextCode].purpose = challenges[i].purpose
      /\ posts' = IF known THEN [posts EXCEPT ![i] = posts[i] + 1] ELSE posts
  <2>1. CASE known
    <3>1. challenges[i].contact \in 1..MaxContacts /\ challenges[i].purpose \in Purpose
      BY <2>1 DEF ContactInv, ChallengesOK, Challenge
    <3> QED
      BY <2>1, <3>1, <1>1, PostedCode
  <2>2. CASE ~known
    BY <2>2, <1>1 DEF Grows, ContactInv, PostedOK
  <2> QED
    BY <2>1, <2>2
<1>7. CountersOK' /\ ContactsOK'
  BY <1>1, <1>6, ContactsStay DEF ContactInv, CountersOK
<1>8. ChallengesOK'
  BY <1>1, <1>6 DEF ContactInv, ChallengesOK, Backed, IsCodeFor, Grows, PostedOK
<1>9. HandlingOK'
  <2>1. \A h \in Handler : PendingCode(h) =>
           /\ handling[h].challenge \notin DOMAIN challenges'
           /\ handling[h].challenge \notin Batch'
           /\ posts'[handling[h].challenge] = posts[handling[h].challenge]
    <3> SUFFICES ASSUME NEW h \in Handler, PendingCode(h)
                 PROVE  /\ handling[h].challenge \notin DOMAIN challenges'
                        /\ handling[h].challenge \notin Batch'
                        /\ posts'[handling[h].challenge] = posts[handling[h].challenge]
      OBVIOUS
    <3>1. CodeOK(h)
      BY DEF ContactInv, HandlingOK
    <3>2. handling[h].challenge \in 1..MaxChallenges /\ handling[h].challenge # i
      BY <3>1, <1>5 DEF CodeOK
    <3> QED
      BY <3>1, <3>2, <1>1, <1>5, <1>6 DEF CodeOK, ContactInv, CountersOK
  <2>2. nextChallenge' \in Nat /\ nextChallenge <= nextChallenge'
    BY <1>1, ContactAssumption DEF ContactInv, CountersOK
  <2> QED
    BY <2>1, <2>2, <1>1, <1>6, HandlingKept
<1>10. WorkerOK'
  <2>1. \A j \in Batch' : j \in Nat /\ j < nextChallenge'
    BY <1>1, <1>5 DEF ContactInv, WorkerOK
  <2>2. \A j \in Batch' : j \in DOMAIN challenges' => challenges'[j].deliveries < MaxDeliveries
    BY <1>1, <1>5 DEF ContactInv, WorkerOK
  <2>3. ASSUME NEW j \in DOMAIN after, j \in DOMAIN challenges
        PROVE  /\ after[j].outcome \in Outcome
               /\ after[j].code \in 1..Len(posted')
               /\ posted'[after[j].code].contact = challenges[j].contact
               /\ posted'[after[j].code].purpose = challenges[j].purpose
    <3>1. CASE j = i
      BY <3>1, <2>3, <1>2, <1>3, <1>6
    <3>2. CASE j # i
      <4>1. j \in DOMAIN staged /\ after[j] = staged[j]
        BY <3>2, <1>2
      <4>2. staged[j].outcome \in Outcome
            /\ IsCodeFor(staged[j].code, challenges[j].contact, challenges[j].purpose)
        BY <4>1, <2>3 DEF ContactInv, WorkerOK
      <4> QED
        BY <4>1, <4>2, <1>6 DEF IsCodeFor, Grows, ContactInv, PostedOK
    <3> QED
      BY <3>1, <3>2
  <2>4. worker'.due \cap DOMAIN worker'.staged = {}
    BY <1>2, <1>4, <1>5
  <2> QED
    BY <2>1, <2>2, <2>3, <2>4, <1>1, <1>4 DEF WorkerOK, IsCodeFor
<1>11. PostsOK'
  <2>1. MaxDeliveries \in Nat /\ lost \in Nat /\ posts \in [1..MaxChallenges -> Nat]
    BY ContactAssumption DEF ContactInv, CountersOK
  <2>2. ASSUME NEW j \in 1..MaxChallenges, j # i
        PROVE  posts'[j] = posts[j] /\ (j \in Staged' <=> j \in Staged)
    BY <2>1, <2>2, <1>5, <1>6
  <2>3. CASE known
    <3>1. posts'[i] = posts[i] + 1
      BY <2>3, <2>1, <1>6
    <3>2. challenges[i].deliveries \in Nat /\ challenges[i].deliveries < MaxDeliveries
      BY <2>3, <1>5, ContactAssumption DEF ContactInv, ChallengesOK, Challenge, WorkerOK
    <3>3. posts[i] <= challenges[i].deliveries + lost
      BY <2>3, <1>5, <2>1, <3>2 DEF ContactInv, PostsOK
    <3>4. i < nextChallenge
      BY <2>3 DEF ContactInv, ChallengesOK
    <3>5. /\ posts'[i] <= MaxDeliveries + lost'
          /\ ~(i >= nextChallenge')
          /\ posts'[i] <= challenges'[i].deliveries + lost' + (IF i \in Staged' THEN 1 ELSE 0)
      <4>1. nextChallenge \in Nat /\ nextChallenge' = nextChallenge /\ lost' = lost
            /\ challenges'[i].deliveries = challenges[i].deliveries /\ i \in Nat
        BY <1>1, ContactAssumption DEF ContactInv, CountersOK
      <4>2. i \in Staged'
        BY <1>5
      <4>3. posts[i] \in Nat
        BY <2>1
      <4> HIDE DEF known, due, staged
      <4> QED
        BY <4>1, <4>2, <4>3, <2>1, <3>1, <3>2, <3>3, <3>4
    <3> QED
      BY <1>1, <2>2, <3>5 DEF ContactInv, PostsOK
  <2>4. CASE ~known
    <3>1. posts' = posts
      BY <2>4, <1>6
    <3> QED
      BY <1>1, <2>2, <2>4, <3>1 DEF ContactInv, PostsOK
  <2> QED
    BY <2>3, <2>4
<1> QED
  BY <1>6, <1>7, <1>8, <1>9, <1>10, <1>11 DEF ContactInv

-----------------------------------------------------------------------------
\* The inductive invariant holds of every behaviour.
THEOREM ContactInvariant == ContactSpec => []ContactInv
<1>1. ContactInit => ContactInv
  <2> SUFFICES ASSUME ContactInit PROVE ContactInv
    OBVIOUS
  <2>1. PostedOK /\ CountersOK
    BY ContactAssumption DEF ContactInit, PostedOK, CountersOK
  <2>2. ContactsOK /\ ChallengesOK
    BY DEF ContactInit, ContactsOK, ChallengesOK
  <2>3. HandlingOK
    BY DEF ContactInit, HandlingOK, PendingCode, PendingVerify
  <2>4. WorkerOK /\ Staged = {}
    BY DEF ContactInit, WorkerOK, Idle, Batch, Staged
  <2>5. PostsOK
    BY ContactAssumption DEF ContactInit, PostsOK
  <2> QED
    BY <2>1, <2>2, <2>3, <2>4, <2>5 DEF ContactInv
<1>2. ContactInv /\ [ContactNext]_contactVars => ContactInv'
  <2> SUFFICES ASSUME ContactInv, [ContactNext]_contactVars PROVE ContactInv'
    OBVIOUS
  <2>1. CASE UNCHANGED contactVars \/ ConfirmPasswordReset
    BY <2>1, StutterPreserves DEF ConfirmPasswordReset
  <2>2. CASE \E primary \in BOOLEAN : AddContact(primary)
    BY <2>2, AddContactPreserves
  <2>3. CASE \E c \in 1..MaxContacts : DeleteContact(c)
    BY <2>3, DeleteContactPreserves
  <2>4. CASE \E h \in Handler, c \in 1..MaxContacts :
               \E purpose \in Purpose, outcome \in Outcome : RequestCode(h, c, purpose, outcome)
    BY <2>4, RequestCodePreserves
  <2>5. CASE \E h \in Handler, c \in 1..MaxContacts :
               \E code \in 0..Len(posted) : StartVerify(h, c, code)
    BY <2>5, StartVerifyPreserves
  <2>6. CASE \E h \in Handler : CommitCode(h) \/ FinishVerify(h)
    BY <2>6, CommitCodePreserves, FinishVerifyPreserves
  <2>11. CASE \E h \in Handler : \/ \E c \in 1..MaxContacts : StartPrimary(h, c)
                                \/ FinishPrimary(h)
    BY <2>11, ChoosePrimary
  <2>7. CASE WakeWorker \/ CommitDeliveries \/ CrashWorker
    BY <2>7, WakeWorkerPreserves, CommitDeliveriesPreserves, CrashWorkerPreserves
  <2>8. CASE \E i \in 1..MaxChallenges, outcome \in Outcome : RetryDelivery(i, outcome)
    BY <2>8, RetryDeliveryPreserves
  <2>9. CASE \E i \in 1..MaxChallenges, status \in Outcome \cup {"delivered"} :
               Receipt(i, status)
    BY <2>9, ReceiptPreserves
  <2>10. CASE Minute
    BY <2>10, MinutePreserves
  <2> QED
    BY <2>1, <2>2, <2>3, <2>4, <2>5, <2>6, <2>7, <2>8, <2>9, <2>10, <2>11 DEF ContactNext
<1> QED
  BY <1>1, <1>2, PTL DEF ContactSpec

\* Contacts and challenges keep their types (apps/api/routes/account.py).
THEOREM ContactsTypeCorrect == ContactSpec => []ContactTypeOK
<1>1. ContactInv => ContactTypeOK
  BY DEF ContactInv, ContactsOK, ChallengesOK, ContactTypeOK
<1> QED
  BY <1>1, ContactInvariant, PTL

\* A contact is verified only by a code posted to it for that, whatever the worker, a
\* deletion and other requests do between the message and the attempt.
THEOREM VerifiedOnlyByOwnCode == ContactSpec => []VerifiedByOwnCode
<1>1. ContactInv => VerifiedByOwnCode
  <2> SUFFICES ASSUME ContactInv, NEW c \in DOMAIN contacts, contacts[c].verified
               PROVE  /\ contacts[c].proof \in 1..Len(posted)
                      /\ posted[contacts[c].proof] = [contact |-> c,
                                                      purpose |-> "contact_verification"]
    BY DEF VerifiedByOwnCode
  <2>1. IsCodeFor(contacts[c].proof, c, "contact_verification")
    BY DEF ContactInv, ContactsOK
  <2>2. posted[contacts[c].proof] \in Posted
    BY <2>1 DEF IsCodeFor, ContactInv, PostedOK
  <2> QED
    BY <2>1, <2>2 DEF IsCodeFor, Posted
<1> QED
  BY <1>1, ContactInvariant, PTL

\* The provider is called a bounded number of times for a challenge, whatever crashes,
\* lost commits and receipts there are.
THEOREM ChallengesPostedBounded == ContactSpec => []PostsBounded
<1>1. ContactInv => PostsBounded
  BY DEF ContactInv, PostsOK, PostsBounded
<1> QED
  BY <1>1, ContactInvariant, PTL

=============================================================================
