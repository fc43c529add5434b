------------------------------ MODULE Sessions ------------------------------
(***************************************************************************)
(* Accounts, their login tokens and sessions (apps/api/routes/auth.py).    *)
(*                                                                         *)
(* A token is accepted because users.token holds it, the older scheme, or  *)
(* because an active row of user_sessions does.  Every handler loads the   *)
(* user first and commits later, and no row is locked: two requests of one *)
(* account may interleave, and the one that commits last wins.             *)
(***************************************************************************)
EXTENDS Integers, Sequences, FiniteSets, NoValue

CONSTANTS
    User,          \* user names
    Password,      \* passwords that pass _validate_password
    Request,       \* slots for requests in flight
    HistoryDepth,  \* how many earlier passwords may not be used again
    MaxTokens      \* bound on the tokens ever issued

ASSUME SessionAssumption ==
    /\ HistoryDepth \in Nat /\ MaxTokens \in Nat
    /\ None \notin User \cup 1..MaxTokens

VARIABLES
    users,         \* the registered users: users.token, the password and the earlier ones
    sessions,      \* user_sessions by token
    links,         \* user_account_links: pairs <<owner, linked>>
    request,       \* request[r]: what the request in slot r has loaded, or None
    alive,         \* history: tokens nobody has ended yet
    ended          \* history: tokens ended by a logout or by a change of password

sessionVars == <<users, sessions, links, request, alive, ended>>

Token == 1..MaxTokens
Account == [token : Token \cup {None}, password : Password, earlier : Seq(Password)]
Session == [user : User, revoked : BOOLEAN, expired : BOOLEAN]

SessionInit ==
    /\ users = <<>> /\ sessions = <<>> /\ links = {}
    /\ request = [r \in Request |-> None]
    /\ alive = {} /\ ended = {}

Active(t) == t \in DOMAIN sessions /\ ~sessions[t].revoked /\ ~sessions[t].expired
SessionsOf(u) == {t \in DOMAIN sessions : sessions[t].user = u}
TokenOwners(t) == {u \in DOMAIN users : users[u].token = t}

\* get_current_user: the token column first, without a look at the session's row.
Accepted(t) == TokenOwners(t) # {} \/ Active(t)
Caller(t) == IF TokenOwners(t) # {} THEN CHOOSE u \in TokenOwners(t) : TRUE
             ELSE sessions[t].user

NextToken == Cardinality(DOMAIN sessions) + 1
NewSession(u) == [user |-> u, revoked |-> FALSE, expired |-> FALSE]
AsRevoked(s) == [user |-> s.user, revoked |-> TRUE, expired |-> s.expired]
AsExpired(s) == [user |-> s.user, revoked |-> s.revoked, expired |-> TRUE]
WithToken(account, t) ==
    [token |-> t, password |-> account.password, earlier |-> account.earlier]

\* A fresh token for u: the column, and a session of its own.
Issue(u, account) ==
    /\ NextToken \in Token
    /\ users' = [n \in DOMAIN users \cup {u} |-> IF n = u THEN account ELSE users[n]]
    /\ sessions' = [t \in DOMAIN sessions \cup {NextToken} |->
                        IF t = NextToken THEN NewSession(u) ELSE sessions[t]]
    /\ alive' = alive \cup {NextToken}

Load(r, loaded) == request[r] = None /\ request' = [request EXCEPT ![r] = loaded]
Loaded(r, op) == request[r] # None /\ request[r].op = op
Answer(r) == request' = [request EXCEPT ![r] = None]

-----------------------------------------------------------------------------
\* The unique user name makes the check and the insert one step.
Register(u, p) ==
    /\ u \notin DOMAIN users
    /\ Issue(u, [token |-> NextToken, password |-> p, earlier |-> <<>>])
    /\ UNCHANGED <<links, request, ended>>

\* The password is compared with the row as it is loaded.
StartLogin(r, u) ==
    /\ u \in DOMAIN users
    /\ Load(r, [op |-> "login", user |-> u])
    /\ UNCHANGED <<users, sessions, links, alive, ended>>

FinishLogin(r) ==
    /\ Loaded(r, "login")
    /\ LET u == request[r].user IN Issue(u, WithToken(users[u], NextToken))
    /\ Answer(r)
    /\ UNCHANGED <<links, ended>>

StartLogout(r, t) ==
    /\ Accepted(t)
    /\ Load(r, [op |-> "logout", user |-> Caller(t), token |-> t, column |-> users[Caller(t)].token])
    /\ UNCHANGED <<users, sessions, links, alive, ended>>

FinishLogout_KeepColumn(r) ==
    /\ Loaded(r, "logout")
    /\ sessions' = [sessions EXCEPT ![request[r].token] = AsRevoked(@)]
    /\ alive' = alive \ {request[r].token} /\ ended' = ended \cup {request[r].token}
    /\ Answer(r)
    /\ UNCHANGED <<users, links>>

\* The column is cleared if it held the caller's token when it was loaded, whatever a
\* login has written there since.
FinishLogout(r) ==
    /\ Loaded(r, "logout")
    /\ LET t == request[r].token IN
       /\ sessions' = [sessions EXCEPT ![t] = AsRevoked(@)]
       /\ users' = IF request[r].column = t
                   THEN [users EXCEPT ![request[r].user] = WithToken(@, None)] ELSE users
       /\ alive' = alive \ {t} /\ ended' = ended \cup {t}
    /\ Answer(r)
    /\ UNCHANGED links

\* One session is revoked by its owner; the column may still hold its token.
RevokeSession(t, s) ==
    /\ Accepted(t) /\ s \in SessionsOf(Caller(t))
    /\ sessions' = [sessions EXCEPT ![s] = AsRevoked(@)]
    /\ alive' = alive \ {s}
    /\ UNCHANGED <<users, links, request, ended>>

\* The caller's old password is right, and the new one is none of the recent ones.
StartChangePassword(r, t, p) ==
    /\ Accepted(t)
    /\ LET account == users[Caller(t)]
           first == IF Len(account.earlier) > HistoryDepth
                    THEN Len(account.earlier) - HistoryDepth + 1 ELSE 1
       IN /\ p # account.password
          /\ \A i \in first..Len(account.earlier) : account.earlier[i] # p
          /\ Load(r, [op |-> "change", user |-> Caller(t), old |-> account.password, new |-> p,
                      revokes |-> {s \in SessionsOf(Caller(t)) : ~sessions[s].revoked},
                      before |-> SessionsOf(Caller(t))])
    /\ UNCHANGED <<users, sessions, links, alive, ended>>

Revoked_Everyone(r) == {s \in DOMAIN sessions : ~sessions[s].revoked}

\* _revoke_user_sessions: the sessions its query returned.
Revoked(r) == request[r].revokes

FinishChangePassword(r) ==
    /\ Loaded(r, "change") /\ NextToken \in Token
    /\ LET u == request[r].user IN
       /\ users' = [users EXCEPT ![u] = [token |-> NextToken, password |-> request[r].new,
                                         earlier |-> Append(users[u].earlier, request[r].old)]]
       /\ sessions' = [t \in DOMAIN sessions \cup {NextToken} |->
                          IF t = NextToken THEN NewSession(u)
                          ELSE IF t \in Revoked(r) THEN AsRevoked(sessions[t]) ELSE sessions[t]]
    /\ alive' = (alive \ request[r].before) \cup {NextToken}
    /\ ended' = ended \cup request[r].before
    /\ Answer(r)
    /\ UNCHANGED links

\* The other account's password is right; the first of two reads for existing rows.
StartLink(r, t, v) ==
    /\ Accepted(t) /\ v \in DOMAIN users \ {Caller(t)}
    /\ Load(r, [op |-> "link", user |-> Caller(t), other |-> v,
                inserts |-> <<Caller(t), v>> \notin links])
    /\ UNCHANGED <<users, sessions, links, alive, ended>>

\* The second read, for the way back, and the commit; the unique pair makes it fail whole.
FinishLink(r) ==
    /\ Loaded(r, "link")
    /\ LET there == <<request[r].user, request[r].other>>
           back == <<request[r].other, request[r].user>>
       IN links' = CASE request[r].inserts /\ there \in links -> links
                     [] request[r].inserts /\ there \notin links -> links \cup {there, back}
                     [] OTHER -> links \cup {back}
    /\ Answer(r)
    /\ UNCHANGED <<users, sessions, alive, ended>>

Unlink(t, v) ==
    /\ Accepted(t) /\ <<Caller(t), v>> \in links
    /\ links' = links \ {<<Caller(t), v>>, <<v, Caller(t)>>}
    /\ UNCHANGED <<users, sessions, request, alive, ended>>

StartSwitch(r, t, v) ==
    /\ Accepted(t) /\ <<Caller(t), v>> \in links
    /\ Load(r, [op |-> "switch", user |-> v])
    /\ UNCHANGED <<users, sessions, links, alive, ended>>

FinishSwitch(r) ==
    /\ Loaded(r, "switch")
    /\ LET v == request[r].user IN Issue(v, WithToken(users[v], NextToken))
    /\ Answer(r)
    /\ UNCHANGED <<links, ended>>

\* Thirty days pass for one session.
Expire(s) ==
    /\ Active(s)
    /\ sessions' = [sessions EXCEPT ![s] = AsExpired(@)]
    /\ alive' = alive \ {s}
    /\ UNCHANGED <<users, links, request, ended>>

SessionNext ==
    \/ \E u \in User, p \in Password : Register(u, p)
    \/ \E t \in Token, s \in Token : RevokeSession(t, s)
    \/ \E t \in Token, v \in User : Unlink(t, v)
    \/ \E s \in Token : Expire(s)
    \/ \E r \in Request :
          \/ \E u \in User : StartLogin(r, u)
          \/ \E t \in Token : StartLogout(r, t)
          \/ \E t \in Token, p \in Password : StartChangePassword(r, t, p)
          \/ \E t \in Token, v \in User : StartLink(r, t, v)
          \/ \E t \in Token, v \in User : StartSwitch(r, t, v)
          \/ FinishLogin(r) \/ FinishLogout(r) \/ FinishChangePassword(r)
          \/ FinishLink(r) \/ FinishSwitch(r)

SessionSpec == SessionInit /\ [][SessionNext]_sessionVars

-----------------------------------------------------------------------------
SessionTypeOK ==
    /\ DOMAIN users \subseteq User /\ \A u \in DOMAIN users : users[u] \in Account
    /\ DOMAIN sessions \subseteq Token /\ \A t \in DOMAIN sessions : sessions[t] \in Session
    /\ links \subseteq User \X User
    /\ alive \subseteq DOMAIN sessions /\ ended \subseteq DOMAIN sessions

\* A token that was logged out, or that was issued before a change of password read the
\* sessions, is never accepted again, whatever logins and switches were in flight
\* (logout, change_password, get_current_user).
EndedStaysEnded == \A t \in ended : ~Accepted(t)

\* A token nobody ended is accepted: neither another login, another user's change of
\* password nor a logout that clears the token column takes it away (get_current_user).
LiveStaysLive == \A t \in alive : Accepted(t)

=============================================================================
