------------------------------ MODULE Contacts ------------------------------
(***************************************************************************)
(* The contacts of one user, of one type, and the codes that verify them   *)
(* (apps/api/routes/account.py): requests for a code, the worker that      *)
(* delivers again what was not sent, the provider's receipts, the attempts *)
(* to verify.                                                              *)
(*                                                                         *)
(* A code is posted to the provider inside the transaction that stores it, *)
(* so a commit that fails, or a worker that crashes, leaves a message the  *)
(* database knows nothing of.  The worker commits once, after the whole    *)
(* batch.  The clock counts minutes.                                       *)
(***************************************************************************)
EXTENDS Integers, Sequences, FiniteSets, NoValue

CONSTANTS
    Handler,       \* slots for requests in flight
    Cooldown, Lifetime,          \* minutes between two requests, minutes a code is valid
    MaxDeliveries, MaxTries,     \* posts of one challenge, attempts to enter its code
    MaxContacts, MaxChallenges, MaxCodes, MaxClock, MaxLost, MaxRequests   \* bounds

ASSUME ContactAssumption ==
    /\ \A n \in {Cooldown, Lifetime, MaxDeliveries, MaxTries, MaxContacts, MaxChallenges,
                 MaxCodes, MaxClock, MaxLost, MaxRequests} : n \in Nat
    /\ MaxDeliveries > 0 /\ MaxTries > 0

VARIABLES
    contacts,      \* user_contacts by id, in the order of their creation
    challenges,    \* verification_challenges by id, in the order of their creation
    handling,      \* handling[h]: what the request in slot h is about to commit, or None
    worker,        \* the worker's batch: what is left, and what it will commit
    clock,
    nextContact, nextChallenge,
    requests,      \* how many requests and receipts came in
    posted,        \* history: by code, the contact and the purpose it was posted for
    posts,         \* history: how often each challenge was posted
    lost           \* history: batches of the worker that were never committed

contactVars == <<contacts, challenges, handling, worker, clock, nextContact, nextChallenge,
                 requests, posted, posts, lost>>

Purpose == {"contact_verification", "password_reset"}
Outcome == {"sent", "failed"}
\* proof, a history: the code that verified the contact.
Contact == [verified : BOOLEAN, primary : BOOLEAN, proof : 0..MaxCodes]
\* message is the provider's id of the last post that was accepted; 0 is none.
Challenge == [contact : 1..MaxContacts, purpose : Purpose, code : 1..MaxCodes,
              consumed : BOOLEAN, tries : 0..MaxTries, status : Outcome \cup {"delivered"},
              deliveries : 0..MaxDeliveries, message : 0..MaxCodes,
              created : 0..MaxClock, updated : 0..MaxClock]

Idle == [busy |-> FALSE, due |-> {}, staged |-> <<>>]

ContactInit ==
    /\ contacts = <<>> /\ challenges = <<>>
    /\ handling = [h \in Handler |-> None] /\ worker = Idle /\ clock = 0
    /\ nextContact = 1 /\ nextChallenge = 1 /\ requests = 0
    /\ posted = <<>> /\ posts = [i \in 1..MaxChallenges |-> 0] /\ lost = 0

counters == <<nextContact, nextChallenge>>
history == <<posted, posts, lost>>

Incoming == requests < MaxRequests /\ requests' = requests + 1

VerifiedPrimaries == {c \in DOMAIN contacts : contacts[c].verified /\ contacts[c].primary}
ChallengesOf(c, purpose) ==
    {i \in DOMAIN challenges : challenges[i].contact = c /\ challenges[i].purpose = purpose}
Latest(ids) == CHOOSE i \in ids : \A j \in ids : j <= i

\* One POST to the provider: a new code, accepted or not.
NextCode == Len(posted) + 1
Post(i, c, purpose) ==
    /\ NextCode <= MaxCodes
    /\ posted' = Append(posted, [contact |-> c, purpose |-> purpose])
    /\ posts' = [posts EXCEPT ![i] = @ + 1]

-----------------------------------------------------------------------------
(* The contacts. *)

AddContact(primary) ==
    /\ Incoming
    /\ nextContact <= MaxContacts
    /\ contacts' = [c \in DOMAIN contacts \cup {nextContact} |->
                       IF c = nextContact
                       THEN [verified |-> FALSE, primary |-> primary, proof |-> 0]
                       ELSE contacts[c]]
    /\ nextContact' = nextContact + 1
    /\ UNCHANGED <<challenges, handling, worker, clock, nextChallenge, history>>

\* set_primary_contact, and upsert_contact with the value of a verified contact: the rows are
\* read, and written at the end.
StartPrimary(h, c) ==
    /\ Incoming
    /\ handling[h] = None /\ c \in DOMAIN contacts /\ contacts[c].verified
    /\ handling' = [handling EXCEPT ![h] =
          [op |-> "primary", contact |-> c, promotes |-> ~contacts[c].primary,
           demotes |-> {d \in DOMAIN contacts \ {c} : contacts[d].primary}]]
    /\ UNCHANGED <<contacts, challenges, worker, clock, counters, history>>

\* Only changed columns are written.
PrimaryAfter(it, d) ==
    \/ d = it.contact /\ it.promotes
    \/ contacts[d].primary /\ d \notin it.demotes

\* A row that is gone fails the commit.
FinishPrimary(h) ==
    /\ handling[h] # None /\ handling[h].op = "primary"
    /\ LET it == handling[h] IN
       contacts' = IF it.demotes \subseteq DOMAIN contacts
                   THEN [d \in DOMAIN contacts |->
                            [contacts[d] EXCEPT !.primary = PrimaryAfter(it, d)]]
                   ELSE contacts
    /\ handling' = [handling EXCEPT ![h] = None]
    /\ UNCHANGED <<requests, challenges, worker, clock, counters, history>>

\* The row's challenges go with it.  A request that has stored one holds the row (one
\* that verifies it or makes it primary, and finds it gone, fails and writes nothing).  When
\* the primary contact goes, the oldest verified one takes its place.
DeleteContact(c) ==
    /\ Incoming
    /\ c \in DOMAIN contacts
    /\ \A h \in Handler : handling[h] # None => handling[h].contact # c
    /\ LET left == DOMAIN contacts \ {c}
           verified == {d \in left : contacts[d].verified}
           promoted == {d \in verified : contacts[c].primary /\ \A e \in verified : d <= e}
       IN contacts' = [d \in left |-> [contacts[d] EXCEPT !.primary = @ \/ d \in promoted]]
    /\ challenges' = [i \in {j \in DOMAIN challenges : challenges[j].contact # c} |-> challenges[i]]
    /\ UNCHANGED <<handling, worker, clock, counters, history>>

-----------------------------------------------------------------------------
(* Asking for a code: the checks, the insert and the POST, then the commit. *)

\* Two verified primaries make the lookup of the password reset raise.
MayReceive(c, purpose) ==
    IF purpose = "password_reset" THEN VerifiedPrimaries = {c} ELSE ~contacts[c].verified

RequestCode(h, c, purpose, outcome) ==
    /\ Incoming
    /\ handling[h] = None /\ c \in DOMAIN contacts /\ MayReceive(c, purpose)
    /\ nextChallenge <= MaxChallenges
    /\ LET earlier == ChallengesOf(c, purpose) IN
       /\ earlier # {} => clock - challenges[Latest(earlier)].created >= Cooldown
       /\ handling' = [handling EXCEPT ![h] =
             [op |-> "code", contact |-> c, challenge |-> nextChallenge,
              supersedes |-> {i \in earlier : ~challenges[i].consumed},
              row |-> [contact |-> c, purpose |-> purpose, code |-> NextCode,
                       consumed |-> FALSE, tries |-> 0, status |-> outcome, deliveries |-> 1,
                       message |-> IF outcome = "sent" THEN NextCode ELSE 0,
                       created |-> clock, updated |-> clock]]]
    /\ Post(nextChallenge, c, purpose)
    /\ nextChallenge' = nextChallenge + 1
    /\ UNCHANGED <<contacts, challenges, worker, clock, nextContact, lost>>

Superseded(row) == [row EXCEPT !.consumed = TRUE]

CommitCode(h) ==
    /\ handling[h] # None /\ handling[h].op = "code"
    /\ LET it == handling[h] IN
       challenges' = [i \in DOMAIN challenges \cup {it.challenge} |->
                         IF i = it.challenge THEN it.row
                         ELSE IF i \in it.supersedes THEN Superseded(challenges[i])
                         ELSE challenges[i]]
    /\ handling' = [handling EXCEPT ![h] = None]
    /\ UNCHANGED <<requests, contacts, worker, clock, counters, history>>

-----------------------------------------------------------------------------
(* Entering a code: the rows are read, and written at the end. *)

\* _verify_challenge_code: what becomes of the row, and whether the code was right; an
\* attempt at a code that is no longer valid is not counted.
Checked(row, code) ==
    IF row.consumed \/ clock >= row.created + Lifetime \/ row.tries >= MaxTries
    THEN [ok |-> FALSE, consumed |-> TRUE, tries |-> None]
    ELSE [ok |-> row.code = code, tries |-> row.tries + 1,
          consumed |-> row.code = code \/ row.tries + 1 >= MaxTries]

ToVerify_AnyContact(c) ==
    {i \in DOMAIN challenges : challenges[i].purpose = "contact_verification"}

ToVerify(c) == ChallengesOf(c, "contact_verification")

\* The user enters a code that was posted, or guesses (0).  More than one other verified
\* primary makes the lookup raise.
StartVerify(h, c, code) ==
    /\ Incoming
    /\ handling[h] = None /\ c \in DOMAIN contacts /\ ~contacts[c].verified
    /\ \E i \in ToVerify(c) :
          LET result == Checked(challenges[i], code) IN
          /\ \A j \in ToVerify(c) : j <= i
          /\ result.ok /\ ~contacts[c].primary => Cardinality(VerifiedPrimaries) <= 1
          /\ handling' = [handling EXCEPT ![h] =
                [op |-> "verify", contact |-> c, challenge |-> i, result |-> result, code |-> code,
                 promotes |-> result.ok /\ VerifiedPrimaries = {}]]
    /\ UNCHANGED <<contacts, challenges, worker, clock, counters, history>>

\* What the attempt leaves of the row: an attempt that was not counted keeps the tries.
Attempted(row, result) ==
    [row EXCEPT !.consumed = IF result.consumed THEN TRUE ELSE @,
                !.tries = IF result.tries = None THEN @ ELSE result.tries,
                !.updated = clock]

FinishVerify(h) ==
    /\ handling[h] # None /\ handling[h].op = "verify"
    /\ LET it == handling[h] IN
       /\ challenges' = [challenges EXCEPT ![it.challenge] = Attempted(@, it.result)]
       /\ contacts' = IF it.result.ok
                      THEN [contacts EXCEPT ![it.contact] =
                               [verified |-> TRUE, primary |-> @.primary \/ it.promotes,
                                proof |-> it.code]]
                      ELSE contacts
    /\ handling' = [handling EXCEPT ![h] = None]
    /\ UNCHANGED <<requests, worker, clock, counters, history>>

\* confirm_password_reset stops at its first line, at a name account.py does not import:
\* it reads nothing and writes nothing.
ConfirmPasswordReset == UNCHANGED contactVars

-----------------------------------------------------------------------------
(* The delivery worker: one query, a POST for each row, one commit. *)

RetryAllowed(row) ==
    /\ row.deliveries < MaxDeliveries
    /\ clock - row.updated >= 2 ^ (IF row.deliveries = 0 THEN 0 ELSE row.deliveries - 1)

Due == {i \in DOMAIN challenges :
            /\ ~challenges[i].consumed /\ challenges[i].created + Lifetime > clock
            /\ challenges[i].status = "failed" /\ RetryAllowed(challenges[i])}

WakeWorker ==
    /\ ~worker.busy /\ Due # {}
    /\ worker' = [busy |-> TRUE, due |-> Due, staged |-> <<>>]
    /\ UNCHANGED <<requests, contacts, challenges, handling, clock, counters, history>>

\* The next row, in the order of creation.  Its contact is looked up now; when it is gone, and
\* the row with it, the challenge is given up.
RetryDelivery(i, outcome) ==
    /\ worker.busy /\ i \in worker.due /\ \A j \in worker.due : i <= j
    /\ LET known == i \in DOMAIN challenges
           attempt == IF known THEN [code |-> NextCode, outcome |-> outcome] ELSE None
       IN /\ IF known THEN Post(i, challenges[i].contact, challenges[i].purpose)
             ELSE outcome = "failed" /\ UNCHANGED <<posted, posts>>
          /\ worker' = [busy |-> TRUE, due |-> worker.due \ {i},
                        staged |-> [j \in DOMAIN worker.staged \cup {i} |->
                                       IF j = i THEN attempt ELSE worker.staged[j]]]
    /\ UNCHANGED <<requests, contacts, challenges, handling, clock, counters, lost>>

Attempts_OnSuccess(row, attempt) == row.deliveries + (IF attempt.outcome = "sent" THEN 1 ELSE 0)

\* Every POST counts, the one that fails too.
Attempts(row, attempt) == row.deliveries + 1

\* Only changed columns are written: a receipt that came meanwhile keeps its status when
\* the attempt fails as the last one did.
Delivered(row, attempt) ==
    IF attempt.outcome = "sent"
    THEN [row EXCEPT !.code = attempt.code, !.message = attempt.code, !.status = "sent",
                     !.deliveries = Attempts(row, attempt), !.updated = clock]
    ELSE [row EXCEPT !.code = attempt.code, !.deliveries = Attempts(row, attempt),
                     !.updated = clock]

\* One commit for the batch; a row that is gone fails it whole.
CommitDeliveries ==
    /\ worker.busy /\ worker.due = {}
    /\ IF DOMAIN worker.staged \subseteq DOMAIN challenges
       THEN /\ challenges' = [i \in DOMAIN challenges |->
                                 IF i \in DOMAIN worker.staged
                                 THEN Delivered(challenges[i], worker.staged[i])
                                 ELSE challenges[i]]
            /\ UNCHANGED lost
       ELSE lost' = lost + 1 /\ UNCHANGED challenges
    /\ worker' = Idle
    /\ UNCHANGED <<requests, contacts, handling, clock, counters, posted, posts>>

CrashWorker ==
    /\ worker.busy /\ lost < MaxLost
    /\ worker' = Idle /\ lost' = lost + 1
    /\ UNCHANGED <<requests, contacts, challenges, handling, clock, counters, posted, posts>>

Received(row, status) == [row EXCEPT !.status = status, !.updated = clock]

\* A receipt of the provider, in any order and any number of times; it finds the
\* challenge only by the id of its last accepted message.
Receipt(i, status) ==
    /\ Incoming
    /\ i \in DOMAIN challenges /\ challenges[i].message # 0
    /\ challenges' = [challenges EXCEPT ![i] = Received(@, status)]
    /\ UNCHANGED <<contacts, handling, worker, clock, counters, history>>

Minute ==
    /\ clock < MaxClock
    /\ clock' = clock + 1
    /\ UNCHANGED <<requests, contacts, challenges, handling, worker, counters, history>>

ContactNext ==
    \/ \E primary \in BOOLEAN : AddContact(primary)
    \/ \E c \in 1..MaxContacts : DeleteContact(c)
    \/ \E h \in Handler, c \in 1..MaxContacts :
          \/ \E purpose \in Purpose, outcome \in Outcome : RequestCode(h, c, purpose, outcome)
          \/ \E code \in 0..Len(posted) : StartVerify(h, c, code)
          \/ StartPrimary(h, c)
    \/ \E h \in Handler : CommitCode(h) \/ FinishVerify(h) \/ FinishPrimary(h)
    \/ ConfirmPasswordReset
    \/ WakeWorker \/ CommitDeliveries \/ CrashWorker
    \/ \E i \in 1..MaxChallenges, outcome \in Outcome : RetryDelivery(i, outcome)
    \/ \E i \in 1..MaxChallenges, status \in Outcome \cup {"delivered"} : Receipt(i, status)
    \/ Minute

ContactSpec == ContactInit /\ [][ContactNext]_contactVars

-----------------------------------------------------------------------------
ContactTypeOK ==
    /\ DOMAIN contacts \subseteq 1..MaxContacts
    /\ \A c \in DOMAIN contacts : contacts[c] \in Contact
    /\ DOMAIN challenges \subseteq 1..MaxChallenges
    /\ \A i \in DOMAIN challenges : challenges[i] \in Challenge

\* A contact is verified only by a code that was posted to this very contact to verify
\* it: a code replaced by the worker, posted for a password reset or sent to another
\* contact does not do (request_contact_verification_code, verify_contact).
VerifiedByOwnCode ==
    \A c \in DOMAIN contacts : contacts[c].verified =>
        /\ contacts[c].proof \in 1..Len(posted)
        /\ posted[contacts[c].proof] = [contact |-> c, purpose |-> "contact_verification"]

\* The provider is called for one challenge at most MaxDeliveries times, and once more
\* for every batch whose commit was lost (retry_pending_verification_delivery).
PostsBounded == \A i \in 1..MaxChallenges : posts[i] <= MaxDeliveries + lost

=============================================================================
