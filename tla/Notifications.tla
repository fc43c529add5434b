--------------------------- MODULE Notifications ---------------------------
(***************************************************************************)
(* The notifications of one user (apps/api/routes/notifications.py): the   *)
(* handlers that enqueue them, the list request, which first makes up for  *)
(* a reminder and delivers what is in the app, the read flag, and the      *)
(* worker (scripts/notification_worker.py), which scans for reminders and  *)
(* then posts external notifications to a provider.                        *)
(*                                                                         *)
(* Time is the minute of the day.  A back-off is what is left of it, so    *)
(* that the model needs no clock without end.                              *)
(***************************************************************************)
EXTENDS Integers, Sequences, FiniteSets, NoValue

CONSTANTS
    Reader,          \* list requests in flight
    MinutesPerDay,   \* the reminder is due in minute 1 of each
    MaxRetries,      \* posts of one notification
    MaxNotices, MaxLost   \* bounds

ASSUME NotificationAssumption ==
    /\ {MinutesPerDay, MaxRetries, MaxNotices, MaxLost} \subseteq Nat
    /\ MinutesPerDay > 1 /\ MaxRetries > 0

VARIABLES
    notices,         \* notifications, in the order of their creation
    minute,          \* of the day
    switch,          \* the user's switch for reminders and for replies
    listing,         \* listing[r]: whether request r will add a reminder, or None
    scan,            \* what the worker's scan for reminders will add, or None
    batch,           \* the worker's posts: whether it makes any, those left, what it will commit
    accepted,        \* history: how often the provider accepted each notification
    unheard,         \* history: how many of those the worker took for failures
    lost             \* history: batches that were never committed

noticeVars == <<notices, minute, switch, listing, scan, batch, accepted, unheard,
                lost>>

Status == {"queued", "sent", "failed", "read"}
\* today: created since midnight.  wait: minutes until it is due.
Notice == [external : BOOLEAN, reminder : BOOLEAN, today : BOOLEAN, status : Status,
           retries : 0..MaxRetries, wait : 0..2 ^ MaxRetries]

NoBatch == [busy |-> FALSE, due |-> {}, staged |-> <<>>]

NoticeInit ==
    /\ notices = <<>> /\ minute = 0 /\ switch = TRUE
    /\ listing = [r \in Reader |-> None] /\ scan = None /\ batch = NoBatch
    /\ accepted = [n \in 1..MaxNotices |-> 0] /\ unheard = [n \in 1..MaxNotices |-> 0]
    /\ lost = 0

\* enqueue_notification: queued, and due at once.
New(external, reminder) ==
    [external |-> external, reminder |-> reminder, today |-> TRUE, status |-> "queued",
     retries |-> 0, wait |-> 0]

\* The bound leaves room for the reminders on their way.
Coming == Cardinality({r \in Reader : listing[r] # None /\ listing[r].adds})
            + (IF scan # None /\ scan.adds THEN 1 ELSE 0)
Room == Len(notices) + Coming < MaxNotices

\* Someone else's handler notifies the user in its own transaction.
Notify(external) ==
    /\ Room
    /\ notices' = Append(notices, New(external, FALSE))
    /\ UNCHANGED <<minute, switch, listing, scan, batch, accepted, unheard, lost>>

\* An administrator replies to the user's feedback: reply and notification, one commit.
AdminReply ==
    /\ switch /\ Room
    /\ notices' = Append(notices, New(FALSE, FALSE))
    /\ UNCHANGED <<minute, switch, listing, scan, batch, accepted, unheard, lost>>

Flip ==
    /\ switch' = ~switch
    /\ UNCHANGED <<notices, minute, listing, scan, batch, accepted, unheard, lost>>

-----------------------------------------------------------------------------
(* The daily reminder. *)

RemindedToday == {n \in DOMAIN notices : notices[n].reminder /\ notices[n].today}

\* Due in this very minute, allowed by the switch, and none was made today.  The list
\* request and the worker both look before they insert, so each may add one.
ReminderDue == switch /\ minute = 1 /\ RemindedToday = {}

StartList(r) ==
    /\ listing[r] = None
    /\ listing' = [listing EXCEPT ![r] = [adds |-> ReminderDue /\ Room]]
    /\ UNCHANGED <<notices, minute, switch, scan, batch, accepted, unheard, lost>>

DeliverInApp(list) ==
    [n \in DOMAIN list |->
        IF ~list[n].external /\ list[n].status = "queued" /\ list[n].wait = 0
        THEN [list[n] EXCEPT !.status = "sent"] ELSE list[n]]

\* The reminder is inserted and everything due in the app is sent, in one commit.
FinishList(r) ==
    /\ listing[r] # None
    /\ notices' = DeliverInApp(IF listing[r].adds THEN Append(notices, New(FALSE, TRUE))
                               ELSE notices)
    /\ listing' = [listing EXCEPT ![r] = None]
    /\ UNCHANGED <<minute, switch, scan, batch, accepted, unheard, lost>>

\* read: the status is overwritten; unread: a read one counts as sent, whatever it was.
StatusAfter(status, read) ==
    CASE read -> "read" [] ~read /\ status = "read" -> "sent" [] OTHER -> status

MarkRead(n, read) ==
    /\ n \in DOMAIN notices
    /\ notices' = [notices EXCEPT ![n].status = StatusAfter(notices[n].status, read)]
    /\ UNCHANGED <<minute, switch, listing, scan, batch, accepted, unheard, lost>>

-----------------------------------------------------------------------------
(* The worker: run_once. *)

StartScan ==
    /\ scan = None /\ ~batch.busy
    /\ scan' = [adds |-> ReminderDue /\ Room]
    /\ UNCHANGED <<notices, minute, switch, listing, batch, accepted, unheard, lost>>

DueExternal_AnyStatus ==
    {n \in DOMAIN notices : notices[n].external /\ notices[n].status \in {"queued", "sent"}
                               /\ notices[n].wait = 0}

DueExternal ==
    {n \in DOMAIN notices : notices[n].external /\ notices[n].status = "queued"
                               /\ notices[n].wait = 0}

\* The scan commits, and the query for external notifications follows.
FinishScan ==
    /\ scan # None
    /\ notices' = IF scan.adds THEN Append(notices, New(FALSE, TRUE)) ELSE notices
    /\ scan' = None
    /\ batch' = [busy |-> TRUE, due |-> DueExternal, staged |-> <<>>]
    /\ UNCHANGED <<minute, switch, listing, accepted, unheard, lost>>

Tried_Uncounted(notice, ok) ==
    IF ok THEN [notice EXCEPT !.status = "sent", !.retries = @ + 1]
    ELSE [notice EXCEPT !.wait = 1]

\* _deliver_external_via_provider: the attempt counts before the outcome is known.
Tried(notice, ok) ==
    CASE ok -> [notice EXCEPT !.status = "sent", !.retries = @ + 1]
      [] ~ok /\ notice.retries + 1 >= MaxRetries ->
            [notice EXCEPT !.status = "failed", !.retries = @ + 1]
      [] OTHER -> [notice EXCEPT !.retries = @ + 1, !.wait = 2 ^ notice.retries]

\* The provider accepts a post and the worker sees its 2xx; or it accepts and the answer is
\* lost, late or an error; or it accepts nothing. The worker takes the last two for a failure.
Outcome == {"accepted", "unheard", "refused"}

Counted(counts, n) == [counts EXCEPT ![n] = @ + 1]

\* The oldest of those left.
Post(n, outcome) ==
    /\ n \in batch.due /\ \A m \in batch.due : n <= m
    /\ batch' = [busy |-> TRUE, due |-> batch.due \ {n},
                 staged |-> [m \in DOMAIN batch.staged \cup {n} |->
                                IF m = n THEN outcome = "accepted" ELSE batch.staged[m]]]
    /\ accepted' = IF outcome = "refused" THEN accepted ELSE Counted(accepted, n)
    /\ unheard' = IF outcome = "unheard" THEN Counted(unheard, n) ELSE unheard
    /\ UNCHANGED <<notices, minute, switch, listing, scan, lost>>

PostNext(outcome) == batch.busy /\ \E n \in batch.due : Post(n, outcome)

\* One commit for the batch.  A status the attempt changed overwrites what the user did
\* meanwhile; one it left alone does not.
FinishBatch ==
    /\ batch.busy /\ batch.due = {}
    /\ notices' = [n \in DOMAIN notices |->
          IF n \in DOMAIN batch.staged THEN Tried(notices[n], batch.staged[n]) ELSE notices[n]]
    /\ batch' = NoBatch
    /\ UNCHANGED <<minute, switch, listing, scan, accepted, unheard, lost>>

\* The worker stops: what it posted is known to the provider only.
CrashWorker ==
    /\ scan # None \/ batch.busy
    /\ lost < MaxLost
    /\ scan' = None /\ batch' = NoBatch /\ lost' = lost + 1
    /\ UNCHANGED <<notices, minute, switch, listing, accepted, unheard>>

Minute ==
    /\ minute' = (minute + 1) % MinutesPerDay
    /\ notices' = [n \in DOMAIN notices |->
          [notices[n] EXCEPT !.wait = IF @ = 0 THEN 0 ELSE @ - 1,
                             !.today = @ /\ minute + 1 < MinutesPerDay]]
    /\ UNCHANGED <<switch, listing, scan, batch, accepted, unheard, lost>>

NoticeNext ==
    \/ \E external \in BOOLEAN : Notify(external)
    \/ AdminReply \/ Flip \/ Minute
    \/ \E r \in Reader : StartList(r) \/ FinishList(r)
    \/ \E n \in 1..MaxNotices, read \in BOOLEAN : MarkRead(n, read)
    \/ StartScan \/ FinishScan \/ FinishBatch \/ CrashWorker
    \/ \E outcome \in Outcome : PostNext(outcome)

\* Time passes and the worker's loop goes on; nothing makes a user act.
NoticeFairness ==
    /\ WF_noticeVars(Minute)
    /\ WF_noticeVars(StartScan) /\ WF_noticeVars(FinishScan)
    /\ WF_noticeVars(\E outcome \in Outcome : PostNext(outcome))
    /\ WF_noticeVars(FinishBatch)

NoticeSpec == NoticeInit /\ [][NoticeNext]_noticeVars /\ NoticeFairness

-----------------------------------------------------------------------------
NoticeTypeOK ==
    /\ notices \in Seq(Notice) /\ Len(notices) <= MaxNotices
    /\ minute \in 0..(MinutesPerDay - 1) /\ switch \in BOOLEAN /\ lost \in 0..MaxLost

\* The provider accepts a notification once, and once more only for each of its posts whose
\* answer the worker did not see and for each batch the worker posted and never committed; and
\* never more often than there are retries, but for those batches: whatever the user marks
\* read or unread meanwhile (dispatch_external_notifications, mark_notification_read).
AcceptedOnce ==
    \A n \in 1..MaxNotices :
        /\ accepted[n] <= 1 + unheard[n] + lost
        /\ accepted[n] <= MaxRetries + lost

\* A queued external notification is sent, given up or read in the end: its retries are
\* counted and its back-off passes (_deliver_external_via_provider).
ExternalSettles ==
    \A n \in 1..MaxNotices :
        (n \in DOMAIN notices /\ notices[n].external /\ notices[n].status = "queued")
            ~> (n \in DOMAIN notices /\ notices[n].status # "queued")

=============================================================================
