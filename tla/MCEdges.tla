------------------------------- MODULE MCEdges -------------------------------
(* What leaves the system and what the user sees of it, on small instances:     *)
(* notifications, attachments of feedback and the browser's chat.  They write   *)
(* no common state (a reply to feedback is an action of Notifications): each    *)
(* instance explores one of them, chosen at the start, with the others at rest. *)
EXTENDS Notifications, Feedback, ChatClient, TLC

CONSTANTS l1, a1, a2, n1, n2

VARIABLE part

edgeVars == <<noticeVars, feedbackVars, chatVars, part>>

Init ==
    /\ NoticeInit /\ FeedbackInit /\ ChatInit
    /\ part \in {"notifications", "feedback", "chat"}
    /\ part # "feedback" => listed.client = 0

Next ==
    /\ \/ part = "notifications" /\ NoticeNext /\ UNCHANGED <<feedbackVars, chatVars>>
       \/ part = "feedback" /\ FeedbackNext /\ UNCHANGED <<noticeVars, chatVars>>
       \/ part = "chat" /\ ChatNext /\ UNCHANGED <<noticeVars, feedbackVars>>
    /\ UNCHANGED part

\* The fairness of the part explored.
Alone(A, p) == part = p /\ A /\ UNCHANGED <<feedbackVars, part>>

Fairness ==
    /\ WF_edgeVars(Alone(Minute, "notifications") /\ UNCHANGED chatVars)
    /\ WF_edgeVars(Alone(StartScan, "notifications") /\ UNCHANGED chatVars)
    /\ WF_edgeVars(Alone(FinishScan, "notifications") /\ UNCHANGED chatVars)
    /\ WF_edgeVars(Alone(\E outcome \in Outcome : PostNext(outcome), "notifications")
                      /\ UNCHANGED chatVars)
    /\ WF_edgeVars(Alone(FinishBatch, "notifications") /\ UNCHANGED chatVars)
    /\ \A n \in 1..MaxSends :
          WF_edgeVars(Alone(n \in Sent /\ Timeout(n), "chat") /\ UNCHANGED noticeVars)

Spec == Init /\ [][Next]_edgeVars /\ Fairness

=============================================================================
