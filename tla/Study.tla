------------------------------- MODULE Study -------------------------------
(***************************************************************************)
(* One user's profile, recommendation reports and saved plans              *)
(* (apps/api/routes/profile.py, planning.py).                              *)
(*                                                                         *)
(* A handler reads its rows, computes, and writes at the commit; what it   *)
(* writes to a row is the columns it changed, as computed from what it     *)
(* read.  Nothing but the row locks of its own UPDATE statements holds two *)
(* handlers apart.  Contents are numbered in the order they were made.     *)
(***************************************************************************)
EXTENDS Integers, Sequences, FiniteSets, SequencesExt, NoValue

CONSTANTS
    Handler,       \* slots for requests in flight
    MaxRequests    \* bound on the requests that start

ASSUME StudyAssumption == MaxRequests \in Nat

VARIABLES
    profiles,      \* student_profiles, by updated_at: the last one is the profile
    reports,       \* recommendation_reports by id
    plans,         \* learning_plans by id
    flight,        \* flight[h]: what the request in slot h has read, or None
    requests,      \* how many requests started
    overlooked,    \* history: reports whose profile changed in a way that marks no report
    overlaps       \* history: plans adopted while another adoption was in flight

studyVars == <<profiles, reports, plans, flight, requests, overlooked, overlaps>>

\* Contents, rows and requests are numbered alike: nothing is made without a request.
Number == Nat
Profile == [id : Number, version : Number, content : Number]
\* of, a history: the content of the profile the report was computed from; 0 when the
\* request brought its own.
\* print: the stored fingerprint of an imported row, None for one made here.  It stands
\* for the content of the row it was computed from (_sync_fingerprint).
ReportPrint == [version : Number, stale : BOOLEAN, of : Number]
Report == [version : Number, stale : BOOLEAN, of : Number, print : {None} \cup ReportPrint]
Status == {"draft", "adopted", "archived"}
PlanPrint == [status : Status, items : Number, analysed : BOOLEAN]
Plan == [status : Status, items : Number, analysed : BOOLEAN, print : {None} \cup PlanPrint]

\* The ids of reports and plans: the request that made the row, and the fingerprint an
\* imported one came with, since one import makes several.
RowId == Number \X ({None} \cup PlanPrint \cup ReportPrint)
Own(number) == <<number, None>>

StudyInit ==
    /\ profiles = <<>> /\ reports = <<>> /\ plans = <<>>
    /\ flight = [h \in Handler |-> None] /\ requests = 0
    /\ overlooked = {} /\ overlaps = 0

history == <<overlooked, overlaps>>

Current == IF profiles = <<>> THEN None ELSE Last(profiles)
Fresh == {n \in DOMAIN reports : ~reports[n].stale}
Adopted == {n \in DOMAIN plans : plans[n].status = "adopted"}

\* A request starts with a number of its own, which names what it will make.
Start(h, loaded) ==
    /\ flight[h] = None /\ requests < MaxRequests
    /\ requests' = requests + 1
    /\ flight' = [flight EXCEPT ![h] = loaded]
Doing(h, op) == flight[h] # None /\ flight[h].op = op
Finish(h) == flight' = [flight EXCEPT ![h] = None] /\ UNCHANGED requests

\* The plans an UPDATE of another request has locked.
Locked(h) == UNION {flight[g].holds : g \in {k \in Handler \ {h} : flight[k] # None}}

-----------------------------------------------------------------------------
(* The profile. *)

StartSaveProfile(h) ==
    /\ Start(h, [op |-> "profile", row |-> Current, number |-> requests + 1, holds |-> {}])
    /\ UNCHANGED <<profiles, reports, plans, history>>

\* The row of this id moves to the end of the order.
Written(old, number) ==
    LET at == CHOOSE i \in DOMAIN profiles : profiles[i].id = old.id IN
    Append(RemoveAt(profiles, at),
           [id |-> old.id, version |-> old.version + 1, content |-> number])

MarkStale_Nothing == UNCHANGED reports

\* The bulk update of upsert_profile: every report committed so far.
MarkStale == reports' = [n \in DOMAIN reports |-> [reports[n] EXCEPT !.stale = TRUE]]

\* A first profile is inserted (two at once make two rows); an update of a row that is
\* gone fails.
FinishSaveProfile(h) ==
    /\ Doing(h, "profile")
    /\ LET old == flight[h].row
           number == flight[h].number IN
       CASE old = None ->
               /\ profiles' = Append(profiles, [id |-> number, version |-> 1, content |-> number])
               /\ overlooked' = overlooked \cup Fresh
               /\ UNCHANGED reports
         [] old # None /\ \E i \in DOMAIN profiles : profiles[i].id = old.id ->
               /\ profiles' = Written(old, number) /\ MarkStale /\ UNCHANGED overlooked
         [] OTHER -> UNCHANGED <<profiles, reports, overlooked>>
    /\ Finish(h)
    /\ UNCHANGED <<plans, overlaps>>

\* No report is marked, and an older row, if there is one, is the profile again.
DeleteProfile ==
    /\ profiles # <<>> /\ requests < MaxRequests
    /\ profiles' = Front(profiles)
    /\ requests' = requests + 1
    /\ overlooked' = overlooked \cup Fresh
    /\ UNCHANGED <<reports, plans, flight, overlaps>>

\* A report from the stored profile, or from one the request brings.
StartRecommend(h, given) ==
    /\ given \/ Current # None
    /\ Start(h, [op |-> "recommend", number |-> requests + 1, holds |-> {},
                 row |-> IF given THEN [id |-> 0, version |-> 0, content |-> 0] ELSE Current])
    /\ UNCHANGED <<profiles, reports, plans, history>>

FinishRecommend(h) ==
    /\ Doing(h, "recommend")
    /\ LET read == flight[h].row
           id == Own(flight[h].number) IN
       /\ reports' = [n \in DOMAIN reports \cup {id} |->
             IF n # id THEN reports[n]
             ELSE [version |-> read.version, stale |-> FALSE, of |-> read.content,
                   print |-> None]]
       /\ overlooked' = IF Current = None \/ Current.content # read.content
                        THEN overlooked \cup {id} ELSE overlooked
    /\ Finish(h)
    /\ UNCHANGED <<profiles, plans, overlaps>>

-----------------------------------------------------------------------------
(* The plans. *)

Archived_Nothing(h, chosen) == {}

\* The bulk update of an adoption archives the adopted plans it sees; it waits for those
\* another request has locked, and finds them archived then.
Archived(h, chosen) == (Adopted \ chosen) \ Locked(h)

StartSavePlan(h, adopt) ==
    /\ Start(h, [op |-> "save", number |-> requests + 1, adopts |-> adopt,
                 holds |-> IF adopt THEN Archived(h, {}) ELSE {}])
    /\ UNCHANGED <<profiles, reports, plans, history>>

StartAdopt(h, n) ==
    /\ Start(h, [op |-> "adopt", plan |-> n, status |-> plans[n].status, adopts |-> TRUE,
                 holds |-> Archived(h, {n})])
    /\ UNCHANGED <<profiles, reports, plans, history>>

AfterArchiving(h) ==
    [n \in DOMAIN plans |->
        IF n \in flight[h].holds THEN [plans[n] EXCEPT !.status = "archived"] ELSE plans[n]]
Adopting(h) == flight[h] # None /\ flight[h].op \in {"save", "adopt"} /\ flight[h].adopts
CountOverlap(h) ==
    overlaps' = IF Adopting(h) /\ \E g \in Handler \ {h} : Adopting(g)
                THEN overlaps + 1 ELSE overlaps

FinishSavePlan(h) ==
    /\ Doing(h, "save")
    /\ LET id == Own(flight[h].number) IN
       plans' = [n \in DOMAIN plans \cup {id} |->
          IF n # id THEN AfterArchiving(h)[n]
          ELSE [status |-> IF flight[h].adopts THEN "adopted" ELSE "draft",
                items |-> flight[h].number, analysed |-> FALSE, print |-> None]]
    /\ CountOverlap(h) /\ Finish(h)
    /\ UNCHANGED <<profiles, reports, overlooked>>

\* A plan that was adopted when it was read is not written again, though it may have been
\* archived since.
FinishAdopt(h) ==
    /\ Doing(h, "adopt") /\ flight[h].plan \notin Locked(h)
    /\ plans' = IF flight[h].status = "adopted" THEN AfterArchiving(h)
                ELSE [AfterArchiving(h) EXCEPT ![flight[h].plan].status = "adopted"]
    /\ CountOverlap(h) /\ Finish(h)
    /\ UNCHANGED <<profiles, reports, overlooked>>

\* update_saved_plan, recalculate_saved_plan and preview_saved_plan_schedule: one plan is
\* read, and the columns each of them sets are written.
StartChangePlan(h, n, change) ==
    /\ Start(h, [op |-> change, plan |-> n, row |-> plans[n], number |-> requests + 1,
                 holds |-> {}])
    /\ UNCHANGED <<profiles, reports, plans, history>>

\* An edit makes an adopted plan a draft again and leaves its analysis as it is.
Changed(h, now) ==
    CASE flight[h].op = "edit" ->
            [now EXCEPT !.items = flight[h].number,
                        !.status = IF flight[h].row.status = "adopted" THEN "draft" ELSE @]
      [] flight[h].op = "recalculate" ->
            [now EXCEPT !.items = flight[h].number,
                        !.analysed = IF flight[h].row.analysed THEN FALSE ELSE @]
      [] OTHER -> [now EXCEPT !.analysed = TRUE]

FinishChangePlan(h) ==
    /\ flight[h] # None /\ flight[h].op \in {"edit", "recalculate", "preview"}
    /\ flight[h].plan \notin Locked(h)
    /\ plans' = [plans EXCEPT ![flight[h].plan] = Changed(h, @)]
    /\ Finish(h)
    /\ UNCHANGED <<profiles, reports, history>>

StudyNext ==
    \/ DeleteProfile
    \/ \E h \in Handler :
          \/ StartSaveProfile(h) \/ FinishSaveProfile(h)
          \/ \E given \in BOOLEAN : StartRecommend(h, given)
          \/ FinishRecommend(h)
          \/ \E adopt \in BOOLEAN : StartSavePlan(h, adopt)
          \/ \E n \in DOMAIN plans : StartAdopt(h, n)
          \/ \E n \in DOMAIN plans, change \in {"edit", "recalculate", "preview"} :
                StartChangePlan(h, n, change)
          \/ FinishSavePlan(h) \/ FinishAdopt(h) \/ FinishChangePlan(h)

StudySpec == StudyInit /\ [][StudyNext]_studyVars

-----------------------------------------------------------------------------
StudyTypeOK ==
    /\ profiles \in Seq(Profile)
    /\ DOMAIN reports \subseteq RowId /\ \A n \in DOMAIN reports : reports[n] \in Report
    /\ DOMAIN plans \subseteq RowId /\ \A n \in DOMAIN plans : plans[n] \in Plan
    /\ requests \in 0..MaxRequests

\* A report that is not marked stale was computed from the profile as it is now, but for
\* the reports upsert_profile cannot see: those computed while the profile changed, and
\* those a deletion, a first profile or an import leaves unmarked.
FreshReports ==
    \A n \in Fresh \ overlooked :
        reports[n].of # 0 => Current # None /\ reports[n].of = Current.content

\* At most one plan is adopted, and one more for each adoption that overlapped another:
\* neither edits, recalculations nor imports that race with an adoption add any
\* (save_course_plan, adopt_saved_plan, update_saved_plan).
OneAdopted == Cardinality(Adopted) <= 1 + overlaps

=============================================================================
