------------------------------ MODULE Planning ------------------------------
(***************************************************************************)
(* The engines behind the planning routes (services/planning and the       *)
(* routes that call them): the choice of teaching classes, the course      *)
(* plan, the eligibility estimate and the recommendation of programs.      *)
(* They keep no state: a behaviour is one request and its answer, and the  *)
(* invariants compare the answer with what it is an answer to.             *)
(*                                                                         *)
(* Courses and classes are numbers, in the order of their names and ids.   *)
(* A text that is searched for words is the set of answers that matter:    *)
(* a program's campus is a name, "math" is a completed mathematics course. *)
(***************************************************************************)
EXTENDS Integers, Sequences, SequencesExt, FiniteSets, FiniteSetsExt, NoValue, Ranking

CONSTANTS
    PlanItemLists,    \* the plans asked about: sequences of plan items
    OfferingSets,     \* the sets of offered teaching classes
    SchedulePreferences,  \* [campus, times, online, commutes] of a profile
    MaxCombinations,  \* max_combinations of auto_select_schedule
    CoursePlans,      \* the plans laid out over semesters
    PlanProfiles,     \* [grade, campus, flexible, late] of a profile
    RecordLists,      \* sequences of learning records
    Programs,         \* the sequence of active programs
    Profiles          \* profiles to recommend for

VARIABLES
    request,    \* what was asked
    answer      \* what was answered

planningVars == <<request, answer>>

MaxLoad == 8    \* the credits a semester of the plan is meant to hold

Answered(q, a) == request' = q /\ answer' = a

-----------------------------------------------------------------------------
(* schedule_conflicts.py: classes, their slots and the conflicts among them *)

\* Lexicographic order of tuples of numbers of one length, and lists sorted by such keys.
Less(s, t) ==
    \E n \in DOMAIN s : s[n] < t[n] /\ \A m \in 1..(n - 1) : s[m] = t[m]

SortBy(S, key) == Ranked(S, {q \in S \X S : Less(key[q[1]], key[q[2]])})

Distinct(seq) ==
    FoldLeft(LAMBDA seen, x : IF x \in ToSet(seen) THEN seen ELSE Append(seen, x), <<>>, seq)

\* A slot without a day or a first section, or that ends before it starts, is left out.
Valid(slot) == slot.day > 0 /\ slot.start > 0 /\ slot.end >= slot.start

Overlap_Touching(a, b) ==
    a.day = b.day /\ Max({a.start, b.start}) <= Min({a.end, b.end})

\* The later start comes before the earlier end.
Overlap(a, b) ==
    a.day = b.day /\ Max({a.start, b.start}) < Min({a.end, b.end})

\* The slots of classes, as numbers of a class and of a slot of it.
SlotsOf(classes) ==
    UNION {{n} \X {i \in DOMAIN classes[n].slots : Valid(classes[n].slots[i])} :
              n \in DOMAIN classes}

\* Pairs of slots of two classes that overlap; a class does not conflict with itself.
DetectScheduleConflicts(classes) ==
    {q \in SlotsOf(classes) \X SlotsOf(classes) :
        LET left == classes[q[1][1]]   right == classes[q[2][1]] IN
        /\ q[1][1] < q[2][1] /\ left.id # right.id
        /\ Overlap(left.slots[q[1][2]], right.slots[q[2][2]])}

\* Classes on another campus than the user's, unless the user commutes.
CampusWarnings(classes, pref) ==
    {c.id : c \in {x \in ToSet(classes) :
        ~pref.commutes /\ None \notin {pref.campus, x.campus} /\ x.campus # pref.campus}}

\* The classes offered for a course: those with places, then those on the user's campus, then
\* by term and id.
Options(offered, campus) ==
    LET near(o) == campus # None /\ o.campus = campus IN
    SortBy(offered, [o \in offered |-> <<IF o.full THEN 1 ELSE 0, IF near(o) THEN 0 ELSE 1,
                                         o.term, o.id>>])

\* The plan's courses, each once, with their classes.
BuildScheduleOptions(items, offerings, campus) ==
    LET names == Distinct([n \in DOMAIN items |-> items[n].course]) IN
    [n \in DOMAIN names |->
        [course |-> names[n],
         offerings |-> Options({o \in offerings : o.course = names[n]}, campus)]]

TimeRange == [early |-> 1..2, morning |-> 3..5, afternoon |-> 6..8, evening |-> 9..13]

OfferingScore(o, pref) ==
    (IF o.full THEN -100 ELSE 0)
    + (IF pref.campus # None /\ o.campus = pref.campus THEN 40 ELSE 0)
    + (IF pref.online /\ o.online THEN 30 ELSE 0)
    + (IF \E s \in ToSet(o.slots), t \in pref.times : s.start \in TimeRange[t] THEN 10 ELSE 0)

\* Courses with classes, and the classes best first.
Available(courses) ==
    FoldLeft(LAMBDA acc, c : IF c.offerings = <<>> THEN acc ELSE Append(acc, c), <<>>, courses)

BestFirst(classes, pref) ==
    SortBy(classes, [o \in classes |-> <<-OfferingScore(o, pref), o.id>>])

\* Every choice of one class per course, in the order the depth-first search meets them: that
\* of the places the classes have among those of their courses.
ChoicesOf(ranked) ==
    {c \in [DOMAIN ranked -> UNION {ToSet(ranked[n]) : n \in DOMAIN ranked}] :
        \A n \in DOMAIN ranked : c[n] \in ToSet(ranked[n])}

Combinations(ranked) ==
    LET place(n, o) == CHOOSE k \in DOMAIN ranked[n] : ranked[n][k] = o IN
    SortBy(ChoicesOf(ranked),
           [c \in ChoicesOf(ranked) |-> [n \in DOMAIN ranked |-> place(n, c[n])]])

\* The search stops after MaxCombinations complete choices.
Visited(ranked) ==
    LET all == Combinations(ranked) IN {all[k] : k \in 1..Min({MaxCombinations, Len(all)})}

\* The fewest conflicts come first, then the highest score, then the smallest ids.
CombinationKey(classes, pref) ==
    <<Cardinality(DetectScheduleConflicts(classes)),
      -FoldLeft(LAMBDA sum, o : sum + OfferingScore(o, pref), 0, classes)>>
    \o [n \in DOMAIN classes |-> classes[n].id]

SortedChoices(available, pref) ==
    LET visited == Visited([n \in DOMAIN available |->
                               BestFirst(ToSet(available[n].offerings), pref)]) IN
    SortBy(visited, [c \in visited |-> CombinationKey(c, pref)])

AutoSelectSchedule(courses, pref) ==
    LET missing == {c.course : c \in {x \in ToSet(courses) : x.offerings = <<>>}}
        sorted == SortedChoices(Available(courses), pref)
        best == Head(sorted)
        conflicts == DetectScheduleConflicts(best) IN
    [feasible |-> missing = {} /\ conflicts = {},
     selected |-> best, missing |-> missing, conflicts |-> conflicts,
     commutes |-> CampusWarnings(best, pref),
     full |-> \E o \in ToSet(best) : o.full,
     alternatives |-> SubSeq(sorted, 1, Min({3, Len(sorted)}))]

AutoScheduleProgram ==
    /\ answer = None
    /\ \E items \in PlanItemLists, offerings \in OfferingSets, pref \in SchedulePreferences :
           Answered([kind |-> "schedule", items |-> items, offerings |-> offerings,
                     pref |-> pref],
                    AutoSelectSchedule(BuildScheduleOptions(items, offerings, pref.campus),
                                       pref))

-----------------------------------------------------------------------------
(* course_planner.py *)

StartSemester == [freshman |-> 1, sophomore |-> 3, junior |-> 5, senior |-> 7]

TermCredits(items, s) ==
    FoldLeft(LAMBDA sum, it : sum + it.credits, 0,
             SelectSeq(items, LAMBDA it : it.semester = s))

Shifted_ByYear(items, course, s) ==
    IF TermCredits(items, s) + course.credits > MaxLoad THEN s + 2 ELSE s

\* A course that would overload its semester goes one semester later.
Shifted(items, course, s) ==
    IF TermCredits(items, s) + course.credits > MaxLoad THEN s + 1 ELSE s

Placed(profile, plan, course) ==
    LET wanted == StartSemester[profile.grade] + course.semester - 1
                  + (IF profile.late THEN 2 ELSE 0)
        s == Shifted(plan.items, course, wanted)
        beyond == IF s > wanted /\ s > 12 THEN 1 ELSE 0
        away == IF ~profile.flexible /\ profile.campus # None /\ course.campus # profile.campus
                THEN 1 ELSE 0 IN
    [items |-> Append(plan.items,
                  [semester |-> s, course |-> course.course, credits |-> course.credits]),
     warnings |-> plan.warnings + beyond + away]

\* The alternative is the plan one semester later; a plan with more than two warnings is
\* infeasible.  One warning stands for a plan from the official catalogue.
GeneratePlan(courses, profile) ==
    LET plan == FoldLeft(LAMBDA p, c : Placed(profile, p, c),
                         [items |-> <<>>, warnings |-> 0], courses)
        official == IF \E c \in ToSet(courses) : c.official THEN 1 ELSE 0 IN
    [items |-> plan.items,
     alternative |-> [n \in DOMAIN plan.items |->
                         [plan.items[n] EXCEPT !.semester = @ + 1]],
     infeasible |-> courses = <<>> \/ plan.warnings + official > 2]

CoursePlan ==
    /\ answer = None
    /\ \E courses \in CoursePlans, profile \in PlanProfiles :
           Answered([kind |-> "plan", courses |-> courses, profile |-> profile],
                    GeneratePlan(courses, profile))

-----------------------------------------------------------------------------
(* eligibility.py, and the credits of GET /learning/progress (account.py) *)

Credited_AnyStatus(records) ==
    FoldLeft(LAMBDA acc, r :
                 IF r.course \in acc.courses THEN acc
                 ELSE [courses |-> acc.courses \cup {r.course},
                       credits |-> acc.credits + r.credits],
             [courses |-> {}, credits |-> 0], records)

\* A course counts once, with the credits of its first completed record.
Credited(records) ==
    FoldLeft(LAMBDA acc, r :
                 IF r.status # "completed" \/ r.course \in acc.courses THEN acc
                 ELSE [courses |-> acc.courses \cup {r.course},
                       credits |-> acc.credits + r.credits],
             [courses |-> {}, credits |-> 0], records)

\* Course 1 is the mathematics course.
EvaluateProgramEligibility(program, items, records) ==
    LET done == Credited(records)
        required == {items[n].course : n \in DOMAIN items}
        planned == FoldLeft(LAMBDA sum, it : sum + it.credits, 0, items)
        missing == required \ done.courses IN
    [eligible |-> /\ items # <<>> /\ missing = {}
                  /\ planned >= program.credits /\ done.credits >= program.credits
                  /\ program.math => 1 \in done.courses,
     missing |-> missing, credits |-> done.credits]

CreditsOf(records, status) ==
    FoldLeft(LAMBDA sum, r : IF r.status = status THEN sum + r.credits ELSE sum, 0, records)

\* The records come in no order.
ProgramEligibility ==
    /\ answer = None
    /\ \E program \in ToSet(Programs), items \in PlanItemLists, records \in RecordLists :
           Answered([kind |-> "eligibility", program |-> program, items |-> items,
                     records |-> records],
                    EvaluateProgramEligibility(program, items, records))

-----------------------------------------------------------------------------
(* recommendation_engine.py *)

Remaining == [freshman |-> 8, sophomore |-> 6, junior |-> 4, senior |-> 2]

\* Reasons that exclude a program.  A mathematics requirement the user refuses is a reason
\* too, but not one that excludes.
HardFilter(program, p) ==
    /\ p.flexible \/ p.campus = None \/ program.campus = p.campus
       \/ "suzhou" \notin {program.campus, p.campus}
    /\ Remaining[p.grade] >= program.semesters
    /\ p.budget = 0 \/ p.budget >= program.credits

\* In hundredths.
Prerequisites(program, p) ==
    IF program.math /\ p.mathDone THEN 90
    ELSE IF program.math /\ p.arts THEN 20
    ELSE IF program.math THEN 60 ELSE 80

Campus_Swapped(program, p) ==
    IF program.campus = "suzhou" THEN 10
    ELSE IF program.campus # p.campus /\ p.flexible THEN 40 ELSE 80

Campus(program, p) ==
    IF program.campus = "suzhou" THEN 10
    ELSE IF program.campus # p.campus /\ ~p.flexible THEN 40 ELSE 80

\* 70, 30, or 50 when the profile leaves the field empty; max(0.3, 1 - credits / 120).
Fit(field, program) ==
    IF field = None THEN 50 ELSE IF program.name \in field THEN 70 ELSE 30
Lightness(program) == Max({36, 120 - program.credits})

\* The weighted sum in thousandths, rounded.
ScoreProgram(program, p) ==
    LET exact == 120 * (28 * Fit(p.interests, program) + 22 * Fit(p.career, program)
                        + 22 * Prerequisites(program, p) + 11 * Campus(program, p))
                 + 17 * 100 * Lightness(program) IN
    (exact + 600) \div 1200

\* The programs that pass, best first, equal ones in the order they came.
Recommend(programs, p) ==
    LET passing == {n \in DOMAIN programs : HardFilter(programs[n], p)}
        score(n) == ScoreProgram(programs[n], p)
        better == {q \in passing \X passing :
                      score(q[1]) > score(q[2]) \/ (score(q[1]) = score(q[2]) /\ q[1] < q[2])}
        order == Ranked(passing, better) IN
    [k \in DOMAIN order |-> [name |-> programs[order[k]].name, score |-> score(order[k])]]

RecommendPrograms ==
    /\ answer = None
    /\ \E p \in Profiles :
           Answered([kind |-> "recommend", profile |-> p], Recommend(Programs, p))

-----------------------------------------------------------------------------
(* What the engines are called with: rows of the catalogue, records and profiles. *)

SlotRow == [day : Int, start : Int, end : Int]

Offering ==
    [id : Int, course : Int, campus : STRING \cup {None}, term : Int, full : BOOLEAN,
     online : BOOLEAN, slots : Seq(SlotRow)]

CatalogueCourse ==
    [course : Int, semester : Int, credits : Int, campus : STRING \cup {None},
     official : BOOLEAN]

LearningRecord == [course : Int, credits : Nat, status : STRING]

Program == [name : STRING, campus : STRING, math : BOOLEAN, semesters : Int, credits : Int]

Profile ==
    [grade : DOMAIN Remaining, campus : STRING \cup {None}, flexible : BOOLEAN,
     arts : BOOLEAN, mathDone : BOOLEAN, budget : Nat,
     interests : {None} \cup SUBSET STRING, career : {None} \cup SUBSET STRING]

ASSUME PlanningAssumption ==
    /\ PlanItemLists \subseteq Seq([course : Int, credits : Int])
    /\ \A offerings \in OfferingSets :
          /\ IsFiniteSet(offerings) /\ offerings \subseteq Offering
          /\ \A o, p \in offerings : o.id = p.id => o = p    \* teaching_class_id is unique
    /\ MaxCombinations \in Nat \ {0}
    /\ CoursePlans \subseteq Seq(CatalogueCourse)
    /\ \A p \in PlanProfiles : p.grade \in DOMAIN StartSemester
    /\ RecordLists \subseteq Seq(LearningRecord)
    /\ Programs \in Seq(Program)
    /\ Profiles \subseteq Profile

PlanningInit == request = None /\ answer = None

PlanningNext == AutoScheduleProgram \/ CoursePlan \/ ProgramEligibility \/ RecommendPrograms

PlanningSpec == PlanningInit /\ [][PlanningNext]_planningVars

Asked(kind) == answer # None /\ request.kind = kind

\* The hours of a class, a slot that ends in section e ending when section e begins.
Hours(class) ==
    UNION {{<<s.day, h>> : h \in (s.start)..(s.end - 1)} :
              s \in {x \in ToSet(class.slots) : Valid(x)}}

Compatible(classes) ==
    \A m, n \in DOMAIN classes : m < n => Hours(classes[m]) \cap Hours(classes[n]) = {}

\* The ways to take every course of the plan, whatever their order.
WaysToTake(items, offerings) ==
    LET names == Distinct([n \in DOMAIN items |-> items[n].course]) IN
    {c \in [DOMAIN names -> offerings] : \A n \in DOMAIN names : c[n].course = names[n]}

\* A schedule called feasible has one class for every course of the plan and no two at one
\* time; and when such a schedule exists and the search was not cut short, the answer is
\* feasible (auto_schedule_program: build_schedule_options, then auto_select_schedule).
FeasibleIffPossible ==
    Asked("schedule") =>
        LET ways == WaysToTake(request.items, request.offerings)
            good == {c \in ways : Compatible(c)} IN
        /\ answer.feasible => answer.selected \in good
        /\ good # {} /\ Cardinality(ways) <= MaxCombinations => answer.feasible

\* A course the plan puts before another is not laid out after it, in the plan or in its
\* alternative, however courses are moved to keep a semester's load (generate_plan).
OrderKept ==
    Asked("plan") =>
        \A m, n \in DOMAIN request.courses :
            request.courses[m].semester < request.courses[n].semester =>
                /\ answer.items[m].semester <= answer.items[n].semester
                /\ answer.alternative[m].semester <= answer.alternative[n].semester

\* "避免超载（每学期辅修不超过 8 学分）" (services/planning/course_planner.py:96): no semester of
\* the plan holds more than eight credits (generate_plan).
LoadKept ==
    Asked("plan") => \A n \in DOMAIN answer.items :
        TermCredits(answer.items, answer.items[n].semester) <= MaxLoad

\* The estimate claims no more credits than the progress page shows as completed, and as
\* many when no course was completed twice; a student it calls eligible has completed
\* every course of the plan and the program's credits on that page too
\* (evaluate_program_eligibility beside _summarize_learning_records).
CreditsAgree ==
    Asked("eligibility") =>
        LET shown == CreditsOf(request.records, "completed")
            completed == {n \in DOMAIN request.records : request.records[n].status = "completed"}
            course(n) == request.records[n].course IN
        /\ answer.credits <= shown
        /\ (\A m, n \in completed : course(m) = course(n) => m = n) => answer.credits = shown
        /\ answer.eligible =>
              /\ shown >= request.program.credits
              /\ \A n \in DOMAIN request.items : \E m \in completed :
                    course(m) = request.items[n].course

\* A student with more freedom keeps every recommended program, none with a lower score:
\* one who now commutes, has completed the mathematics course, or raises the credit budget
\* (recommend: hard_filter, score_program).
FreedomNeverHurts ==
    Asked("recommend") =>
        LET p == request.profile
            freer == {[p EXCEPT !.flexible = TRUE], [p EXCEPT !.mathDone = TRUE],
                      [p EXCEPT !.budget = 2 * p.budget]} IN
        \A q \in freer : \A r \in ToSet(answer) :
            \E s \in ToSet(Recommend(Programs, q)) : s.name = r.name /\ s.score >= r.score

=============================================================================
