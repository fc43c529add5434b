---------------------------- MODULE MCAlgorithms ----------------------------
(***************************************************************************)
(* What is checked without fairness and against a definition of its own:   *)
(* the loops over conversations, the planning engines, the extraction of   *)
(* memories and retrieval on every input of a small set, and the browser's *)
(* list of memories against the rows of the server.  They have no state in *)
(* common: part says which one a behaviour is about.                       *)
(***************************************************************************)
EXTENDS TurnLoops, Planning, Extraction, Retrieval, MemorySettings

VARIABLE part

AlgorithmsInit ==
    /\ Init /\ PlanningInit /\ ExtractionInit /\ RetrievalInit
    /\ part \in {"turns", "planning", "extraction", "retrieval", "settings"}
    /\ part # "turns" => previous = 0
    /\ SettingsInit /\ (part # "settings" => store = <<>>)

AlgorithmsNext ==
    /\ UNCHANGED part
    /\ \/ /\ part = "turns" /\ Receive
          /\ UNCHANGED <<planningVars, extractionVars, retrievalVars, settingsVars>>
       \/ /\ part = "planning" /\ PlanningNext
          /\ UNCHANGED <<vars, extractionVars, retrievalVars, settingsVars>>
       \/ /\ part = "extraction" /\ ExtractionNext
          /\ UNCHANGED <<vars, planningVars, retrievalVars, settingsVars>>
       \/ /\ part = "retrieval" /\ RetrievalNext
          /\ UNCHANGED <<vars, planningVars, extractionVars, settingsVars>>
       \/ /\ part = "settings" /\ SettingsNext
          /\ UNCHANGED <<vars, planningVars, extractionVars, retrievalVars>>

AlgorithmsSpec ==
    AlgorithmsInit
    /\ [][AlgorithmsNext]_<<vars, planningVars, extractionVars, retrievalVars, settingsVars,
                            part>>

-----------------------------------------------------------------------------
(* Planning *)

Slot(d, s, e) == [day |-> d, start |-> s, end |-> e]

\* Times of a class: two that touch, one over both, one of a single section beside another
\* day, one that ends before it starts.
Times == << <<Slot(1, 1, 2)>>, <<Slot(1, 2, 3)>>, <<Slot(1, 1, 3)>>,
            <<Slot(1, 3, 3), Slot(2, 1, 2)>>, <<Slot(2, 2, 1), Slot(1, 2, 4)>> >>

Class(c, t, full) ==
    [id |-> 10 * c + t, course |-> c, campus |-> IF t = 1 THEN "xianlin" ELSE "gulou",
     term |-> 1, full |-> full, online |-> t = 3, slots |-> Times[t]]

Offered(choice, full) == UNION {{Class(c, t, full /\ t = 1) : t \in choice[c]} : c \in 1..3}

MCOfferingSets ==
    {Offered(choice, full) :
        choice \in {f \in [1..3 -> {T \in SUBSET (1..5) : Cardinality(T) <= 2}] :
                       Cardinality(f[3]) <= 1},
        full \in BOOLEAN}

Item(c, n) == [course |-> c, credits |-> n]
MCPlanItemLists == {<<Item(1, 2), Item(2, 3), Item(1, 2), Item(3, 2)>>, <<Item(1, 4)>>, <<>>}

MCSchedulePreferences ==
    {[campus |-> None, times |-> {}, online |-> FALSE, commutes |-> FALSE],
     [campus |-> "xianlin", times |-> {"morning"}, online |-> TRUE, commutes |-> TRUE]}

MCCoursePlans ==
    {[n \in DOMAIN s |-> [course |-> n, semester |-> s[n], credits |-> c[n],
                          campus |-> IF n = 1 THEN "gulou" ELSE "xianlin", official |-> FALSE]] :
        s \in {<<1, 1, 1, 1, 1>>, <<1, 1, 1, 2, 2>>, <<1, 2, 2, 3, 3>>, <<1, 1, 2, 2, 3>>},
        c \in [1..5 -> {2, 4}]}

MCPlanProfiles ==
    [grade : {"freshman", "senior"}, campus : {None, "xianlin"}, flexible : BOOLEAN,
     late : BOOLEAN]

MCRecord == [course : 1..2, credits : {2, 4}, status : {"completed", "in_progress"}]
MCRecordLists == UNION {[1..n -> MCRecord] : n \in 0..3}

MCProgram(name, campus, math, credits) ==
    [name |-> name, campus |-> campus, math |-> math, semesters |-> 4, credits |-> credits]
MCPrograms ==
    <<MCProgram("law", "xianlin", FALSE, 4), MCProgram("computing", "gulou", TRUE, 4),
      MCProgram("finance", "suzhou", TRUE, 60), MCProgram("news", "xianlin", FALSE, 60)>>

MCProfiles ==
    [grade : {"sophomore", "senior"}, campus : {None, "xianlin"}, flexible : BOOLEAN,
     arts : BOOLEAN, mathDone : BOOLEAN, budget : {0, 30},
     interests : {None, {"law"}}, career : {None, {"computing"}}]

-----------------------------------------------------------------------------
(* Extraction *)

MCCharacter == {"letter", "cjk", "dot", "token", "mark", "ellipsis", "space"}

MCSentence ==
    [asks : {None, "remember", "forget"},
     sensitivity : {"normal", "personal_sensitive", "credential"},
     kind : {"statement", "other"}, category : {None, "career_goal"}, long : {FALSE}]
    \cup {[asks |-> None, sensitivity |-> "normal", kind |-> "statement",
           category |-> "career_goal", long |-> TRUE]}

MCInvented ==
    {s \in MCSentence : s.asks = None /\ s.sensitivity = "normal" /\ s.category = None}

-----------------------------------------------------------------------------
(* Retrieval *)

Paragraph == UNION {[1..n -> {1, 3, 6}] : n \in 1..3}
MCParagraphs == UNION {[1..n -> Paragraph] : n \in 0..2}

\* Five chunks, one more than the nearest that are looked at: two equally near, one with a
\* negative similarity. A title may leave no room for a chunk that a shorter one would show.
Similarity == <<-1, 0, 1, 1, 2>>
SizesAndTitles ==
    {<<<<2, 2, 2, 2, 2>>, <<1, 0, 4, 4, 0>>>>, <<<<7, 2, 7, 2, 7>>, <<0, 0, 0, 0, 0>>>>,
     <<<<2, 7, 2, 7, 2>>, <<0, 4, 4, 0, 1>>>>, <<<<7, 2, 2, 2, 7>>, <<1, 9, 9, 0, 9>>>>}

MCChunkTables ==
    {{[id |-> n, similarity |-> Similarity[n], rank |-> rank[n], served |-> served[n],
       size |-> shape[1][n], title |-> shape[2][n]] : n \in 1..5} :
        rank \in [1..5 -> {0, 2}], served \in [1..5 -> BOOLEAN], shape \in SizesAndTitles}
=============================================================================
