------------------------------- MODULE MCStudy -------------------------------
(***************************************************************************)
(* One instance of each of three machines, told apart by part: Study alone *)
(* with two handlers, Records alone with two slots, and Sync with one      *)
(* handler and one slot beside its imports: four requests that ask for all *)
(* scopes, or three that may ask for some.  The machines of a part that is *)
(* not chosen never take a step.                                           *)
(***************************************************************************)
EXTENDS Sync

VARIABLE part     \* which machine this behaviour is about

CONSTANTS h1, h2, s1, s2,    \* handlers and slots
          a, b, d1, d2       \* request ids and devices

\* Request ids and devices are interchangeable in every part; handlers and slots are not,
\* since one of each stays idle beside the imports.
Symmetry == Permutations({a, b}) \cup Permutations({d1, d2})

Scopes == {Scope, {"profile", "learning_plans"}}
AllParts == {"study", "records", "sync", "partial"}

Init == SyncInit /\ part \in AllParts

\* The tables an import writes, and few enough requests in all for every order of them.
SmallSync ==
    /\ SyncNext
    /\ requests' + writes' <= IF part = "sync" THEN 4 ELSE 3
    /\ part = "sync" => \A d \in Device : importing'[d] # None => importing'[d].scopes = Scope
    /\ flight'[h2] = None /\ pending'[s2] = None
    /\ flight'[h1] # None => flight'[h1].op \in {"profile", "recommend", "save", "edit"}
    /\ pending'[s1] # None => pending'[s1].table \in {"favorite", "record"}

Next ==
    /\ UNCHANGED part
    /\ \/ part = "study" /\ StudyNext /\ UNCHANGED <<recordVars, syncOwn>>
       \/ part = "records" /\ RecordNext /\ UNCHANGED <<studyVars, syncOwn>>
       \/ part \in {"sync", "partial"} /\ SmallSync

Spec == Init /\ [][Next]_<<syncVars, part>>
=============================================================================
