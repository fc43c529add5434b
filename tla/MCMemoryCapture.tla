-------------------------- MODULE MCMemoryCapture --------------------------
(* Small instances of MemoryCapture for TLC. *)
EXTENDS MemoryCapture, TLC

CONSTANTS t1, t2, t3, e1, e2, s1, s2, x, y, k1, k2, c1, c2, c3

OneTask == {t1}
TwoTasks == {t1, t2}
ThreeTasks == {t1, t2, t3}
OneEditor == {e1}
TwoEditors == {e1, e2}
TwoSavers == {s1, s2}
Nobody == {}
OneCategory == {x}
TwoCategories == {x, y}
OneSlug == {k1}
TwoSlugs == {k1, k2}
OneText == {c1}
TwoTexts == {c1, c2}
ThreeTexts == {c1, c2, c3}

\* Texts are similar only to themselves.
SameText == {<<c, c>> : c \in Content}

\* c2 is close enough to c1 and to c3 to count as the same; those two are not.
ChainOfTexts == SameText \cup {<<c1, c2>>, <<c2, c1>>, <<c2, c3>>, <<c3, c2>>}

Symmetry == Permutations(Task)

=============================================================================
