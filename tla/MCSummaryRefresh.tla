-------------------------- MODULE MCSummaryRefresh --------------------------
(* Small instances of SummaryRefresh for TLC. *)
EXTENDS SummaryRefresh, TLC

CONSTANTS r1, r2, r3, r4

ThreeRequests == {r1, r2, r3}
FourRequests == {r1, r2, r3, r4}
Symmetry == Permutations(Request)

=============================================================================
