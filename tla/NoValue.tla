------------------------------ MODULE NoValue ------------------------------
(* The value that stands for an absent one: NULL in a column, None in Python. *)
CONSTANT None
=============================================================================
