------------------------------- MODULE Absent -------------------------------
(* What a field that may be missing (an Option) holds when it is.          *)
CONSTANT None
=============================================================================
