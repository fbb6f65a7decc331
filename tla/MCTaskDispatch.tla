--------------------------- MODULE MCTaskDispatch ---------------------------
(* TaskDispatch with three interchangeable participants. *)
EXTENDS TaskDispatch, TLC

Alike == Permutations(Participants)
=============================================================================
