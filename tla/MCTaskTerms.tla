---------------------------- MODULE MCTaskTerms ----------------------------
(* TaskTerms with interchangeable participants, and interchangeable proposals
   beside the task: what becomes of a hint and of an addition is the same. *)
EXTENDS TaskTerms, TLC

Alike == Permutations(Participants) \cup Permutations(Hints \cup Additions)
=============================================================================
