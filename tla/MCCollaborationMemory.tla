----------------------- MODULE MCCollaborationMemory -----------------------
(* CollaborationMemory where the rules can see one of two observed topics. *)
EXTENDS CollaborationMemory, TLC

CONSTANTS help, pace, asks, waits

OneRule == {[topic |-> help, code |-> asks]}

Alike == Permutations(Tasks)
=============================================================================
