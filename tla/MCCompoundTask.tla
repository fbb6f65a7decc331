--------------------------- MODULE MCCompoundTask ---------------------------
(* Small instances of CompoundTask. *)
EXTENDS CompoundTask, TLC

CONSTANTS ana, bo, cy

Symmetry == Permutations({ana, bo, cy})
=============================================================================
