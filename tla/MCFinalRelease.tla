--------------------------- MODULE MCFinalRelease ---------------------------
(* FinalRelease with one meeting of two tasks, of which one is done twice. *)
EXTENDS FinalRelease, TLC

CONSTANTS alpha, draft, review

Both == (draft :> alpha) @@ (review :> alpha)

DraftTwice == [t \in Tasks |-> IF t = draft THEN 2 ELSE 1]
=============================================================================
