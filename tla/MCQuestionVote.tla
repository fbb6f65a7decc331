--------------------------- MODULE MCQuestionVote ---------------------------
(* Small instances of QuestionVote. *)
EXTENDS QuestionVote, TLC

CONSTANTS ana, bo, none, c1, c2

\* A structure names all the collections there are.
AllAtOnce == {Collections}

Symmetry == Permutations({ana, bo}) \cup Permutations({c1, c2})
=============================================================================
