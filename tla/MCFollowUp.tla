---------------------------- MODULE MCFollowUp ----------------------------
(***************************************************************************)
(* Instances of FollowUp.  The unit is a day, so that what the policy      *)
(* gives in halves of a day falls due with the next unit, and one task is  *)
(* contacted in all four ways, by an owner with one contact a day.         *)
(***************************************************************************)
EXTENDS FollowUp
=============================================================================
