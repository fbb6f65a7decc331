----------------------------- MODULE MCFeishuApp -----------------------------
(***************************************************************************)
(* FeishuApp with a coordinator, who is bound, one more person, who kept   *)
(* silent, and two accounts that may both claim to be them.                *)
(***************************************************************************)
EXTENDS FeishuApp

CONSTANTS lead, ana, one, two
=============================================================================
