------------------------------- MODULE Notice -------------------------------
(***************************************************************************)
(* What the channel promises of the effects it carries: each of the people *)
(* an effect is for hears of it once, nobody else does, and an effect is   *)
(* closed only when all of them have heard.  What is closed stays closed.  *)
(* Who sends, how often it is tried and who stops half way is left to      *)
(* OutboxDispatch, which implements this.                                  *)
(***************************************************************************)
EXTENDS Naturals

CONSTANTS Effects, People, To

VARIABLES
    copies,    \* how many messages a person got for an effect
    closed     \* the effects nobody has to be told of any more

notice == <<copies, closed>>

NoticeInit ==
    /\ copies = [e \in Effects |-> [p \in People |-> 0]]
    /\ closed = {}

Tell(e, p) ==
    /\ p \in To[e]
    /\ copies[e][p] = 0
    /\ copies' = [copies EXCEPT ![e][p] = 1]
    /\ closed' = closed

Close(e) ==
    /\ e \notin closed
    /\ \A p \in To[e] : copies[e][p] = 1
    /\ closed' = closed \cup {e}
    /\ copies' = copies

NoticeNext ==
    \E e \in Effects : Close(e) \/ \E p \in People : Tell(e, p)

NoticeSpec == NoticeInit /\ [][NoticeNext]_notice
=============================================================================
