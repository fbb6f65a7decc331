-------------------------- MODULE MCOutboxDispatch --------------------------
(***************************************************************************)
(* A notice to two people, one to one of them, and an assignment card.     *)
(***************************************************************************)
EXTENDS OutboxDispatch

CONSTANTS both, single, card, ana, bo

Addressees == [e \in Effects |-> IF e = both THEN {ana, bo} ELSE {bo}]
=============================================================================
