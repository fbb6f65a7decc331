----------------------------- MODULE ReviewGate -----------------------------
(***************************************************************************)
(* What the review of deliveries promises the coordinator: one candidate   *)
(* at a time, none put forward again after its verdict, judged only when   *)
(* it has been prepared, and nothing comes into force but what was         *)
(* approved.                                                               *)
(* TaskDelivery implements this.                                           *)
(***************************************************************************)
EXTENDS Naturals

VARIABLES
    candidate,   \* the version put forward, 0 for none
    ready,       \* it has been prepared for a verdict
    proposed,    \* the versions put forward and not withdrawn
    inForce      \* the version approved last, 0 for none

gate == <<candidate, ready, proposed, inForce>>

GateInit == candidate = 0 /\ ready = FALSE /\ proposed = {} /\ inForce = 0

Propose ==
    /\ candidate = 0
    /\ candidate' \in Nat \ (proposed \cup {0})
    /\ ready' \in BOOLEAN
    /\ proposed' = proposed \cup {candidate'}
    /\ inForce' = inForce

\* Preparing ends, or begins again.
Prepare ==
    /\ candidate # 0
    /\ ready' = ~ready
    /\ UNCHANGED <<candidate, proposed, inForce>>

Judge ==
    /\ candidate # 0
    /\ ready
    /\ inForce' \in {candidate, inForce}
    /\ candidate' = 0
    /\ ready' = FALSE
    /\ proposed' = proposed

Withdraw ==
    /\ candidate # 0
    /\ proposed' = proposed \ {candidate}
    /\ candidate' = 0
    /\ ready' = FALSE
    /\ inForce' = inForce

\* The ground the work stood on has changed: nothing is in force any more.
Reopen ==
    /\ candidate' = 0
    /\ ready' = FALSE
    /\ inForce' = 0
    /\ proposed' = proposed

GateNext == Propose \/ Prepare \/ Judge \/ Withdraw \/ Reopen

GateSpec == GateInit /\ [][GateNext]_gate
=============================================================================
