--------------------------- MODULE TaskLifecycle ---------------------------
(***************************************************************************)
(* What becomes of one task in work, as everybody who looks at the board   *)
(* may rely on it: it waits for acceptance only while a result of it does, *)
(* it goes back to where its result in force leaves it when a delivery is  *)
(* turned down, and it is part of a final, or archived with one, only if a *)
(* result of it has been approved.                                         *)
(* TaskDelivery implements this for the task it follows and FinalRelease   *)
(* for every task of its meetings.                                         *)
(***************************************************************************)
EXTENDS Naturals, TaskStatus

VARIABLES
    status,     \* what the board shows
    waiting,    \* a result waits for its verdict
    inForce,    \* the result approved last, 0 for none
    approved    \* a result has been approved, now or earlier

life == <<status, waiting, inForce, approved>>

LifeInit ==
    /\ status = "TRACKING"
    /\ waiting = FALSE
    /\ inForce = 0
    /\ approved = FALSE

\* Where the result in force leaves the task.
Standing == IF inForce = 0 THEN {"TRACKING"} ELSE {"ACCEPTED", "AGGREGATED"}

PutForward ==
    /\ status \in Submittable
    /\ ~waiting
    /\ status' = "PENDING_ACCEPTANCE"
    /\ waiting' = TRUE
    /\ UNCHANGED <<inForce, approved>>

Approve ==
    /\ waiting
    /\ status' = "ACCEPTED"
    /\ waiting' = FALSE
    /\ inForce' \in Nat \ {0, inForce}
    /\ approved' = TRUE

\* Rejected or withdrawn.  A final may have been written over the task, or
\* archived with it, while the result waited: a withdrawal leaves that alone.
TurnDown ==
    /\ waiting
    /\ \/ status' \in Standing
       \/ status # "PENDING_ACCEPTANCE" /\ status' = status
    /\ waiting' = FALSE
    /\ UNCHANGED <<inForce, approved>>

\* A delivery that fails its check, with nothing in force to fall back on.
Fail ==
    /\ status \in Submittable
    /\ ~waiting
    /\ inForce = 0
    /\ status' = "TRACKING"
    /\ UNCHANGED <<waiting, inForce, approved>>

\* A final contains the task; it may come late, whatever the task is by then.
Include ==
    /\ approved
    /\ status' = "AGGREGATED"
    /\ UNCHANGED <<waiting, inForce, approved>>

\* The final is superseded, or released.
LeaveFinal ==
    /\ status = "AGGREGATED"
    /\ status' \in {"ACCEPTED", "ARCHIVED"}
    /\ UNCHANGED <<waiting, inForce, approved>>

\* The ground the work stood on has changed.
Reopen ==
    /\ status' = "TRACKING"
    /\ waiting' = FALSE
    /\ inForce' = 0
    /\ approved' = approved

LifeNext ==
    PutForward \/ Approve \/ TurnDown \/ Fail \/ Include \/ LeaveFinal \/ Reopen

LifeSpec == LifeInit /\ [][LifeNext]_life

\* What the steps keep: the board shows a task as waiting only when something
\* waits, as open only when nothing does, and as done only when something was
\* approved.
BoardIsRight ==
    /\ status \in Worked
    /\ status = "PENDING_ACCEPTANCE" => waiting
    /\ status = "TRACKING" => ~waiting
    /\ status \in {"ACCEPTED", "AGGREGATED", "ARCHIVED"} => approved
    /\ inForce # 0 => approved
=============================================================================
