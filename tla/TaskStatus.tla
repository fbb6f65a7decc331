----------------------------- MODULE TaskStatus -----------------------------
(***************************************************************************)
(* The status a task in work has, and the ways from one to another: what   *)
(* the hand-over commands, the delivery commands and the final of the      *)
(* meeting, which all write action_items.status, expect of one another.    *)
(***************************************************************************)

\* A task that may be delivered, for the first time or again.
Submittable == {"TRACKING", "ACCEPTED", "AGGREGATED"}

Worked == Submittable \cup {"PENDING_ACCEPTANCE", "ARCHIVED"}

\* What the delivery and release commands may make of a status.  An upstream
\* result, a rejected delivery and a worker that writes the final late may
\* each come at any time, even to a task that was archived; what waits for
\* acceptance was submitted, what is accepted was delivered, and only what a
\* final contains is archived.
WorkMove(s, t) ==
    /\ s \in Worked
    /\ t \in Worked \ {s}
    /\ t = "PENDING_ACCEPTANCE" => s \in Submittable
    /\ t = "ACCEPTED" => s # "TRACKING"
    /\ t = "ARCHIVED" => s = "AGGREGATED"
=============================================================================
