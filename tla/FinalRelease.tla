---------------------------- MODULE FinalRelease ----------------------------
(***************************************************************************)
(* From accepted task results to a released final: service.py's            *)
(* queue_final_organization, dispatch_final_organization_once, aggregate,  *)
(* decide_approval, dispatch_all, _complete_delivery, recover_dispatcher   *)
(* and _supersede_pending_final, for several meetings in one database.     *)
(*                                                                         *)
(* One AgentWorker thread runs per meeting, the single-threaded web server *)
(* is one more thread and the Feishu dispatch loop another; a transaction  *)
(* is one action.  A builder (worker or console) reads the bundle, calls   *)
(* the organizer, reads the versions again and writes the final, each in a *)
(* step of its own: only the last is a transaction.  A courier (console or *)
(* Feishu loop) claims a release, sends it and completes it, until none is *)
(* left.  Threads stop in between and start again; only the workers and    *)
(* the Feishu loop run recover_dispatcher when they start.                 *)
(***************************************************************************)
EXTENDS Naturals, FiniteSets, TaskStatus

CONSTANTS
    Meetings,        \* episodes sharing the database
    Tasks,           \* their required action items
    MeetingOf,       \* [Tasks -> Meetings]
    Console,         \* the single-threaded web server
    Feishu,          \* the Feishu dispatch loop
    WorkerMode,      \* the workers' processing mode, "model" or "template"
    MaxVersions,     \* [Tasks -> Nat], bound on the versions of a task
    MaxFinals,       \* bound on the finals ever generated
    MaxAttempts,     \* policy.outbox_max_attempts
    MaxFaults        \* bound on the stops and failed sends

ASSUME ReleaseAssumption ==
    /\ Meetings # {}
    /\ MeetingOf \in [Tasks -> Meetings]
    /\ \A m \in Meetings : \E t \in Tasks : MeetingOf[t] = m
    /\ Console # Feishu /\ {Console, Feishu} \cap Meetings = {}
    /\ WorkerMode \in {"model", "template"}
    /\ MaxVersions \in [Tasks -> Nat]
    /\ {MaxFinals, MaxAttempts, MaxFaults} \subseteq Nat

Builders == Meetings \cup {Console}      \* a worker is named by its meeting
Couriers == {Console, Feishu}
FinalIds == 1 .. MaxFinals
Citations == [Tasks -> Nat]          \* a version of each task, 0 for none

VARIABLES
    taskStatus,   \* action_items.status
    valid,        \* current_valid_version_id, 0 for NULL
    newest,       \* the last version submitted
    reviewing,    \* a version waits for review
    meeting,      \* episodes.status
    current,      \* current_final_deliverable_id, 0 for NULL
    finals,       \* final_deliverables, status "NONE" for no row
    approval,     \* the FINAL_RELEASE approval of each final
    release,      \* the FINAL_RELEASE outbox row of each final
    received,     \* finals whose release the IM has accepted
    jobs,         \* the FINAL_ORGANIZATION outbox rows
    builder,      \* what each builder is doing
    courier,      \* what each courier is doing
    faults        \* stops and failed sends so far

tasks == <<taskStatus, valid, newest, reviewing>>
outgoing == <<approval, release, received>>
vars == <<tasks, meeting, current, finals, outgoing, jobs, builder, courier,
          faults>>

Final == [meeting : Meetings, mode : {"model", "template"},
          sections : Citations, lineage : Citations,
          status : {"NONE", "PENDING_APPROVAL", "APPROVED", "RELEASED",
                    "SUPERSEDED"}]
Job == [meeting : Meetings, sources : Citations, force : BOOLEAN,
        attempts : Nat,
        status : {"PENDING", "CLAIMED", "RETRY_WAIT", "DELIVERED",
                  "DEAD_LETTER"}]
Idle == [step |-> "idle"]
Down == [step |-> "down"]

\* The console organizes without a row of the outbox.
Organizing(rows) == [step : {"organizing"}, meeting : Meetings, job : rows,
                     sections : Citations]
ConsoleOrganizing == [step : {"organizing"}, meeting : Meetings,
                      sections : Citations]
Rendered(rows) == [step : {"rendered"}, meeting : Meetings, job : rows,
                   sections : Citations, lineage : Citations, revision : Nat]
Written == [step : {"written"}, job : Job]
Serving == [step : {"serving"}, meeting : Meetings]
Carrying == [step : {"claimed", "sent"}, meeting : Meetings, final : FinalIds]

WorkerStates ==
    {Idle, Down} \cup Organizing(Job) \cup Rendered(Job) \cup Written
ConsoleStates == {Idle} \cup ConsoleOrganizing \cup Rendered({{}})
CourierStates == {Idle, Down} \cup Serving \cup Carrying

TypeOK ==
    /\ taskStatus \in [Tasks -> Worked]
    /\ valid \in Citations /\ newest \in Citations
    /\ reviewing \in [Tasks -> BOOLEAN]
    /\ meeting \in [Meetings -> {"ACTIVE", "READY_FOR_FINAL_APPROVAL",
                                 "APPROVED", "ARCHIVED"}]
    /\ current \in [Meetings -> 0 .. MaxFinals]
    /\ finals \in [FinalIds -> Final]
    /\ approval \in [FinalIds -> {"NONE", "PENDING", "APPROVED", "REJECTED",
                                  "SUPERSEDED", "EXECUTED"}]
    /\ release \in [FinalIds -> {"NONE", "PENDING", "CLAIMED", "DELIVERED"}]
    /\ received \subseteq FinalIds
    /\ jobs \subseteq Job
    /\ DOMAIN builder = Builders
    /\ \A m \in Meetings : builder[m] \in WorkerStates
    /\ builder[Console] \in ConsoleStates
    /\ courier \in [Couriers -> CourierStates]
    /\ faults \in 0 .. MaxFaults

-----------------------------------------------------------------------------
Required(m) == {t \in Tasks : MeetingOf[t] = m}

\* _final_input_fingerprint and aggregation_source_bundle: the versions in
\* force of a meeting's required tasks.
Fingerprint(m) == [t \in Tasks |-> IF t \in Required(m) THEN valid[t] ELSE 0]

\* Mutation: a result that was delivered is taken for one that was accepted.
AllDelivered(m) ==
    \A t \in Required(m) : taskStatus[t] # "TRACKING" /\ newest[t] > 0

\* Every required task has an accepted result.  Versions become valid only by
\* review_artifact, which freezes that result.
Complete(m) ==
    \A t \in Required(m) :
        taskStatus[t] \in {"ACCEPTED", "AGGREGATED"} /\ valid[t] > 0

\* The web server answers one request at a time.
ConsoleIsFree == builder[Console] = Idle /\ courier[Console] = Idle

CurrentStatus(m) == IF current[m] = 0 THEN "NONE" ELSE finals[current[m]].status

Init ==
    /\ taskStatus = [t \in Tasks |-> "TRACKING"]
    /\ valid = [t \in Tasks |-> 0]
    /\ newest = [t \in Tasks |-> 0]
    /\ reviewing = [t \in Tasks |-> FALSE]
    /\ meeting = [m \in Meetings |-> "ACTIVE"]
    /\ current = [m \in Meetings |-> 0]
    /\ finals = [f \in FinalIds |->
                    [meeting |-> CHOOSE m \in Meetings : TRUE,
                     mode |-> "template", status |-> "NONE",
                     sections |-> [t \in Tasks |-> 0],
                     lineage |-> [t \in Tasks |-> 0]]]
    /\ approval = [f \in FinalIds |-> "NONE"]
    /\ release = [f \in FinalIds |-> "NONE"]
    /\ received = {}
    /\ jobs = {}
    /\ builder = [b \in Builders |-> IF b = Console THEN Idle ELSE Down]
    /\ courier = [c \in Couriers |-> Idle]
    /\ faults = 0

-----------------------------------------------------------------------------
(* Deliveries and reviews.                                                 *)

\* submit_artifact by the owner of a task that needs human acceptance, or
\* decide_contribution PROMOTE of a collaborator's version, which unlike the
\* former does not ask whether the meeting is archived.
Submit(t) ==
    /\ taskStatus[t] \in Submittable
    /\ ~reviewing[t]
    /\ newest[t] < MaxVersions[t]
    /\ newest' = [newest EXCEPT ![t] = @ + 1]
    /\ reviewing' = [reviewing EXCEPT ![t] = TRUE]
    /\ taskStatus' = [taskStatus EXCEPT ![t] = "PENDING_ACCEPTANCE"]
    /\ UNCHANGED <<valid, meeting, current, finals, outgoing, jobs, builder,
                   courier, faults>>

\* Mutation: an approved final is left alone.
SupersedableUnapproved(m) == CurrentStatus(m) = "PENDING_APPROVAL"

Supersedable(m) == CurrentStatus(m) \in {"PENDING_APPROVAL", "APPROVED"}

\* Mutation: the replaced final's approval stays open.
KeptApproval(f) == approval

\* The pending approval of a final that is superseded goes with it.
Withdrawn(f) ==
    [approval EXCEPT ![f] = IF @ = "PENDING" THEN "SUPERSEDED" ELSE @]

\* review_artifact, accept, with _supersede_pending_final: the version comes
\* into force and the current final, unless released, is superseded.
Accept(t) ==
    LET m == MeetingOf[t]
    IN  /\ reviewing[t]
        /\ reviewing' = [reviewing EXCEPT ![t] = FALSE]
        /\ valid' = [valid EXCEPT ![t] = newest[t]]
        /\ taskStatus' =
              [u \in Tasks |-> IF u = t \/ (/\ Supersedable(m)
                                            /\ MeetingOf[u] = m
                                            /\ taskStatus[u] = "AGGREGATED")
                               THEN "ACCEPTED" ELSE taskStatus[u]]
        /\ finals' = IF Supersedable(m)
                     THEN [finals EXCEPT ![current[m]].status = "SUPERSEDED"]
                     ELSE finals
        /\ approval' = IF Supersedable(m) THEN Withdrawn(current[m])
                       ELSE approval
        /\ UNCHANGED <<newest, meeting, current, release, received, jobs,
                       builder, courier, faults>>

\* review_artifact, reject: back to where the version in force leaves it.
Reject(t) ==
    LET m == MeetingOf[t]
        cited == /\ CurrentStatus(m) \notin {"NONE", "SUPERSEDED"}
                 /\ finals[current[m]].lineage[t] = valid[t]
    IN  /\ reviewing[t]
        /\ reviewing' = [reviewing EXCEPT ![t] = FALSE]
        /\ taskStatus' = [taskStatus EXCEPT ![t] =
                             IF valid[t] = 0 THEN "TRACKING"
                             ELSE IF cited THEN "AGGREGATED" ELSE "ACCEPTED"]
        /\ UNCHANGED <<valid, newest, meeting, current, finals, outgoing, jobs,
                       builder, courier, faults>>

-----------------------------------------------------------------------------
(* Organizing a final.                                                     *)

\* queue_final_organization: one row per bundle and mode, whatever became of
\* it, and none while a final of this mode waits for approval.
Queue(m) ==
    LET force == CurrentStatus(m) = "PENDING_APPROVAL"
    IN  /\ builder[m] = Idle
        /\ meeting[m] # "ARCHIVED"
        /\ Complete(m)
        /\ \/ CurrentStatus(m) \in {"NONE", "SUPERSEDED"}
           \/ force /\ finals[current[m]].mode # WorkerMode
        /\ \A j \in jobs : <<j.meeting, j.sources>> # <<m, Fingerprint(m)>>
        /\ jobs' = jobs \cup {[meeting |-> m, sources |-> Fingerprint(m),
                               force |-> force, attempts |-> 0,
                               status |-> "PENDING"]}
        /\ UNCHANGED <<tasks, meeting, current, finals, outgoing, builder,
                       courier, faults>>

Waiting == {j \in jobs : j.status \in {"PENDING", "RETRY_WAIT"}}

Marked(j, s, attempts) ==
    (jobs \ {j}) \cup {[j EXCEPT !.status = s, !.attempts = attempts]}

FailedStatus(attempts) ==
    IF attempts >= MaxAttempts THEN "DEAD_LETTER" ELSE "RETRY_WAIT"

\* dispatch_final_organization_once up to the organizer: any waiting row of
\* the database may be first in line, and one whose fingerprint is not that
\* of the worker's own meeting is closed as obsolete.  Then aggregate returns
\* the current final, refuses, or reads the bundle and calls the organizer.
Discard(m, j) ==
    /\ builder[m] = Idle
    /\ j.sources # Fingerprint(m)
    /\ jobs' = Marked(j, "DELIVERED", j.attempts + 1)
    /\ UNCHANGED <<tasks, meeting, current, finals, outgoing, builder,
                   courier, faults>>

Start(m, j) ==
    LET kept == CurrentStatus(m) \notin {"NONE", "SUPERSEDED"} /\ ~j.force
        refused == \/ j.force /\ CurrentStatus(m) # "PENDING_APPROVAL"
                   \/ ~Complete(m)
    IN  /\ builder[m] = Idle
        /\ j.sources = Fingerprint(m)
        /\ \/ /\ kept
              /\ jobs' = Marked(j, "DELIVERED", j.attempts + 1)
              /\ builder' = builder
           \/ /\ ~kept /\ refused
              /\ jobs' = Marked(j, FailedStatus(j.attempts + 1), j.attempts + 1)
              /\ builder' = builder
           \/ /\ ~kept /\ ~refused
              /\ jobs' = Marked(j, "CLAIMED", j.attempts + 1)
              /\ builder' = [builder EXCEPT ![m] =
                                [step |-> "organizing", meeting |-> m,
                                 job |-> [j EXCEPT !.status = "CLAIMED",
                                                   !.attempts = @ + 1],
                                 sections |-> Fingerprint(m)]]
        /\ UNCHANGED <<tasks, meeting, current, finals, outgoing, courier,
                       faults>>

\* The web route final_generate: it refuses while a required task is
\* outstanding, organizes with the local template unless there is a final
\* already, and ends in dispatch_all.
ConsoleGenerates(m) ==
    LET kept == CurrentStatus(m) \notin {"NONE", "SUPERSEDED"}
    IN  /\ ConsoleIsFree
        /\ \A t \in Required(m) :
              taskStatus[t] \in {"ACCEPTED", "AGGREGATED", "ARCHIVED"}
        /\ \/ /\ kept
              /\ courier' = [courier EXCEPT ![Console] =
                                [step |-> "serving", meeting |-> m]]
              /\ builder' = builder
           \/ /\ ~kept /\ Complete(m)
              /\ builder' = [builder EXCEPT ![Console] =
                                [step |-> "organizing", meeting |-> m,
                                 sections |-> Fingerprint(m)]]
              /\ courier' = courier
        /\ UNCHANGED <<tasks, meeting, current, finals, outgoing, jobs, faults>>

\* COALESCE(MAX(revision_no), 0) + 1
NextRevision(m) ==
    1 + Cardinality({f \in FinalIds : /\ finals[f].meeting = m
                                      /\ finals[f].status # "NONE"})

\* The organizer has answered: aggregate reads the versions in force again,
\* for the lineage, and the next revision number.
Render(b) ==
    LET m == builder[b].meeting
    IN  /\ builder[b].step = "organizing"
        /\ builder' = [builder EXCEPT ![b] =
               [step |-> "rendered", meeting |-> m,
                sections |-> builder[b].sections, lineage |-> Fingerprint(m),
                revision |-> NextRevision(m),
                job |-> IF b = Console THEN {} ELSE builder[b].job]]
        /\ UNCHANGED <<tasks, meeting, current, finals, outgoing, jobs,
                       courier, faults>>

\* Mutation: a final already released is superseded like any other.
Replaced(f) == [finals EXCEPT ![f].status = "SUPERSEDED"]

\* The final that is replaced, unless it has been released.
Superseded(f) ==
    [finals EXCEPT ![f].status = IF @ = "RELEASED" THEN @ ELSE "SUPERSEDED"]

\* aggregate's transaction: it looks again at what it replaces, not at the
\* tasks, which all become AGGREGATED.  Revision numbers are unique.
Write(b) ==
    LET m == builder[b].meeting
        prev == current[m]
        new == [meeting |-> m, status |-> "PENDING_APPROVAL",
                mode |-> IF b = Console THEN "template" ELSE WorkerMode,
                sections |-> builder[b].sections,
                lineage |-> builder[b].lineage]
    IN  /\ builder[b].step = "rendered"
        /\ builder[b].revision = NextRevision(m)
        /\ \E f \in FinalIds :
              /\ {g \in FinalIds : finals[g].status # "NONE"} = 1 .. f - 1
              /\ finals' = [IF prev = 0 THEN finals ELSE Superseded(prev)
                               EXCEPT ![f] = new]
              /\ approval' = [IF prev = 0 THEN approval ELSE Withdrawn(prev)
                                 EXCEPT ![f] = "PENDING"]
              /\ current' = [current EXCEPT ![m] = f]
        /\ taskStatus' = [t \in Tasks |-> IF t \in Required(m)
                                          THEN "AGGREGATED"
                                          ELSE taskStatus[t]]
        /\ meeting' = [meeting EXCEPT ![m] = "READY_FOR_FINAL_APPROVAL"]
        /\ IF b = Console
           THEN /\ builder' = [builder EXCEPT ![b] = Idle]
                /\ courier' = [courier EXCEPT ![b] =
                                  [step |-> "serving", meeting |-> m]]
           ELSE /\ builder' = [builder EXCEPT ![b] =
                                  [step |-> "written", job |-> builder[b].job]]
                /\ courier' = courier
        /\ UNCHANGED <<valid, newest, reviewing, release, received, jobs,
                       faults>>

\* The console's INSERT meets the revision number it meant to use: the
\* request fails.
ConsoleCollides ==
    /\ builder[Console].step = "rendered"
    /\ builder[Console].revision # NextRevision(builder[Console].meeting)
    /\ builder' = [builder EXCEPT ![Console] = Idle]
    /\ UNCHANGED <<tasks, meeting, current, finals, outgoing, jobs, courier,
                   faults>>

\* The job row a worker holds, which another session may have reclaimed.
Held(m) == CHOOSE j \in jobs : /\ j.meeting = builder[m].job.meeting
                               /\ j.sources = builder[m].job.sources

\* The organizer raised or its report was refused, or the revision number was
\* taken by the console in the meantime.
OrganizerFails(m) ==
    LET n == builder[m].job.attempts
    IN  /\ \/ builder[m].step = "organizing"
           \/ /\ builder[m].step = "rendered"
              /\ builder[m].revision # NextRevision(builder[m].meeting)
        /\ jobs' = Marked(Held(m), FailedStatus(n), Held(m).attempts)
        /\ builder' = [builder EXCEPT ![m] = Idle]
        /\ UNCHANGED <<tasks, meeting, current, finals, outgoing, courier,
                       faults>>

\* The last transaction of dispatch_final_organization_once.
Settle(m) ==
    /\ builder[m].step = "written"
    /\ jobs' = Marked(Held(m), "DELIVERED", Held(m).attempts)
    /\ builder' = [builder EXCEPT ![m] = Idle]
    /\ UNCHANGED <<tasks, meeting, current, finals, outgoing, courier, faults>>

-----------------------------------------------------------------------------
(* Deciding and releasing a final.                                         *)

\* decide_approval, approve: the final must be current, pending, and cite
\* exactly the versions in force, all of them aggregated.
Approve(f) ==
    LET m == finals[f].meeting
    IN  /\ approval[f] = "PENDING"
        /\ current[m] = f
        /\ finals[f].status = "PENDING_APPROVAL"
        /\ \A t \in Required(m) : taskStatus[t] = "AGGREGATED" /\ valid[t] > 0
        /\ finals[f].sections = Fingerprint(m)
        /\ finals[f].lineage = Fingerprint(m)
        /\ approval' = [approval EXCEPT ![f] = "APPROVED"]
        /\ release' = [release EXCEPT ![f] = "PENDING"]
        /\ finals' = [finals EXCEPT ![f].status = "APPROVED"]
        /\ meeting' = [meeting EXCEPT ![m] = "APPROVED"]
        /\ UNCHANGED <<tasks, current, received, jobs, builder, faults>>

\* decide_approval, reject: the final itself stays PENDING_APPROVAL.
Refuse(f) ==
    /\ approval[f] = "PENDING"
    /\ approval' = [approval EXCEPT ![f] = "REJECTED"]
    /\ UNCHANGED <<tasks, meeting, current, finals, release, received, jobs,
                   builder, faults>>

\* The web route of an approval ends in dispatch_all for the same meeting.
Decide(f) ==
    /\ ConsoleIsFree
    /\ Approve(f) \/ Refuse(f)
    /\ courier' = [courier EXCEPT ![Console] =
                      [step |-> "serving", meeting |-> finals[f].meeting]]

\* A tick of the Feishu loop comes to the meeting m.
FeishuServes(m) ==
    /\ courier[Feishu] = Idle
    /\ courier' = [courier EXCEPT ![Feishu] =
                      [step |-> "serving", meeting |-> m]]
    /\ UNCHANGED <<tasks, meeting, current, finals, outgoing, jobs, builder,
                   faults>>

\* dispatch_all, for the meeting its caller serves, until it finds nothing:
\* the claim is a conditional UPDATE over the releases of every meeting.
Claim(c, f) ==
    /\ courier[c].step = "serving"
    /\ release[f] = "PENDING"
    /\ release' = [release EXCEPT ![f] = "CLAIMED"]
    /\ courier' = [courier EXCEPT ![c] =
                      [step |-> "claimed", meeting |-> courier[c].meeting,
                       final |-> f]]
    /\ UNCHANGED <<tasks, meeting, current, finals, approval, received, jobs,
                   builder, faults>>

NothingToClaim(c) ==
    /\ courier[c].step = "serving"
    /\ \A f \in FinalIds : release[f] # "PENDING"
    /\ courier' = [courier EXCEPT ![c] = Idle]
    /\ UNCHANGED <<tasks, meeting, current, finals, outgoing, jobs, builder,
                   faults>>

\* im.send: the effect id makes a second send of the same release a no-op.
Send(c) ==
    /\ courier[c].step = "claimed"
    /\ received' = received \cup {courier[c].final}
    /\ courier' = [courier EXCEPT ![c].step = "sent"]
    /\ UNCHANGED <<tasks, meeting, current, finals, approval, release, jobs,
                   builder, faults>>

\* Mutation: the approval is not marked executed.
StillApproved(f) == approval

Executed(f) ==
    [approval EXCEPT ![f] = IF @ = "APPROVED" THEN "EXECUTED" ELSE @]

\* _complete_delivery: the row is DELIVERED whoever holds it by now; the first
\* completion executes the approval, releases the final and archives the
\* meeting the courier was serving.
CompleteDelivery(c) ==
    LET f == courier[c].final
        m == courier[c].meeting
        first == approval[f] = "APPROVED"
    IN  /\ courier[c].step = "sent"
        /\ release' = [release EXCEPT ![f] = "DELIVERED"]
        /\ approval' = Executed(f)
        /\ finals' = IF first THEN [finals EXCEPT ![f].status = "RELEASED"]
                     ELSE finals
        /\ taskStatus' = [t \in Tasks |->
                             IF /\ first
                                /\ t \in Required(m)
                                /\ taskStatus[t] = "AGGREGATED"
                             THEN "ARCHIVED" ELSE taskStatus[t]]
        /\ meeting' = IF first THEN [meeting EXCEPT ![m] = "ARCHIVED"]
                      ELSE meeting
        /\ courier' = [courier EXCEPT ![c] = [step |-> "serving", meeting |-> m]]
        /\ UNCHANGED <<valid, newest, reviewing, current, received, jobs,
                       builder, faults>>

-----------------------------------------------------------------------------
(* Faults and recovery.                                                    *)

\* im.send raises, for this release (whose row stays CLAIMED) or for another
\* message of the outbox: the request or the tick ends.
SendFails(c) ==
    /\ courier[c].step \in {"serving", "claimed"}
    /\ faults < MaxFaults
    /\ faults' = faults + 1
    /\ courier' = [courier EXCEPT ![c] = Idle]
    /\ UNCHANGED <<tasks, meeting, current, finals, outgoing, jobs, builder>>

\* A thread dies with its process between two transactions.  The console
\* starts again with nothing to recover.
CourierStops(c) ==
    /\ courier[c].step \in {"serving", "claimed", "sent"}
    /\ faults < MaxFaults
    /\ faults' = faults + 1
    /\ courier' = [courier EXCEPT ![c] = IF c = Console THEN Idle ELSE Down]
    /\ UNCHANGED <<tasks, meeting, current, finals, outgoing, jobs, builder>>

BuilderStops(b) ==
    /\ builder[b].step \in {"organizing", "rendered", "written"}
    /\ faults < MaxFaults
    /\ faults' = faults + 1
    /\ builder' = [builder EXCEPT ![b] = IF b = Console THEN Idle ELSE Down]
    /\ UNCHANGED <<tasks, meeting, current, finals, outgoing, jobs, courier>>

\* Mutation: what has been delivered is put back in the queue too.
RequeuedAll ==
    [f \in FinalIds |-> IF release[f] = "NONE" THEN "NONE" ELSE "PENDING"]

Requeued ==
    [f \in FinalIds |-> IF release[f] = "CLAIMED" THEN "PENDING" ELSE release[f]]

\* recover_dispatcher: every row another session holds is taken from it,
\* whether or not that session is alive, and a starting session holds none.
Recover ==
    /\ release' = Requeued
    /\ jobs' = {IF j.status = "CLAIMED" THEN [j EXCEPT !.status = "PENDING"]
                ELSE j : j \in jobs}
    /\ UNCHANGED <<tasks, meeting, current, finals, approval, received, faults>>

WorkerStarts(m) ==
    /\ builder[m] = Down
    /\ builder' = [builder EXCEPT ![m] = Idle]
    /\ courier' = courier
    /\ Recover

FeishuStarts ==
    /\ courier[Feishu] = Down
    /\ courier' = [courier EXCEPT ![Feishu] = Idle]
    /\ builder' = builder
    /\ Recover

-----------------------------------------------------------------------------
Work(t) == ConsoleIsFree /\ (Submit(t) \/ Accept(t) \/ Reject(t))

Organize(m) ==
    \/ Queue(m) \/ OrganizerFails(m) \/ Settle(m) \/ WorkerStarts(m)
    \/ \E j \in Waiting : Discard(m, j) \/ Start(m, j)

Deliver(c) ==
    \/ \E f \in FinalIds : Claim(c, f)
    \/ NothingToClaim(c) \/ Send(c) \/ CompleteDelivery(c) \/ SendFails(c) \/ CourierStops(c)

Next ==
    \/ \E t \in Tasks : Work(t)
    \/ \E m \in Meetings :
          Organize(m) \/ ConsoleGenerates(m) \/ FeishuServes(m)
    \/ ConsoleCollides
    \/ \E b \in Builders : Render(b) \/ Write(b) \/ BuilderStops(b)
    \/ \E f \in FinalIds : Decide(f)
    \/ \E c \in Couriers : Deliver(c)
    \/ FeishuStarts

Spec == Init /\ [][Next]_vars

-----------------------------------------------------------------------------
\* The coordinator never finds two finals of a meeting waiting: an approval
\* that is PENDING is for the current final, which is itself pending, however
\* the console, the worker and a review raced (aggregate,
\* _supersede_pending_final).
PendingApprovalIsCurrent ==
    \A f \in FinalIds : approval[f] = "PENDING" =>
        /\ current[finals[f].meeting] = f
        /\ finals[f].status = "PENDING_APPROVAL"

\* Nobody is told of a release that was not approved, and an approval that was
\* acted on is never taken back (decide_approval, dispatch_all).
SentWasApproved ==
    \A f \in received : approval[f] \in {"APPROVED", "EXECUTED"}

\* A final stays approved only while it cites the versions in force: a newer
\* accepted version, or a newer final, takes the approval's effect away from
\* it before the next decision (_supersede_pending_final, aggregate).
ApprovedFinalIsInForce ==
    \A f \in FinalIds : finals[f].status = "APPROVED" =>
        /\ current[finals[f].meeting] = f
        /\ finals[f].lineage = Fingerprint(finals[f].meeting)
        /\ finals[f].sections = finals[f].lineage

\* The approval, the final and the outbox row agree on what has been released,
\* through crashes, stolen claims and second deliveries (_complete_delivery,
\* recover_dispatcher).
ReleaseIsAgreed ==
    \A f \in FinalIds :
        /\ finals[f].status = "RELEASED" <=> approval[f] = "EXECUTED"
        /\ release[f] = "DELIVERED" <=> approval[f] = "EXECUTED"
        /\ release[f] = "DELIVERED" => f \in received

\* A released final is never replaced, even by a worker that began before the
\* release (aggregate).
ReleasedStaysReleased ==
    [][\A f \in FinalIds : finals[f].status = "RELEASED" =>
           finals'[f].status = "RELEASED"]_vars

\* The finals of a meeting are proposed, agreed to and released as
\* DocumentRelease promises the coordinator, whoever organizes, decides and
\* sends at the same time (aggregate, decide_approval, _complete_delivery).
Promise == INSTANCE DocumentRelease WITH
    Documents <- FinalIds,
    known <- {f \in FinalIds : finals[f].status # "NONE"},
    waiting <- [m \in Meetings |-> {f \in FinalIds :
                   finals[f].meeting = m /\ approval[f] = "PENDING"}],
    agreed <- {f \in FinalIds : approval[f] \in {"APPROVED", "EXECUTED"}},
    told <- received,
    out <- {f \in FinalIds : finals[f].status = "RELEASED"}

ImplementsRelease == Promise!DocSpec

\* Every task moves as TaskLifecycle says, whoever organizes, replaces and
\* releases the final it is part of.
Life(t) == INSTANCE TaskLifecycle WITH
    status <- taskStatus[t],
    waiting <- reviewing[t],
    inForce <- valid[t],
    approved <- valid[t] > 0

TasksFollowLifecycle ==
    /\ \A t \in Tasks : Life(t)!LifeInit
    /\ [][\A t \in Tasks : [Life(t)!LifeNext]_(Life(t)!life)]_vars
=============================================================================
