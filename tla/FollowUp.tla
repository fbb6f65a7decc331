------------------------------ MODULE FollowUp ------------------------------
(***************************************************************************)
(* How a meeting follows up on its tasks: scheduler.py's tick with         *)
(* service.py's advance_time, evaluate_policy and _plan_intervention, and  *)
(* what people do meanwhile: publish_action, ignore_action, claim_action   *)
(* and, when somebody was named at once, confirm_action and reject_action; *)
(* record_progress_signal, update_progress, revise_personal_commitment,    *)
(* request_assistance, update_assistance, and what submit_artifact and     *)
(* review_artifact change of what the policy reads.                        *)
(*                                                                         *)
(* The meeting's clock stands still between ticks, and everything anybody  *)
(* does is dated by it.  A tick is a thread beside the web server's: it    *)
(* advances the clock in one transaction, reads the rows of all tasks, and *)
(* then for each looks at the other tables and plans in a transaction of   *)
(* its own; requests run between any two of these.  Another process that   *)
(* starts catches the clock up as well, and the scheduler's process may    *)
(* stop anywhere.                                                          *)
(*                                                                         *)
(* Time is in a unit the hours of the policy are multiples of; a task was  *)
(* created at 0.  Who asks for help and who gives it is left out: either   *)
(* may bring a request to an end.  So are signals of collaborators, which  *)
(* are recorded as the owner's are.                                        *)
(***************************************************************************)
EXTENDS Naturals, Sequences, FiniteSets

CONSTANTS
    Tasks,           \* the action_items of the meeting
    People,          \* who owns them
    NoOwner,         \* the owner of a task that may be claimed
    Promises,        \* the deadlines people promise
    Validities,      \* how long people say a report holds
    MaxTime,         \* bound on the time that passes
    MaxRevisions,    \* bound on the commitment revisions of one task
    Day,             \* the length of a day
    ConfirmTimeout,  \* policy: confirmation_timeout_hours
    CheckInLead,     \* check_in_lead_hours
    Silence,         \* silence_window_hours
    Cooldown,        \* inquiry_cooldown_hours
    L2Wait,          \* l2_wait_hours
    SignalTtl,       \* signal_default_ttl_hours
    TouchBudget,     \* daily_touch_budget
    MaxVersions      \* bound on the versions submitted for one task

ASSUME FollowUpAssumption ==
    /\ NoOwner \notin People
    /\ Promises \subseteq Nat
    /\ Validities \subseteq Nat \ {0}
    /\ {Day, Cooldown, SignalTtl} \subseteq Nat \ {0}
    /\ {ConfirmTimeout, CheckInLead, Silence, L2Wait, TouchBudget,
        MaxTime, MaxRevisions, MaxVersions} \subseteq Nat

VARIABLES
    now,       \* episodes.current_sim_time
    task,      \* the row of each task, with its active commitment
    latest,    \* the latest artifact version of each task and its state
    help,      \* the unresolved assistance request of each task
    touches,   \* interventions
    tick       \* what the scheduler is doing

work == <<task, latest, help>>
vars == <<work, now, touches, tick>>

Idle == [step |-> "idle"]
Down == [step |-> "down"]

\* In a row, revision and deadline are those of the active commitment, at and
\* until the last owner signal and its validity, valid that
\* current_valid_version_id is set, claimable that published_sim_time is and
\* owner_actor_id is not.
Row == [status : {"PENDING_CONFIRMATION", "REJECTED", "TRACKING",
                  "PENDING_ACCEPTANCE", "ACCEPTED"},
        owner : People \cup {NoOwner}, claimable : BOOLEAN, revision : Nat,
        deadline : Nat, at : Nat, until : Nat, valid : BOOLEAN]

Effects == [task : Tasks, level : {"L1", "L2"},
            kind : {"CONFIRMATION_REMINDER", "REWORK_REQUEST", "PROGRESS_INQUIRY"},
            key : Seq(Nat)]

TypeOK ==
    /\ now \in Nat
    /\ task \in [Tasks -> Row]
    /\ latest \in [Tasks -> [no : Nat, state : {"NONE", "PENDING", "FAILED",
                                              "ACCEPTED", "REJECTED"}]]
    /\ help \in [Tasks -> {"NONE", "OPEN", "ACKNOWLEDGED"}]
    /\ touches \subseteq [effect : Effects, at : Nat, to : People \cup {NoOwner},
                          heard : Nat, status : {"PLANNED", "DELIVERED"}]
    /\ \/ tick \in {Idle, Down, [step |-> "advanced"]}
       \/ \E S \in SUBSET Tasks :
             tick \in [step : {"evaluating"}, time : Nat, plan : SUBSET Effects,
                      seen : [S -> Row]]

\* A task is proposed to somebody, or to whoever will claim it.
Init ==
    /\ now = 0
    /\ \E named \in [Tasks -> People \cup {NoOwner}] :
          task = [t \in Tasks |->
                    [status |-> "PENDING_CONFIRMATION", owner |-> named[t],
                     claimable |-> FALSE, revision |-> 0, deadline |-> 0,
                     at |-> 0, until |-> 0, valid |-> FALSE]]
    /\ latest = [t \in Tasks |-> [no |-> 0, state |-> "NONE"]]
    /\ help = [t \in Tasks |-> "NONE"]
    /\ touches = {}
    /\ tick = Idle

-----------------------------------------------------------------------------
(* What people do.  Each is dated now, whatever time it is.                *)

Tracking(t) == task[t].status = "TRACKING"

\* _record_owner_signal: a signal now, good until the time given, or for the
\* policy's time.
Signalled(row, until) == [row EXCEPT !.at = now, !.until = until]
Signal(row) == Signalled(row, now + SignalTtl)

\* A commitment_revision is inserted and is the active one.
Promised(row, promise) ==
    [row EXCEPT !.revision = @ + 1, !.deadline = promise]

Unclaimed(t) ==
    task[t].owner = NoOwner /\ task[t].status = "PENDING_CONFIRMATION"

\* publish_action
Publish(t) ==
    /\ Unclaimed(t)
    /\ task' = [task EXCEPT ![t].claimable = TRUE]
    /\ UNCHANGED <<latest, help>>

\* ignore_action; that the task was published is neither looked at nor undone.
Ignore(t) ==
    /\ Unclaimed(t)
    /\ task' = [task EXCEPT ![t].status = "REJECTED"]
    /\ UNCHANGED <<latest, help>>

\* claim_action: a published task goes to the first who promises a time, and
\* that it was ignored meanwhile is not looked at.
Claim(t, p, promise) ==
    /\ task[t].claimable
    /\ promise > now
    /\ task' = [task EXCEPT
                   ![t] = [Promised(Signal(@), promise) EXCEPT
                              !.owner = p, !.claimable = FALSE,
                              !.status = "TRACKING"]]
    /\ UNCHANGED <<latest, help>>

\* confirm_action looks at the owner and not at the status: it confirms, and
\* later it revises, whatever has become of the task.
Confirm(t, promise) ==
    /\ task[t].owner # NoOwner
    /\ task[t].revision < MaxRevisions
    /\ task' = [task EXCEPT
                   ![t] = [Promised(Signal(@), promise) EXCEPT
                              !.status = "TRACKING"]]
    /\ UNCHANGED <<latest, help>>

\* reject_action
Reject(t) ==
    /\ task[t].owner # NoOwner
    /\ task[t].status = "PENDING_CONFIRMATION"
    /\ task' = [task EXCEPT ![t].status = "REJECTED"]
    /\ UNCHANGED <<latest, help>>

\* record_progress_signal, update_progress; the sender may say for how long.
Report(t, until) ==
    /\ Tracking(t)
    /\ task' = [task EXCEPT ![t] = Signalled(@, until)]
    /\ UNCHANGED <<latest, help>>

\* revise_personal_commitment
Revise(t, promise) ==
    /\ task[t].status \in {"TRACKING", "PENDING_ACCEPTANCE"}
    /\ task[t].revision \in 1 .. MaxRevisions - 1
    /\ promise > now
    /\ task' = [task EXCEPT ![t] = Promised(Signal(@), promise)]
    /\ UNCHANGED <<latest, help>>

\* request_assistance: one unresolved request a task.
RequestHelp(t) ==
    /\ Tracking(t)
    /\ help[t] = "NONE"
    /\ help' = [help EXCEPT ![t] = "OPEN"]
    /\ task' = [task EXCEPT ![t] = Signal(@)]
    /\ UNCHANGED latest

\* update_assistance, ACKNOWLEDGE
TakeUpHelp(t) ==
    /\ help[t] = "OPEN"
    /\ help' = [help EXCEPT ![t] = "ACKNOWLEDGED"]
    /\ UNCHANGED <<task, latest>>

\* update_assistance, RESOLVE or CANCEL
EndHelp(t) ==
    /\ help[t] # "NONE"
    /\ help' = [help EXCEPT ![t] = "NONE"]
    /\ UNCHANGED <<task, latest>>

\* submit_artifact by the owner, for acceptance
Submit(t, passed) ==
    /\ task[t].status \in {"TRACKING", "ACCEPTED"}
    /\ latest[t].no < MaxVersions
    /\ latest' = [latest EXCEPT
                     ![t] = [no |-> @.no + 1,
                             state |-> IF passed THEN "PENDING" ELSE "FAILED"]]
    /\ task' = [task EXCEPT
                   ![t] = IF passed
                          THEN [Signal(@) EXCEPT !.status = "PENDING_ACCEPTANCE"]
                          ELSE Signal(@)]
    /\ UNCHANGED help

\* review_artifact, once the processing has settled
Review(t, approve) ==
    /\ latest[t].state = "PENDING"
    /\ latest' = [latest EXCEPT
                     ![t].state = IF approve THEN "ACCEPTED" ELSE "REJECTED"]
    /\ task' = [task EXCEPT
                   ![t].valid = @ \/ approve,
                   ![t].status = IF approve \/ task[t].valid THEN "ACCEPTED"
                                 ELSE "TRACKING"]
    /\ UNCHANGED help

Request(t) ==
    /\ \/ Publish(t) \/ Ignore(t)
       \/ \E promise \in Promises :
             \/ Confirm(t, promise) \/ Revise(t, promise)
             \/ \E p \in People : Claim(t, p, promise)
       \/ Reject(t)
       \/ \E length \in Validities : Report(t, now + length)
       \/ RequestHelp(t) \/ TakeUpHelp(t) \/ EndHelp(t)
       \/ \E yes \in BOOLEAN : Submit(t, yes) \/ Review(t, yes)
    /\ UNCHANGED <<now, touches, tick>>

-----------------------------------------------------------------------------
(* The policy.  An effect is known by its task, its type and its trigger    *)
(* key: two calls for the same effect are one intervention.                *)

Effect(t, level, kind, key) ==
    [task |-> t, level |-> level, kind |-> kind, key |-> key]

Reminder(t) == Effect(t, "L1", "CONFIRMATION_REMINDER", <<ConfirmTimeout>>)
Rework(t) == Effect(t, "L1", "REWORK_REQUEST", <<latest[t].no>>)
Inquiry(t, row) ==
    Effect(t, "L1", "PROGRESS_INQUIRY", <<row.at, row.revision>>)
Escalation(t, row) ==
    Effect(t, "L2", "PROGRESS_INQUIRY", <<row.deadline, row.revision>>)

Inquiries(t, level) ==
    {i \in touches : /\ i.effect.task = t
                     /\ i.effect.kind = "PROGRESS_INQUIRY"
                     /\ i.effect.level = level}

\* ORDER BY created_sim_time DESC LIMIT 1, as a set of one or none.
Last(S) == {i \in S : \A j \in S : j.at <= i.at}

\* The owner has spoken since the inquiry was created.
Answered(row, i) == row.at > i.at

\* The row has gone quiet near its deadline or past it.
Quiet(row, time) ==
    /\ row.revision > 0
    /\ time + CheckInLead >= row.deadline
    /\ time >= row.until
    /\ time >= row.at + Silence

\* Nothing is delivered, and nobody is asked for help.
Open(t, row) ==
    /\ row.status = "TRACKING" /\ ~row.valid
    /\ latest[t].state \notin {"PENDING", "FAILED"}
    /\ help[t] = "NONE"

\* Mutation: who has been asked once is never asked again.
AskOnce(t, row, time) == Inquiries(t, "L1") = {}

\* The first inquiry, or the next one: after an answer, and a pause.
MayAsk(t, row, time) ==
    \A i \in Last(Inquiries(t, "L1")) :
        Answered(row, i) /\ time >= i.at + Cooldown

\* Mutation: it is not looked at whether the inquiry has arrived.
EscalateUnheard(t, row, time) ==
    /\ Inquiries(t, "L2") = {}
    /\ time > row.deadline
    /\ \E i \in Last(Inquiries(t, "L1")) :
          ~Answered(row, i) /\ time >= i.at + L2Wait

\* Overdue, and an inquiry that arrived has gone without an answer.
MayEscalate(t, row, time) ==
    /\ Inquiries(t, "L2") = {}
    /\ time > row.deadline
    /\ \E i \in Last(Inquiries(t, "L1")) :
          i.status = "DELIVERED" /\ ~Answered(row, i) /\ time >= i.at + L2Wait

\* evaluate_policy on one task: the row is the tick's, the other tables are
\* read as they are now.  At most one effect is due.
Due(t, row, time) ==
    {e \in {Reminder(t), Rework(t), Inquiry(t, row), Escalation(t, row)} :
        \/ /\ e = Reminder(t)
           /\ row.status = "PENDING_CONFIRMATION"
           /\ time >= ConfirmTimeout
        \/ /\ e = Rework(t)
           /\ row.status = "TRACKING" /\ ~row.valid
           /\ latest[t].state = "FAILED"
        \/ /\ Open(t, row) /\ Quiet(row, time)
           /\ \/ e = Inquiry(t, row) /\ MayAsk(t, row, time)
              \/ e = Escalation(t, row) /\ MayEscalate(t, row, time)}

\* Mutation: only what arrived counts as a contact.
DeliveredToday(p) ==
    Cardinality({i \in touches : /\ i.to = p /\ i.at \div Day = now \div Day
                                 /\ i.status = "DELIVERED"})

\* The day's contacts with a person: all that were planned, for any task, and
\* whether they have been delivered or not.
TouchesToday(p) ==
    Cardinality({i \in touches : i.to = p /\ i.at \div Day = now \div Day})

\* _plan_intervention up to its transaction: the effect is new and the day has
\* room for it.
Wanted(t, row, time) ==
    {e \in Due(t, row, time) : /\ \A i \in touches : i.effect # e
                               /\ TouchesToday(row.owner) < TouchBudget}

-----------------------------------------------------------------------------
(* The scheduler, and time.                                                *)

\* Scheduler.tick, first half: advance_time to whatever the time is by then,
\* and not if the clock would go back.
Advance ==
    /\ tick = Idle
    /\ now' \in now .. MaxTime
    /\ tick' = [step |-> "advanced"]
    /\ UNCHANGED <<work, touches>>

\* The rows evaluate_policy does not pass over at once.
Followed(t) ==
    \/ task[t].status = "PENDING_CONFIRMATION" /\ task[t].owner # NoOwner
    \/ task[t].status = "TRACKING" /\ ~task[t].valid

\* evaluate_policy reads the clock and the rows of all tasks.
ReadTasks ==
    LET followed == {t \in Tasks : Followed(t)}
    IN  /\ tick.step = "advanced"
        /\ tick' = IF followed = {} THEN Idle
                   ELSE [step |-> "evaluating", time |-> now, plan |-> {},
                         seen |-> [t \in followed |-> task[t]]]
        /\ UNCHANGED <<work, now, touches>>

Done(t) ==
    IF DOMAIN tick.seen = {t} THEN Idle
    ELSE [tick EXCEPT !.plan = {},
                      !.seen = [u \in DOMAIN @ \ {t} |-> @[u]]]

\* It looks at one task ...
Consider(t) ==
    LET wanted == Wanted(t, tick.seen[t], tick.time)
    IN  /\ tick.plan = {}
        /\ tick' = IF wanted = {} THEN Done(t) ELSE [tick EXCEPT !.plan = wanted]
        /\ UNCHANGED <<work, now, touches>>

\* ... and _plan_intervention inserts the intervention with its outbox row.
\* heard is history: the last signal there was by then.
Plan(t) ==
    /\ \E e \in tick.plan :
          /\ e.task = t
          /\ touches' = touches \cup {[effect |-> e, at |-> now,
                                       to |-> tick.seen[t].owner,
                                       heard |-> task[t].at,
                                       status |-> "PLANNED"]}
    /\ tick' = Done(t)
    /\ UNCHANGED <<work, now>>

Evaluate ==
    /\ tick.step = "evaluating"
    /\ \E t \in DOMAIN tick.seen : Consider(t) \/ Plan(t)

\* _complete_delivery; a row that is never delivered leaves the intervention
\* as it is.
Deliver(i) ==
    /\ i.status = "PLANNED"
    /\ touches' = (touches \ {i}) \cup {[i EXCEPT !.status = "DELIVERED"]}
    /\ UNCHANGED <<work, now, tick>>

\* Another process starts and catches the clock up.
CatchUp ==
    /\ now' \in now + 1 .. MaxTime
    /\ UNCHANGED <<work, touches, tick>>

\* The scheduler's process stops, in the middle of a tick or between two:
\* what the tick had read is gone ...
Stop ==
    /\ tick # Down
    /\ tick' = Down
    /\ UNCHANGED <<work, now, touches>>

\* ... and the start catches the clock up.
Restart ==
    /\ tick = Down
    /\ tick' = Idle
    /\ now' \in now .. MaxTime
    /\ UNCHANGED <<work, touches>>

Tick == Advance \/ ReadTasks \/ Evaluate

Next ==
    \/ \E t \in Tasks : Request(t)
    \/ Tick
    \/ \E i \in touches : Deliver(i)
    \/ CatchUp \/ Stop \/ Restart

Spec == Init /\ [][Next]_vars

\* run_forever ticks for as long as its process runs, and there is a time from
\* which the process is up for good.
FairSpec == Spec /\ WF_vars(Tick) /\ <>[](tick # Down)

-----------------------------------------------------------------------------
(* What follow-up has to be.                                               *)

\* service.py:8354, DAILY_TOUCH_BUDGET: nobody is contacted more often on a
\* day than the policy allows, over all their tasks and all kinds of contact,
\* through restarts and whatever has or has not arrived.
TouchBudgetIsKept ==
    \A p \in People, day \in 0 .. MaxTime \div Day :
        Cardinality({i \in touches : i.to = p /\ i.at \div Day = day})
            <= TouchBudget

\* service.py:8213, previous_l1 and previous_l2: of two inquiries about a task
\* the later came a cooldown after the earlier and after an answer to it; the
\* one escalation came past a deadline, and long enough after an inquiry that
\* had been delivered.
InquiriesAreSpaced ==
    \A t \in Tasks :
        /\ \A i, j \in Inquiries(t, "L1") :
              i # j /\ i.at <= j.at => /\ i.at + Cooldown <= j.at
                                       /\ i.at < j.effect.key[1]
        /\ \A i \in Inquiries(t, "L2") :
              /\ \E j \in Inquiries(t, "L1") :
                    j.status = "DELIVERED" /\ j.at + L2Wait <= i.at
              /\ i.effect.key[1] < i.at
              /\ Inquiries(t, "L2") = {i}

\* A task that has been quiet long enough by the meeting's clock, near its
\* deadline or past it, with no inquiry since its owner last spoke, none in
\* the pause before it, and a contact left for the day.
Neglected(t) ==
    /\ Open(t, task[t]) /\ Quiet(task[t], now)
    /\ \A i \in Inquiries(t, "L1") :
          i.at < task[t].at /\ i.at + Cooldown <= now
    /\ TouchesToday(task[t].owner) < TouchBudget

\* scheduler.py:3, a system that follows up: such a task does not stay so,
\* whatever the scheduler had read when it went quiet, and through restarts.
QuietWorkIsAskedAfter == \A t \in Tasks : Neglected(t) ~> ~Neglected(t)

\* service.py:8285, OVERDUE_WITHOUT_RESPONSE_AFTER_L1, and what the owner is
\* told, that there has been no signal since: an escalation is planned only if
\* the last signal is still the one there was when the owner was last asked.
SilenceIsSilence ==
    tick.step = "evaluating" =>
        \A e \in tick.plan :
            e.level = "L2" =>
                \A i \in Last(Inquiries(e.task, "L1")) :
                    tick.seen[e.task].at = i.heard
=============================================================================
