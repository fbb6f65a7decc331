# Verification of colwork_agent

colwork_agent follows the work that a meeting agreed on: it extracts proposals
from the minutes, sends them to the people concerned, follows the promises they
make, collects and reviews what they deliver, and organizes and releases a
final document. This directory holds TLA+ specifications of that workflow, the
TLC configurations that check them on small instances, and proofs that TLAPS
checks for every instance. Everything is translated from the code
(`src/src/collab_agent/`); where a design document says something else, the
code is modelled and the disagreement is a *finding*.

Contents: [the system](#the-system) · [the modules](#the-modules) ·
[the runs](#the-runs) · [the proofs](#the-proofs) · [findings](#findings) ·
[what is left out](#what-is-left-out) · [the plan](#the-plan)

## The system

One process (`cli.py serve`) runs

- a **web server** (`web.py`, `SingleInstanceHTTPServer`: one thread, one
  request at a time) through which people answer, deliver, review and approve;
- one **AgentWorker** thread per meeting (`agent_worker.py`), which processes
  submitted results and organizes the final; `process_loop` in `cli.py` catches
  what a pass of it raises and goes on with the next;
- one **scheduler** thread for all meetings (`cli.py`), where it is configured,
  which advances their clocks and follows up;
- a **Feishu** dispatch loop (`cli.py`), which delivers the outbox of every
  meeting, and a Feishu callback thread with its own queue and worker
  (`feishu_app.py`).

All of them share one database (SQLite, or PostgreSQL behind the same
interface). Almost every command of `service.py` opens one `BEGIN IMMEDIATE`
transaction, checks its conditions inside it, writes, and commits; a command
that raises rolls back. So a command is one atomic step, and what is hard lives
*between* commands: long protocols, several threads, commands that read before
they open their transaction, external calls between two transactions, and
processes that stop there.

| Component | State | Operations | What is hard, and what makes it correct |
|---|---|---|---|
| Task dispatch and hand-over | `action_items` (status, owner, definition), `action_item_assignments`, `commitment_revisions`, `assignment_handoffs` | revise, discard, dispatch, accept, return, revise commitment, offer / accept / decline a handoff | a protocol over several people, answers in any order, offers that outlive the state they were made in. Nobody is bound without agreeing; a return frees everybody; a part is put down only when somebody takes it; one owner, one promise |
| Delivery, processing, review | `artifact_versions` (validation, processing), `current_valid_version_id` | submit, process, retry, contribute, promote, review | a worker that reads, computes for seconds and writes; crashes in between; retries; versions out of order. The version in force is one that was reviewed; nothing is processed twice into two results; nothing is stuck |
| Final organization and release | `final_deliverables`, `final_artifact_lineage`, `approvals`, `episodes.status`, FINAL_* outbox rows | queue, organize, aggregate, approve, reject, dispatch, complete, recover | three kinds of threads that do not exclude each other, stolen claims, crashes between send and completion. What is released was approved and cites what was reviewed; approval, final and outbox row agree |
| Outbox and channel | `outbox_entries`, `feishu_im_messages`, `feishu_identity_bindings` | enqueue, notify, claim, send, deliver, recover | several threads send the same effect, stop between two recipients, take rows from one another. One message for each effect and person; a delivered row reached everybody; no row is forgotten |
| Follow-up policy and clock | `interventions`, `episodes.current_sim_time`, owner signals | tick, evaluate, suppress, plan, escalate | rows read long before they are used, a clock that stands between ticks. Contacts of a day are bounded, inquiries spaced, quiet work asked after |
| Assistance, scope, progress | `assistance_requests`, `scope_change_requests`, wording of the task | request, answer, amend, merge | answers after the fact, notices that are not sent twice. Who works on a task has been told what it asks for |
| Question collection and vote | `action_item_participation_inputs`, `action_item_dependencies`, the decision task | declare, revoke, draft, open, vote, submit, invalidate | a draft computed while its inputs change; votes on a ballot that is gone. What is bound is current; a decision is complete; cast votes stand |
| Compound tasks | `compound_tasks`, `compound_task_inputs`, `compound_task_skips` | answer, skip, merge, decide, revoke | answers and skips in any order. Everybody accounted for, closed rounds closed, the owner never stuck |
| Feishu application | `feishu_inbound_actions`, memory queue | receive, queue, run, mark | clicks stored but queued in memory only, delivered again, answered after their task moved on. A click decides once and is worked off |
| Registration of people | `feishu_identity_bindings` | claim, refuse, undo | who may undo what, by then |
| Meeting intake | `meeting_intakes`, extraction cache, `episode_sources` | link, roster, extraction, claim, import, register | join of two answers, a crash while importing. A meeting comes back with the roster it has |
| Collaboration memory | `collaboration_memories`, report status | draft, declare, confirm, replace, reject, withdraw | drafts that pile up, old pages. Colleagues see what the person last let stand |
| Stores | schema, transactions | begin, commit, audit | isolation differs between SQLite and PostgreSQL |
| Web console, read models | none of their own | routes | which thread runs what, role checks |
| Extraction, recall, model adapters | none that lasts | functions | text processing; success or failure to the rest |
| Legacy claim flow | the same tables | publish, claim, confirm | reached from benchmarks and tests only |
| Evaluation tooling | files | benchmarks | not part of the running system |

Interactions: dispatch produces a tracked task with an owner; the owner's
deliveries become reviewed versions; complete sets of versions are organized
into a final; the approval of a final inserts an outbox row; the outbox is
drained by the console (after a request) or by the Feishu loop; its completion
archives tasks and meeting. A newer accepted version reaches back and
supersedes a final that is not yet released, and reopens the tasks that were
built on the result it replaces. Every command that changes what somebody else
should know inserts an outbox row in its own transaction; clicks come back
through the inbox and the router as commands. `PROJECT.json` lists the hazards
line by line, with the properties that watch them and, for those none watches
yet, why.

## The modules

| Module | What it is |
|---|---|
| `WorkAgreement` | abstract: ask a group, everybody agrees or one refuses and all are free, a bound person leaves only by handing over |
| `TaskStatus` | the status of a task in work and the ways from one to another, which dispatch, delivery and release expect of each other |
| `TaskLifecycle` | abstract: a task waits only while a result of it does, goes back to where its result in force leaves it, and is done only if one was approved |
| `TaskDispatch` | one task from draft to tracked work and through the hands it passes; implements `WorkAgreement` |
| `TaskTerms` | extends `TaskDispatch` with what the task asks for: proposals, merges, amendments, scope changes, and whom each of them tells |
| `ReviewGate` | abstract: one candidate at a time, judged when prepared, not put forward again after its verdict, and only what was approved comes into force |
| `TaskDelivery` | the versions delivered for one task, their processing by a worker that may stop, and their verdicts; implements `ReviewGate` and `TaskLifecycle` |
| `DocumentRelease` | abstract: one document at a time is put to the coordinator; what people hear of and what goes out was agreed to, and stays out |
| `FinalRelease` | from accepted results to a released final: workers, console and Feishu loop over tasks, finals, approvals and outbox rows; implements `DocumentRelease`, and `TaskLifecycle` for every task |
| `Notice` | abstract: each person an effect is for hears of it once, nobody else does, and it is closed only when all have |
| `OutboxDispatch` | how a recorded effect reaches people: rows, claims, sends, receipts, cards, crashes; implements `Notice` |
| `MeetingIntake` | one link to minutes, from the chat message to a meeting that comes back at every start |
| `FeishuApp` | extends `MeetingIntake` with the inbound half of Feishu: callbacks, parked clicks, the worker, registration, one task that is answered by card |
| `FollowUp` | the clock and the policy of follow-up against owners who report, ask for help, promise and deliver |
| `CollectiveDecision` | abstract: a result only on a ballot that everybody asked voted on, nobody votes twice, and all goes together when what it was drawn from changes |
| `QuestionVote` | a decision task over collection tasks: structure, drafts, ballot, votes, result, invalidation; implements `CollectiveDecision` |
| `CompoundTask` | fill in, merge, score, write up: the stages of a compound task |
| `CollaborationMemory` | what one person lets colleagues know about how they work |
| `TaskDispatchProofs` | theorems about `TaskDispatch` and `TaskTerms` |
| `ChannelProofs` | theorems about `OutboxDispatch`, `FeishuApp` and `MeetingIntake` |
| `TaskDeliveryProofs`, `FinalReleaseProofs`, `FollowUpProofs`, `QuestionVoteProofs`, `CompoundTaskProofs`, `CollaborationMemoryProofs` | theorems about the module of that name |
| `MC...` | their instances for TLC |

The modules meet where the code does. `FinalRelease` takes from `TaskDelivery`
that a task has a version in force and perhaps one in review; `TaskDelivery`
takes from `FinalRelease` that a final may be written and an episode archived,
from `TaskDispatch` that the owner may change, and from `QuestionVote` that an
input may be replaced. Every notice that `TaskTerms` sends is a row of
`OutboxDispatch`, every card `FeishuApp` lets people click on is one of its
effects, and the interventions of `FollowUp` are rows of it too. What one module
takes from another it allows at any time, so that what is shown holds whatever
the other does.

`action_items.status` is the one column that three of the modules write. What
each lets the others do to it is stated in `TaskStatus` (`WorkMove`) and
`TaskLifecycle`, and is not left to a reading of the code: it is a theorem of
`TaskDelivery` and of `FinalRelease` that every step of theirs is allowed by it
(see [the proofs](#the-proofs)).

Each module says in `TypeOK` (`TermsTypeOK`, `AppTypeOK`) what the values of its
variables are. All of them are proved; in the runs every property reads the variables that a
type invariant would guard.

### TaskDispatch and TaskTerms

Variables are the columns: `status`, `owner`, `definition`, `active` of
`action_items`; `role[d][a]` and `response[d][a]` of the assignment row of actor
`a` under definition version `d` (`NONE`: no row); `commitments` the commitment
revisions in order; `offers[a]` the PENDING handoff row given by `a` (at most
one, by the code's check); `collaborators` the list in `proposal_metadata`.
The row history is kept for every version because the code reads rows of
earlier versions only through `definition_version`, and that they are closed
is a property, not an assumption.

Actions are the commands: `Revise`, `Discard` (ignore, and merge seen from the
source), `Dispatch`, `Return`, `AcceptAndWait` and `AcceptAndActivate` (the two
outcomes of ACCEPT in `respond_to_assignment`), `ReviseCommitment`,
`ProposeHandoff`, `AcceptHandoff`, `DeclineHandoff`. `DeliveryStep` stands for
what delivery, review and release do to the status afterwards; it is there
because an offered handoff survives those steps and `respond_to_handoff` does not
look at the status. Times are reduced to whether the team time is set;
deadlines that only compare two inputs of a command are not modelled. Inbound
receipts, which make a repeated command return its first answer, are outside:
a command that is applied is applied once. A handoff that has lapsed raises in
the transaction that marks it, so nothing remains: it is no step.

`TaskTerms` adds the wording of the followed task (`text`), the PENDING
`scope_change_requests` row (`scope`), the other proposals of the meeting
(`others`, `merged`), and three kinds of history: `told`, the wordings each person
was sent or put in force themselves; `heirs`, who took a part over and was sent no
wording since; and `notices`, the effect ids of the amendment notices, because a
second notice with the same id is not sent. `Reword` and `SendOut` are the
commands of `TaskDispatch` that also say something. `TakeOver` says nothing to the
receiver: the offer names title, reason, part and date, and the answer to it goes
to the giver and the coordinators. `Unworded` are the rest.

### TaskDelivery

`versions` are the rows of `artifact_versions` of one task in the order they
were received; a row keeps who sent it, whether validation passed, its review
and processing states, the attempts counted, whether the pause after a failure
is running (`backoff`), whether the error code allows a retry by hand
(`mayRetry`), what the package in `processing_result` was made for (`package`),
what the owner decided about a contribution (`decision`, in the code the last of
three audit events), and whether a reload made it a contribution
(`reclassified`, another audit event). `status`, `owner` and `valid` are columns
of the task; `worker` is the worker of its meeting: down, idle or processing.

Actions of people, one transaction each: `Submit`, `Settle` (INCLUDE and
REQUEST_REVISION) and `Promote` (`decide_contribution`), `Accept` and `Reject`
(`review_artifact`), `Retry`. `process_task_result_once` is two: `Claim`, its
first transaction with the reads that settle the purpose of the processing, and
`Finish`, its last, which writes over whatever happened in between.
`WorkerStops` may come between them, `WorkerStarts` is `AgentWorker.recover`.
So may `ProcessingRaises`: an error between the claim and the `try` that guards
the processing, or in the transaction that was to write the outcome. `process_loop`
catches it and calls `run_until_idle` again, which recovers nothing, so the
version stays PROCESSING under a living worker until the next start. `dropped`
remembers those versions.
`MeetingIsLoaded` is the repair that every process runs when it loads a meeting
it knows. `OwnerChanges`, `InputChanges` (a result this task was built on is
replaced), `FinalIsWritten` and `EpisodeIsArchived` are what the rest of the
system does to the task, as far as its columns go: when each is possible is
taken from this task alone, so they come at more times than in a whole meeting.
A final marks its tasks AGGREGATED whatever they are by then, and its meeting
open again, for it was organized from what was in force some time before; and
the meeting may be archived by the release of another.

Who may contribute changes with every assistance request and handoff and guards
nothing else, so anybody in `People` may. The content of a delivery is only
whether it passes validation. A stop that leaves nothing PROCESSING behind is no
step, because the start after it does nothing. A deployment that never
analyses contributions is `Analysing = FALSE`, a task without dependencies
`Structured = FALSE`.

### FinalRelease

`taskStatus`, `valid`, `newest`, `reviewing` are what the final sees of a task:
its status, the version in force, the last one submitted, and whether one waits
for review. `finals`, `approval`, `release`, `jobs` are the rows of
`final_deliverables`, `approvals` and the two kinds of outbox rows; `received`
is what the IM accepted. `builder` and `courier` are the threads: a worker is a
builder named by its meeting; the console is a builder *and* a courier and, being
one thread, is one or the other at a time (`ConsoleIsFree`); the Feishu loop is
a courier.

What the code does in several steps is several actions. `aggregate` reads the
bundle (`Start` / `ConsoleGenerates`), calls the organizer, reads the versions in
force and the next revision number (`Render`) and only then opens its
transaction (`Write`, or a failure when the revision number was taken).
`dispatch_all` claims (`Claim`), sends (`Send`) and completes
(`CompleteDelivery`). Between any two of them a thread may stop
(`BuilderStops`, `CourierStops`) or the send may raise (`SendFails`).
`WorkerStarts` and `FeishuStarts` run `recover_dispatcher`, which takes every
claim another session holds, alive or not. The reads that
`dispatch_final_organization_once` and the first half of `aggregate` make in a
row, without an external call in between, are one step (`Start`).

The mode of a worker's organizer is a constant (`WorkerMode`), the console's is
always the template. Optional tasks, task dependencies and the processing that
precedes a review are not in this module.

### OutboxDispatch

`status` and `claimedBy` are columns of `outbox_entries`, `receipts` the effects
with a row in `feishu_im_messages`, `accepted` the uuids the provider has taken,
which it takes once, and `copies` what a recipient got. A thread (`at`, `effect`,
`left`) is the Feishu loop or the console, two threads of one process that stop
together (`Crash`); the agent worker only matters by its start
(`WorkerRecovers`), which takes back everybody's rows. `FeishuIM.send` is `Begin`
(the receipt and the bindings are looked up before the first message),
`SendOne` for each recipient in any order, and `WriteReceipt`; `SendFails` is a
refusal by the provider, after which the row stays claimed (`refused` remembers
that). An assignment card has no row: `StartTick` reads the unanswered
assignments, `NotifyOne` skips what has a receipt or an unbound person. People are
bound and unbound at any time, but an account that is rebound between two
attempts at one effect is left out: for the provider it would be another
recipient.

### FeishuApp and MeetingIntake

`clicks` are the rows of `feishu_inbound_actions`, `queue` the worker's queue in
memory, `doing` the job it is in the middle of. `Click` is the callback: it
stores a row before it queues, and a second delivery of the same event finds
the row. The worker takes jobs in order: `HandleMessage` (registration, or a
link), `ProcessAction`, which runs the command a click stands for in that
command's own transaction, and `FinishAction`, which writes the outcome on the
click's row afterwards; `RunExtraction`, `TakeSettle`, `SettleIntake` and the steps of
the import. The outcome of a picked score (`Pick`) is a card drawn again and no
write: its row stays PENDING. So does the row of a click whose job ends in an error,
before the command (`JobRaises`) or after it (`FinishRaises`), for `drain_once`
logs it and goes on. `Stop` forgets queue and job and keeps the rows, which
nothing reads back. `did` counts what a click changed; `unsettled` remembers the
clicks that nobody works on any more.

An intake row joins two answers that come in any order, the roster and the
extraction; whichever comes second claims the import by a conditional update.
The import makes or attaches to the meeting, registers how to bring it back, and
says READY, and may stop before each of these. `coordinator` is the coordinator's row
that the first import writes; when somebody else resumes the import it stays
theirs, and they may undo registrations. What a transcript says is not
modelled, so its extraction is either found or not.

### FollowUp

One row per task holds the columns the policy reads, with those of the active
commitment. `touches` are the `interventions`; their effect is the task, kind and
trigger key, so that planning the same one again is nothing. The clock `now`
moves only in ticks and by other processes that start. A tick is `Advance`,
`ReadTasks` (the rows of all tasks at once), and then for each task `Consider`,
which reads the other tables as they are by then, and `Plan`, the transaction.
Requests of people (`Request`), deliveries (`Deliver`) and a stop run between any
two of these. `Due` is `evaluate_policy` on one task: the reminder to confirm, the
request to rework, the inquiry and its escalation. Quiet hours and weekends do
not exist in the code; time zones only affect what day it is.

Tasks begin as proposals, named or to be published and claimed
(`publish_action`, `ignore_action`, `claim_action`, `confirm_action`,
`reject_action`); how a dispatched task gets its owner is `TaskDispatch`. For the
policy a task in work looks the same either way.

### QuestionVote

The decision task (`status`, `published`, `owner`, `candidate`, `valid`, and
`finalOwner`, whom the structure confirmed last names); the collection tasks'
results, how many were accepted (`latest`) and which is in force (`current`); the
dependency rows (`depends`) and what they are bound to (`bound`); and the rows of
`action_item_participation_inputs`, `ballots` by final owner and `votes` by voter.

`ConfirmStructure` has the service's guards and not the page's filter: from a page
loaded before the first declaration a second one is taken, if none of its rows is
there already, and then there are two BALLOT rows and the VOTE rows of both. A
draft is `BeginDraft`, the look at the inputs, and `StoreDraft`, the transaction that
looks again. A submission is `BeginSubmission`, with the check
`final_submission_ready` before the attachments are read, and `StoreSubmission`,
whose transaction does not check again. `SubmitUnchecked` is every way to a
candidate past that check, of which the ordinary one is `decide_contribution`
PROMOTE; the others are a submission of somebody who became owner while it was in
hand, and of an owner whose votes a second ballot voided meanwhile. Everything
else is one transaction.

`AcceptCollection` is the acceptance of a collection task's result with
`_invalidate_downstream_inputs`, which resets ballots, votes and results where the
decision was bound to another version. `VoidCollection` is that function one level
up: a collection that is itself a decision loses its version in force, and what
rests on it hears nothing, because the function goes one step down. What options
say is not modelled, their order by points, average and id is (`Leads`). A
candidate carries the versions its check was made against (`over`), and none
(`Nothing`) if it passed no check.

In `CollectiveDecision` a result is one that passed the check; a structure that is
declared again widens the electorate, and another ballot may be opened
(`OpenAnother`), on which everybody votes afresh.

### CompoundTask

One task: its `stage`, the `answers` and `skips` of every stage, and the
notices (`told`), of which the code writes at most one per stage. `SubmitInput`,
`SkipMember`, `FinishOwnerStage` and `Revoke` are the commands; each is a whole
transaction of the web server's one thread, which is why the stage a command
loads before its transaction is the one it finds in it. `Settle` moves the stage
when everybody has answered or was skipped.

### CollaborationMemory

`entries` are one person's rows of `collaboration_memories`, `report` the
`collaboration_report_status` of each accepted result, `console` the one thread
that serves a verdict (`Accept`) and then generates the report in a second
transaction (`GenerateReport`, `ReportFails`), between which it may stop. `said` is
history: what the person last let stand on a topic. What the model nominates is
any label the code lets it nominate (`DraftLabels`).

## The runs

| Run | Instance | Checks |
|---|---|---|
| `dispatch` | 3 interchangeable participants and a coordinator, 2 definitions, 2 commitment revisions; 103 188 states | who owns, who has answered what, and which round and promise count; that parts move only by handover, and that it implements `WorkAgreement` |
| `terms` | 2 interchangeable participants and a coordinator, 2 definitions, 1 revision, 2 wordings, a hint and an addition; 994 228 states | everybody concerned has been sent the wording in force, or put it in force, or took a part over since; no merge loses what was merged |
| `delivery` | 2 people, 2 versions, 2 attempts, analysis, dependencies; 862 888 states, with fairness | one candidate at a time, nothing stranded but by an error the worker survives, accepted versions and decided contributions left alone, every other candidate comes to a verdict or can be given one, implements `ReviewGate` and `TaskLifecycle` |
| `release` | 1 meeting, 2 tasks (2 and 1 versions), 2 finals, 2 organizer attempts, 1 fault; 518 481 states | approval, final and outbox row agree whatever the threads' order, a crash and recovery included; implements `DocumentRelease`, and `TaskLifecycle` for both tasks |
| `outbox` | 2 rows (to both people, to one), 1 card, 2 people, 2 faults; 336 592 states, with fairness | one message for each effect and person, no row is forgotten, implements `Notice` |
| `feishu` | 2 names, 2 accounts, 2 messages, 2 clicks, 2 rounds, 1 stop or error; 368 990 states, with fairness | a click decides at most once, clicks are worked off, meetings come back as they were imported |
| `followup` | 1 task, 1 person, a unit of a day, 3 days, 2 promises, 1 version, 1 contact a day; 415 758 states, with fairness | contacts of a day bounded, inquiries spaced, quiet work asked after |
| `vote` | 2 interchangeable people, 2 interchangeable collections, 2 versions each, 3 accepted results in all, 2 options, 1 kept, scores 1 and 2; 861 904 states | bound work is current, a decision is complete, cast votes stand, implements `CollectiveDecision` |
| `compound` | 3 interchangeable people, tasks of 2 or 3 of them of both kinds, 3 options, 1 kept, scores 1 and 2; 258 521 states | everybody accounted for, outcome and closed rounds stand, the owner is never stuck |
| `memory` | 2 interchangeable tasks, 2 observed topics and a declared one, 2 codes, 4 entries; 330 512 states | colleagues see what the person last let stand; answers are final |
| `prompt_answer` | as `followup` | violated: an escalation is planned only when the owner was silent |
| `unrouted_card` | as `feishu`, serving 2 meetings | violated: an awaited answer given on a card is taken |

**dispatch.** Two definitions give a returned round and its successor; three
participants give an owner, a collaborator and an outsider who can receive
both parts, and let three offers cross; two revisions are one revision and one
refused one. Participants are interchangeable, and all properties are
safety properties, so symmetry is sound. What holds: nobody but the owner ever
holds or offers the owner's part (`OwnerPartIsTheOwners`); answers fit the
status (`AnswersFitTheStatus`); a returned round stays closed
(`EarlierRoundsAreClosed`); the promise in force is the latest
(`OneLiveCommitment`); an outstanding offer is of a part still held
(`OffersAreHeld`) even though the answer to it checks neither; nobody drops out
of work in progress except to the person they offered it to
(`PartsOnlyMoveByHandover`). `OffersAreHeld` is the reason why
`respond_to_handoff` can do without those checks.

**terms.** Two wordings are one that is left and come back to, which is where a
notice with the same effect id is not sent again; two participants hand parts back
and forth. `TermsAreTold` says of everybody on the task, and of everybody who
returned it and waits for another wording, that the wording in force is one they
were sent or, where the coordinator is on the task and decides on its scope, put
in force themselves. It excuses who took a part over, until the wording is next
changed or upheld: nothing sends it to them. It does not say that it is the one
they were told last: going back to an earlier wording tells nobody. With a second
revision of the promise, which says nothing about the wording, both properties
hold on 2 787 318 states, and with the coordinator as one of the two participants
on 3 814 006. `MergesLeadSomewhere` excludes that a chain of merges closes on
itself.

**delivery.** Two versions compete for the worker, which takes the oldest first;
one may be accepted and cited by a final while the other waits for its verdict.
Two attempts are one failure or crash that is tried again and one that is not.
What holds: there is one candidate at a time and the status says so, also when an
upstream result is replaced (`OneCandidate`); nothing is queued with its attempts
used up, and nothing is left PROCESSING by anybody but a stopped worker, or one
that an error took it from (`NothingIsForgotten`); no worker, recovery, reload or
retry touches an accepted version (`AcceptedIsFrozen`); a contribution the owner
dealt with is neither judged nor analysed afresh (`HandledIsOver`); every
candidate is eventually ready, failed or out of review, although the worker may
stop at every attempt (`CandidateIsSettled`), unless such an error has stranded it
while its worker runs on; and the whole implements `ReviewGate` and
`TaskLifecycle`: whatever is decided late, the status goes back to where the
result in force leaves it. The safety properties also hold with three versions,
one attempt, no analysis and no dependencies (4 884 928 states); three versions
with everything on are beyond a run of a few minutes.

**release.** Two tasks let one be resubmitted while the other is done, two
versions let the bundle change between read and write, two finals let one
replace another, one fault is a crash at any point or a failed send. With three
finals the same properties hold on 1 831 501 states. What holds: a pending
approval is always of the current pending final (`PendingApprovalIsCurrent`);
an approved final cites exactly the versions in force
(`ApprovedFinalIsInForce`); final, approval and outbox row agree on what is
released, through crashes, stolen claims and double sends (`ReleaseIsAgreed`).
`ImplementsRelease` says what this amounts to for the coordinator: one document
waits at a time, a newer one takes its place, what the IM was sent had been
approved, and no approval or release is taken back. `TasksFollowLifecycle` is
the same `TaskLifecycle` as of `delivery`, for every task of the meeting, with
all that writes, replaces and releases a final in the open.

**outbox.** A row with two recipients is what can stop half way; a second row and
a card are what can wait behind it; two faults are a refusal or crash and a second
one during the recovery. `OneMessageEach` rests on the uuid of effect and
recipient, because rows are taken from sessions that are still sending;
`ImplementsNotice` adds that nobody is told who is not a recipient and that a
delivered row has reached them all, which rests on the receipt being written
after the last of them; what is delivered never comes back.
`NoRowIsForgotten` excuses a row whose send was refused in the session that holds
it: nothing takes it back until another session starts.

**feishu.** The coordinator is bound from the start; both accounts, theirs too,
can claim the other name (`Claims`), lose it again, and send the same link; the
other one has a card of the ballot (`Voters`). Two clicks are two people on one
card, one person on two cards, or a card of an earlier round on a task that was
dispatched again. `AClickDecidesOnce` counts what a click changed, against the
outcome written on its row; `ClicksAreWorkedOff` excuses the rows that nobody will
touch again: what a stop had in memory, what an error ended, and every pick of a
score; `MeetingsComeBack` is about an import that stopped in the middle and the
same link sent again with another choice of roster.

**followup.** With a unit of a day everything that is due within the day falls due
with the next unit, and lead, silence, cooldown and escalation wait are one unit
each: after four units a task can have been reminded, asked, asked again and
escalated. One contact a day makes every suppression happen.
`QuietWorkIsAskedAfter` says that a task is not left quiet for ever with a contact
left for the day and no unanswered inquiry. An escalation counts among the
contacts and comes past the deadline and after a delivered inquiry
(`InquiriesAreSpaced`).

**vote.** Two collections are one that is bound and one that is not yet, or two
that are replaced and withdrawn; three accepted results are both and a
replacement; a declaration names all collections there are. Two options with one
kept give ties, and cards that score too few of them; two people can both be
confirmed final owners, hand the task to one another and open a ballot each.
`BoundWorkIsCurrent` says that no draft, ballot, checked candidate or checked
result outlives what it was made from, once the task is bound to all its inputs. A
task accepted before its inputs were there is bound to none of them until a draft
is stored; for those nothing is reopened, and of tasks that were declared twice
the second owner's draft binds while the first one's ballot stands, which is why
the property asks it of bound tasks declared once. `DecisionIsComplete` asks for
one open ballot: with two, votes cast on one are counted for the other.
`CastVotesStand` names the two ways in which a cast vote is lost.

**compound.** Two and three members are the least with one and with two people to
skip; the owner answers or comes last in either. `EveryoneIsAccountedFor` also says
that the page calls a vote complete just when nobody was skipped. `OutcomeStands`
says how an outcome must be, `RoundsStayClosed` that no later command changes what a
stage that is over has left: its answers and points, whom it passed over, which
options were put up and which are kept.
`OwnerIsNeverStuck` is a statement about what is enabled: as long as the task is
not finished, something the owner alone can do brings it nearer its end.

**memory.** Two tasks give drafts on a topic that was answered before; four entries
are a draft, a second one, a replacement and a restatement. `ShownIsSaid` relates
what a colleague's hint contains to the history of what the person said.

`CHECK_DEADLOCK FALSE` stands in every configuration but that of `memory`, whose
server always stops and starts again: a discarded task has no next step, an
archived meeting and a finished compound task have none either, and a bounded
counter that is used up ends a behaviour.

Every property of a passing run has a mutant of the code's definition that
breaks it (`PROJECT.json`, "mutants"); their operators stand next to the
definition they distort, marked *Mutation*.

**Bounds.** `MaxDefinitions`, `MaxRevisions`, `MaxVersions`, `MaxFinals`,
`MaxEntries`, `MaxRounds`, `MaxMessages`, `MaxClicks`, `MaxResults`, `MaxOptions`,
`MaxTime` bound counters that the code does not bound; `MaxFaults` bounds the
stops, failed sends and, in `OutboxDispatch`, worker starts, `MaxMishaps` the
stops of the Feishu process and the errors of its worker. `MaxAttempts` is the
code's own `outbox_max_attempts` in `FinalRelease` and `TASK_RESULT_MAX_ATTEMPTS`
in `TaskDelivery`, smaller than the configured values but with the same cases: an
attempt that may be followed by another and one that may not. `MaxScore` is 5 in
the code; two scores give every order and every tie. Retries by hand are not
bounded; they start the attempts again.

**Fairness.**

- `TaskDelivery`: weak fairness of the worker, which claims, completes and, when it
  is down, starts: `run_forever` and the `process_loop` of `serve` call it again and
  again, whatever a pass raises, a call to the provider ends or fails, and the
  container is restarted (`restart: unless-stopped`); and of the end of a pause,
  because time passes. The worker is a process of its own or a thread of the
  server. A worker that runs on after an error need not ever be restarted. Of
  people it assumes nothing but that the coordinator does not have processing
  retried for ever: as the worker takes the oldest version first, an older
  contribution that is retried without end would keep a candidate waiting.
- `OutboxDispatch`: weak fairness of the loop, which ticks for ever and catches
  what a tick raises; of a console request once it has begun; and of the restart.
- `FeishuApp`: weak fairness of the worker thread's jobs (`Work`): its loop only ends
  with its process, and its errors are not without end.
- `FollowUp`: weak fairness of the tick, and that from some time on its process
  stays up. Without the latter a process that stops in the middle of every tick
  would ask nobody, and nothing in the code could help.

## The proofs

Every invariant, action property and refinement that a passing run checks is also
proved, for every value of the constants, with the two kinds of exceptions at the
end of this section; some theorems state what no run does. The proofs assume of
the constants only what the `ASSUME` of each module says: names for "nobody" name
nobody, bounds are numbers and, where the code requires it, positive, the groups
that are counted are finite.

| About | Theorems | Inductive invariant |
|---|---|---|
| `TaskDispatch` | `TypeCorrect`, `AnswersAlwaysFit`, `ReturnedRoundsStayClosed`, `OfferedPartsAreHeld`, `OnlyTheOwnerOwns`, `OneCommitmentInForce`, `OnlyHandoverLetsGo`, `DispatchImplementsAgreement` | `RoundInv`, `OwnerInv`, `CommitmentInv` |
| `TaskTerms` | `MergesAlwaysLeadSomewhere`, `WordingsAreKnown` | `MergeInv`, `WordingInv`, both on top of `RoundInv` |
| `TaskDelivery` | `TypesHold`, `OneVersionToJudge`, `NothingIsLost`, `AcceptedStays`, `HandledStaysOver`, `DeliveriesKeepTheGate`, `DeliveriesFollowTheLifecycle`, `BoardStaysRight`, `StatusMovesAsExpected` | `DeliveryInv`, `LifeInv` |
| `FinalRelease` | `TypesHold`, `OnePendingApproval`, `NothingUnapprovedIsSent`, `ApprovalsFollowTheVersions`, `RecordsAgree`, `ReleasesAreFinal`, `ReleaseKeepsItsPromise`, `FinalsRestOnResults`, `FinalsFollowTheLifecycle`, `BoardStaysRight`, `StatusesMoveAsExpected` | `ReleaseInv`, `SourcesInv` |
| `OutboxDispatch` | `TypesHold`, `NobodyIsToldTwice`, `ReceiptMeansReached`, `ChannelKeepsItsPromise` | `OutboxInv` |
| `FeishuApp`, `MeetingIntake` | `InboundTypesHold`, `ClicksDecideOnce`, `MeetingsAlwaysComeBack` | `AppInv` |
| `FollowUp` | `TypesHold`, `NobodyIsPestered`, `InquiriesKeepTheirDistance`, `PlansStillFit` | `FollowInv` |
| `QuestionVote` | `TypesHold`, `NothingIsOutdated`, `VotesAreLostOnlyWithTheirGround`, `DecisionsAreComplete`, `VoteImplementsDecision`, `StatusMovesAsExpected` | `VoteInv` |
| `CompoundTask` | `TypesHold`, `NobodyIsOverlooked`, `ClosedRoundsAreFinal`, `OutcomesStand`, `EveryTurnIsTold`, `OwnerAlwaysHasAMove` | `RoundsInv`, `OutcomeInv`, `AwaitInv` |
| `CollaborationMemory` | `TypesHold`, `ColleaguesSeeWhatStands`, `AnswersStay` | `MemoryInv` |

None of the properties is inductive alone. What each needs besides types says
what in the code carries it.

**TaskDispatch.** Three layers, each used by the next. `RoundInv` is how the rows
fit the status: rows of versions after the current one do not exist, rows of
earlier versions are closed, answers fit the status, and an offer stands on an
accepted row of the version in force. These need each other: that an offer is
held survives a new round only because no offer exists outside of work, and that a
round may be reopened only because the one before is closed. `OwnerInv`: while a
round is open exactly one row of it is the OWNER's, and once in work only the owner
holds or offers that part; the handoff actions keep it because the offer's role is
tied to a row. `CommitmentInv` is about the list of commitments, which only
activation and revision touch. The refinement maps `Dispatch` to `Ask`, the two
ACCEPTs to `Agree`, `Return` to `Refuse`, `Discard` to `Drop`, an accepted handoff to
`HandOver` and everything else to stuttering.

**TaskTerms.** Every step of it is a step of `TaskDispatch` or leaves that alone
(`TermsStepIsAStep`), so `RoundInv` holds with it. `MergeInv` adds that what was
merged away is rejected for good; a merge goes into a proposal that is pending, out
of which nothing has gone yet. `WordingInv` says that whoever had a part and did not
take it over knows the wording as long as a round may still be returned
(`EverybodyKnows`), that a notice
whose id exists has told its audience (`NoticesTold`), which is why not sending it
again is harmless, and that another scope is asked for only while the task is in
work. The proof did not go through for a coordinator who is also on the task
(`coordinator_is_participant` in `meeting.py`): who decides on a scope is not among
those who are sent it, and knows it all the same. `told` counts that.

**TaskDelivery.** `VersionsAreSound` describes a version alone: queued only with
an attempt left, accepted only when its processing is settled, dealt with only as
a contribution. `WorkIsMarked`: what the worker holds is PROCESSING, and nothing
else is unless it is down or an error took it out of its hands. That is what
`Finish` may rely on when it writes over whatever happened since `Claim`. The
refinement of `ReviewGate` uses the invariant on both sides of a step. For
`TaskLifecycle` it takes `ForceWasAccepted` as well, that the version in force is
one that was accepted (`LifeInv`): without it a task that goes back to its version
in force could count as done with nothing accepted.

**FinalRelease.** For any number of meetings and tasks. `RowsAreThere` keeps the
organizer rows that builders at work refer to, `RowFollowsApproval` ties the
release row to the approval, and `CouriersCarry` says that what a courier has in
hand was queued, and was sent if it says so, *even when the row has been taken from
it*: therefore a stolen claim and a second completion change nothing that was not
approved. `SourcesInv` adds what a final rests on: what is accepted later is a
later version (`VersionsCome`), the bundle a builder took was whole when it took it
(`BundleIsWhole`), so that a final written much later cites accepted results, its
report none newer than its lineage (`RestsOnResults`), and the current final of a
meeting exists and is its own (`CurrentIsThere`). Both refinements rest on it: for
`DocumentRelease`, that what is replaced is this meeting's; for `TaskLifecycle`,
that a task is marked as part of a final only if a result of it was accepted.

**OutboxDispatch.** `UuidsAreCounted`: a recipient has one message just when the
provider accepted the uuid of effect and recipient. `SendsInOrder`: who a thread has
crossed off was sent to, and a send that says it is done has its receipt, for a
thread that has lost its claim too. Types alone do not give `ReceiptMeansReached`,
because threads share rows and not the rest of their recipients. In `Notice` an
effect is closed when its row is DELIVERED or, for a card, its receipt is there;
of all the steps of threads, stops and recoveries only `SendOne`, `WriteReceipt` and
`CompleteDelivery` are more than stuttering there.

**FeishuApp, MeetingIntake.** `WaitsOnce`: a click in the queue is in it once, is
PENDING and has changed nothing, which `Click` keeps by storing before it queues;
`AnswersInOrder` says the same of the click whose outcome is still to be written. A
job that ends in an error leaves clicks and counts alone, and its click is in no
queue any more.
`ImportsInOrder` carries the roster from the claim through meeting and source to
READY; `MeetingsComeBack` holds between the steps because each of them takes over
what the one before wrote. Rosters may be any nonempty sets of names.

**FollowUp.** A tick collects effects against rows it read earlier and checks the
budget when it plans, so the invariant is about the plan as well as about what was
planned: `PlanHasRoom` and `PlanIsSpaced` (each effect `MayFollow` what stands by
then), with `TimesPass`: nothing is dated after the clock, so a day that ends in
between leaves more room, not less. That the latest inquiry exists rests on there
being finitely many (`ThereIsALast`).

**QuestionVote.** `BindingsAreCurrent`: what is in force is the last result accepted
or nothing, and what is bound is the last one accepted, so that invalidation may
look at `bound` only. `ClosedIsEmpty` lets it drop votes wholesale, because without
an open ballot there is neither vote nor checked result. `StructureHolds` and
`StagesHold` tie rows and status to the structure, `VotesCoverBallot` each cast vote
to an open ballot, and `SubmissionHolds` says that a submission in hand was of a
complete vote and still is, which is what `StoreSubmission` relies on when it does
not look again. That exactly as many options are kept
as were asked for, the best of them, follows from a lemma on rankings of finite sets
(`FirstOfARanking`): the points, average and id compared by `Leads` leave no ties.

**CompoundTask.** `RoundsAreFull` and `NobodyCountsTwice` for the rounds; with
`OptionsAreEnough` the same kind of ranking argument for the outcome.
`EveryTurnIsTold` goes beyond the run: the one notice that a stage may have has never
been used up when the stage is entered. `OwnerAlwaysHasAMove` is `OwnerIsNeverStuck`
with the conditions of the three commands in the place of ENABLED; it rests on a
round that is open always waiting for somebody, which a skip, an answer and the
entering of a later round each have to keep (`SomebodyIsAwaited`). It supposes
`SelectionCount < MaxOptions`, a bound that lets the owner put up more options than
are kept, as the code does not limit them.

**CollaborationMemory.** `OneStands`: of a topic at most one entry is confirmed.
`ConfirmedIsSaid` and `SaidIsConfirmed` then make confirmed entries and what the
person last let stand the same thing; what colleagues see is cut out of the
former.

**The status of a task** is written by the commands of three modules, each of
which sees the others as steps that may come at any time: `DeliveryStep` in
`TaskDispatch`, `FinalIsWritten` and `EpisodeIsArchived` in `TaskDelivery`. That
these allow enough is what an assumption about the environment is worth, and it
is proved on the other side: by `StatusMovesAsExpected` the deliveries and the
votes, and by `StatusesMoveAsExpected` the finals, change the status of a task in
work only as `WorkMove` says, and `DeliveryStep` is `WorkMove`. Stating it showed
how much can come late. A final that was organized from accepted results is
written when its task may have been delivered again, reopened by an upstream
result, or archived; it marks the task AGGREGATED and its meeting open all the
same. So a task may be AGGREGATED while a delivery waits, and an archived one may
come back; what stays true is `BoardIsRight`, that nothing is shown as waiting
that does not wait, as open while something waits, or as done when nothing was
ever accepted. Outside of this is only the legacy `confirm_action` (in `FollowUp`),
which makes a task TRACKING without a look at its status.

What stays with TLC:

- the liveness properties `CandidateIsSettled`, `NoRowIsForgotten`, `ClicksAreWorkedOff`
  and `QuietWorkIsAskedAfter`: they rest on fairness, about which the prover cannot
  reason;
- `OwnerIsNeverStuck`, which speaks of what is enabled (ENABLED); the theorem
  `OwnerAlwaysHasAMove` states the conditions instead.

The two violated properties are false, and shown so by a behaviour.

## Findings

Each is a run that violates a sentence of the repository (quoted in
`PROJECT.json`).

- **An answer that does not count** (`prompt_answer`): the meeting's clock moves
  only in ticks, and an answer counts only when it is dated after the inquiry. Who
  reports before the next tick is, when the report has run out, escalated as one
  who did not respond.
- **A card that leads nowhere** (`unrouted_card`): the router looks for the task in
  a field that the click's row does not have, and an assignment card has no outbox
  row to resolve through; with two meetings served, every answer on one is refused.

Other places where the code does what its authors may not want are listed with
the hazards, in the notes: two crossed handoffs that leave the owner without the
owner's part, a superseded final that is released, a final that can neither be
approved nor replaced by the worker, several meetings that close each other's
work, a candidate withdrawn by a restart after a handoff, an invalidation that
looks for bound inputs only, an amendment overwritten by an older scope change, a
version left PROCESSING under a running worker by an error outside the `try`, a
second structure declared from a stale page that leaves two ballots, a receiver of
a handoff who is sent no wording, a click left PENDING by an error.

## What is left out

`PROJECT.json` "components" gives the reason for each part. In short: text
processing, prompts, embeddings, page layout, metrics and evaluation carry no
protocol; sessions and roles of the web console are a table looked up before a
command; repairs of rows that older builds wrote are one-off.

- PostgreSQL's READ COMMITTED, under which read-then-update commands are not
  serialised as they are on SQLite: all modules assume SQLite's serial
  transactions.
- Inbound receipts of the web commands: the models apply a command once.
- Who is told, other than of wordings and of the stages of a compound task: that each
  command writes its notice is one insert in its own transaction.
- An open_id that is rebound between two attempts of one send, and the deployment
  whose console has a mock channel and drains the outbox into it.
- Entries of the collaboration memory written under the first lexicon.
- Several meetings in the checked instance of `FinalRelease`, which is one. The
  theorems hold of any number: the ways in which workers of two meetings do each
  other's work (see the hazards) break none of the properties stated.

## The plan

The modules planned are written and their safety is proved. What could follow:

1. What the modules say of one another beyond the status: which versions and
   which bindings a decision and its collections see of each other
   (`InputChanges` in `TaskDelivery`, `AcceptCollection` in `QuestionVote`).
2. Lemmas towards liveness that need no fairness: the measures by which each fair
   step brings an effect, a click or a candidate nearer its end.
