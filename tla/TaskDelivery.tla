---------------------------- MODULE TaskDelivery ----------------------------
(***************************************************************************)
(* The versions delivered for one task, from submission to verdict:        *)
(* service.py's submit_artifact, decide_contribution, review_artifact,     *)
(* process_task_result_once, retry_task_result_processing and              *)
(* reconcile_legacy_collaborator_candidates, with                          *)
(* AgentWorker.recover.                                                    *)
(*                                                                         *)
(* People submit, decide and review through the web server, one request at *)
(* a time, each in one transaction.  The worker is a process of its own or *)
(* a thread of the server: it claims a version in one transaction,         *)
(* computes for seconds, and writes the outcome in another, over whatever  *)
(* happened in between.  It may stop in between, or an error may take the  *)
(* version out of its hands while it runs on.  The task is one that needs  *)
(* human acceptance, as all that a meeting produces do; a resubmission of  *)
(* the same content by the same person is answered with the version there  *)
(* is and is no step.  Who may contribute changes with every request,      *)
(* answer and handoff, and nothing else depends on it: anybody in People   *)
(* may.                                                                    *)
(***************************************************************************)
EXTENDS Naturals, Sequences, TaskStatus

CONSTANTS
    People,        \* who may own the task or contribute to it
    Analysing,     \* the worker analyses contributions (BOOLEAN)
    Structured,    \* the task was built on the results of others (BOOLEAN)
    MaxVersions,   \* bound on the versions submitted
    MaxAttempts    \* TASK_RESULT_MAX_ATTEMPTS

ASSUME DeliveryAssumption ==
    /\ {Analysing, Structured} \subseteq BOOLEAN
    /\ MaxVersions \in Nat
    /\ MaxAttempts \in Nat \ {0}

VARIABLES
    status,     \* action_items.status
    owner,      \* owner_actor_id
    versions,   \* artifact_versions, in the order of received_sequence
    valid,      \* current_valid_version_id, 0 for NULL
    archived,   \* the episode is ARCHIVED
    worker,     \* what the meeting's worker is doing
    dropped     \* the versions an error has taken out of its hands while it
                \* ran on (history)

task == <<status, owner, valid, archived>>
vars == <<task, versions, worker, dropped>>

Reviews == {"NOT_REQUIRED", "PENDING", "ACCEPTED", "REJECTED"}
Queued == {"PENDING", "RETRY_WAIT"}
Settled == {"READY", "FAILED"}

\* package is the purpose of processing_result, backoff that
\* processing_next_attempt_at is still to come, mayRetry that it failed with an
\* error code the coordinator may have tried again.
Version == [by : People, passed : BOOLEAN, review : Reviews,
            processing : Queued \cup Settled \cup {"NOT_REQUIRED",
                                                   "PROCESSING"},
            attempts : 0 .. MaxAttempts, backoff : BOOLEAN,
            mayRetry : BOOLEAN,
            package : {"NONE", "REVIEW", "ANALYSIS"},
            decision : {"NONE", "INCLUDED", "REVISION_REQUESTED", "PROMOTED"},
            reclassified : BOOLEAN]

Idle == [step |-> "idle"]
Down == [step |-> "down"]
Processing == [step : {"processing"}, version : 1 .. MaxVersions,
               purpose : {"REVIEW", "ANALYSIS"}]

TypeOK ==
    /\ status \in Worked
    /\ owner \in People
    /\ versions \in Seq(Version) /\ Len(versions) <= MaxVersions
    /\ valid \in 0 .. Len(versions)
    /\ archived \in BOOLEAN
    /\ worker \in {Idle, Down} \cup Processing
    /\ dropped \subseteq 1 .. MaxVersions

Ids == DOMAIN versions
Pending(v) == versions[v].review = "PENDING"

\* Mutation: a decision does not end the matter.
Undelivered(v) ==
    versions[v].review = "NOT_REQUIRED" /\ versions[v].by # owner

\* A contribution waits for the owner: not theirs, and not decided.
Undecided(v) ==
    /\ versions[v].review = "NOT_REQUIRED"
    /\ versions[v].by # owner
    /\ versions[v].decision = "NONE"

Init ==
    /\ status = "TRACKING"
    /\ owner \in People
    /\ versions = <<>>
    /\ valid = 0
    /\ archived = FALSE
    /\ worker = Down
    /\ dropped = {}

-----------------------------------------------------------------------------
(* What people do.                                                         *)

\* submit_artifact takes nothing while a version waits for its verdict.
OpenForDelivery ==
    /\ status \in Submittable
    /\ \A v \in Ids : ~Pending(v)

\* The owner's delivery is a candidate unless it is interim; whatever a
\* collaborator sends is a contribution.
IsCandidate(p, interim, passed) == passed /\ p = owner /\ ~interim

\* The row submit_artifact inserts: what passed is prepared for its reader.
Received(p, candidate, passed) ==
    [by |-> p, passed |-> passed,
     review |-> IF candidate THEN "PENDING" ELSE "NOT_REQUIRED",
     processing |-> IF passed THEN "PENDING" ELSE "NOT_REQUIRED",
     attempts |-> 0, backoff |-> FALSE, mayRetry |-> FALSE,
     package |-> "NONE", decision |-> "NONE", reclassified |-> FALSE]

\* Mutation: a delivery that fails its check reopens a task that has a result
\* in force.
ReopenedByFailure(candidate, passed) ==
    IF candidate THEN "PENDING_ACCEPTANCE"
    ELSE IF ~passed THEN "TRACKING" ELSE status

\* Where a delivery leaves the task: a contribution moves nothing.
StatusAfter(candidate, passed) ==
    IF candidate THEN "PENDING_ACCEPTANCE"
    ELSE IF ~passed /\ valid = 0 THEN "TRACKING" ELSE status

\* submit_artifact.
Submit(p, interim, passed) ==
    LET candidate == IsCandidate(p, interim, passed)
    IN  /\ ~archived
        /\ OpenForDelivery
        /\ Len(versions) < MaxVersions
        /\ versions' = Append(versions, Received(p, candidate, passed))
        /\ status' = StatusAfter(candidate, passed)
        /\ UNCHANGED <<owner, valid, archived, worker, dropped>>

\* decide_contribution, INCLUDE or REQUEST_REVISION: analysis that has not
\* begun, or has failed, is called off.
Settle(v, decision) ==
    /\ Undecided(v)
    /\ versions[v].passed
    /\ versions' = [versions EXCEPT
                       ![v].decision = decision,
                       ![v].mayRetry = FALSE,
                       ![v].processing = IF @ \in Queued \cup {"FAILED"}
                                         THEN "NOT_REQUIRED" ELSE @]
    /\ UNCHANGED <<task, worker, dropped>>

\* decide_contribution, PROMOTE: the contribution becomes the candidate, and
\* its processing goes on from where it is.
Promote(v) ==
    /\ Undecided(v)
    /\ versions[v].passed
    /\ OpenForDelivery
    /\ versions' = [versions EXCEPT
                       ![v].decision = "PROMOTED",
                       ![v].reclassified = FALSE,
                       ![v].review = "PENDING",
                       ![v].processing = IF @ = "NOT_REQUIRED"
                                         THEN "PENDING" ELSE @]
    /\ status' = "PENDING_ACCEPTANCE"
    /\ UNCHANGED <<owner, valid, archived, worker, dropped>>

\* Mutation: the verdict does not wait for the assist package.
ReviewableAnyTime(v) == Pending(v)

Reviewable(v) == Pending(v) /\ versions[v].processing \in Settled

\* review_artifact, accept.
Accept(v) ==
    /\ Reviewable(v)
    /\ versions' = [versions EXCEPT ![v].review = "ACCEPTED"]
    /\ valid' = v
    /\ status' = "ACCEPTED"
    /\ UNCHANGED <<owner, archived, worker, dropped>>

\* review_artifact, reject: AGGREGATED when the current final cites the
\* version in force.
Reject(v) ==
    /\ Reviewable(v)
    /\ versions' = [versions EXCEPT ![v].review = "REJECTED"]
    /\ IF valid = 0 THEN status' = "TRACKING"
                    ELSE status' \in {"ACCEPTED", "AGGREGATED"}
    /\ UNCHANGED <<owner, valid, archived, worker, dropped>>

\* retry_task_result_processing: the attempts start again from nothing.
Retry(v) ==
    /\ versions[v].passed
    /\ Pending(v) \/ Undecided(v)
    /\ versions[v].processing = "FAILED"
    /\ versions[v].mayRetry
    /\ versions' = [versions EXCEPT ![v].processing = "PENDING",
                                    ![v].attempts = 0,
                                    ![v].mayRetry = FALSE,
                                    ![v].backoff = FALSE]
    /\ UNCHANGED <<task, worker, dropped>>

-----------------------------------------------------------------------------
(* What the worker does.                                                   *)

\* The versions process_task_result_once chooses from.
Eligible(v) ==
    /\ versions[v].passed
    /\ Pending(v) \/ (Analysing /\ Undecided(v))
    /\ versions[v].processing \in Queued
    /\ versions[v].attempts < MaxAttempts
    /\ ~versions[v].backoff

\* What the package is for, as read after the claim and before the work.
Purpose(v) == IF Undecided(v) THEN "ANALYSIS" ELSE "REVIEW"

\* process_task_result_once, first transaction and the reads after it: the
\* oldest eligible version is claimed, and its purpose is settled.
Claim(v) ==
    /\ worker = Idle
    /\ Eligible(v)
    /\ \A u \in 1 .. v - 1 : ~Eligible(u)
    /\ versions' = [versions EXCEPT ![v].processing = "PROCESSING",
                                    ![v].attempts = @ + 1]
    /\ worker' = [step |-> "processing", version |-> v,
                  purpose |-> Purpose(v)]
    /\ UNCHANGED <<task, dropped>>

Produced ==
    [versions EXCEPT ![worker.version].processing = "READY",
                     ![worker.version].package = worker.purpose,
                     ![worker.version].mayRetry = FALSE]

\* Mutation: the attempt that was the last allowed is followed by another.
OneTooMany(v) == versions[v].attempts <= MaxAttempts

MayTryAgain(v) == versions[v].attempts < MaxAttempts

\* What a failure leaves: the provider's may be tried again after a pause,
\* a broken contract or anything else ends the processing.
Failed(error) ==
    LET v == worker.version
        again == error = "PROVIDER" /\ MayTryAgain(v)
    IN  [versions EXCEPT
            ![v].processing = IF again THEN "RETRY_WAIT" ELSE "FAILED",
            ![v].backoff = again,
            ![v].mayRetry = ~again /\ error # "OTHER"]

\* process_task_result_once, last transaction: unconditional, whatever was
\* decided about the version in the meantime.
Finish ==
    /\ worker.step = "processing"
    /\ \/ versions' = Produced
       \/ \E error \in {"PROVIDER", "CONTRACT", "OTHER"} :
             versions' = Failed(error)
    /\ worker' = Idle
    /\ UNCHANGED <<task, dropped>>

\* The pause of 5, 20 or 60 seconds is over.
BackoffElapses(v) ==
    /\ versions[v].backoff
    /\ versions' = [versions EXCEPT ![v].backoff = FALSE]
    /\ UNCHANGED <<task, worker, dropped>>

\* An error between the claim and the try, or in the transaction that was to
\* write the outcome: the loop of serve logs it and goes on, the version stays
\* PROCESSING, and nobody looks for it before the next start.
ProcessingRaises ==
    /\ worker.step = "processing"
    /\ worker' = Idle
    /\ dropped' = dropped \cup {worker.version}
    /\ UNCHANGED <<task, versions>>

\* The process ends.  An end that leaves nothing PROCESSING is not seen by the
\* next start and is left out.
WorkerStops ==
    /\ worker.step = "processing" \/ dropped # {}
    /\ worker' = Down
    /\ dropped' = {}
    /\ UNCHANGED <<task, versions>>

\* Mutation: what was being processed when the worker stopped stays so.
LeftBehind(v) == versions[v]

\* AgentWorker.recover: an attempt that was cut short counts.
Recovered(v) ==
    IF versions[v].processing = "PROCESSING"
    THEN [versions[v] EXCEPT
             !.processing = IF MayTryAgain(v) THEN "RETRY_WAIT" ELSE "FAILED",
             !.backoff = FALSE,
             !.mayRetry = FALSE]
    ELSE versions[v]

WorkerStarts ==
    /\ worker = Down
    /\ versions' = [v \in Ids |-> Recovered(v)]
    /\ worker' = Idle
    /\ UNCHANGED <<task, dropped>>

-----------------------------------------------------------------------------
(* What happens around the deliveries.                                     *)

\* Mutation: the verdict a version may have had is not looked at.
MisfiledByName(v) ==
    versions[v].by # owner /\ versions[v].decision # "PROMOTED"

\* A candidate that, going by the owner of today, a collaborator sent.
Misfiled(v) ==
    Pending(v) /\ versions[v].by # owner /\ versions[v].decision # "PROMOTED"

\* What reconcile_legacy_collaborator_candidates makes of a version: a
\* misfiled one is a contribution, and prepared once more for what it is now.
Reconciled(v) ==
    LET filed == IF Misfiled(v)
                 THEN [versions[v] EXCEPT !.review = "NOT_REQUIRED",
                                          !.reclassified = TRUE]
                 ELSE versions[v]
        stale == /\ filed.reclassified
                 /\ filed.review = "NOT_REQUIRED"
                 /\ filed.by # owner
                 /\ filed.processing = "READY"
                 /\ filed.package # "ANALYSIS"
    IN  IF stale THEN [filed EXCEPT !.processing = "PENDING",
                                    !.package = "NONE",
                                    !.attempts = 0,
                                    !.mayRetry = FALSE]
                 ELSE filed

\* Every process that serves the meeting loads it when it starts, and
\* reconciles its versions.
MeetingIsLoaded ==
    /\ versions' = [v \in Ids |-> Reconciled(v)]
    /\ versions' # versions
    /\ IF /\ status = "PENDING_ACCEPTANCE"
          /\ \A v \in Ids : Pending(v) => Misfiled(v)
       THEN IF valid = 0 THEN status' = "TRACKING"
                         ELSE status' \in {"ACCEPTED", "AGGREGATED"}
       ELSE UNCHANGED status
    /\ UNCHANGED <<owner, valid, archived, worker, dropped>>

\* respond_to_handoff of the OWNER part.
OwnerChanges(p) ==
    /\ p # owner
    /\ owner' = p
    /\ UNCHANGED <<status, valid, archived, versions, worker, dropped>>

\* Mutation: the version that waits for its verdict goes on waiting.
KeptVersions == versions

RejectedVersions ==
    [v \in Ids |-> IF Pending(v)
                   THEN [versions[v] EXCEPT !.review = "REJECTED"]
                   ELSE versions[v]]

\* _invalidate_downstream_inputs, when a result this task was built on is
\* replaced: the task is reopened whatever its status.
InputChanges ==
    /\ Structured
    /\ versions' = RejectedVersions
    /\ valid' = 0
    /\ status' = "TRACKING"
    /\ UNCHANGED <<owner, archived, worker, dropped>>

\* aggregate, which reads the versions in force first and marks the task, and
\* the meeting, later, whatever they are by then, and _supersede_pending_final.
FinalIsWritten ==
    /\ \E v \in Ids : versions[v].review = "ACCEPTED"
    /\ \/ status' = "AGGREGATED" /\ archived' = FALSE
       \/ status = "AGGREGATED" /\ status' = "ACCEPTED" /\ UNCHANGED archived
    /\ UNCHANGED <<owner, valid, versions, worker, dropped>>

\* _complete_delivery, of this meeting's final or of another's that a
\* dispatcher of this one came upon.
EpisodeIsArchived ==
    /\ archived' = TRUE
    /\ status' = IF status = "AGGREGATED" THEN "ARCHIVED" ELSE status
    /\ UNCHANGED <<owner, valid, versions, worker, dropped>>

-----------------------------------------------------------------------------
Deliver ==
    \E p \in People, interim, passed \in BOOLEAN : Submit(p, interim, passed)

Judge(v) == Accept(v) \/ Reject(v) \/ Retry(v)

Contribute(v) ==
    \/ Promote(v)
    \/ \E decision \in {"INCLUDED", "REVISION_REQUESTED"} : Settle(v, decision)

Surroundings ==
    \/ MeetingIsLoaded
    \/ \E p \in People : OwnerChanges(p)
    \/ InputChanges
    \/ FinalIsWritten
    \/ EpisodeIsArchived

Next ==
    \/ Deliver
    \/ \E v \in Ids : \/ Judge(v) \/ Contribute(v)
                      \/ Claim(v) \/ BackoffElapses(v)
    \/ Finish \/ ProcessingRaises \/ WorkerStops \/ WorkerStarts
    \/ Surroundings

Spec == Init /\ [][Next]_vars

\* The worker loops until its process ends and is started again, and time
\* passes.  Of people nothing is asked, except that the coordinator does not
\* have failed processing tried again for ever: the worker takes the oldest
\* version first.
Fairness ==
    /\ WF_vars((\E v \in Ids : Claim(v)) \/ Finish \/ WorkerStarts)
    /\ WF_vars(\E v \in Ids : BackoffElapses(v))
    /\ <>[][\A v \in Ids : ~Retry(v)]_vars

FairSpec == Spec /\ Fairness

-----------------------------------------------------------------------------
\* The coordinator never has two versions to judge, a task that waits for
\* acceptance has one, and a reopened task has none, whatever the owner, the
\* collaborators, the final and an upstream result did in between
\* (submit_artifact, decide_contribution, _invalidate_downstream_inputs).
OneCandidate ==
    /\ \A u, v \in Ids : Pending(u) /\ Pending(v) => u = v
    /\ status = "PENDING_ACCEPTANCE" => \E v \in Ids : Pending(v)
    /\ status = "TRACKING" => \A v \in Ids : ~Pending(v)

\* Nothing is queued that the worker would refuse for its attempts, and
\* what is PROCESSING is with the worker or is found when it starts, across
\* crashes, manual retries and promotions; the one exception is what an error
\* took out of its hands while it runs on, which only the next start finds
\* (process_task_result_once, AgentWorker.recover, process_loop).
NothingIsForgotten ==
    \A v \in Ids :
        /\ versions[v].processing \in Queued =>
               versions[v].attempts < MaxAttempts
        /\ versions[v].processing = "PROCESSING" =>
               \/ worker = Down
               \/ worker.step = "processing" /\ worker.version = v
               \/ v \in dropped

\* What was accepted is frozen: no worker that comes late, no recovery, retry
\* or change of upstream touches it (review_artifact and all that write
\* artifact_versions).
AcceptedIsFrozen ==
    [][\A v \in Ids : versions[v].review = "ACCEPTED" =>
           versions'[v] = versions[v]]_vars

\* A contribution that the owner dealt with without promoting it is over: it
\* never comes up for review nor is analysed afresh, even if it was being
\* analysed and the worker stopped (decide_contribution,
\* process_task_result_once).
HandledIsOver ==
    [][\A v \in Ids :
          versions[v].decision \in {"INCLUDED", "REVISION_REQUESTED"} =>
              /\ versions'[v].review = "NOT_REQUIRED"
              /\ versions'[v].processing = "PROCESSING" =>
                     versions[v].processing = "PROCESSING"]_vars

\* Every candidate comes to a verdict or can be given one, although the
\* worker may stop at every attempt, unless an error has made the worker drop
\* it; once the worker has started anew it comes to that again
\* (process_task_result_once, AgentWorker.recover, process_loop).
CandidateIsSettled ==
    \A v \in 1 .. MaxVersions :
        (v \in Ids /\ Pending(v)) ~>
            (v \in Ids /\ (Pending(v) => \/ versions[v].processing \in Settled
                                        \/ v \in dropped))

\* The deliveries of a task keep the promise of ReviewGate.
Candidate == IF \E v \in Ids : Pending(v) THEN CHOOSE v \in Ids : Pending(v)
             ELSE 0

Gate == INSTANCE ReviewGate WITH
    candidate <- Candidate,
    ready <- \E v \in Ids : Reviewable(v),
    proposed <- {v \in Ids : versions[v].review # "NOT_REQUIRED"},
    inForce <- valid

ImplementsGate == Gate!GateSpec

\* The deliveries move the task as TaskLifecycle says.
Life == INSTANCE TaskLifecycle WITH
    waiting <- \E v \in Ids : Pending(v),
    inForce <- valid,
    approved <- \E v \in Ids : versions[v].review = "ACCEPTED"

ImplementsLifecycle == Life!LifeSpec
=============================================================================
