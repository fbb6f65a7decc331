------------------------- MODULE TaskDeliveryProofs -------------------------
(***************************************************************************)
(* Proofs about TaskDelivery, for any participants and any number of       *)
(* versions and attempts.                                                  *)
(***************************************************************************)
EXTENDS TaskDelivery, SequenceTheorems, TLAPS

USE DEF Submittable, Worked, Reviews, Queued, Settled

LEMMA ConstantFacts ==
  /\ Analysing \in BOOLEAN /\ Structured \in BOOLEAN
  /\ MaxVersions \in Nat /\ MaxAttempts \in Nat \ {0}
  BY DeliveryAssumption

-----------------------------------------------------------------------------
(* The inductive invariant.                                                *)

\* What holds of a version on its own: it is queued only with an attempt
\* left, waits only while it is queued or called off, is accepted only with
\* its package prepared or given up, and what passed is processed until the
\* owner has dealt with it.
Sound(x) ==
    /\ x.processing \in Queued => x.attempts < MaxAttempts
    /\ x.processing \in Settled \cup {"PROCESSING"} => ~x.backoff
    /\ x.review = "ACCEPTED" => x.processing \in Settled
    /\ x.decision \in {"INCLUDED", "REVISION_REQUESTED"} =>
           x.review = "NOT_REQUIRED"
    /\ x.passed /\ x.decision \in {"NONE", "PROMOTED"} =>
           x.processing # "NOT_REQUIRED"

VersionsAreSound == \A v \in Ids : Sound(versions[v])

\* What the worker has is marked so, and nothing else is unless it is down or
\* has let go of it.
WorkIsMarked ==
    /\ worker.step = "processing" =>
           /\ worker.version \in Ids
           /\ versions[worker.version].processing = "PROCESSING"
    /\ \A v \in Ids : versions[v].processing = "PROCESSING" =>
           \/ worker = Down
           \/ worker.step = "processing" /\ worker.version = v
           \/ v \in dropped

DeliveryInv == TypeOK /\ VersionsAreSound /\ WorkIsMarked /\ OneCandidate

-----------------------------------------------------------------------------
(* Versions in their sequence.                                             *)

LEMMA IdsAreNumbers ==
  ASSUME TypeOK
  PROVE  /\ Len(versions) \in Nat /\ Len(versions) <= MaxVersions
         /\ Ids = 1 .. Len(versions) /\ versions \in [Ids -> Version]
         /\ \A v \in Ids : versions[v] \in Version /\ v \in 1 .. MaxVersions
  <1>1. /\ Len(versions) \in Nat /\ versions \in [1 .. Len(versions) -> Version]
        /\ DOMAIN versions = 1 .. Len(versions) /\ Len(versions) <= MaxVersions
    BY LenProperties DEF TypeOK
  <1> QED BY <1>1, ConstantFacts DEF Ids

LEMMA AllMove ==
  ASSUME TypeOK, versions' \in [Ids -> Version]
  PROVE  versions' \in Seq(Version) /\ Len(versions') = Len(versions) /\ Ids' = Ids
  <1>1. Len(versions) \in Nat /\ versions' \in [1 .. Len(versions) -> Version]
    BY IdsAreNumbers
  <1>2. versions' \in Seq(Version)
    BY <1>1
  <1>3. DOMAIN versions' = 1 .. Len(versions)
    BY <1>1
  <1>4. Len(versions') = Len(versions)
    BY <1>1, <1>2, <1>3, LenProperties
  <1> QED BY <1>2, <1>3, <1>4, IdsAreNumbers DEF Ids

LEMMA OneMoves ==
  ASSUME TypeOK, NEW v \in Ids, NEW y \in Version,
         versions' = [versions EXCEPT ![v] = y]
  PROVE  /\ versions' \in Seq(Version) /\ Len(versions') = Len(versions)
         /\ Ids' = Ids /\ versions'[v] = y
         /\ \A u \in Ids : u # v => versions'[u] = versions[u]
  <1>1. versions \in [Ids -> Version]
    BY IdsAreNumbers
  <1>2. /\ versions' \in [Ids -> Version] /\ versions'[v] = y
        /\ \A u \in Ids : u # v => versions'[u] = versions[u]
    BY <1>1
  <1> QED BY <1>2, AllMove

LEMMA OneComes ==
  ASSUME TypeOK, NEW y \in Version, versions' = Append(versions, y)
  PROVE  /\ versions' \in Seq(Version) /\ Len(versions') = Len(versions) + 1
         /\ Ids' = Ids \cup {Len(versions) + 1} /\ Len(versions) + 1 \notin Ids
         /\ versions'[Len(versions) + 1] = y
         /\ \A u \in Ids : versions'[u] = versions[u]
  <1>1. versions \in Seq(Version) /\ Ids = 1 .. Len(versions) /\ Len(versions) \in Nat
    BY IdsAreNumbers DEF TypeOK
  <1>2. versions' \in Seq(Version) /\ Len(versions') = Len(versions) + 1
    BY <1>1
  <1>3. Ids' = 1 .. Len(versions) + 1
    BY <1>2, LenProperties DEF Ids
  <1>4. /\ versions'[Len(versions) + 1] = y
        /\ \A u \in 1 .. Len(versions) : versions'[u] = versions[u]
    BY <1>1
  <1> QED BY <1>1, <1>2, <1>3, <1>4

-----------------------------------------------------------------------------
(* What each step leaves of the invariant.                                 *)

\* When one version moves and is still sound.
LEMMA SoundAfterMove ==
  ASSUME DeliveryInv, NEW v \in Ids, NEW y \in Version, Sound(y),
         versions' = [versions EXCEPT ![v] = y],
         status' \in Worked, owner' \in People, archived' \in BOOLEAN,
         valid' \in 0 .. Len(versions),
         worker' \in {Idle, Down} \cup Processing, dropped' \subseteq 1 .. MaxVersions
  PROVE  TypeOK' /\ VersionsAreSound'
  <1>1. /\ versions' \in Seq(Version) /\ Len(versions') = Len(versions)
        /\ Ids' = Ids /\ versions'[v] = y
        /\ \A u \in Ids : u # v => versions'[u] = versions[u]
    BY OneMoves DEF DeliveryInv
  <1>2. TypeOK'
    BY <1>1 DEF DeliveryInv, TypeOK
  <1>3. VersionsAreSound'
    BY <1>1 DEF DeliveryInv, VersionsAreSound
  <1> QED BY <1>2, <1>3

LEMMA CandidatesStay ==
  ASSUME OneCandidate, Ids' = Ids,
         \A v \in Ids : versions'[v].review = "PENDING" <=> Pending(v),
         status' = "PENDING_ACCEPTANCE" => status = "PENDING_ACCEPTANCE",
         status' = "TRACKING" => status = "TRACKING" \/ \A v \in Ids : ~Pending(v)
  PROVE  OneCandidate'
  BY DEF OneCandidate, Pending

\* Once the one candidate has its verdict or is withdrawn there is none.
LEMMA NoCandidate ==
  ASSUME Ids' = Ids, \A v \in Ids : versions'[v].review # "PENDING",
         status' # "PENDING_ACCEPTANCE"
  PROVE  OneCandidate'
  BY DEF OneCandidate, Pending

LEMMA WorkStays ==
  ASSUME WorkIsMarked, Ids' = Ids, UNCHANGED <<worker, dropped>>,
         \A v \in Ids : versions'[v].processing = "PROCESSING" <=>
                        versions[v].processing = "PROCESSING"
  PROVE  WorkIsMarked'
  BY DEF WorkIsMarked

LEMMA SubmitKept ==
  ASSUME DeliveryInv, NEW p \in People, NEW interim \in BOOLEAN,
         NEW passed \in BOOLEAN, Submit(p, interim, passed)
  PROVE  DeliveryInv'
  <1> DEFINE candidate == IsCandidate(p, interim, passed)
             y == Received(p, candidate, passed)
             n == Len(versions) + 1
  <1>0. TypeOK
    BY DEF DeliveryInv
  <1>1. versions' = Append(versions, y) /\ status' = StatusAfter(candidate, passed)
        /\ UNCHANGED <<owner, valid, archived, worker, dropped>>
        /\ status \in Submittable /\ (\A v \in Ids : ~Pending(v))
        /\ Len(versions) < MaxVersions
    BY DEF Submit, OpenForDelivery
  <1>2. candidate \in BOOLEAN /\ (candidate => passed)
    BY DEF IsCandidate
  <1> HIDE DEF candidate
  <1>3. /\ y \in Version /\ Sound(y)
        /\ y.review = IF candidate THEN "PENDING" ELSE "NOT_REQUIRED"
        /\ y.processing # "PROCESSING"
    BY <1>2, ConstantFacts DEF Received, Version, Sound
  <1> HIDE DEF y
  <1>4. /\ versions' \in Seq(Version) /\ Len(versions') = n
        /\ Ids' = Ids \cup {n} /\ n \notin Ids /\ versions'[n] = y
        /\ \A u \in Ids : versions'[u] = versions[u]
    BY <1>0, <1>1, <1>3, OneComes
  <1>5. Len(versions) \in Nat /\ Len(versions) < MaxVersions
    BY <1>0, <1>1, IdsAreNumbers
  <1>6. /\ status' \in Worked
        /\ status' = "PENDING_ACCEPTANCE" <=> candidate
    BY <1>0, <1>1 DEF StatusAfter, TypeOK
  <1>7. TypeOK'
    BY <1>0, <1>1, <1>4, <1>5, <1>6, ConstantFacts DEF TypeOK
  <1>8. VersionsAreSound'
    BY <1>3, <1>4 DEF DeliveryInv, VersionsAreSound
  <1>9. WorkIsMarked'
    BY <1>1, <1>3, <1>4 DEF DeliveryInv, WorkIsMarked
  <1>10. OneCandidate'
    BY <1>1, <1>3, <1>4, <1>6 DEF OneCandidate, Pending
  <1> QED BY <1>7, <1>8, <1>9, <1>10 DEF DeliveryInv

LEMMA SettleKept ==
  ASSUME DeliveryInv, NEW v \in Ids,
         NEW decision \in {"INCLUDED", "REVISION_REQUESTED"}, Settle(v, decision)
  PROVE  DeliveryInv'
  <1> DEFINE x == versions[v]
             y == [x EXCEPT !.decision = decision, !.mayRetry = FALSE,
                            !.processing = IF @ \in Queued \cup {"FAILED"}
                                           THEN "NOT_REQUIRED" ELSE @]
  <1>0. TypeOK
    BY DEF DeliveryInv
  <1>1. x \in Version /\ Sound(x)
    BY <1>0, IdsAreNumbers DEF DeliveryInv, VersionsAreSound
  <1>2. versions' = [versions EXCEPT ![v] = y] /\ UNCHANGED <<task, worker, dropped>>
        /\ x.review = "NOT_REQUIRED"
    BY DEF Settle, Undecided
  <1> HIDE DEF x
  <1>3. /\ y \in Version /\ Sound(y) /\ y.review = x.review
        /\ y.processing = "PROCESSING" <=> x.processing = "PROCESSING"
    BY <1>1, <1>2 DEF Version, Sound
  <1> HIDE DEF y
  <1>4. /\ Ids' = Ids /\ versions'[v] = y
        /\ \A u \in Ids : u # v => versions'[u] = versions[u]
    BY <1>0, <1>2, <1>3, OneMoves
  <1>5. TypeOK' /\ VersionsAreSound'
    BY <1>0, <1>2, <1>3, SoundAfterMove DEF task, TypeOK
  <1>6. WorkIsMarked'
    BY <1>2, <1>3, <1>4, WorkStays DEF DeliveryInv, x
  <1>7. OneCandidate'
    BY <1>2, <1>3, <1>4, CandidatesStay DEF DeliveryInv, Pending, task, x
  <1> QED BY <1>5, <1>6, <1>7 DEF DeliveryInv

LEMMA PromoteKept ==
  ASSUME DeliveryInv, NEW v \in Ids, Promote(v)
  PROVE  DeliveryInv'
  <1> DEFINE x == versions[v]
             y == [x EXCEPT !.decision = "PROMOTED", !.reclassified = FALSE,
                            !.review = "PENDING",
                            !.processing = IF @ = "NOT_REQUIRED"
                                           THEN "PENDING" ELSE @]
  <1>0. TypeOK
    BY DEF DeliveryInv
  <1>1. x \in Version /\ Sound(x)
    BY <1>0, IdsAreNumbers DEF DeliveryInv, VersionsAreSound
  <1>2. /\ versions' = [versions EXCEPT ![v] = y]
        /\ UNCHANGED <<owner, valid, archived, worker, dropped>>
        /\ status' = "PENDING_ACCEPTANCE" /\ \A u \in Ids : ~Pending(u)
        /\ x.passed /\ x.decision = "NONE"
    BY DEF Promote, Undecided, OpenForDelivery
  <1> HIDE DEF x
  <1>3. /\ y \in Version /\ Sound(y) /\ y.review = "PENDING"
        /\ y.processing = x.processing
    BY <1>1, <1>2 DEF Version, Sound
  <1> HIDE DEF y
  <1>4. /\ Ids' = Ids /\ versions'[v] = y
        /\ \A u \in Ids : u # v => versions'[u] = versions[u]
    BY <1>0, <1>2, <1>3, OneMoves
  <1>5. TypeOK' /\ VersionsAreSound'
    BY <1>0, <1>2, <1>3, SoundAfterMove DEF TypeOK
  <1>6. WorkIsMarked'
    BY <1>2, <1>3, <1>4, WorkStays DEF DeliveryInv, x
  <1>7. OneCandidate'
    BY <1>2, <1>3, <1>4 DEF OneCandidate, Pending
  <1> QED BY <1>5, <1>6, <1>7 DEF DeliveryInv

\* The verdict of either kind.
LEMMA VerdictKept ==
  ASSUME DeliveryInv, NEW v \in Ids, Accept(v) \/ Reject(v)
  PROVE  DeliveryInv'
  <1>0. TypeOK /\ OneCandidate
    BY DEF DeliveryInv
  <1> DEFINE x == versions[v]
             Y(verdict) == [x EXCEPT !.review = verdict]
  <1>1. PICK verdict \in {"ACCEPTED", "REJECTED"} :
            versions' = [versions EXCEPT ![v].review = verdict]
    BY DEF Accept, Reject
  <1>2. versions' = [versions EXCEPT ![v] = Y(verdict)]
    BY <1>1
  <1>3. x \in Version /\ Sound(x) /\ x.review = "PENDING" /\ x.processing \in Settled
    BY <1>0, IdsAreNumbers
    DEF DeliveryInv, VersionsAreSound, Accept, Reject, Reviewable, Pending
  <1>4. /\ UNCHANGED <<owner, archived, worker, dropped>>
        /\ status' \in {"TRACKING", "ACCEPTED", "AGGREGATED"}
        /\ valid' \in 0 .. Len(versions)
    BY <1>0, IdsAreNumbers DEF Accept, Reject, TypeOK
  <1> HIDE DEF x
  <1>5. /\ Y(verdict) \in Version /\ Sound(Y(verdict))
        /\ Y(verdict).review = verdict /\ Y(verdict).processing = x.processing
    BY <1>3 DEF Version, Sound
  <1> HIDE DEF Y
  <1>6. /\ Ids' = Ids /\ versions'[v] = Y(verdict)
        /\ \A u \in Ids : u # v => versions'[u] = versions[u]
    BY <1>0, <1>2, <1>5, OneMoves
  <1>7. TypeOK' /\ VersionsAreSound'
    BY <1>0, <1>2, <1>4, <1>5, SoundAfterMove DEF TypeOK
  <1>8. WorkIsMarked'
    BY <1>4, <1>5, <1>6, WorkStays DEF DeliveryInv, x
  <1>9. OneCandidate'
    <2>1. \A u \in Ids : u # v => ~Pending(u)
      BY <1>0, <1>3 DEF OneCandidate, Pending, x
    <2> QED BY <1>4, <1>5, <1>6, <2>1, NoCandidate DEF Pending
  <1> QED BY <1>7, <1>8, <1>9 DEF DeliveryInv

\* A change of one version that leaves the reviews and the task alone.
LEMMA ProcessingKept ==
  ASSUME DeliveryInv, NEW v \in Ids, NEW y \in Version, Sound(y),
         versions' = [versions EXCEPT ![v] = y], y.review = versions[v].review,
         UNCHANGED task,
         worker' \in {Idle, Down} \cup Processing, dropped' \subseteq 1 .. MaxVersions,
         WorkIsMarked'
  PROVE  DeliveryInv'
  <1>1. TypeOK' /\ VersionsAreSound'
    BY SoundAfterMove DEF DeliveryInv, TypeOK, task
  <1>2. OneCandidate'
    <2>1. /\ Ids' = Ids /\ versions'[v] = y
          /\ \A u \in Ids : u # v => versions'[u] = versions[u]
      BY OneMoves DEF DeliveryInv
    <2> QED BY <2>1, CandidatesStay DEF DeliveryInv, Pending, task
  <1> QED BY <1>1, <1>2 DEF DeliveryInv

LEMMA RetryKept ==
  ASSUME DeliveryInv, NEW v \in Ids, Retry(v) \/ BackoffElapses(v)
  PROVE  DeliveryInv'
  <1> DEFINE x == versions[v]
  <1>0. TypeOK
    BY DEF DeliveryInv
  <1>1. x \in Version /\ Sound(x)
    BY <1>0, IdsAreNumbers DEF DeliveryInv, VersionsAreSound
  <1>2. ASSUME NEW y \in Version, Sound(y), versions' = [versions EXCEPT ![v] = y],
               y.review = x.review, y.processing # "PROCESSING" \/ y.processing = x.processing,
               x.processing = "PROCESSING" => y.processing = "PROCESSING",
               UNCHANGED <<task, worker, dropped>>
        PROVE  DeliveryInv'
    <2>1. /\ Ids' = Ids /\ versions'[v] = y
          /\ \A u \in Ids : u # v => versions'[u] = versions[u]
      BY <1>0, <1>2, OneMoves
    <2>2. WorkIsMarked'
      BY <1>2, <2>1, WorkStays DEF DeliveryInv
    <2> QED BY <1>0, <1>2, <2>2, ProcessingKept DEF TypeOK
  <1>3. CASE Retry(v)
    <2> DEFINE y == [x EXCEPT !.processing = "PENDING", !.attempts = 0,
                              !.mayRetry = FALSE, !.backoff = FALSE]
    <2>1. /\ versions' = [versions EXCEPT ![v] = y] /\ UNCHANGED <<task, worker, dropped>>
          /\ x.processing = "FAILED" /\ x.review \in {"PENDING", "NOT_REQUIRED"}
      BY <1>3 DEF Retry, Pending, Undecided
    <2> HIDE DEF x
    <2>2. /\ y.processing = "PENDING" /\ y.attempts = 0 /\ y.review = x.review
          /\ y.decision = x.decision /\ y.passed = x.passed
      BY <1>1 DEF Version
    <2>3. y \in Version
      <3>1. 0 \in 0 .. MaxAttempts
        BY ConstantFacts
      <3> QED BY <1>1, <3>1 DEF Version
    <2>4. Sound(y)
      BY <1>1, <2>1, <2>2, ConstantFacts DEF Sound
    <2> HIDE DEF y
    <2> QED BY <1>2, <2>1, <2>2, <2>3, <2>4
  <1>4. CASE BackoffElapses(v)
    <2> DEFINE y == [x EXCEPT !.backoff = FALSE]
    <2>1. versions' = [versions EXCEPT ![v] = y] /\ UNCHANGED <<task, worker, dropped>>
      BY <1>4 DEF BackoffElapses
    <2> HIDE DEF x
    <2>2. /\ y \in Version /\ Sound(y) /\ y.review = x.review
          /\ y.processing = x.processing
      BY <1>1 DEF Version, Sound
    <2> HIDE DEF y
    <2> QED BY <1>2, <2>1, <2>2
  <1> QED BY <1>3, <1>4

LEMMA ClaimKept ==
  ASSUME DeliveryInv, NEW v \in Ids, Claim(v)
  PROVE  DeliveryInv'
  <1> DEFINE x == versions[v]
             y == [x EXCEPT !.processing = "PROCESSING", !.attempts = @ + 1]
             w == [step |-> "processing", version |-> v, purpose |-> Purpose(v)]
  <1>0. TypeOK
    BY DEF DeliveryInv
  <1>1. x \in Version /\ Sound(x) /\ v \in 1 .. MaxVersions
    BY <1>0, IdsAreNumbers DEF DeliveryInv, VersionsAreSound
  <1>2. /\ versions' = [versions EXCEPT ![v] = y] /\ worker' = w
        /\ UNCHANGED <<task, dropped>> /\ worker = Idle
        /\ x.attempts < MaxAttempts /\ ~x.backoff
        /\ x.review \in {"PENDING", "NOT_REQUIRED"}
    BY DEF Claim, Eligible, Pending, Undecided
  <1> HIDE DEF x
  <1>3. /\ y \in Version /\ Sound(y) /\ y.review = x.review
        /\ y.processing = "PROCESSING"
    <2>1. /\ y.processing = "PROCESSING" /\ y.review = x.review
          /\ y.decision = x.decision /\ y.passed = x.passed
          /\ y.backoff = x.backoff
      BY <1>1 DEF Version
    <2>2. x.attempts + 1 \in 0 .. MaxAttempts
      BY <1>1, <1>2, ConstantFacts DEF Version
    <2>3. y \in Version
      BY <1>1, <2>2 DEF Version
    <2>4. Sound(y)
      BY <1>1, <1>2, <2>1 DEF Sound
    <2> QED BY <2>1, <2>3, <2>4
  <1> HIDE DEF y
  <1>4. /\ Ids' = Ids /\ versions'[v] = y
        /\ \A u \in Ids : u # v => versions'[u] = versions[u]
    BY <1>0, <1>2, <1>3, OneMoves
  <1>5. w \in Processing
    BY <1>1 DEF Processing, Purpose
  <1>6. \A u \in Ids : versions[u].processing = "PROCESSING" => u \in dropped
    BY <1>2 DEF DeliveryInv, WorkIsMarked, Idle, Down
  <1>7. WorkIsMarked'
    BY <1>2, <1>3, <1>4, <1>6 DEF WorkIsMarked
  <1> HIDE DEF w
  <1>8. dropped' \subseteq 1 .. MaxVersions
    BY <1>0, <1>2 DEF TypeOK
  <1> QED BY <1>2, <1>3, <1>5, <1>7, <1>8, ProcessingKept DEF x

LEMMA WorkerHas ==
  ASSUME DeliveryInv, worker.step = "processing"
  PROVE  /\ worker \in Processing
         /\ worker.version \in Ids
         /\ versions[worker.version].processing = "PROCESSING"
         /\ versions[worker.version] \in Version
         /\ Sound(versions[worker.version])
         /\ \A u \in Ids :
                versions[u].processing = "PROCESSING" =>
                    u = worker.version \/ u \in dropped
  <1>1. worker \in Processing
    BY DEF DeliveryInv, TypeOK, Idle, Down
  <1>2. /\ worker.version \in Ids
        /\ versions[worker.version].processing = "PROCESSING"
        /\ \A u \in Ids :
               versions[u].processing = "PROCESSING" =>
                   u = worker.version \/ u \in dropped
    BY DEF DeliveryInv, WorkIsMarked, Down
  <1> QED BY <1>1, <1>2, IdsAreNumbers DEF DeliveryInv, VersionsAreSound

\* What a finished attempt may leave: a package, another try or a failure.
LEMMA Outcome ==
  ASSUME DeliveryInv, Finish
  PROVE  \E y \in Version :
            /\ Sound(y) /\ y.review = versions[worker.version].review
            /\ y.processing \in {"READY", "RETRY_WAIT", "FAILED"}
            /\ versions' = [versions EXCEPT ![worker.version] = y]
  <1> DEFINE v == worker.version
             x == versions[v]
  <1>1. /\ v \in Ids /\ x \in Version /\ Sound(x) /\ x.processing = "PROCESSING"
        /\ worker.purpose \in {"REVIEW", "ANALYSIS"}
    BY WorkerHas DEF Finish, Processing
  <1>2. CASE versions' = Produced
    <2> DEFINE y == [x EXCEPT !.processing = "READY", !.package = worker.purpose,
                              !.mayRetry = FALSE]
    <2>1. versions' = [versions EXCEPT ![v] = y]
      BY <1>2 DEF Produced
    <2> HIDE DEF x
    <2>2. /\ y \in Version /\ Sound(y) /\ y.review = x.review
          /\ y.processing = "READY"
      BY <1>1 DEF Version, Sound
    <2> HIDE DEF y
    <2> QED BY <2>1, <2>2 DEF x
  <1>3. ASSUME NEW error \in {"PROVIDER", "CONTRACT", "OTHER"},
               versions' = Failed(error)
        PROVE  \E y \in Version :
                  /\ Sound(y) /\ y.review = x.review
                  /\ y.processing \in {"READY", "RETRY_WAIT", "FAILED"}
                  /\ versions' = [versions EXCEPT ![v] = y]
    <2> DEFINE again == error = "PROVIDER" /\ MayTryAgain(v)
               y == [x EXCEPT !.processing = IF again THEN "RETRY_WAIT" ELSE "FAILED",
                              !.backoff = again,
                              !.mayRetry = (~again /\ error # "OTHER")]
    <2>1. versions' = [versions EXCEPT ![v] = y]
      BY <1>3 DEF Failed
    <2>2. again \in BOOLEAN /\ (again => x.attempts < MaxAttempts)
      BY DEF MayTryAgain
    <2> HIDE DEF x, again
    <2>3. /\ y \in Version /\ Sound(y) /\ y.review = x.review
          /\ y.processing \in {"RETRY_WAIT", "FAILED"}
      BY <1>1, <2>2 DEF Version, Sound
    <2> HIDE DEF y
    <2> QED BY <2>1, <2>3
  <1> QED BY <1>2, <1>3 DEF Finish

LEMMA FinishKept ==
  ASSUME DeliveryInv, Finish
  PROVE  DeliveryInv'
  <1> DEFINE v == worker.version
  <1>1. /\ v \in Ids
        /\ \A u \in Ids :
               versions[u].processing = "PROCESSING" => u = v \/ u \in dropped
    BY WorkerHas DEF Finish
  <1>2. PICK y \in Version :
            /\ Sound(y) /\ y.review = versions[v].review
            /\ y.processing \in {"READY", "RETRY_WAIT", "FAILED"}
            /\ versions' = [versions EXCEPT ![v] = y]
    BY Outcome
  <1>3. UNCHANGED <<task, dropped>> /\ worker' = Idle
    BY DEF Finish
  <1> HIDE DEF v
  <1>4. /\ Ids' = Ids /\ versions'[v] = y
        /\ \A u \in Ids : u # v => versions'[u] = versions[u]
    BY <1>1, <1>2, OneMoves DEF DeliveryInv
  <1>5. WorkIsMarked'
    BY <1>1, <1>2, <1>3, <1>4 DEF WorkIsMarked, Idle
  <1>6. dropped' \subseteq 1 .. MaxVersions
    BY <1>3 DEF DeliveryInv, TypeOK
  <1> QED BY <1>1, <1>2, <1>3, <1>5, <1>6, ProcessingKept

\* Steps that leave the versions and the worker's mark alone.
LEMMA ProcessingRaisesKept ==
  ASSUME DeliveryInv, ProcessingRaises
  PROVE  DeliveryInv'
  <1>1. /\ versions' = versions /\ Ids' = Ids /\ worker' = Idle /\ UNCHANGED task
        /\ dropped' = dropped \cup {worker.version}
        /\ worker \in Processing
        /\ \A u \in Ids : versions[u].processing = "PROCESSING" =>
               u = worker.version \/ u \in dropped
    BY WorkerHas DEF ProcessingRaises, Ids
  <1>2. dropped' \subseteq 1 .. MaxVersions
    BY <1>1 DEF Processing, DeliveryInv, TypeOK
  <1>3. WorkIsMarked'
    BY <1>1 DEF WorkIsMarked, Idle
  <1> QED
    BY <1>1, <1>2, <1>3 DEF DeliveryInv, TypeOK, VersionsAreSound, OneCandidate,
                            Pending, task

LEMMA WorkerStopsKept ==
  ASSUME DeliveryInv, WorkerStops
  PROVE  DeliveryInv'
  <1>1. /\ versions' = versions /\ Ids' = Ids /\ worker' = Down /\ UNCHANGED task
        /\ dropped' = {}
    BY DEF WorkerStops, Ids
  <1> QED
    BY <1>1 DEF DeliveryInv, TypeOK, VersionsAreSound, WorkIsMarked, OneCandidate,
                Pending, task, Down

\* A step that moves every version, soundly.
LEMMA SoundAfterAll ==
  ASSUME DeliveryInv, NEW F, versions' = F, F \in [Ids -> Version],
         \A v \in Ids : Sound(F[v]),
         status' \in Worked, owner' \in People, archived' \in BOOLEAN,
         valid' \in 0 .. Len(versions),
         worker' \in {Idle, Down} \cup Processing, dropped' \subseteq 1 .. MaxVersions
  PROVE  TypeOK' /\ VersionsAreSound' /\ Ids' = Ids
  <1>1. /\ versions' \in Seq(Version) /\ Len(versions') = Len(versions)
        /\ Ids' = Ids
    BY AllMove DEF DeliveryInv
  <1> QED BY <1>1 DEF DeliveryInv, TypeOK, VersionsAreSound

LEMMA RecoveredIsSound ==
  ASSUME DeliveryInv, NEW v \in Ids
  PROVE  /\ Recovered(v) \in Version /\ Sound(Recovered(v))
         /\ Recovered(v).review = versions[v].review
         /\ Recovered(v).processing # "PROCESSING"
         /\ versions[v].processing # "PROCESSING" => Recovered(v) = versions[v]
         /\ versions[v].processing = "PROCESSING" =>
                Recovered(v).processing \in {"RETRY_WAIT", "FAILED"}
  <1> DEFINE x == versions[v]
  <1>1. x \in Version /\ Sound(x)
    BY IdsAreNumbers DEF DeliveryInv, VersionsAreSound
  <1>2. Recovered(v) =
            IF x.processing = "PROCESSING"
            THEN [x EXCEPT !.processing = IF x.attempts < MaxAttempts
                                          THEN "RETRY_WAIT" ELSE "FAILED",
                           !.backoff = FALSE, !.mayRetry = FALSE]
            ELSE x
    BY DEF Recovered, MayTryAgain
  <1> HIDE DEF x
  <1>3. CASE x.processing = "PROCESSING"
    <2> DEFINE s == IF x.attempts < MaxAttempts THEN "RETRY_WAIT" ELSE "FAILED"
               y == [x EXCEPT !.processing = s, !.backoff = FALSE,
                              !.mayRetry = FALSE]
    <2>1. s \in {"RETRY_WAIT", "FAILED"} /\ (s = "RETRY_WAIT" => x.attempts < MaxAttempts)
      OBVIOUS
    <2>2. Recovered(v) = y
      BY <1>2, <1>3
    <2> HIDE DEF s
    <2>3. /\ y.processing = s /\ ~y.backoff /\ y.attempts = x.attempts
          /\ y.review = x.review /\ y.decision = x.decision /\ y.passed = x.passed
      BY <1>1 DEF Version
    <2>4. y \in Version
      BY <1>1, <2>1 DEF Version
    <2>5. Sound(y)
      BY <1>1, <1>3, <2>1, <2>3 DEF Sound
    <2> HIDE DEF y
    <2> QED BY <1>3, <2>1, <2>2, <2>3, <2>4, <2>5 DEF x
  <1>4. CASE x.processing # "PROCESSING"
    BY <1>1, <1>2, <1>4 DEF x
  <1> QED BY <1>3, <1>4

LEMMA WorkerStartsKept ==
  ASSUME DeliveryInv, WorkerStarts
  PROVE  DeliveryInv'
  <1> DEFINE F == [v \in Ids |-> Recovered(v)]
  <1>1. versions' = F /\ worker' = Idle /\ UNCHANGED <<task, dropped>>
    BY DEF WorkerStarts
  <1>2. F \in [Ids -> Version] /\ \A v \in Ids : Sound(F[v])
    BY RecoveredIsSound
  <1>3. \A v \in Ids : /\ F[v].review = versions[v].review
                       /\ F[v].processing # "PROCESSING"
    BY RecoveredIsSound
  <1> HIDE DEF F
  <1>4. TypeOK' /\ VersionsAreSound' /\ Ids' = Ids
    BY <1>1, <1>2, SoundAfterAll DEF DeliveryInv, TypeOK, task
  <1>5. WorkIsMarked'
    BY <1>1, <1>3, <1>4 DEF WorkIsMarked, Idle
  <1>6. OneCandidate'
    BY <1>1, <1>3, <1>4, CandidatesStay DEF DeliveryInv, Pending, task
  <1> QED BY <1>4, <1>5, <1>6 DEF DeliveryInv

-----------------------------------------------------------------------------
(* What happens around the deliveries.                                     *)

LEMMA ReconciledIsSound ==
  ASSUME DeliveryInv, NEW v \in Ids
  PROVE  /\ Reconciled(v) \in Version /\ Sound(Reconciled(v))
         /\ Reconciled(v).review =
               IF Misfiled(v) THEN "NOT_REQUIRED" ELSE versions[v].review
         /\ Reconciled(v).processing = "PROCESSING" <=>
               versions[v].processing = "PROCESSING"
         /\ versions[v].review # "NOT_REQUIRED" /\ ~Misfiled(v) =>
               Reconciled(v) = versions[v]
         /\ Reconciled(v).processing = versions[v].processing
               \/ Reconciled(v).review = "NOT_REQUIRED"
  <1> DEFINE x == versions[v]
             filed == IF Misfiled(v)
                      THEN [x EXCEPT !.review = "NOT_REQUIRED",
                                     !.reclassified = TRUE]
                      ELSE x
             stale == /\ filed.reclassified
                      /\ filed.review = "NOT_REQUIRED"
                      /\ filed.by # owner
                      /\ filed.processing = "READY"
                      /\ filed.package # "ANALYSIS"
             again == [filed EXCEPT !.processing = "PENDING", !.package = "NONE",
                                    !.attempts = 0, !.mayRetry = FALSE]
  <1>1. x \in Version /\ Sound(x)
    BY IdsAreNumbers DEF DeliveryInv, VersionsAreSound
  <1>2. Reconciled(v) = IF stale THEN again ELSE filed
    BY DEF Reconciled
  <1>3. Misfiled(v) => x.review = "PENDING"
    BY DEF Misfiled, Pending
  <1>4. /\ filed \in Version /\ Sound(filed)
        /\ filed.review = IF Misfiled(v) THEN "NOT_REQUIRED" ELSE x.review
        /\ filed.processing = x.processing
        /\ ~Misfiled(v) => filed = x
    <2> HIDE DEF x
    <2>1. CASE Misfiled(v)
      <3>1. /\ filed.review = "NOT_REQUIRED" /\ filed.processing = x.processing
            /\ filed.attempts = x.attempts /\ filed.backoff = x.backoff
            /\ filed.decision = x.decision /\ filed.passed = x.passed
        BY <1>1, <2>1 DEF Version
      <3>2. filed \in Version
        BY <1>1, <2>1 DEF Version
      <3>3. Sound(filed)
        BY <1>1, <3>1 DEF Sound
      <3> QED BY <2>1, <3>1, <3>2, <3>3
    <2>2. CASE ~Misfiled(v)
      BY <1>1, <2>2
    <2> QED BY <2>1, <2>2
  <1> HIDE DEF filed
  <1>5. CASE stale
    <2>1. /\ again.processing = "PENDING" /\ again.attempts = 0
          /\ again.review = filed.review /\ again.decision = filed.decision
          /\ again.passed = filed.passed
      BY <1>4 DEF Version
    <2>2. again \in Version
      <3>1. 0 \in 0 .. MaxAttempts
        BY ConstantFacts
      <3> QED BY <1>4, <3>1 DEF Version
    <2>3. Sound(again)
      BY <1>4, <1>5, <2>1, ConstantFacts DEF Sound
    <2>4. filed.review = "NOT_REQUIRED" /\ filed.processing = "READY"
      BY <1>5
    <2>5. Reconciled(v) = again
      BY <1>2, <1>5
    <2> HIDE DEF again
    <2> QED BY <1>3, <1>4, <2>1, <2>2, <2>3, <2>4, <2>5 DEF x
  <1>6. CASE ~stale
    <2>1. Reconciled(v) = filed
      BY <1>2, <1>6
    <2> QED BY <1>4, <2>1 DEF x
  <1> QED BY <1>5, <1>6

LEMMA MeetingIsLoadedKept ==
  ASSUME DeliveryInv, MeetingIsLoaded
  PROVE  DeliveryInv'
  <1> DEFINE F == [v \in Ids |-> Reconciled(v)]
  <1>1. versions' = F /\ UNCHANGED <<owner, valid, archived, worker, dropped>>
    BY DEF MeetingIsLoaded
  <1>2. F \in [Ids -> Version] /\ \A v \in Ids : Sound(F[v])
    BY ReconciledIsSound
  <1>3. \A v \in Ids :
            /\ F[v].review = IF Misfiled(v) THEN "NOT_REQUIRED" ELSE versions[v].review
            /\ F[v].processing = "PROCESSING" <=> versions[v].processing = "PROCESSING"
    BY ReconciledIsSound
  <1> HIDE DEF F
  <1>4. status' \in Worked
    BY DEF MeetingIsLoaded, DeliveryInv, TypeOK
  <1>5. TypeOK' /\ VersionsAreSound' /\ Ids' = Ids
    BY <1>1, <1>2, <1>4, SoundAfterAll DEF DeliveryInv, TypeOK
  <1>6. WorkIsMarked'
    BY <1>1, <1>3, <1>5, WorkStays DEF DeliveryInv
  <1>7. OneCandidate'
    <2>1. \A v \in Ids : versions'[v].review = "PENDING" <=> Pending(v) /\ ~Misfiled(v)
      BY <1>1, <1>3 DEF Pending, Misfiled
    <2>2. CASE /\ status = "PENDING_ACCEPTANCE"
               /\ \A v \in Ids : Pending(v) => Misfiled(v)
      <3>1. status' # "PENDING_ACCEPTANCE"
        BY <2>2 DEF MeetingIsLoaded
      <3> QED BY <1>5, <2>1, <2>2, <3>1, NoCandidate
    <2>3. CASE ~(/\ status = "PENDING_ACCEPTANCE"
                 /\ \A v \in Ids : Pending(v) => Misfiled(v))
      <3>1. status' = status
        BY <2>3 DEF MeetingIsLoaded
      <3>2. OneCandidate
        BY DEF DeliveryInv
      <3> QED BY <1>5, <2>1, <2>3, <3>1, <3>2 DEF OneCandidate, Pending
    <2> QED BY <2>2, <2>3
  <1> QED BY <1>5, <1>6, <1>7 DEF DeliveryInv

LEMMA InputChangesKept ==
  ASSUME DeliveryInv, InputChanges
  PROVE  DeliveryInv'
  <1> DEFINE F == RejectedVersions
  <1>1. /\ versions' = F /\ valid' = 0 /\ status' = "TRACKING"
        /\ UNCHANGED <<owner, archived, worker, dropped>>
    BY DEF InputChanges
  <1>2. ASSUME NEW v \in Ids
        PROVE  /\ F[v] \in Version /\ Sound(F[v]) /\ F[v].review # "PENDING"
               /\ F[v].processing = versions[v].processing
    <2> DEFINE x == versions[v]
    <2>1. x \in Version /\ Sound(x)
      BY IdsAreNumbers DEF DeliveryInv, VersionsAreSound
    <2>2. F[v] = IF x.review = "PENDING" THEN [x EXCEPT !.review = "REJECTED"] ELSE x
      BY DEF RejectedVersions, Pending
    <2> HIDE DEF x, F
    <2>3. CASE x.review = "PENDING"
      <3> DEFINE y == [x EXCEPT !.review = "REJECTED"]
      <3>1. /\ y.review = "REJECTED" /\ y.processing = x.processing
            /\ y.attempts = x.attempts /\ y.backoff = x.backoff
            /\ y.decision = x.decision /\ y.passed = x.passed
        BY <2>1 DEF Version
      <3>2. y \in Version
        BY <2>1 DEF Version
      <3>3. Sound(y)
        BY <2>1, <2>3, <3>1 DEF Sound
      <3> QED BY <2>2, <2>3, <3>1, <3>2, <3>3 DEF x
    <2>4. CASE x.review # "PENDING"
      BY <2>1, <2>2, <2>4 DEF x
    <2> QED BY <2>3, <2>4
  <1>3. DOMAIN F = Ids /\ F = [v \in Ids |-> F[v]]
    BY DEF RejectedVersions
  <1> HIDE DEF F
  <1>4. F \in [Ids -> Version]
    BY <1>2, <1>3
  <1>5. 0 \in 0 .. Len(versions)
    BY IdsAreNumbers DEF DeliveryInv
  <1>6. TypeOK' /\ VersionsAreSound' /\ Ids' = Ids
    BY <1>1, <1>2, <1>4, <1>5, SoundAfterAll DEF DeliveryInv, TypeOK
  <1>7. WorkIsMarked'
    BY <1>1, <1>2, <1>6, WorkStays DEF DeliveryInv
  <1>8. OneCandidate'
    BY <1>1, <1>2, <1>6, NoCandidate
  <1> QED BY <1>6, <1>7, <1>8 DEF DeliveryInv

\* The owner, the final and the meeting change nothing of the versions.
LEMMA OutsideKept ==
  ASSUME DeliveryInv,
         (\E p \in People : OwnerChanges(p)) \/ FinalIsWritten \/ EpisodeIsArchived
  PROVE  DeliveryInv'
  <1>1. /\ UNCHANGED <<valid, versions, worker, dropped>> /\ Ids' = Ids
        /\ owner' \in People /\ archived' \in BOOLEAN /\ status' \in Worked
        /\ status' = "PENDING_ACCEPTANCE" => status = "PENDING_ACCEPTANCE"
        /\ status' = "TRACKING" => status = "TRACKING"
    BY DEF OwnerChanges, FinalIsWritten, EpisodeIsArchived, DeliveryInv, TypeOK, Ids
  <1>2. TypeOK'
    BY <1>1 DEF DeliveryInv, TypeOK
  <1>3. VersionsAreSound' /\ WorkIsMarked'
    BY <1>1 DEF DeliveryInv, VersionsAreSound, WorkIsMarked
  <1>4. OneCandidate'
    BY <1>1 DEF DeliveryInv, OneCandidate, Pending
  <1> QED BY <1>2, <1>3, <1>4 DEF DeliveryInv

LEMMA InitDelivers == Init => DeliveryInv
  <1> SUFFICES ASSUME Init PROVE DeliveryInv
    OBVIOUS
  <1>1. versions = <<>> /\ Len(versions) = 0 /\ versions \in Seq(Version)
    BY EmptySeq DEF Init
  <1>2. Ids = {}
    BY <1>1 DEF Ids
  <1>3. TypeOK
    <2>1. Len(versions) <= MaxVersions /\ 0 \in 0 .. Len(versions)
      BY <1>1, ConstantFacts
    <2> QED BY <1>1, <2>1 DEF Init, TypeOK
  <1>4. VersionsAreSound /\ WorkIsMarked /\ OneCandidate
    BY <1>2 DEF Init, VersionsAreSound, WorkIsMarked, OneCandidate, Down
  <1> QED BY <1>3, <1>4 DEF DeliveryInv

LEMMA InvKept == DeliveryInv /\ [Next]_vars => DeliveryInv'
  <1> SUFFICES ASSUME DeliveryInv, [Next]_vars PROVE DeliveryInv'
    OBVIOUS
  <1>1. CASE UNCHANGED vars
    BY <1>1 DEF DeliveryInv, TypeOK, VersionsAreSound, WorkIsMarked, OneCandidate,
                Pending, Ids, vars, task
  <1>2. CASE Deliver
    BY <1>2, SubmitKept DEF Deliver
  <1>3. ASSUME NEW v \in Ids, Judge(v) \/ Contribute(v) \/ Claim(v) \/ BackoffElapses(v)
        PROVE  DeliveryInv'
    BY <1>3, VerdictKept, RetryKept, PromoteKept, SettleKept, ClaimKept
    DEF Judge, Contribute
  <1>4. CASE Finish \/ ProcessingRaises \/ WorkerStops \/ WorkerStarts
    BY <1>4, FinishKept, ProcessingRaisesKept, WorkerStopsKept, WorkerStartsKept
  <1>5. CASE Surroundings
    BY <1>5, MeetingIsLoadedKept, InputChangesKept, OutsideKept DEF Surroundings
  <1> QED BY <1>1, <1>2, <1>3, <1>4, <1>5 DEF Next

LEMMA DeliveryAlways == Spec => []DeliveryInv
  BY InitDelivers, InvKept, PTL DEF Spec

-----------------------------------------------------------------------------
(* What the runs check of the deliveries, for every value of the constants. *)

\* The versions of a task, what its worker has of them and the version in
\* force keep their types in every state (submit_artifact, decide_contribution,
\* review_artifact, process_task_result_once).
THEOREM TypesHold == Spec => []TypeOK
  BY DeliveryAlways, PTL DEF DeliveryInv

\* The coordinator never has two versions of a task to judge, and a task that
\* waits for acceptance has one (submit_artifact, decide_contribution,
\* review_artifact, reconcile_legacy_collaborator_candidates,
\* _invalidate_downstream_inputs).
THEOREM OneVersionToJudge == Spec => []OneCandidate
  BY DeliveryAlways, PTL DEF DeliveryInv

\* What is queued has an attempt left, and what is being processed the worker
\* has, or will find when it starts, unless an error took it out of its hands
\* while it ran on (process_task_result_once, AgentWorker.recover,
\* process_loop).
THEOREM NothingIsLost == Spec => []NothingIsForgotten
  <1>1. DeliveryInv => NothingIsForgotten
    BY DEF DeliveryInv, VersionsAreSound, Sound, WorkIsMarked, NothingIsForgotten
  <1> QED BY DeliveryAlways, <1>1, PTL

-----------------------------------------------------------------------------
(* What no step does to a version that was decided.                        *)

LEMMA DeliveryAdds ==
  ASSUME TypeOK, Deliver
  PROVE  \A v \in Ids : v \in Ids' /\ versions'[v] = versions[v]
  <1>1. PICK p \in People, interim \in BOOLEAN, passed \in BOOLEAN :
            Submit(p, interim, passed)
    BY DEF Deliver
  <1>2. IsCandidate(p, interim, passed) \in BOOLEAN /\ 0 \in 0 .. MaxAttempts
    BY ConstantFacts DEF IsCandidate
  <1>3. Received(p, IsCandidate(p, interim, passed), passed) \in Version
    BY <1>2 DEF Received, Version
  <1> QED BY <1>1, <1>3, OneComes DEF Submit

\* What is neither a candidate nor waits for the owner nobody decides about,
\* claims or has tried again: only the pause before its next attempt ends.
LEMMA OthersAreLeft ==
  ASSUME TypeOK, NEW v \in Ids, ~Pending(v), ~Undecided(v), NEW u \in Ids,
         Judge(u) \/ Contribute(u) \/ Claim(u) \/ BackoffElapses(u)
  PROVE  \/ versions'[v] = versions[v]
         \/ /\ versions[v].backoff
            /\ versions'[v].review = versions[v].review
            /\ versions'[v].processing = versions[v].processing
  <1>1. versions \in [Ids -> Version] /\ versions[v] \in Version
    BY IdsAreNumbers
  <1>2. CASE u = v
    <2>1. BackoffElapses(v)
      BY <1>2 DEF Judge, Accept, Reject, Reviewable, Retry, Contribute,
                  Promote, Settle, Claim, Eligible
    <2> QED BY <1>1, <2>1 DEF BackoffElapses, Version
  <1>3. CASE u # v
    <2>1. \E y : versions' = [versions EXCEPT ![u] = y]
      BY DEF Judge, Accept, Reject, Retry, Contribute, Promote, Settle, Claim,
             BackoffElapses
    <2> QED BY <1>1, <1>3, <2>1
  <1> QED BY <1>2, <1>3

LEMMA AcceptedIsLeft ==
  ASSUME DeliveryInv, [Next]_vars, NEW v \in Ids, versions[v].review = "ACCEPTED"
  PROVE  versions'[v] = versions[v]
  <1> DEFINE x == versions[v]
  <1>0. TypeOK
    BY DEF DeliveryInv
  <1>1. /\ x.processing \in Settled /\ x \in Version /\ ~x.backoff
        /\ ~Pending(v) /\ ~Undecided(v) /\ ~Misfiled(v)
    BY <1>0, IdsAreNumbers
    DEF DeliveryInv, VersionsAreSound, Sound, Pending, Undecided, Misfiled
  <1>2. versions \in [Ids -> Version]
    BY <1>0, IdsAreNumbers
  <1>3. CASE UNCHANGED versions
    BY <1>3
  <1>4. CASE Deliver
    BY <1>0, <1>4, DeliveryAdds
  <1>5. ASSUME NEW u \in Ids, Judge(u) \/ Contribute(u) \/ Claim(u) \/ BackoffElapses(u)
        PROVE  versions'[v] = x
    BY <1>0, <1>1, <1>5, OthersAreLeft
  <1>6. CASE Finish
    <2>1. worker.version \in Ids /\ worker.version # v
      BY <1>1, <1>6, WorkerHas DEF Finish
    <2>2. PICK y \in Version : versions' = [versions EXCEPT ![worker.version] = y]
      BY <1>6, Outcome
    <2> QED BY <1>2, <2>1, <2>2
  <1>7. CASE WorkerStarts
    BY <1>1, <1>7, RecoveredIsSound DEF WorkerStarts
  <1>8. CASE MeetingIsLoaded
    BY <1>1, <1>8, ReconciledIsSound DEF MeetingIsLoaded
  <1>9. CASE InputChanges
    BY <1>1, <1>9 DEF InputChanges, RejectedVersions
  <1> QED
    BY <1>3, <1>4, <1>5, <1>6, <1>7, <1>8, <1>9
    DEF Next, vars, Surroundings, ProcessingRaises, WorkerStops, OwnerChanges, FinalIsWritten,
        EpisodeIsArchived

\* What was accepted is frozen: the worker that comes late, the recovery, a
\* retry, the meeting's reload and a change of input leave it as it is
\* (review_artifact and all that write artifact_versions).
THEOREM AcceptedStays == Spec => AcceptedIsFrozen
  <1>1. DeliveryInv /\ [Next]_vars =>
            [\A v \in Ids : versions[v].review = "ACCEPTED" =>
                 versions'[v] = versions[v]]_vars
    BY AcceptedIsLeft
  <1> QED BY DeliveryAlways, <1>1, PTL DEF Spec, AcceptedIsFrozen

LEMMA HandledStays ==
  ASSUME DeliveryInv, [Next]_vars, NEW v \in Ids,
         versions[v].decision \in {"INCLUDED", "REVISION_REQUESTED"}
  PROVE  /\ versions'[v].review = "NOT_REQUIRED"
         /\ versions'[v].processing = "PROCESSING" =>
                versions[v].processing = "PROCESSING"
  <1> DEFINE x == versions[v]
  <1>0. TypeOK
    BY DEF DeliveryInv
  <1>1. /\ x.review = "NOT_REQUIRED" /\ x \in Version
        /\ ~Pending(v) /\ ~Undecided(v) /\ ~Misfiled(v)
    BY <1>0, IdsAreNumbers
    DEF DeliveryInv, VersionsAreSound, Sound, Pending, Undecided, Misfiled
  <1>2. versions \in [Ids -> Version]
    BY <1>0, IdsAreNumbers
  <1>3. CASE UNCHANGED versions
    BY <1>1, <1>3
  <1>4. CASE Deliver
    BY <1>0, <1>1, <1>4, DeliveryAdds
  <1>5. ASSUME NEW u \in Ids, Judge(u) \/ Contribute(u) \/ Claim(u) \/ BackoffElapses(u)
        PROVE  versions'[v].review = x.review /\ versions'[v].processing = x.processing
    BY <1>0, <1>1, <1>5, OthersAreLeft
  <1>6. CASE Finish
    <2>1. worker.version \in Ids
      BY <1>6, WorkerHas DEF Finish
    <2>2. PICK y \in Version :
              /\ y.review = versions[worker.version].review
              /\ y.processing \in {"READY", "RETRY_WAIT", "FAILED"}
              /\ versions' = [versions EXCEPT ![worker.version] = y]
      BY <1>6, Outcome
    <2> QED BY <1>1, <1>2, <2>1, <2>2
  <1>7. CASE WorkerStarts
    BY <1>1, <1>7, RecoveredIsSound DEF WorkerStarts
  <1>8. CASE MeetingIsLoaded
    BY <1>1, <1>8, ReconciledIsSound DEF MeetingIsLoaded
  <1>9. CASE InputChanges
    BY <1>1, <1>9 DEF InputChanges, RejectedVersions
  <1> QED
    BY <1>1, <1>3, <1>4, <1>5, <1>6, <1>7, <1>8, <1>9
    DEF Next, vars, Surroundings, ProcessingRaises, WorkerStops, OwnerChanges, FinalIsWritten,
        EpisodeIsArchived

\* A contribution the owner dealt with is over: no step brings it up for
\* review or has it analysed afresh (decide_contribution,
\* process_task_result_once).
THEOREM HandledStaysOver == Spec => HandledIsOver
  <1>1. DeliveryInv /\ [Next]_vars =>
            [\A v \in Ids :
                versions[v].decision \in {"INCLUDED", "REVISION_REQUESTED"} =>
                    /\ versions'[v].review = "NOT_REQUIRED"
                    /\ versions'[v].processing = "PROCESSING" =>
                           versions[v].processing = "PROCESSING"]_vars
    BY HandledStays
  <1> QED BY DeliveryAlways, <1>1, PTL DEF Spec, HandledIsOver

-----------------------------------------------------------------------------
(* The deliveries implement ReviewGate.                                    *)

Ready == \E v \in Ids : Reviewable(v)
Proposed == {v \in Ids : versions[v].review # "NOT_REQUIRED"}
Seen == <<Candidate, Ready, Proposed, valid>>

\* What the gate shows of the one candidate, or of none.
Waiting ==
    /\ \A v \in Ids : Pending(v) =>
           /\ Candidate = v
           /\ Ready <=> versions[v].processing \in Settled
    /\ (\A v \in Ids : ~Pending(v)) => Candidate = 0 /\ ~Ready

LEMMA GateShows == DeliveryInv => Waiting
  <1> SUFFICES ASSUME DeliveryInv PROVE Waiting
    OBVIOUS
  <1>1. ASSUME NEW v \in Ids, Pending(v)
        PROVE  Candidate = v /\ (Ready <=> versions[v].processing \in Settled)
    <2>1. \A u \in Ids : Pending(u) => u = v
      BY <1>1 DEF DeliveryInv, OneCandidate
    <2> QED BY <1>1, <2>1 DEF Candidate, Ready, Reviewable
  <1>2. ASSUME \A v \in Ids : ~Pending(v) PROVE Candidate = 0 /\ ~Ready
    BY <1>2 DEF Candidate, Ready, Reviewable
  <1> QED BY <1>1, <1>2 DEF Waiting

LEMMA GateShowsNext == DeliveryInv' => Waiting'
  BY GateShows, PTL

LEMMA SeenIsUnchanged ==
  ASSUME Candidate' = Candidate, Ready' <=> Ready, Proposed' = Proposed,
         valid' = valid
  PROVE  UNCHANGED Gate!gate
  BY DEF Ready, Proposed, Gate!gate

\* A step that changes no review prepares the candidate or is not seen.
LEMMA PreparingMaps ==
  ASSUME DeliveryInv, DeliveryInv', Ids' = Ids, valid' = valid,
         \A v \in Ids : versions'[v].review = versions[v].review
  PROVE  Gate!Prepare \/ UNCHANGED Gate!gate
  <1>1. Waiting /\ Waiting'
    BY GateShows, GateShowsNext
  <1>2. Proposed' = Proposed /\ \A v \in Ids : Pending(v)' <=> Pending(v)
    BY DEF Proposed, Pending
  <1>3. CASE \A v \in Ids : ~Pending(v)
    <2>1. Candidate' = Candidate /\ ~Ready /\ ~Ready'
      BY <1>1, <1>2, <1>3 DEF Waiting
    <2> QED BY <1>2, <2>1, SeenIsUnchanged
  <1>4. ASSUME NEW v \in Ids, Pending(v)
        PROVE  Gate!Prepare \/ UNCHANGED Gate!gate
    <2>1. Candidate = v /\ Candidate' = v /\ v # 0
      BY <1>1, <1>2, <1>4, IdsAreNumbers DEF Waiting, DeliveryInv
    <2>2. CASE Ready' <=> Ready
      BY <1>2, <2>1, <2>2, SeenIsUnchanged
    <2>3. CASE ~(Ready' <=> Ready)
      <3>1. Ready' = ~Ready
        BY <2>3 DEF Ready
      <3> QED BY <1>2, <2>1, <3>1 DEF Gate!Prepare, Ready, Proposed
    <2> QED BY <2>2, <2>3
  <1> QED BY <1>3, <1>4

\* A version put forward when none was waiting.
LEMMA ProposeMaps ==
  ASSUME DeliveryInv, DeliveryInv', NEW n \in Ids', n \in Nat \ {0}, n \notin Proposed,
         \A v \in Ids : ~Pending(v), Pending(n)', Ids' = Ids \cup {n},
         \A v \in Ids : v # n => versions'[v] = versions[v],
         valid' = valid
  PROVE  Gate!Propose
  <1>1. Waiting /\ Waiting'
    BY GateShows, GateShowsNext
  <1>2. Candidate = 0 /\ Candidate' = n /\ Ready' \in BOOLEAN
    BY <1>1 DEF Waiting, Ready
  <1>3. Proposed' = Proposed \cup {n}
    BY DEF Proposed, Pending
  <1> QED BY <1>2, <1>3 DEF Gate!Propose, Ready, Proposed

LEMMA DeliverMaps ==
  ASSUME DeliveryInv, DeliveryInv', Deliver
  PROVE  Gate!Propose \/ UNCHANGED Gate!gate
  <1>0. TypeOK
    BY DEF DeliveryInv
  <1>1. PICK p \in People, interim \in BOOLEAN, passed \in BOOLEAN :
            Submit(p, interim, passed)
    BY DEF Deliver
  <1> DEFINE candidate == IsCandidate(p, interim, passed)
             y == Received(p, candidate, passed)
  <1>2. candidate \in BOOLEAN
    BY DEF IsCandidate
  <1>3. versions' = Append(versions, y) /\ valid' = valid
        /\ \A v \in Ids : ~Pending(v)
    BY <1>1 DEF Submit, OpenForDelivery
  <1>4. y \in Version
    <2>1. 0 \in 0 .. MaxAttempts
      BY ConstantFacts
    <2> QED BY <1>2, <2>1 DEF Received, Version
  <1>5. y.review = IF candidate THEN "PENDING" ELSE "NOT_REQUIRED"
    BY DEF Received
  <1> HIDE DEF y, candidate
  <1> PICK n : n = Len(versions) + 1
    OBVIOUS
  <1>6. /\ Ids' = Ids \cup {n} /\ n \notin Ids /\ versions'[n] = y
        /\ \A u \in Ids : versions'[u] = versions[u]
    BY <1>0, <1>3, <1>4, OneComes
  <1>7. n \in Nat \ {0}
    BY <1>0, IdsAreNumbers
  <1>8. CASE candidate
    <2>1. n \notin Proposed /\ Pending(n)'
      BY <1>5, <1>6, <1>8 DEF Proposed, Pending
    <2> QED BY <1>3, <1>6, <1>7, <2>1, ProposeMaps
  <1>9. CASE ~candidate
    <2>1. Proposed' = Proposed /\ \A v \in Ids' : ~Pending(v)'
      BY <1>3, <1>5, <1>6, <1>9 DEF Proposed, Pending
    <2>2. Candidate = 0 /\ ~Ready /\ Candidate' = 0 /\ ~Ready'
      BY <1>3, <2>1, GateShows, GateShowsNext DEF Waiting
    <2> QED BY <1>3, <2>1, <2>2, SeenIsUnchanged
  <1> QED BY <1>2, <1>8, <1>9

LEMMA PromoteMaps ==
  ASSUME DeliveryInv, DeliveryInv', NEW v \in Ids, Promote(v)
  PROVE  Gate!Propose
  <1>1. versions \in [Ids -> Version] /\ v \in Nat \ {0}
    BY IdsAreNumbers DEF DeliveryInv
  <1>2. PICK y : y = [versions[v] EXCEPT
                         !.decision = "PROMOTED",
                         !.reclassified = FALSE,
                         !.review = "PENDING",
                         !.processing = IF @ = "NOT_REQUIRED"
                                        THEN "PENDING" ELSE @]
    OBVIOUS
  <1>3. y.review = "PENDING"
    BY <1>1, <1>2 DEF Version
  <1>4. versions' = [versions EXCEPT ![v] = y]
    BY <1>2 DEF Promote
  <1>5. /\ Ids' = Ids /\ versions'[v] = y
        /\ \A u \in Ids : u # v => versions'[u] = versions[u]
    BY <1>1, <1>4 DEF Ids
  <1>6. /\ \A u \in Ids : ~Pending(u)
        /\ valid' = valid /\ v \notin Proposed /\ Pending(v)'
    BY <1>3, <1>5 DEF Promote, OpenForDelivery, Undecided, Proposed, Pending
  <1> QED BY <1>1, <1>5, <1>6, ProposeMaps

LEMMA VerdictMaps ==
  ASSUME DeliveryInv, DeliveryInv', NEW v \in Ids, Accept(v) \/ Reject(v)
  PROVE  Gate!Judge
  <1>1. PICK verdict \in {"ACCEPTED", "REJECTED"} :
            versions' = [versions EXCEPT ![v].review = verdict]
    BY DEF Accept, Reject
  <1>2. versions \in [Ids -> Version] /\ v \in Nat \ {0}
    BY IdsAreNumbers DEF DeliveryInv
  <1>3. /\ Ids' = Ids /\ versions'[v].review = verdict
        /\ \A u \in Ids : u # v => versions'[u] = versions[u]
    BY <1>1, <1>2 DEF Ids, Version
  <1>4. Pending(v) /\ versions[v].processing \in Settled /\ valid' \in {v, valid}
    BY DEF Accept, Reject, Reviewable
  <1>5. \A u \in Ids' : ~Pending(u)'
    BY <1>3, <1>4 DEF DeliveryInv, OneCandidate, Pending
  <1>6. Candidate = v /\ Ready /\ Candidate' = 0 /\ ~Ready'
    BY <1>4, <1>5, GateShows, GateShowsNext DEF Waiting
  <1>7. Proposed' = Proposed
    BY <1>3, <1>4 DEF Proposed, Pending
  <1>8. Ready' = FALSE
    BY <1>6 DEF Ready
  <1> QED BY <1>2, <1>4, <1>6, <1>7, <1>8 DEF Gate!Judge, Ready, Proposed

LEMMA MeetingIsLoadedMaps ==
  ASSUME DeliveryInv, DeliveryInv', MeetingIsLoaded
  PROVE  Gate!Withdraw \/ Gate!Prepare \/ UNCHANGED Gate!gate
  <1>1. /\ versions' = [v \in Ids |-> Reconciled(v)] /\ valid' = valid /\ Ids' = Ids
    BY DEF MeetingIsLoaded, Ids
  <1>2. \A v \in Ids : versions'[v].review =
            IF Misfiled(v) THEN "NOT_REQUIRED" ELSE versions[v].review
    BY <1>1, ReconciledIsSound
  <1>3. CASE \A v \in Ids : ~Misfiled(v)
    BY <1>1, <1>2, <1>3, PreparingMaps
  <1>4. ASSUME NEW v \in Ids, Misfiled(v) PROVE Gate!Withdraw
    <2>1. Pending(v) /\ \A u \in Ids : Pending(u) => u = v
      BY <1>4 DEF Misfiled, DeliveryInv, OneCandidate
    <2>2. \A u \in Ids : u # v => ~Misfiled(u)
      BY <2>1 DEF Misfiled
    <2>3. \A u \in Ids' : ~Pending(u)'
      BY <1>1, <1>2, <1>4, <2>1, <2>2 DEF Pending
    <2>4. Candidate = v /\ v # 0 /\ Candidate' = 0 /\ ~Ready'
      BY <2>1, <2>3, GateShows, GateShowsNext, IdsAreNumbers DEF Waiting, DeliveryInv
    <2>5. Proposed' = Proposed \ {v}
      BY <1>1, <1>2, <1>4, <2>2 DEF Proposed
    <2>6. Ready' = FALSE
      BY <2>4 DEF Ready
    <2> QED BY <1>1, <2>4, <2>5, <2>6 DEF Gate!Withdraw, Ready, Proposed
  <1> QED BY <1>3, <1>4

LEMMA InputChangesMaps ==
  ASSUME DeliveryInv, DeliveryInv', InputChanges
  PROVE  Gate!Reopen
  <1>1. /\ versions' = RejectedVersions /\ valid' = 0 /\ Ids' = Ids
    BY DEF InputChanges, RejectedVersions, Ids
  <1>2. \A v \in Ids : versions'[v].review =
            IF Pending(v) THEN "REJECTED" ELSE versions[v].review
    BY <1>1, IdsAreNumbers DEF RejectedVersions, DeliveryInv, Version
  <1>3. Proposed' = Proposed /\ \A v \in Ids' : ~Pending(v)'
    BY <1>1, <1>2 DEF Proposed, Pending
  <1>4. Candidate' = 0 /\ ~Ready'
    BY <1>3, GateShowsNext DEF Waiting
  <1>5. Ready' = FALSE
    BY <1>4 DEF Ready
  <1> QED BY <1>1, <1>3, <1>4, <1>5 DEF Gate!Reopen, Ready, Proposed

\* Steps of one version, of the worker and of the surroundings that change no
\* review and put nothing into force.
LEMMA ReviewsAreLeft ==
  ASSUME DeliveryInv,
         \/ \E v \in Ids :
               \/ Retry(v) \/ Claim(v) \/ BackoffElapses(v)
               \/ \E decision \in {"INCLUDED", "REVISION_REQUESTED"} :
                      Settle(v, decision)
         \/ Finish \/ ProcessingRaises \/ WorkerStops \/ WorkerStarts
         \/ (\E p \in People : OwnerChanges(p)) \/ FinalIsWritten \/ EpisodeIsArchived
         \/ UNCHANGED vars
  PROVE  /\ Ids' = Ids /\ valid' = valid
         /\ \A v \in Ids : versions'[v].review = versions[v].review
  <1>1. versions \in [Ids -> Version]
    BY IdsAreNumbers DEF DeliveryInv
  <1>2. CASE \E v \in Ids :
               \/ Retry(v) \/ Claim(v) \/ BackoffElapses(v)
               \/ \E decision \in {"INCLUDED", "REVISION_REQUESTED"} :
                      Settle(v, decision)
    <2>1. PICK v \in Ids :
               \/ Retry(v) \/ Claim(v) \/ BackoffElapses(v)
               \/ \E decision \in {"INCLUDED", "REVISION_REQUESTED"} :
                      Settle(v, decision)
      BY <1>2
    <2>2. \A u \in Ids : u # v => versions'[u] = versions[u]
      BY <1>1, <2>1 DEF Retry, Claim, BackoffElapses, Settle
    <2>3. versions'[v].review = versions[v].review
      <3>1. CASE Retry(v)
        BY <1>1, <3>1 DEF Retry, Version
      <3>2. CASE Claim(v)
        BY <1>1, <3>2 DEF Claim, Version
      <3>3. CASE BackoffElapses(v)
        BY <1>1, <3>3 DEF BackoffElapses, Version
      <3>4. ASSUME NEW decision \in {"INCLUDED", "REVISION_REQUESTED"},
                   Settle(v, decision)
            PROVE  versions'[v].review = versions[v].review
        BY <1>1, <3>4 DEF Settle, Version
      <3> QED BY <2>1, <3>1, <3>2, <3>3, <3>4
    <2> QED BY <1>1, <2>1, <2>2, <2>3 DEF Retry, Claim, BackoffElapses, Settle, task, Ids
  <1>3. CASE Finish
    <2>1. worker.version \in Ids
      BY <1>3, WorkerHas DEF Finish
    <2>2. PICK y \in Version :
              /\ y.review = versions[worker.version].review
              /\ versions' = [versions EXCEPT ![worker.version] = y]
      BY <1>3, Outcome
    <2> QED BY <1>1, <1>3, <2>1, <2>2 DEF Finish, task, Ids
  <1>4. CASE WorkerStarts
    BY <1>4, RecoveredIsSound DEF WorkerStarts, task, Ids
  <1>5. CASE \/ ProcessingRaises \/ WorkerStops \/ UNCHANGED vars
             \/ (\E p \in People : OwnerChanges(p)) \/ FinalIsWritten
             \/ EpisodeIsArchived
    BY <1>5 DEF ProcessingRaises, WorkerStops, vars, task, OwnerChanges, FinalIsWritten,
                EpisodeIsArchived, Ids
  <1> QED BY <1>2, <1>3, <1>4, <1>5

LEMMA InitMaps == Init => Gate!GateInit
  <1> SUFFICES ASSUME Init PROVE Gate!GateInit
    OBVIOUS
  <1>1. Ids = {} /\ valid = 0
    BY EmptySeq DEF Init, Ids
  <1> QED BY <1>1 DEF Gate!GateInit, Candidate

LEMMA StepMaps ==
  ASSUME DeliveryInv, DeliveryInv', [Next]_vars
  PROVE  [Gate!GateNext]_(Gate!gate)
  <1>1. CASE Deliver
    BY <1>1, DeliverMaps DEF Gate!GateNext
  <1>2. ASSUME NEW v \in Ids, Accept(v) \/ Reject(v) PROVE Gate!GateNext
    BY <1>2, VerdictMaps DEF Gate!GateNext
  <1>3. ASSUME NEW v \in Ids, Promote(v) PROVE Gate!GateNext
    BY <1>3, PromoteMaps DEF Gate!GateNext
  <1>4. CASE MeetingIsLoaded \/ InputChanges
    BY <1>4, MeetingIsLoadedMaps, InputChangesMaps DEF Gate!GateNext
  <1>5. CASE \/ \E v \in Ids :
                   \/ Retry(v) \/ Claim(v) \/ BackoffElapses(v)
                   \/ \E decision \in {"INCLUDED", "REVISION_REQUESTED"} :
                          Settle(v, decision)
             \/ Finish \/ ProcessingRaises \/ WorkerStops \/ WorkerStarts
             \/ (\E p \in People : OwnerChanges(p)) \/ FinalIsWritten
             \/ EpisodeIsArchived
             \/ UNCHANGED vars
    BY <1>5, ReviewsAreLeft, PreparingMaps DEF Gate!GateNext
  <1> QED
    BY <1>1, <1>2, <1>3, <1>4, <1>5 DEF Next, Judge, Contribute, Surroundings

\* The deliveries of a task keep the promise of ReviewGate: one candidate at
\* a time, judged once and only when it is prepared, and nothing in force but
\* what was approved (submit_artifact, review_artifact, decide_contribution,
\* process_task_result_once).
THEOREM DeliveriesKeepTheGate == Spec => ImplementsGate
  <1>1. DeliveryInv /\ DeliveryInv' /\ [Next]_vars => [Gate!GateNext]_(Gate!gate)
    BY StepMaps
  <1> QED
    BY InitMaps, DeliveryAlways, <1>1, PTL
    DEF Spec, ImplementsGate, Gate!GateSpec
-----------------------------------------------------------------------------
(* The deliveries move the task as TaskLifecycle says.                     *)

Awaiting == \E v \in Ids : Pending(v)
EverAccepted == \E v \in Ids : versions[v].review = "ACCEPTED"

\* What is in force was accepted.
ForceWasAccepted ==
    valid # 0 => valid \in Ids /\ versions[valid].review = "ACCEPTED"

LifeInv == DeliveryInv /\ ForceWasAccepted

\* No version is ever deleted.
LEMMA IdsGrow ==
  ASSUME DeliveryInv, [Next]_vars
  PROVE  Ids \subseteq Ids'
  <1>0. TypeOK
    BY DEF DeliveryInv
  <1>1. CASE Deliver
    BY <1>0, <1>1, DeliveryAdds
  <1>2. ASSUME NEW v \in Ids, Judge(v) \/ Contribute(v) \/ Claim(v) \/ BackoffElapses(v)
        PROVE  Ids' = Ids
    <2>1. \E y : versions' = [versions EXCEPT ![v] = y]
      BY <1>2 DEF Judge, Accept, Reject, Retry, Contribute, Promote, Settle,
                  Claim, BackoffElapses
    <2> QED BY <2>1 DEF Ids
  <1>3. CASE Finish
    BY <1>3, Outcome DEF Ids
  <1>4. CASE WorkerStarts \/ MeetingIsLoaded \/ InputChanges
    BY <1>4 DEF WorkerStarts, MeetingIsLoaded, InputChanges, RejectedVersions, Ids
  <1>5. CASE UNCHANGED versions
    BY <1>5 DEF Ids
  <1> QED
    BY <1>1, <1>2, <1>3, <1>4, <1>5
    DEF Next, vars, Surroundings, ProcessingRaises, WorkerStops, OwnerChanges, FinalIsWritten,
        EpisodeIsArchived

\* Only a verdict and a change of input change what is in force.
LEMMA ForceMoves ==
  ASSUME DeliveryInv, [Next]_vars
  PROVE  \/ valid' \in {0, valid}
         \/ \E v \in Ids : Accept(v)
  BY DEF Next, vars, task, Deliver, Submit, Judge, Reject, Retry, Contribute,
         Promote, Settle, Claim, BackoffElapses, Finish, ProcessingRaises,
         WorkerStops,
         WorkerStarts, Surroundings, MeetingIsLoaded, OwnerChanges,
         InputChanges, FinalIsWritten, EpisodeIsArchived

LEMMA AcceptedNow ==
  ASSUME DeliveryInv, NEW v \in Ids, Accept(v)
  PROVE  /\ Ids' = Ids /\ valid' = v /\ versions'[v].review = "ACCEPTED"
         /\ status' = "ACCEPTED" /\ Pending(v) /\ \A u \in Ids : ~Pending(u)'
  <1>1. versions \in [Ids -> Version]
    BY IdsAreNumbers DEF DeliveryInv
  <1>2. /\ Ids' = Ids /\ versions'[v].review = "ACCEPTED"
        /\ \A u \in Ids : u # v => versions'[u] = versions[u]
    BY <1>1 DEF Accept, Ids, Version
  <1>3. Pending(v) /\ valid' = v /\ status' = "ACCEPTED"
    BY DEF Accept, Reviewable
  <1> QED BY <1>2, <1>3 DEF DeliveryInv, OneCandidate, Pending

LEMMA ForceKept ==
  ASSUME LifeInv, [Next]_vars
  PROVE  ForceWasAccepted'
  <1>1. CASE \E v \in Ids : Accept(v)
    BY <1>1, AcceptedNow DEF LifeInv, ForceWasAccepted
  <1>2. CASE valid' \in {0, valid}
    <2>1. SUFFICES ASSUME valid' # 0
                   PROVE  valid \in Ids' /\ versions'[valid].review = "ACCEPTED"
      BY <1>2 DEF ForceWasAccepted
    <2>2. valid \in Ids /\ versions[valid].review = "ACCEPTED"
      BY <1>2, <2>1 DEF LifeInv, ForceWasAccepted
    <2> QED BY <2>2, IdsGrow, AcceptedIsLeft DEF LifeInv
  <1> QED BY <1>1, <1>2, ForceMoves DEF LifeInv

LEMMA LifeAlways == Spec => []LifeInv
  <1>1. Init => ForceWasAccepted
    BY DEF Init, ForceWasAccepted
  <1>2. LifeInv /\ [Next]_vars => LifeInv'
    BY ForceKept, InvKept DEF LifeInv
  <1>3. Init => LifeInv
    BY <1>1, InitDelivers DEF LifeInv
  <1> QED BY <1>2, <1>3, PTL DEF Spec

\* What is accepted stays so, whatever else is delivered and decided.
LEMMA ApprovedForGood ==
  ASSUME LifeInv, [Next]_vars, EverAccepted
  PROVE  EverAccepted'
  <1>1. PICK v \in Ids : versions[v].review = "ACCEPTED"
    BY DEF EverAccepted
  <1>2. v \in Ids' /\ versions'[v] = versions[v]
    BY <1>1, IdsGrow, AcceptedIsLeft DEF LifeInv
  <1> QED BY <1>1, <1>2 DEF EverAccepted

\* The steps that no review takes part in.
LEMMA QuietLife ==
  ASSUME Ids' = Ids, valid' = valid,
         \A v \in Ids : versions'[v].review = versions[v].review
  PROVE  (Awaiting' <=> Awaiting) /\ (EverAccepted' <=> EverAccepted)
  BY DEF Awaiting, EverAccepted, Pending

LEMMA QuietLives ==
  ASSUME LifeInv,
         \/ \E v \in Ids :
               \/ Retry(v) \/ Claim(v) \/ BackoffElapses(v)
               \/ \E decision \in {"INCLUDED", "REVISION_REQUESTED"} :
                      Settle(v, decision)
         \/ Finish \/ ProcessingRaises \/ WorkerStops \/ WorkerStarts
         \/ (\E p \in People : OwnerChanges(p)) \/ FinalIsWritten \/ EpisodeIsArchived
         \/ UNCHANGED vars
  PROVE  [Life!LifeNext]_(Life!life)
  <1>1. /\ Ids' = Ids /\ valid' = valid
        /\ \A v \in Ids : versions'[v].review = versions[v].review
    BY ReviewsAreLeft DEF LifeInv
  <1>2. (Awaiting' <=> Awaiting) /\ (EverAccepted' <=> EverAccepted)
    BY <1>1, QuietLife
  <1>3. CASE status' = status
    BY <1>1, <1>2, <1>3 DEF Life!life, Awaiting, EverAccepted
  <1>4. CASE FinalIsWritten /\ status' = "AGGREGATED"
    BY <1>1, <1>2, <1>4
    DEF FinalIsWritten, Life!LifeNext, Life!Include, Awaiting, EverAccepted
  <1>5. CASE status = "AGGREGATED" /\ status' \in {"ACCEPTED", "ARCHIVED"}
    BY <1>1, <1>2, <1>5
    DEF Life!LifeNext, Life!LeaveFinal, Awaiting, EverAccepted
  <1> QED
    BY <1>3, <1>4, <1>5
    DEF Retry, Claim, BackoffElapses, Settle, Finish, ProcessingRaises,
        WorkerStops, WorkerStarts,
        OwnerChanges, FinalIsWritten, EpisodeIsArchived, vars, task

LEMMA DeliverLives ==
  ASSUME LifeInv, Deliver
  PROVE  [Life!LifeNext]_(Life!life)
  <1>0. DeliveryInv /\ TypeOK
    BY DEF LifeInv, DeliveryInv
  <1>1. PICK p \in People, interim \in BOOLEAN, passed \in BOOLEAN :
            Submit(p, interim, passed)
    BY DEF Deliver
  <1> DEFINE candidate == IsCandidate(p, interim, passed)
             y == Received(p, candidate, passed)
  <1>2. candidate \in BOOLEAN /\ (candidate => passed) /\ 0 \in 0 .. MaxAttempts
    BY ConstantFacts DEF IsCandidate
  <1>3. versions' = Append(versions, y) /\ status' = StatusAfter(candidate, passed)
        /\ valid' = valid /\ status \in Submittable /\ \A v \in Ids : ~Pending(v)
    BY <1>1 DEF Submit, OpenForDelivery
  <1>4. y \in Version /\ y.review = IF candidate THEN "PENDING" ELSE "NOT_REQUIRED"
    BY <1>2 DEF Received, Version
  <1> HIDE DEF y, candidate
  <1> PICK n : n = Len(versions) + 1
    OBVIOUS
  <1>5. /\ Ids' = Ids \cup {n} /\ n \notin Ids /\ versions'[n] = y
        /\ \A u \in Ids : versions'[u] = versions[u]
    BY <1>0, <1>3, <1>4, OneComes
  <1>6. /\ ~Awaiting /\ (Awaiting' <=> candidate)
        /\ EverAccepted' <=> EverAccepted
    BY <1>2, <1>3, <1>4, <1>5 DEF Awaiting, EverAccepted, Pending
  <1>7. CASE candidate
    BY <1>3, <1>6, <1>7
    DEF StatusAfter, Life!LifeNext, Life!PutForward, Life!Submittable, Awaiting,
        EverAccepted
  <1>8. CASE ~candidate /\ status' = "TRACKING" /\ valid = 0
    BY <1>3, <1>6, <1>8
    DEF Life!LifeNext, Life!Fail, Life!Submittable, Awaiting, EverAccepted
  <1>9. CASE ~candidate /\ status' = status
    BY <1>3, <1>6, <1>9 DEF Life!life, Awaiting, EverAccepted
  <1> QED BY <1>2, <1>3, <1>7, <1>8, <1>9 DEF StatusAfter

LEMMA PromoteLives ==
  ASSUME LifeInv, NEW v \in Ids, Promote(v)
  PROVE  Life!PutForward
  <1>1. versions \in [Ids -> Version] /\ Undecided(v)
    BY IdsAreNumbers DEF LifeInv, DeliveryInv, Promote
  <1>2. PICK y : /\ y = [versions[v] EXCEPT
                             !.decision = "PROMOTED",
                             !.reclassified = FALSE,
                             !.review = "PENDING",
                             !.processing = IF @ = "NOT_REQUIRED"
                                            THEN "PENDING" ELSE @]
                 /\ versions' = [versions EXCEPT ![v] = y]
    BY DEF Promote
  <1>3. y.review = "PENDING"
    BY <1>1, <1>2 DEF Version
  <1>4. /\ Ids' = Ids /\ versions'[v].review = "PENDING"
        /\ \A u \in Ids : u # v => versions'[u] = versions[u]
    BY <1>1, <1>2, <1>3 DEF Ids
  <1>5. /\ ~Awaiting /\ Awaiting'
        /\ EverAccepted' <=> EverAccepted
    BY <1>1, <1>4
    DEF Promote, OpenForDelivery, Awaiting, EverAccepted, Pending, Undecided
  <1> QED
    BY <1>5 DEF Promote, OpenForDelivery, Life!PutForward, Life!Submittable,
                Awaiting, EverAccepted

LEMMA VerdictLives ==
  ASSUME LifeInv, NEW v \in Ids, Accept(v) \/ Reject(v)
  PROVE  Life!LifeNext
  <1>0. DeliveryInv
    BY DEF LifeInv
  <1>1. versions \in [Ids -> Version] /\ v \in Nat \ {0}
    BY <1>0, IdsAreNumbers DEF DeliveryInv
  <1>2. Pending(v) /\ Awaiting
    BY DEF Accept, Reject, Reviewable, Awaiting
  <1>3. CASE Accept(v)
    <2>1. /\ ~Awaiting' /\ EverAccepted' /\ valid' = v /\ status' = "ACCEPTED"
      BY <1>0, <1>3, AcceptedNow DEF Awaiting, EverAccepted, Pending
    <2>2. v # valid
      BY <1>1, <1>2 DEF LifeInv, ForceWasAccepted, Pending
    <2> QED
      BY <1>1, <1>2, <2>1, <2>2
      DEF Life!LifeNext, Life!Approve, Awaiting, EverAccepted
  <1>4. CASE Reject(v)
    <2>1. /\ Ids' = Ids /\ versions'[v].review = "REJECTED"
          /\ \A u \in Ids : u # v => versions'[u] = versions[u]
      BY <1>1, <1>4 DEF Reject, Ids, Version
    <2>2. ~Awaiting' /\ (EverAccepted' <=> EverAccepted)
      BY <1>0, <1>2, <2>1
      DEF DeliveryInv, OneCandidate, Awaiting, EverAccepted, Pending
    <2>3. valid' = valid /\ status' \in Life!Standing
      BY <1>4 DEF Reject, Life!Standing
    <2> QED
      BY <1>2, <2>2, <2>3 DEF Life!LifeNext, Life!TurnDown, Awaiting, EverAccepted
  <1> QED BY <1>3, <1>4

LEMMA MeetingIsLoadedLives ==
  ASSUME LifeInv, MeetingIsLoaded
  PROVE  [Life!LifeNext]_(Life!life)
  <1>0. DeliveryInv
    BY DEF LifeInv
  <1>1. /\ versions' = [v \in Ids |-> Reconciled(v)] /\ valid' = valid /\ Ids' = Ids
    BY DEF MeetingIsLoaded, Ids
  <1>2. \A v \in Ids : versions'[v].review =
            IF Misfiled(v) THEN "NOT_REQUIRED" ELSE versions[v].review
    BY <1>0, <1>1, ReconciledIsSound
  <1>3. EverAccepted' <=> EverAccepted
    BY <1>1, <1>2 DEF EverAccepted, Misfiled, Pending
  <1>4. CASE \A v \in Ids : ~Misfiled(v)
    <2>1. Awaiting' <=> Awaiting
      BY <1>1, <1>2, <1>4 DEF Awaiting, Pending
    <2>2. status' = status
      BY <1>0, <1>4 DEF MeetingIsLoaded, DeliveryInv, OneCandidate
    <2> QED BY <1>1, <1>3, <2>1, <2>2 DEF Life!life, Awaiting, EverAccepted
  <1>5. ASSUME NEW v \in Ids, Misfiled(v) PROVE Life!LifeNext
    <2>1. Awaiting /\ \A u \in Ids : Pending(u) => u = v
      BY <1>0, <1>5 DEF Misfiled, DeliveryInv, OneCandidate, Awaiting
    <2>2. ~Awaiting'
      BY <1>1, <1>2, <1>5, <2>1 DEF Awaiting, Pending
    <2>3. \/ status' \in Life!Standing
          \/ status # "PENDING_ACCEPTANCE" /\ status' = status
      BY <1>5, <2>1 DEF MeetingIsLoaded, Life!Standing
    <2> QED
      BY <1>1, <1>3, <2>1, <2>2, <2>3
      DEF Life!LifeNext, Life!TurnDown, Awaiting, EverAccepted
  <1> QED BY <1>4, <1>5

LEMMA InputChangesLives ==
  ASSUME LifeInv, InputChanges
  PROVE  Life!Reopen
  <1>1. /\ versions' = RejectedVersions /\ valid' = 0 /\ Ids' = Ids
        /\ status' = "TRACKING"
    BY DEF InputChanges, RejectedVersions, Ids
  <1>2. \A v \in Ids : versions'[v].review =
            IF Pending(v) THEN "REJECTED" ELSE versions[v].review
    BY <1>1, IdsAreNumbers DEF RejectedVersions, LifeInv, DeliveryInv, Version
  <1>3. ~Awaiting' /\ (EverAccepted' <=> EverAccepted)
    BY <1>1, <1>2 DEF Awaiting, EverAccepted, Pending
  <1> QED BY <1>1, <1>3 DEF Life!Reopen, Awaiting, EverAccepted

LEMMA InitLives == Init => Life!LifeInit
  <1> SUFFICES ASSUME Init PROVE Life!LifeInit
    OBVIOUS
  <1>1. Ids = {} /\ valid = 0 /\ status = "TRACKING"
    BY EmptySeq DEF Init, Ids
  <1> QED BY <1>1 DEF Life!LifeInit

LEMMA StepLives ==
  ASSUME LifeInv, [Next]_vars
  PROVE  [Life!LifeNext]_(Life!life)
  <1>1. CASE Deliver
    BY <1>1, DeliverLives
  <1>2. ASSUME NEW v \in Ids, Accept(v) \/ Reject(v) PROVE Life!LifeNext
    BY <1>2, VerdictLives
  <1>3. ASSUME NEW v \in Ids, Promote(v) PROVE Life!LifeNext
    BY <1>3, PromoteLives DEF Life!LifeNext
  <1>4. CASE MeetingIsLoaded
    BY <1>4, MeetingIsLoadedLives
  <1>5. CASE InputChanges
    BY <1>5, InputChangesLives DEF Life!LifeNext
  <1>6. CASE \/ \E v \in Ids :
                   \/ Retry(v) \/ Claim(v) \/ BackoffElapses(v)
                   \/ \E decision \in {"INCLUDED", "REVISION_REQUESTED"} :
                          Settle(v, decision)
             \/ Finish \/ ProcessingRaises \/ WorkerStops \/ WorkerStarts
             \/ (\E p \in People : OwnerChanges(p)) \/ FinalIsWritten
             \/ EpisodeIsArchived
             \/ UNCHANGED vars
    BY <1>6, QuietLives
  <1> QED
    BY <1>1, <1>2, <1>3, <1>4, <1>5, <1>6
    DEF Next, Judge, Contribute, Surroundings

\* The deliveries of a task move it as TaskLifecycle says: whatever waits,
\* comes late or is withdrawn, the board goes back to where the result in
\* force leaves it, and a final contains only what was accepted once
\* (submit_artifact, decide_contribution, review_artifact, aggregate,
\* _invalidate_downstream_inputs, reconcile_legacy_collaborator_candidates).
THEOREM DeliveriesFollowTheLifecycle == Spec => ImplementsLifecycle
  <1>1. LifeInv /\ [Next]_vars => [Life!LifeNext]_(Life!life)
    BY StepLives
  <1> QED
    BY InitLives, LifeAlways, <1>1, PTL
    DEF Spec, ImplementsLifecycle, Life!LifeSpec

\* What the lifecycle keeps, it keeps here.
LEMMA BoardKept ==
  ASSUME Life!BoardIsRight, [Life!LifeNext]_(Life!life)
  PROVE  Life!BoardIsRight'
  BY DEF Life!BoardIsRight, Life!LifeNext, Life!life, Life!PutForward,
         Life!Approve, Life!TurnDown, Life!Fail, Life!Include, Life!LeaveFinal,
         Life!Reopen, Life!Standing, Life!Submittable, Life!Worked

\* The board is right about every task: waiting only while a version waits,
\* open only while none does, and accepted, part of a final or archived only
\* if a version of it was accepted (all that write action_items.status).
THEOREM BoardStaysRight == Spec => []Life!BoardIsRight
  <1>1. Life!LifeInit => Life!BoardIsRight
    BY DEF Life!LifeInit, Life!BoardIsRight, Life!Worked, Life!Submittable
  <1>2. LifeInv /\ [Next]_vars /\ Life!BoardIsRight => Life!BoardIsRight'
    BY StepLives, BoardKept
  <1> QED BY InitLives, LifeAlways, <1>1, <1>2, PTL DEF Spec

\* The hand-over commands see no other change of the status than the ones
\* TaskDispatch allows for: every step that the deliveries, the final and an
\* upstream result take is one of its DeliveryStep.
THEOREM StatusMovesAsExpected == Spec => [][WorkMove(status, status')]_status
  <1>1. ASSUME Life!BoardIsRight, [Life!LifeNext]_(Life!life), status' # status
        PROVE  WorkMove(status, status')
    <2>1. Life!BoardIsRight'
      BY <1>1, BoardKept
    <2> QED
      BY <1>1, <2>1
      DEF WorkMove, Worked, Life!BoardIsRight, Life!LifeNext, Life!life,
          Life!PutForward, Life!Approve, Life!TurnDown, Life!Fail,
          Life!Include, Life!LeaveFinal, Life!Reopen, Life!Standing,
          Life!Submittable, Life!Worked
  <1>2. LifeInv /\ [Next]_vars /\ Life!BoardIsRight =>
            [WorkMove(status, status')]_status
    BY <1>1, StepLives
  <1> QED BY BoardStaysRight, LifeAlways, <1>2, PTL DEF Spec
=============================================================================
