------------------------- MODULE FinalReleaseProofs -------------------------
(***************************************************************************)
(* Proofs about FinalRelease, for any number of meetings in one database,  *)
(* of tasks, finals, couriers' faults and attempts.                        *)
(***************************************************************************)
EXTENDS FinalRelease, FiniteSetTheorems, TLAPS

USE DEF Builders, Couriers, FinalIds

-----------------------------------------------------------------------------
(* Types.                                                                  *)

LEMMA ConstantFacts ==
  /\ Meetings # {} /\ MeetingOf \in [Tasks -> Meetings]
  /\ Console # Feishu /\ Console \notin Meetings /\ Feishu \notin Meetings
  /\ MaxFinals \in Nat /\ MaxAttempts \in Nat /\ MaxFaults \in Nat
  /\ WorkerMode \in {"model", "template"}
  /\ MaxVersions \in [Tasks -> Nat]
  BY ReleaseAssumption

LEMMA InitTyped == Init => TypeOK
  <1> SUFFICES ASSUME Init PROVE TypeOK
    OBVIOUS
  <1> USE ConstantFacts
  <1>1. finals \in [FinalIds -> Final]
    <2>1. (CHOOSE m \in Meetings : TRUE) \in Meetings
      OBVIOUS
    <2> QED BY <2>1 DEF Init, Final, Citations
  <1>2. builder[Console] \in ConsoleStates
    BY DEF Init, ConsoleStates
  <1>3. \A m \in Meetings : builder[m] \in WorkerStates
    BY DEF Init, WorkerStates
  <1>4. courier \in [Couriers -> CourierStates]
    BY DEF Init, CourierStates
  <1>5. faults \in 0 .. MaxFaults /\ current \in [Meetings -> 0 .. MaxFinals]
    BY DEF Init
  <1> QED
    BY <1>1, <1>2, <1>3, <1>4, <1>5 DEF Init, TypeOK, Citations, Worked, Submittable

\* What a builder holds at each step of its work.
LEMMA BuilderFields ==
  ASSUME TypeOK, NEW b \in Builders
  PROVE  /\ builder[b].step \in {"organizing", "rendered"} =>
                builder[b].meeting \in Meetings /\ builder[b].sections \in Citations
         /\ builder[b].step = "rendered" =>
                builder[b].lineage \in Citations /\ builder[b].revision \in Nat
         /\ b = Console => builder[b].step # "written"
         /\ b \in Meetings /\ builder[b].step \in {"organizing", "rendered", "written"} =>
                builder[b].job \in Job
  <1>1. CASE b \in Meetings
    <2>1. builder[b] \in WorkerStates
      BY <1>1 DEF TypeOK
    <2> QED
      BY <1>1, <2>1, ConstantFacts
      DEF WorkerStates, Organizing, Rendered, Written, Idle, Down
  <1>2. CASE b = Console
    <2>1. builder[b] \in ConsoleStates
      BY <1>2 DEF TypeOK
    <2> QED
      BY <1>2, <2>1, ConstantFacts
      DEF ConsoleStates, ConsoleOrganizing, Rendered, Idle
  <1> QED BY <1>1, <1>2

LEMMA CourierFields ==
  ASSUME TypeOK, NEW c \in Couriers
  PROVE  /\ courier[c].step \in {"serving", "claimed", "sent"} =>
                courier[c].meeting \in Meetings
         /\ courier[c].step \in {"claimed", "sent"} =>
                courier[c] \in Carrying
  <1>1. courier[c] \in CourierStates
    BY DEF TypeOK
  <1> QED BY <1>1 DEF CourierStates, Serving, Carrying, Idle, Down

\* A builder that takes another step, and the other builders.
LEMMA BuilderSet ==
  ASSUME TypeOK, NEW b \in Builders, NEW x,
         builder' = [builder EXCEPT ![b] = x],
         b \in Meetings => x \in WorkerStates,
         b = Console => x \in ConsoleStates
  PROVE  /\ DOMAIN builder' = Builders
         /\ \A m \in Meetings : builder'[m] \in WorkerStates
         /\ builder'[Console] \in ConsoleStates
  BY ConstantFacts DEF TypeOK

LEMMA FingerprintTyped ==
  ASSUME TypeOK, NEW m
  PROVE  Fingerprint(m) \in Citations
  BY DEF TypeOK, Fingerprint, Citations

LEMMA RevisionTyped == ASSUME NEW m PROVE NextRevision(m) \in Nat
  <1> DEFINE numbered == {f \in FinalIds : /\ finals[f].meeting = m
                                           /\ finals[f].status # "NONE"}
  <1>1. IsFiniteSet(FinalIds)
    BY FS_Interval, ConstantFacts
  <1>2. Cardinality(numbered) \in Nat
    BY <1>1, FS_Subset, FS_CardinalityType
  <1> QED BY <1>2 DEF NextRevision

LEMMA MarkedTyped ==
  ASSUME TypeOK, NEW j \in Job, NEW n \in Nat,
         NEW s \in {"PENDING", "CLAIMED", "RETRY_WAIT", "DELIVERED",
                    "DEAD_LETTER"}
  PROVE  Marked(j, s, n) \subseteq Job
  <1> [j EXCEPT !.status = s, !.attempts = n] \in Job
    BY DEF Job
  <1> QED BY DEF Marked, TypeOK

\* A row of the outbox keeps its key when its status changes.
LEMMA MarkedKeepsKeys ==
  ASSUME NEW j \in Job, NEW s, NEW n, NEW i \in jobs
  PROVE  \E k \in Marked(j, s, n) :
             k.meeting = i.meeting /\ k.sources = i.sources
  <1> DEFINE new == [j EXCEPT !.status = s, !.attempts = n]
  <1>1. new.meeting = j.meeting /\ new.sources = j.sources
    BY DEF Job
  <1>2. Marked(j, s, n) = (jobs \ {j}) \cup {new}
    BY DEF Marked
  <1> HIDE DEF new
  <1>3. CASE i = j
    BY <1>1, <1>2, <1>3
  <1>4. CASE i # j
    BY <1>2, <1>4
  <1> QED BY <1>3, <1>4

\* The row a worker claimed is still in the outbox, whoever has it by now.
RowsAreThere ==
    \A m \in Meetings :
        builder[m].step \in {"organizing", "rendered", "written"} =>
            \E j \in jobs : /\ j.meeting = builder[m].job.meeting
                            /\ j.sources = builder[m].job.sources

LEMMA HeldTyped ==
  ASSUME TypeOK, RowsAreThere, NEW m \in Meetings,
         builder[m].step \in {"organizing", "rendered", "written"}
  PROVE  Held(m) \in jobs /\ Held(m) \in Job
  BY DEF RowsAreThere, Held, TypeOK

LEMMA RequeuedTyped ==
  ASSUME TypeOK, Recover
  PROVE  /\ release' \in [FinalIds -> {"NONE", "PENDING", "CLAIMED", "DELIVERED"}]
         /\ jobs' \subseteq Job
         /\ \A i \in jobs : \E k \in jobs' :
                k.meeting = i.meeting /\ k.sources = i.sources
  <1> DEFINE back(j) == IF j.status = "CLAIMED"
                        THEN [j EXCEPT !.status = "PENDING"] ELSE j
  <1>1. release' \in [FinalIds -> {"NONE", "PENDING", "CLAIMED", "DELIVERED"}]
    BY DEF TypeOK, Recover, Requeued
  <1>2. ASSUME NEW j \in jobs
        PROVE  /\ back(j) \in Job
               /\ back(j).meeting = j.meeting /\ back(j).sources = j.sources
    <2>1. j \in Job
      BY DEF TypeOK
    <2> QED BY <2>1 DEF Job
  <1>3. jobs' = {back(j) : j \in jobs}
    BY DEF Recover
  <1> HIDE DEF back
  <1>4. ASSUME NEW i \in jobs
        PROVE  \E k \in jobs' : k.meeting = i.meeting /\ k.sources = i.sources
    BY <1>2, <1>3
  <1> QED BY <1>1, <1>2, <1>3, <1>4

\* A final that is written takes a free slot, and replaces the current one.
LEMMA WrittenTyped ==
  ASSUME TypeOK, NEW m \in Meetings, NEW f \in FinalIds, NEW new \in Final,
         finals' = [IF current[m] = 0 THEN finals ELSE Superseded(current[m])
                       EXCEPT ![f] = new]
  PROVE  /\ finals' \in [FinalIds -> Final]
         /\ finals'[f] = new
         /\ \A g \in FinalIds \ {f} :
               /\ finals'[g] = [finals[g] EXCEPT !.status = finals'[g].status]
               /\ finals'[g].status =
                     IF g = current[m] /\ finals[g].status # "RELEASED"
                     THEN "SUPERSEDED" ELSE finals[g].status
  <1> DEFINE prev == current[m]
             base == IF prev = 0 THEN finals ELSE Superseded(prev)
  <1>1. prev \in 0 .. MaxFinals
    BY DEF TypeOK
  <1>2. CASE prev = 0
    <2>1. base = finals
      BY <1>2
    <2>2. \A g \in FinalIds : finals[g] = [finals[g] EXCEPT !.status = finals[g].status]
      BY DEF TypeOK, Final
    <2>3. \A g \in FinalIds : g # prev
      BY <1>2
    <2> QED BY <2>1, <2>2, <2>3 DEF TypeOK
  <1>3. CASE prev # 0
    <2>1. prev \in FinalIds
      BY <1>1, <1>3, ConstantFacts
    <2> DEFINE s == IF finals[prev].status = "RELEASED" THEN "RELEASED"
                    ELSE "SUPERSEDED"
    <2>2. base = [finals EXCEPT ![prev] = [finals[prev] EXCEPT !.status = s]]
      BY <1>3, <2>1 DEF Superseded, TypeOK
    <2>3. /\ finals \in [FinalIds -> Final]
          /\ \A g \in FinalIds : finals[g] = [finals[g] EXCEPT !.status = finals[g].status]
      BY DEF TypeOK, Final
    <2>4. /\ [finals[prev] EXCEPT !.status = s] \in Final
          /\ [finals[prev] EXCEPT !.status = s].status = s
      BY <2>1, <2>3 DEF Final
    <2> HIDE DEF s
    <2>5. base \in [FinalIds -> Final]
      BY <2>1, <2>2, <2>3, <2>4
    <2>6. finals' = [base EXCEPT ![f] = new]
      OBVIOUS
    <2> HIDE DEF base
    <2>7. finals' \in [FinalIds -> Final] /\ finals'[f] = new
      BY <2>5, <2>6
    <2>8. ASSUME NEW g \in FinalIds \ {f}
          PROVE  /\ finals'[g] = [finals[g] EXCEPT !.status = finals'[g].status]
                 /\ finals'[g].status =
                       IF g = prev /\ finals[g].status # "RELEASED"
                       THEN "SUPERSEDED" ELSE finals[g].status
      <3>1. finals'[g] = base[g]
        BY <2>5, <2>6
      <3>2. CASE g = prev
        BY <2>1, <2>2, <2>3, <2>4, <3>1, <3>2 DEF s
      <3>3. CASE g # prev
        BY <2>1, <2>2, <2>3, <3>1, <3>3
      <3> QED BY <3>2, <3>3
    <2> QED BY <2>7, <2>8
  <1> QED BY <1>2, <1>3

\* The approvals when a final is written.
LEMMA ApprovalsWhenWritten ==
  ASSUME TypeOK, NEW m \in Meetings, NEW f \in FinalIds,
         approval' = [IF current[m] = 0 THEN approval ELSE Withdrawn(current[m])
                         EXCEPT ![f] = "PENDING"]
  PROVE  /\ approval' \in [FinalIds -> {"NONE", "PENDING", "APPROVED", "REJECTED",
                                        "SUPERSEDED", "EXECUTED"}]
         /\ approval'[f] = "PENDING"
         /\ \A g \in FinalIds \ {f} :
               approval'[g] = IF g = current[m] /\ approval[g] = "PENDING"
                              THEN "SUPERSEDED" ELSE approval[g]
  <1>1. current[m] \in 0 .. MaxFinals
    BY DEF TypeOK
  <1>2. CASE current[m] = 0
    BY <1>2 DEF TypeOK
  <1>3. CASE current[m] # 0
    <2>1. current[m] \in FinalIds
      BY <1>1, <1>3, ConstantFacts
    <2> QED BY <1>3, <2>1 DEF TypeOK, Withdrawn
  <1> QED BY <1>2, <1>3

LEMMA WorkTyped ==
  ASSUME TypeOK, NEW t \in Tasks, Submit(t) \/ Accept(t) \/ Reject(t)
  PROVE  TypeOK'
  <1> USE ConstantFacts
  <1>1. CASE Submit(t)
    BY <1>1 DEF Submit, TypeOK, outgoing, Citations, Worked, Submittable
  <1>2. CASE Accept(t)
    <2> DEFINE m == MeetingOf[t]
    <2>1. m \in Meetings /\ current[m] \in 0 .. MaxFinals
      BY DEF TypeOK
    <2>2. Supersedable(m) => current[m] \in FinalIds
      BY <2>1 DEF Supersedable, CurrentStatus
    <2>3. /\ finals' \in [FinalIds -> Final]
          /\ approval' \in [FinalIds -> {"NONE", "PENDING", "APPROVED",
                                         "REJECTED", "SUPERSEDED", "EXECUTED"}]
      <3>1. CASE Supersedable(m)
        <4>1. finals[current[m]] \in Final
          BY <2>2, <3>1 DEF TypeOK
        <4>2. [finals[current[m]] EXCEPT !.status = "SUPERSEDED"] \in Final
          BY <4>1 DEF Final
        <4> QED BY <1>2, <2>2, <3>1, <4>2 DEF Accept, Withdrawn, TypeOK
      <3>2. CASE ~Supersedable(m)
        BY <1>2, <3>2 DEF Accept, TypeOK
      <3> QED BY <3>1, <3>2
    <2>4. /\ valid' \in Citations
          /\ taskStatus' \in [Tasks -> Worked]
          /\ reviewing' \in [Tasks -> BOOLEAN]
      BY <1>2 DEF Accept, TypeOK, Citations, Worked, Submittable
    <2> QED BY <1>2, <2>3, <2>4 DEF Accept, TypeOK
  <1>3. CASE Reject(t)
    <2>1. /\ taskStatus' \in [Tasks -> Worked]
          /\ reviewing' \in [Tasks -> BOOLEAN]
      BY <1>3 DEF Reject, TypeOK, Worked, Submittable
    <2> QED BY <1>3, <2>1 DEF Reject, TypeOK, outgoing
  <1> QED BY <1>1, <1>2, <1>3

\* A builder's step that touches nothing but itself and the outbox rows.
LEMMA BuilderStepTyped ==
  ASSUME TypeOK, NEW b \in Builders, NEW x,
         builder' = [builder EXCEPT ![b] = x],
         b \in Meetings => x \in WorkerStates,
         b = Console => x \in ConsoleStates,
         jobs' \subseteq Job, courier' \in [Couriers -> CourierStates],
         faults' \in 0 .. MaxFaults,
         UNCHANGED <<tasks, meeting, current, finals, outgoing>>
  PROVE  TypeOK'
  BY BuilderSet DEF TypeOK, tasks, outgoing

LEMMA IdleIsAState ==
  /\ Idle \in WorkerStates /\ Down \in WorkerStates /\ Idle \in ConsoleStates
  /\ Idle \in CourierStates /\ Down \in CourierStates
  BY DEF WorkerStates, ConsoleStates, CourierStates

LEMMA ServingIsAState ==
  ASSUME NEW m \in Meetings
  PROVE  [step |-> "serving", meeting |-> m] \in CourierStates
  BY DEF CourierStates, Serving

LEMMA OrganizeTyped ==
  ASSUME TypeOK, RowsAreThere, NEW m \in Meetings, Organize(m)
  PROVE  TypeOK'
  <1> USE ConstantFacts
  <1>0. /\ courier \in [Couriers -> CourierStates] /\ faults \in 0 .. MaxFaults
        /\ jobs \subseteq Job
    BY DEF TypeOK
  <1>1. CASE Queue(m)
    <2> DEFINE force == CurrentStatus(m) = "PENDING_APPROVAL"
               new == [meeting |-> m, sources |-> Fingerprint(m),
                       force |-> force, attempts |-> 0, status |-> "PENDING"]
    <2>1. force \in BOOLEAN
      OBVIOUS
    <2>2. jobs' = jobs \cup {new}
      BY <1>1 DEF Queue
    <2> HIDE DEF force
    <2>3. new \in Job
      BY <2>1, FingerprintTyped DEF Job
    <2>4. jobs' \subseteq Job
      BY <1>0, <2>2, <2>3
    <2> QED BY <1>1, <2>4 DEF Queue, TypeOK, tasks, outgoing
  <1>2. CASE OrganizerFails(m)
    <2>1. builder[m].step \in {"organizing", "rendered"} /\ builder[m].job \in Job
      BY <1>2, BuilderFields DEF OrganizerFails
    <2>2. Held(m) \in Job /\ Held(m).attempts \in Nat
      BY <2>1, HeldTyped DEF Job
    <2>3. FailedStatus(builder[m].job.attempts)
              \in {"PENDING", "CLAIMED", "RETRY_WAIT", "DELIVERED", "DEAD_LETTER"}
      BY DEF FailedStatus
    <2>4. jobs' \subseteq Job
      BY <1>2, <2>2, <2>3, MarkedTyped DEF OrganizerFails
    <2> QED BY <1>0, <1>2, <2>4, BuilderStepTyped, IdleIsAState DEF OrganizerFails
  <1>3. CASE Settle(m)
    <2>1. Held(m) \in Job /\ Held(m).attempts \in Nat
      BY <1>3, HeldTyped DEF Settle, Job
    <2>2. jobs' \subseteq Job
      BY <1>3, <2>1, MarkedTyped DEF Settle
    <2> QED BY <1>0, <1>3, <2>2, BuilderStepTyped, IdleIsAState DEF Settle
  <1>4. CASE WorkerStarts(m)
    BY <1>4, RequeuedTyped, BuilderSet, IdleIsAState
    DEF WorkerStarts, Recover, TypeOK, tasks
  <1>5. ASSUME NEW j \in Waiting, Discard(m, j) PROVE TypeOK'
    <2>1. j \in Job /\ j.attempts + 1 \in Nat
      BY <1>0 DEF Waiting, Job
    <2>2. jobs' \subseteq Job
      BY <1>5, <2>1, MarkedTyped DEF Discard
    <2> QED BY <1>5, <2>2 DEF Discard, TypeOK, tasks, outgoing
  <1>6. ASSUME NEW j \in Waiting, Start(m, j) PROVE TypeOK'
    <2>1. j \in Job /\ j.attempts + 1 \in Nat
      BY <1>0 DEF Waiting, Job
    <2>2. FailedStatus(j.attempts + 1)
              \in {"PENDING", "CLAIMED", "RETRY_WAIT", "DELIVERED", "DEAD_LETTER"}
      BY DEF FailedStatus
    <2>3. jobs' \subseteq Job
      BY <1>6, <2>1, <2>2, MarkedTyped DEF Start
    <2>4. CASE builder' = builder
      BY <1>6, <2>3, <2>4 DEF Start, TypeOK, tasks, outgoing
    <2>5. CASE builder' # builder
      <3> DEFINE claimed == [j EXCEPT !.status = "CLAIMED", !.attempts = @ + 1]
                 x == [step |-> "organizing", meeting |-> m, job |-> claimed,
                       sections |-> Fingerprint(m)]
      <3>1. claimed \in Job
        BY <2>1 DEF Job
      <3>2. builder' = [builder EXCEPT ![m] = x]
        BY <1>6, <2>5 DEF Start
      <3> HIDE DEF claimed
      <3>3. x \in WorkerStates
        BY <3>1, FingerprintTyped DEF WorkerStates, Organizing
      <3> HIDE DEF x
      <3>4. UNCHANGED <<tasks, meeting, current, finals, outgoing, courier, faults>>
        BY <1>6 DEF Start
      <3> QED BY <1>0, <2>3, <3>2, <3>3, <3>4, BuilderStepTyped
    <2> QED BY <2>4, <2>5
  <1> QED BY <1>1, <1>2, <1>3, <1>4, <1>5, <1>6 DEF Organize

LEMMA BuildTyped ==
  ASSUME TypeOK, NEW b \in Builders, Render(b) \/ Write(b) \/ BuilderStops(b)
  PROVE  TypeOK'
  <1> USE ConstantFacts
  <1>0. /\ courier \in [Couriers -> CourierStates] /\ faults \in 0 .. MaxFaults
        /\ jobs \subseteq Job
    BY DEF TypeOK
  <1>1. CASE Render(b)
    <2> DEFINE m == builder[b].meeting
               rows == IF b = Console THEN {} ELSE builder[b].job
               x == [step |-> "rendered", meeting |-> m,
                     sections |-> builder[b].sections,
                     lineage |-> Fingerprint(m), revision |-> NextRevision(m),
                     job |-> rows]
    <2>1. /\ m \in Meetings /\ builder[b].sections \in Citations
          /\ Fingerprint(m) \in Citations /\ NextRevision(m) \in Nat
      BY <1>1, BuilderFields, FingerprintTyped, RevisionTyped DEF Render
    <2>2. b \in Meetings => rows \in Job
      BY <1>1, BuilderFields DEF Render
    <2>3. b = Console => rows \in {{}}
      OBVIOUS
    <2>4. builder' = [builder EXCEPT ![b] = x]
      BY <1>1 DEF Render
    <2>5. UNCHANGED <<tasks, meeting, current, finals, outgoing, jobs, courier, faults>>
      BY <1>1 DEF Render
    <2> HIDE DEF m, rows
    <2>6. b \in Meetings => x \in WorkerStates
      BY <2>1, <2>2 DEF WorkerStates, Rendered
    <2>7. b = Console => x \in ConsoleStates
      BY <2>1, <2>3 DEF ConsoleStates, Rendered
    <2> HIDE DEF x
    <2> QED BY <1>0, <2>4, <2>5, <2>6, <2>7, BuilderStepTyped
  <1>2. CASE Write(b)
    <2> DEFINE m == builder[b].meeting
               mode == IF b = Console THEN "template" ELSE WorkerMode
               new == [meeting |-> m, status |-> "PENDING_APPROVAL", mode |-> mode,
                       sections |-> builder[b].sections,
                       lineage |-> builder[b].lineage]
    <2>1. /\ m \in Meetings /\ builder[b].sections \in Citations
          /\ builder[b].lineage \in Citations /\ builder[b].step = "rendered"
          /\ b \in Meetings => builder[b].job \in Job
      BY <1>2, BuilderFields DEF Write
    <2>2. mode \in {"model", "template"}
      OBVIOUS
    <2> HIDE DEF mode
    <2>3. new \in Final
      BY <2>1, <2>2 DEF Final
    <2>4. PICK f \in FinalIds :
            /\ finals' = [IF current[m] = 0 THEN finals ELSE Superseded(current[m])
                             EXCEPT ![f] = new]
            /\ approval' = [IF current[m] = 0 THEN approval ELSE Withdrawn(current[m])
                               EXCEPT ![f] = "PENDING"]
            /\ current' = [current EXCEPT ![m] = f]
      BY <1>2 DEF Write, mode
    <2> HIDE DEF new
    <2>5. finals' \in [FinalIds -> Final]
      BY <2>1, <2>3, <2>4, WrittenTyped
    <2>6. approval' \in [FinalIds -> {"NONE", "PENDING", "APPROVED", "REJECTED",
                                      "SUPERSEDED", "EXECUTED"}]
      BY <2>1, <2>4, ApprovalsWhenWritten
    <2>7. current' \in [Meetings -> 0 .. MaxFinals]
      BY <2>1, <2>4 DEF TypeOK
    <2>8. /\ taskStatus' \in [Tasks -> Worked]
          /\ meeting' \in [Meetings -> {"ACTIVE", "READY_FOR_FINAL_APPROVAL",
                                        "APPROVED", "ARCHIVED"}]
      BY <1>2 DEF Write, TypeOK, Worked, Submittable
    <2>9. /\ DOMAIN builder' = Builders
          /\ \A k \in Meetings : builder'[k] \in WorkerStates
          /\ builder'[Console] \in ConsoleStates
          /\ courier' \in [Couriers -> CourierStates]
      <3>1. CASE b = Console
        <4>1. builder' = [builder EXCEPT ![b] = Idle]
          BY <1>2, <3>1 DEF Write
        <4>2. courier' = [courier EXCEPT ![b] = [step |-> "serving", meeting |-> m]]
          BY <1>2, <3>1 DEF Write
        <4>3. courier' \in [Couriers -> CourierStates]
          BY <1>0, <2>1, <4>2, ServingIsAState
        <4> QED BY <3>1, <4>1, <4>3, BuilderSet, IdleIsAState
      <3>2. CASE b # Console
        <4>1. [step |-> "written", job |-> builder[b].job] \in WorkerStates
          BY <2>1, <3>2 DEF WorkerStates, Written
        <4> QED BY <1>0, <1>2, <3>2, <4>1, BuilderSet DEF Write
      <3> QED BY <3>1, <3>2
    <2>10. UNCHANGED <<valid, newest, reviewing, release, received, jobs, faults>>
      BY <1>2 DEF Write
    <2> QED
      BY <2>5, <2>6, <2>7, <2>8, <2>9, <2>10 DEF TypeOK
  <1>3. CASE BuilderStops(b)
    <2>1. faults' \in 0 .. MaxFaults
      BY <1>0, <1>3 DEF BuilderStops
    <2> QED BY <1>0, <1>3, <2>1, BuilderStepTyped, IdleIsAState DEF BuilderStops
  <1> QED BY <1>1, <1>2, <1>3

LEMMA ConsoleTyped ==
  ASSUME TypeOK,
         (\E m \in Meetings : ConsoleGenerates(m)) \/ ConsoleCollides
  PROVE  TypeOK'
  <1> USE ConstantFacts
  <1>0. /\ courier \in [Couriers -> CourierStates] /\ faults \in 0 .. MaxFaults
        /\ jobs \subseteq Job
    BY DEF TypeOK
  <1>1. ASSUME NEW m \in Meetings, ConsoleGenerates(m) PROVE TypeOK'
    <2> DEFINE x == [step |-> "organizing", meeting |-> m,
                     sections |-> Fingerprint(m)]
    <2>1. x \in ConsoleStates
      BY FingerprintTyped DEF ConsoleStates, ConsoleOrganizing
    <2>2. CASE builder' = builder
      <3>1. courier' \in [Couriers -> CourierStates]
        BY <1>0, <1>1, ServingIsAState DEF ConsoleGenerates
      <3> QED BY <1>1, <2>2, <3>1 DEF ConsoleGenerates, TypeOK, tasks, outgoing
    <2>3. CASE builder' # builder
      <3>1. builder' = [builder EXCEPT ![Console] = x] /\ courier' = courier
        BY <1>1, <2>3 DEF ConsoleGenerates
      <3> HIDE DEF x
      <3> QED BY <1>0, <1>1, <2>1, <3>1, BuilderStepTyped DEF ConsoleGenerates
    <2> QED BY <2>2, <2>3
  <1>2. CASE ConsoleCollides
    BY <1>0, <1>2, BuilderStepTyped, IdleIsAState DEF ConsoleCollides
  <1> QED BY <1>1, <1>2

LEMMA DecideTyped ==
  ASSUME TypeOK, NEW f \in FinalIds, Decide(f)
  PROVE  TypeOK'
  <1> USE ConstantFacts
  <1>1. finals[f] \in Final /\ finals[f].meeting \in Meetings
    BY DEF TypeOK, Final
  <1>2. courier' \in [Couriers -> CourierStates]
    BY <1>1, ServingIsAState DEF Decide, TypeOK
  <1>3. CASE Approve(f)
    <2>1. [finals[f] EXCEPT !.status = "APPROVED"] \in Final
      BY <1>1 DEF Final
    <2> QED BY <1>2, <1>3, <2>1 DEF Approve, TypeOK, tasks
  <1>4. CASE Refuse(f)
    BY <1>2, <1>4 DEF Refuse, TypeOK, tasks
  <1> QED BY <1>3, <1>4 DEF Decide

\* What a step of one courier leaves of the types, when it touches nothing
\* of the tasks, the finals and the builders.
LEMMA CourierStepTyped ==
  ASSUME TypeOK, NEW c \in Couriers, NEW x \in CourierStates,
         courier' = [courier EXCEPT ![c] = x],
         release' \in [FinalIds -> {"NONE", "PENDING", "CLAIMED", "DELIVERED"}],
         received' \subseteq FinalIds, faults' \in 0 .. MaxFaults,
         UNCHANGED <<tasks, meeting, current, finals, approval, jobs, builder>>
  PROVE  TypeOK'
  BY DEF TypeOK, tasks

LEMMA DeliverTyped ==
  ASSUME TypeOK, NEW c \in Couriers, Deliver(c)
  PROVE  TypeOK'
  <1> USE ConstantFacts
  <1>0. /\ release \in [FinalIds -> {"NONE", "PENDING", "CLAIMED", "DELIVERED"}]
        /\ received \subseteq FinalIds /\ faults \in 0 .. MaxFaults
        /\ courier \in [Couriers -> CourierStates]
    BY DEF TypeOK
  <1>1. ASSUME NEW f \in FinalIds, Claim(c, f) PROVE TypeOK'
    <2> DEFINE x == [step |-> "claimed", meeting |-> courier[c].meeting,
                     final |-> f]
    <2>1. courier[c].meeting \in Meetings
      BY <1>1, CourierFields DEF Claim
    <2>2. x \in CourierStates
      BY <2>1 DEF CourierStates, Carrying
    <2>3. courier' = [courier EXCEPT ![c] = x]
      BY <1>1 DEF Claim
    <2>4. release' \in [FinalIds -> {"NONE", "PENDING", "CLAIMED", "DELIVERED"}]
      BY <1>0, <1>1 DEF Claim
    <2> HIDE DEF x
    <2> QED BY <1>0, <1>1, <2>2, <2>3, <2>4, CourierStepTyped DEF Claim
  <1>2. CASE NothingToClaim(c)
    BY <1>0, <1>2, CourierStepTyped, IdleIsAState DEF NothingToClaim, outgoing
  <1>3. CASE Send(c)
    <2> DEFINE x == [courier[c] EXCEPT !.step = "sent"]
    <2>1. courier[c] \in Carrying
      BY <1>3, CourierFields DEF Send
    <2>2. x \in CourierStates /\ courier[c].final \in FinalIds
      BY <2>1 DEF CourierStates, Carrying
    <2>3. courier' = [courier EXCEPT ![c] = x]
      BY <1>0, <1>3 DEF Send
    <2> HIDE DEF x
    <2> QED BY <1>0, <1>3, <2>2, <2>3, CourierStepTyped DEF Send
  <1>4. CASE CompleteDelivery(c)
    <2> DEFINE f == courier[c].final
               m == courier[c].meeting
    <2>1. f \in FinalIds /\ m \in Meetings
      BY <1>4, CourierFields DEF CompleteDelivery, Carrying
    <2>2. courier' \in [Couriers -> CourierStates]
      <3>1. courier' = [courier EXCEPT ![c] = [step |-> "serving", meeting |-> m]]
        BY <1>4 DEF CompleteDelivery
      <3> QED BY <1>0, <2>1, <3>1, ServingIsAState
    <2>3. finals' \in [FinalIds -> Final]
      <3>1. finals[f] \in Final
        BY <2>1 DEF TypeOK
      <3>2. [finals[f] EXCEPT !.status = "RELEASED"] \in Final
        BY <3>1 DEF Final
      <3> QED BY <1>4, <2>1, <3>2 DEF CompleteDelivery, TypeOK
    <2>4. taskStatus' \in [Tasks -> Worked]
      BY <1>4 DEF CompleteDelivery, TypeOK, Worked, Submittable
    <2>5. /\ release' \in [FinalIds -> {"NONE", "PENDING", "CLAIMED", "DELIVERED"}]
          /\ approval' \in [FinalIds -> {"NONE", "PENDING", "APPROVED", "REJECTED",
                                         "SUPERSEDED", "EXECUTED"}]
          /\ meeting' \in [Meetings -> {"ACTIVE", "READY_FOR_FINAL_APPROVAL",
                                        "APPROVED", "ARCHIVED"}]
      BY <1>4, <2>1 DEF CompleteDelivery, Executed, TypeOK
    <2> QED
      BY <1>4, <2>2, <2>3, <2>4, <2>5 DEF CompleteDelivery, TypeOK
  <1>5. CASE SendFails(c)
    <2>1. faults' \in 0 .. MaxFaults
      BY <1>0, <1>5 DEF SendFails
    <2> QED
      BY <1>0, <1>5, <2>1, CourierStepTyped, IdleIsAState DEF SendFails, outgoing
  <1>6. CASE CourierStops(c)
    <2>1. faults' \in 0 .. MaxFaults
      BY <1>0, <1>6 DEF CourierStops
    <2> QED
      BY <1>0, <1>6, <2>1, CourierStepTyped, IdleIsAState DEF CourierStops, outgoing
  <1> QED BY <1>1, <1>2, <1>3, <1>4, <1>5, <1>6 DEF Deliver

LEMMA FeishuTyped ==
  ASSUME TypeOK, (\E m \in Meetings : FeishuServes(m)) \/ FeishuStarts
  PROVE  TypeOK'
  <1> USE ConstantFacts
  <1>0. courier \in [Couriers -> CourierStates]
    BY DEF TypeOK
  <1>1. ASSUME NEW m \in Meetings, FeishuServes(m) PROVE TypeOK'
    <2>1. courier' \in [Couriers -> CourierStates]
      BY <1>0, <1>1, ServingIsAState DEF FeishuServes
    <2> QED BY <1>1, <2>1 DEF FeishuServes, TypeOK, tasks, outgoing
  <1>2. CASE FeishuStarts
    <2>1. courier' \in [Couriers -> CourierStates]
      BY <1>0, <1>2, IdleIsAState DEF FeishuStarts
    <2> QED
      BY <1>2, <2>1, RequeuedTyped DEF FeishuStarts, Recover, TypeOK, tasks
  <1> QED BY <1>1, <1>2

LEMMA TypeKept == TypeOK /\ RowsAreThere /\ [Next]_vars => TypeOK'
  <1> SUFFICES ASSUME TypeOK, RowsAreThere, [Next]_vars PROVE TypeOK'
    OBVIOUS
  <1>1. CASE UNCHANGED vars
    BY <1>1 DEF vars, TypeOK, tasks, outgoing
  <1>2. ASSUME NEW t \in Tasks, Work(t) PROVE TypeOK'
    BY <1>2, WorkTyped DEF Work
  <1> QED
    BY <1>1, <1>2, OrganizeTyped, BuildTyped, ConsoleTyped, DecideTyped,
       DeliverTyped, FeishuTyped
    DEF Next

-----------------------------------------------------------------------------
(* The rows the workers hold.                                              *)

AtWork == {"organizing", "rendered", "written"}

\* Rows keep their keys, and a worker goes on with the row it had.
LEMMA RowsStay ==
  ASSUME TypeOK, RowsAreThere,
         \A i \in jobs : \E k \in jobs' :
             k.meeting = i.meeting /\ k.sources = i.sources,
         \A m \in Meetings : builder'[m].step \in AtWork =>
             builder[m].step \in AtWork /\ builder'[m].job = builder[m].job
  PROVE  RowsAreThere'
  <1> SUFFICES ASSUME NEW m \in Meetings, builder'[m].step \in AtWork
               PROVE  \E j \in jobs' : /\ j.meeting = builder'[m].job.meeting
                                       /\ j.sources = builder'[m].job.sources
    BY DEF RowsAreThere, AtWork
  <1>1. PICK i \in jobs : /\ i.meeting = builder[m].job.meeting
                          /\ i.sources = builder[m].job.sources
    BY DEF RowsAreThere, AtWork
  <1> QED BY <1>1

\* The same when the rows and the workers are left alone.
LEMMA RowsUntouched ==
  ASSUME TypeOK, RowsAreThere, UNCHANGED jobs,
         \A m \in Meetings : builder'[m] = builder[m]
  PROVE  RowsAreThere'
  BY RowsStay

LEMMA OrganizeRows ==
  ASSUME TypeOK, RowsAreThere, NEW m \in Meetings, Organize(m)
  PROVE  RowsAreThere'
  <1> USE ConstantFacts
  <1>0. \A k \in Meetings : k # m => (\A x : [builder EXCEPT ![m] = x][k] = builder[k])
    BY DEF TypeOK
  <1>00. \A x : [builder EXCEPT ![m] = x][m] = x
    BY DEF TypeOK
  <1>1. CASE Queue(m)
    BY <1>1, RowsStay DEF Queue
  <1>2. ASSUME builder' = [builder EXCEPT ![m] = Idle],
               \A i \in jobs : \E k \in jobs' :
                   k.meeting = i.meeting /\ k.sources = i.sources
        PROVE  RowsAreThere'
    <2>1. \A k \in Meetings : builder'[k] = builder[k] \/ builder'[k] = Idle
      BY <1>0, <1>00, <1>2
    <2>2. \A k \in Meetings : builder'[k].step \in AtWork => builder'[k] = builder[k]
      BY <2>1 DEF Idle, AtWork
    <2> QED BY <1>2, <2>2, RowsStay
  <1>3. CASE OrganizerFails(m)
    <2>1. builder[m].step \in AtWork /\ builder[m].job \in Job
      BY <1>3, BuilderFields DEF OrganizerFails, AtWork
    <2>2. Held(m) \in Job /\ Held(m).attempts \in Nat
      BY <2>1, HeldTyped DEF Job, AtWork
    <2> QED BY <1>2, <1>3, <2>2, MarkedKeepsKeys DEF OrganizerFails
  <1>4. CASE Settle(m)
    <2>1. Held(m) \in Job /\ Held(m).attempts \in Nat
      BY <1>4, HeldTyped DEF Settle, Job
    <2> QED BY <1>2, <1>4, <2>1, MarkedKeepsKeys DEF Settle
  <1>5. CASE WorkerStarts(m)
    BY <1>2, <1>5, RequeuedTyped DEF WorkerStarts
  <1>6. ASSUME NEW j \in Waiting, Discard(m, j) PROVE RowsAreThere'
    <2>1. j \in Job /\ j.attempts + 1 \in Nat
      BY DEF Waiting, Job, TypeOK
    <2> QED BY <1>6, <2>1, MarkedKeepsKeys, RowsStay DEF Discard
  <1>7. ASSUME NEW j \in Waiting, Start(m, j) PROVE RowsAreThere'
    <2>1. j \in Job /\ j \in jobs /\ j.attempts + 1 \in Nat
      BY DEF Waiting, Job, TypeOK
    <2>2. FailedStatus(j.attempts + 1)
              \in {"PENDING", "CLAIMED", "RETRY_WAIT", "DELIVERED", "DEAD_LETTER"}
      BY DEF FailedStatus
    <2>3. \A i \in jobs : \E k \in jobs' :
              k.meeting = i.meeting /\ k.sources = i.sources
      <3>1. PICK s \in {"PENDING", "CLAIMED", "RETRY_WAIT", "DELIVERED",
                        "DEAD_LETTER"} : jobs' = Marked(j, s, j.attempts + 1)
        BY <1>7, <2>2 DEF Start
      <3>2. \A i \in jobs : \E k \in Marked(j, s, j.attempts + 1) :
                k.meeting = i.meeting /\ k.sources = i.sources
        BY <2>1, MarkedKeepsKeys
      <3> QED BY <3>1, <3>2
    <2>4. CASE builder' = builder
      BY <2>3, <2>4, RowsStay
    <2>5. CASE builder' # builder
      <3> DEFINE claimed == [j EXCEPT !.status = "CLAIMED", !.attempts = @ + 1]
                 x == [step |-> "organizing", meeting |-> m, job |-> claimed,
                       sections |-> Fingerprint(m)]
      <3>1. claimed.meeting = j.meeting /\ claimed.sources = j.sources
        BY <2>1 DEF Job
      <3>2. builder' = [builder EXCEPT ![m] = x]
        BY <1>7, <2>5 DEF Start
      <3>3. x.job = claimed
        OBVIOUS
      <3> HIDE DEF claimed, x
      <3>4. \E k \in jobs' : /\ k.meeting = builder'[m].job.meeting
                             /\ k.sources = builder'[m].job.sources
        <4>1. builder'[m] = x
          BY <1>00, <3>2
        <4>2. PICK k \in jobs' : k.meeting = j.meeting /\ k.sources = j.sources
          BY <2>1, <2>3
        <4> QED BY <3>1, <3>3, <4>1, <4>2
      <3>5. ASSUME NEW k \in Meetings \ {m}, builder'[k].step \in AtWork
            PROVE  \E i \in jobs' : /\ i.meeting = builder'[k].job.meeting
                                    /\ i.sources = builder'[k].job.sources
        <4>1. builder'[k] = builder[k]
          BY <1>0, <3>2
        <4>2. PICK i \in jobs : /\ i.meeting = builder[k].job.meeting
                                /\ i.sources = builder[k].job.sources
          BY <3>5, <4>1 DEF RowsAreThere, AtWork
        <4> QED BY <2>3, <4>1, <4>2
      <3> QED BY <3>4, <3>5 DEF RowsAreThere, AtWork
    <2> QED BY <2>4, <2>5
  <1> QED BY <1>1, <1>3, <1>4, <1>5, <1>6, <1>7 DEF Organize

LEMMA BuildRows ==
  ASSUME TypeOK, RowsAreThere, NEW b \in Builders,
         Render(b) \/ Write(b) \/ BuilderStops(b)
  PROVE  RowsAreThere'
  <1> USE ConstantFacts
  <1>1. CASE b = Console
    <2>1. \A m \in Meetings : builder'[m] = builder[m]
      BY <1>1 DEF Render, Write, BuilderStops, TypeOK
    <2> QED BY <2>1, RowsUntouched DEF Render, Write, BuilderStops
  <1>2. CASE b # Console
    <2>1. \A m \in Meetings \ {b} : builder'[m] = builder[m]
      BY <1>2 DEF Render, Write, BuilderStops, TypeOK
    <2>2. builder'[b].step \in AtWork =>
              builder[b].step \in AtWork /\ builder'[b].job = builder[b].job
      <3>1. CASE Render(b)
        <4>1. b \in DOMAIN builder
          BY DEF TypeOK
        <4>2. builder'[b].job = builder[b].job /\ builder[b].step = "organizing"
          BY <1>2, <3>1, <4>1 DEF Render
        <4> QED BY <4>2 DEF AtWork
      <3>2. CASE Write(b)
        <4>1. b \in DOMAIN builder
          BY DEF TypeOK
        <4>2. builder'[b].job = builder[b].job /\ builder[b].step = "rendered"
          BY <1>2, <3>2, <4>1 DEF Write
        <4> QED BY <4>2 DEF AtWork
      <3>3. CASE BuilderStops(b)
        BY <1>2, <3>3 DEF BuilderStops, Down, TypeOK, AtWork
      <3> QED BY <3>1, <3>2, <3>3
    <2> QED BY <2>1, <2>2, RowsStay DEF Render, Write, BuilderStops
  <1> QED BY <1>1, <1>2

LEMMA RowsKept == TypeOK /\ RowsAreThere /\ [Next]_vars => RowsAreThere'
  <1> SUFFICES ASSUME TypeOK, RowsAreThere, [Next]_vars PROVE RowsAreThere'
    OBVIOUS
  <1> USE ConstantFacts
  <1>1. CASE UNCHANGED vars
    BY <1>1, RowsUntouched DEF vars
  <1>2. ASSUME NEW t \in Tasks, Work(t) PROVE RowsAreThere'
    BY <1>2, RowsUntouched DEF Work, Submit, Accept, Reject
  <1>3. ASSUME NEW m \in Meetings, ConsoleGenerates(m) \/ FeishuServes(m)
        PROVE  RowsAreThere'
    BY <1>3, RowsUntouched DEF ConsoleGenerates, FeishuServes, TypeOK
  <1>4. CASE ConsoleCollides
    BY <1>4, RowsUntouched DEF ConsoleCollides, TypeOK
  <1>5. ASSUME NEW f \in FinalIds, Decide(f) PROVE RowsAreThere'
    BY <1>5, RowsUntouched DEF Decide, Approve, Refuse
  <1>6. ASSUME NEW c \in Couriers, Deliver(c) PROVE RowsAreThere'
    BY <1>6, RowsUntouched
    DEF Deliver, Claim, NothingToClaim, Send, CompleteDelivery, SendFails,
        CourierStops
  <1>7. CASE FeishuStarts
    BY <1>7, RowsStay, RequeuedTyped DEF FeishuStarts
  <1> QED
    BY <1>1, <1>2, <1>3, <1>4, <1>5, <1>6, <1>7, OrganizeRows, BuildRows
    DEF Next

-----------------------------------------------------------------------------
(* The inductive invariant of releases.                                    *)

\* A slot without a final has no approval.
FreeSlotsAreFree ==
    \A f \in FinalIds : finals[f].status = "NONE" => approval[f] = "NONE"

\* Approving queues the release, and nothing else does; what was sent was
\* queued.
RowFollowsApproval ==
    /\ \A f \in FinalIds :
          release[f] # "NONE" <=> approval[f] \in {"APPROVED", "EXECUTED"}
    /\ \A f \in received : release[f] # "NONE"

\* Whatever a courier carries was queued, and sent if it says so, even when
\* the row has been taken from it.
CouriersCarry ==
    \A c \in Couriers :
        /\ courier[c].step \in {"claimed", "sent"} =>
               release[courier[c].final] # "NONE"
        /\ courier[c].step = "sent" => courier[c].final \in received

ReleaseInv ==
    /\ TypeOK /\ RowsAreThere
    /\ FreeSlotsAreFree /\ RowFollowsApproval /\ CouriersCarry
    /\ ReleaseIsAgreed /\ PendingApprovalIsCurrent /\ ApprovedFinalIsInForce

\* What has to be shown of a step, beyond types.
Kept ==
    /\ FreeSlotsAreFree' /\ RowFollowsApproval' /\ CouriersCarry'
    /\ ReleaseIsAgreed' /\ PendingApprovalIsCurrent' /\ ApprovedFinalIsInForce'

LEMMA InitReleases == Init => ReleaseInv
  <1> SUFFICES ASSUME Init PROVE ReleaseInv
    OBVIOUS
  <1>1. RowsAreThere
    BY ConstantFacts DEF Init, RowsAreThere, Idle, Down
  <1>2. FreeSlotsAreFree /\ RowFollowsApproval /\ PendingApprovalIsCurrent
    BY DEF Init, FreeSlotsAreFree, RowFollowsApproval, PendingApprovalIsCurrent
  <1>3. CouriersCarry
    BY DEF Init, CouriersCarry, Idle
  <1>4. ReleaseIsAgreed /\ ApprovedFinalIsInForce
    BY DEF Init, ReleaseIsAgreed, ApprovedFinalIsInForce
  <1> QED BY <1>1, <1>2, <1>3, <1>4, InitTyped DEF ReleaseInv

\* What an approved final must cite, as a function of the versions in force.
InForce(v, k) == [t \in Tasks |-> IF MeetingOf[t] = k THEN v[t] ELSE 0]

CitesInForce(v, g) ==
    /\ current[finals[g].meeting] = g
    /\ finals[g].lineage = InForce(v, finals[g].meeting)
    /\ finals[g].sections = finals[g].lineage

LEMMA ApprovedCites ==
  /\ ApprovedFinalIsInForce <=>
        \A g \in FinalIds : finals[g].status = "APPROVED" => CitesInForce(valid, g)
  /\ ApprovedFinalIsInForce' <=>
        \A g \in FinalIds : finals'[g].status = "APPROVED" => CitesInForce(valid, g)'
  <1>1. \A k : Fingerprint(k) = InForce(valid, k)
    BY DEF Fingerprint, Required, InForce
  <1>2. (\A g \in FinalIds : Fingerprint(finals[g].meeting) = InForce(valid, finals[g].meeting))'
    BY DEF Fingerprint, Required, InForce
  <1>3. ApprovedFinalIsInForce <=>
          \A g \in FinalIds : finals[g].status = "APPROVED" => CitesInForce(valid, g)
    BY <1>1 DEF ApprovedFinalIsInForce, CitesInForce
  <1>4. ApprovedFinalIsInForce' <=>
          \A g \in FinalIds : finals'[g].status = "APPROVED" => CitesInForce(valid, g)'
    BY <1>2 DEF ApprovedFinalIsInForce, CitesInForce
  <1> QED BY <1>3, <1>4

\* Steps that decide, write and deliver nothing: at most rows go back into
\* the queue, and couriers drop what they carry.
LEMMA QuietKept ==
  ASSUME ReleaseInv, UNCHANGED <<finals, approval, received, current, valid>>,
         \A f \in FinalIds : /\ release'[f] = "NONE" <=> release[f] = "NONE"
                             /\ release'[f] = "DELIVERED" <=> release[f] = "DELIVERED",
         \A c \in Couriers : courier'[c].step \in {"claimed", "sent"} =>
             courier'[c] = courier[c]
  PROVE  Kept
  <1>0. /\ FreeSlotsAreFree /\ RowFollowsApproval /\ CouriersCarry
        /\ ReleaseIsAgreed /\ PendingApprovalIsCurrent /\ ApprovedFinalIsInForce
        /\ TypeOK
    BY DEF ReleaseInv
  <1>1. FreeSlotsAreFree' /\ PendingApprovalIsCurrent' /\ ReleaseIsAgreed'
    BY <1>0 DEF FreeSlotsAreFree, PendingApprovalIsCurrent, ReleaseIsAgreed
  <1>2. RowFollowsApproval'
    BY <1>0 DEF RowFollowsApproval, TypeOK
  <1>3. CouriersCarry'
    <2>1. ASSUME NEW c \in Couriers, courier'[c].step \in {"claimed", "sent"}
          PROVE  /\ release'[courier'[c].final] # "NONE"
                 /\ courier'[c].step = "sent" => courier'[c].final \in received
      <3>1. courier'[c] = courier[c]
        BY <2>1
      <3>2. courier[c].final \in FinalIds
        BY <1>0, <2>1, <3>1, CourierFields DEF Carrying
      <3> QED BY <1>0, <2>1, <3>1, <3>2 DEF CouriersCarry
    <2> QED BY <2>1 DEF CouriersCarry
  <1>4. ApprovedFinalIsInForce'
    BY <1>0, ApprovedCites DEF CitesInForce
  <1> QED BY <1>1, <1>2, <1>3, <1>4 DEF Kept

LEMMA AcceptKept ==
  ASSUME ReleaseInv, NEW t \in Tasks, Accept(t)
  PROVE  Kept
  <1> DEFINE m == MeetingOf[t]
             f == current[m]
  <1>0. /\ FreeSlotsAreFree /\ RowFollowsApproval /\ CouriersCarry
        /\ ReleaseIsAgreed /\ PendingApprovalIsCurrent /\ ApprovedFinalIsInForce
        /\ TypeOK
    BY DEF ReleaseInv
  <1>1. UNCHANGED <<current, release, received, courier>>
    BY DEF Accept
  <1>2. m \in Meetings /\ f \in 0 .. MaxFinals
    BY <1>0, ConstantFacts DEF TypeOK
  \* A final that changes is the current one, and becomes superseded.
  <1>3. ASSUME NEW g \in FinalIds
        PROVE  /\ finals'[g].meeting = finals[g].meeting
               /\ finals'[g].sections = finals[g].sections
               /\ finals'[g].lineage = finals[g].lineage
               /\ \/ /\ finals'[g].status = finals[g].status
                     /\ approval'[g] = approval[g]
                     /\ g # f \/ ~Supersedable(m)
                  \/ /\ g = f /\ Supersedable(m)
                     /\ finals'[g].status = "SUPERSEDED"
                     /\ finals[g].status \in {"PENDING_APPROVAL", "APPROVED"}
                     /\ approval'[g] = IF approval[g] = "PENDING"
                                       THEN "SUPERSEDED" ELSE approval[g]
    <2>1. CASE g = f /\ Supersedable(m)
      <3>1. /\ finals' = [finals EXCEPT ![g].status = "SUPERSEDED"]
            /\ approval' = Withdrawn(g)
        BY <2>1 DEF Accept
      <3>2. finals[g] \in Final /\ finals'[g] = [finals[g] EXCEPT !.status = "SUPERSEDED"]
        BY <1>0, <3>1 DEF TypeOK
      <3>3. finals[g].status \in {"PENDING_APPROVAL", "APPROVED"}
        BY <2>1, <1>2 DEF Supersedable, CurrentStatus
      <3>4. approval'[g] = IF approval[g] = "PENDING" THEN "SUPERSEDED" ELSE approval[g]
        BY <1>0, <3>1 DEF Withdrawn, TypeOK
      <3>5. /\ finals'[g].meeting = finals[g].meeting
            /\ finals'[g].sections = finals[g].sections
            /\ finals'[g].lineage = finals[g].lineage
            /\ finals'[g].status = "SUPERSEDED"
        BY <3>2 DEF Final
      <3> QED BY <2>1, <3>3, <3>4, <3>5
    <2>2. CASE ~(g = f /\ Supersedable(m))
      <3>1. finals'[g] = finals[g] /\ approval'[g] = approval[g]
        BY <1>0, <2>2 DEF Accept, Withdrawn, TypeOK
      <3> QED BY <2>2, <3>1
    <2> QED BY <2>1, <2>2
  <1>4. Supersedable(m) => f \in FinalIds
    BY <1>2, ConstantFacts DEF Supersedable, CurrentStatus
  <1> HIDE DEF f
  <1>5. FreeSlotsAreFree'
    BY <1>0, <1>3 DEF FreeSlotsAreFree
  <1>6. RowFollowsApproval'
    BY <1>0, <1>1, <1>3 DEF RowFollowsApproval, TypeOK
  <1>7. CouriersCarry'
    BY <1>0, <1>1 DEF CouriersCarry
  <1>8. ReleaseIsAgreed'
    BY <1>0, <1>1, <1>3 DEF ReleaseIsAgreed
  <1>9. PendingApprovalIsCurrent'
    BY <1>0, <1>1, <1>3 DEF PendingApprovalIsCurrent
  <1>10. ApprovedFinalIsInForce'
    <2> SUFFICES ASSUME NEW g \in FinalIds, finals'[g].status = "APPROVED"
                 PROVE  CitesInForce(valid, g)'
      BY ApprovedCites
    <2>1. /\ finals[g].status = "APPROVED"
          /\ g # f \/ ~Supersedable(m)
      BY <1>3
    <2>2. CitesInForce(valid, g)
      BY <1>0, <2>1, ApprovedCites
    <2>3. finals[g].meeting # m
      <3> SUFFICES ASSUME finals[g].meeting = m PROVE FALSE
        OBVIOUS
      <3>1. f = g
        BY <2>2 DEF f, CitesInForce
      <3>2. Supersedable(m)
        BY <1>2, <2>1, <3>1, ConstantFacts DEF Supersedable, CurrentStatus, f
      <3> QED BY <2>1, <3>1, <3>2
    <2>4. \A u \in Tasks : u # t => valid'[u] = valid[u]
      BY <1>0 DEF Accept, TypeOK, Citations
    <2>5. \A k : k # m => InForce(valid', k) = InForce(valid, k)
      BY <2>4 DEF InForce
    <2> QED BY <1>1, <1>3, <2>2, <2>3, <2>5 DEF CitesInForce
  <1> QED BY <1>5, <1>6, <1>7, <1>8, <1>9, <1>10 DEF Kept

\* Couriers go on carrying what was queued, and sent.
LEMMA CarriedStays ==
  ASSUME TypeOK, CouriersCarry, received \subseteq received',
         \A f \in FinalIds : release[f] # "NONE" => release'[f] # "NONE",
         NEW c \in Couriers, courier'[c] = courier[c]
  PROVE  /\ courier'[c].step \in {"claimed", "sent"} =>
                release'[courier'[c].final] # "NONE"
         /\ courier'[c].step = "sent" => courier'[c].final \in received'
  <1> SUFFICES ASSUME courier[c].step \in {"claimed", "sent"}
               PROVE  /\ release'[courier[c].final] # "NONE"
                      /\ courier[c].step = "sent" => courier[c].final \in received'
    OBVIOUS
  <1>1. courier[c].final \in FinalIds
    BY CourierFields DEF Carrying
  <1> QED BY <1>1 DEF CouriersCarry

LEMMA CouriersKept ==
  ASSUME TypeOK, CouriersCarry, received \subseteq received',
         \A f \in FinalIds : release[f] # "NONE" => release'[f] # "NONE",
         \A c \in Couriers : courier'[c].step \in {"claimed", "sent"} =>
             courier'[c] = courier[c]
  PROVE  CouriersCarry'
  <1> SUFFICES ASSUME NEW c \in Couriers, courier'[c].step \in {"claimed", "sent"}
               PROVE  /\ release'[courier'[c].final] # "NONE"
                      /\ courier'[c].step = "sent" => courier'[c].final \in received'
    BY DEF CouriersCarry
  <1>1. courier'[c] = courier[c]
    OBVIOUS
  <1> QED BY <1>1, CarriedStays

LEMMA WriteKept ==
  ASSUME ReleaseInv, NEW b \in Builders, Write(b)
  PROVE  Kept
  <1> DEFINE m == builder[b].meeting
             mode == IF b = Console THEN "template" ELSE WorkerMode
             new == [meeting |-> m, status |-> "PENDING_APPROVAL", mode |-> mode,
                     sections |-> builder[b].sections,
                     lineage |-> builder[b].lineage]
  <1>0. /\ FreeSlotsAreFree /\ RowFollowsApproval /\ CouriersCarry
        /\ ReleaseIsAgreed /\ PendingApprovalIsCurrent /\ ApprovedFinalIsInForce
        /\ TypeOK
    BY DEF ReleaseInv
  <1>1. m \in Meetings /\ builder[b].step = "rendered"
        /\ builder[b].sections \in Citations /\ builder[b].lineage \in Citations
    BY <1>0, BuilderFields DEF Write
  <1>2. new \in Final /\ new.status = "PENDING_APPROVAL" /\ new.meeting = m
    <2>1. mode \in {"model", "template"}
      BY ConstantFacts
    <2> HIDE DEF mode
    <2> QED BY <1>1, <2>1 DEF Final
  <1>3. PICK f \in FinalIds :
          /\ {g \in FinalIds : finals[g].status # "NONE"} = 1 .. f - 1
          /\ finals' = [IF current[m] = 0 THEN finals ELSE Superseded(current[m])
                           EXCEPT ![f] = new]
          /\ approval' = [IF current[m] = 0 THEN approval ELSE Withdrawn(current[m])
                             EXCEPT ![f] = "PENDING"]
          /\ current' = [current EXCEPT ![m] = f]
    BY DEF Write
  <1>4. UNCHANGED <<release, received, valid>>
    BY DEF Write
  <1> HIDE DEF mode, new
  <1>5. /\ finals[f].status = "NONE" /\ approval[f] = "NONE"
        /\ release[f] = "NONE" /\ f \notin received
    <2>1. f \in Nat /\ f \notin 1 .. f - 1
      BY <1>3, ConstantFacts
    <2>2. finals[f].status = "NONE"
      BY <1>3, <2>1
    <2> QED
      BY <1>0, <1>3, <2>2 DEF FreeSlotsAreFree, RowFollowsApproval
  <1>6. finals'[f] = new /\ approval'[f] = "PENDING"
    BY <1>0, <1>1, <1>2, <1>3, WrittenTyped, ApprovalsWhenWritten
  \* Every other final is as it was, or the one that is replaced.
  <1>7. ASSUME NEW g \in FinalIds \ {f}
        PROVE  /\ finals'[g].meeting = finals[g].meeting
               /\ finals'[g].sections = finals[g].sections
               /\ finals'[g].lineage = finals[g].lineage
               /\ finals'[g].status =
                     IF g = current[m] /\ finals[g].status # "RELEASED"
                     THEN "SUPERSEDED" ELSE finals[g].status
               /\ approval'[g] = IF g = current[m] /\ approval[g] = "PENDING"
                                 THEN "SUPERSEDED" ELSE approval[g]
    <2>1. /\ finals'[g] = [finals[g] EXCEPT !.status = finals'[g].status]
          /\ finals'[g].status =
                IF g = current[m] /\ finals[g].status # "RELEASED"
                THEN "SUPERSEDED" ELSE finals[g].status
      BY <1>0, <1>1, <1>2, <1>3, <1>7, WrittenTyped
    <2>2. finals[g] \in Final
      BY <1>0 DEF TypeOK
    <2>3. /\ finals'[g].meeting = finals[g].meeting
          /\ finals'[g].sections = finals[g].sections
          /\ finals'[g].lineage = finals[g].lineage
      BY <2>1, <2>2 DEF Final
    <2>4. approval'[g] = IF g = current[m] /\ approval[g] = "PENDING"
                         THEN "SUPERSEDED" ELSE approval[g]
      BY <1>0, <1>1, <1>3, <1>7, ApprovalsWhenWritten
    <2> QED BY <2>1, <2>3, <2>4
  <1>8. \A k \in Meetings : current'[k] = IF k = m THEN f ELSE current[k]
    BY <1>0, <1>1, <1>3 DEF TypeOK
  <1>9. \A g \in FinalIds : finals[g].meeting \in Meetings
    BY <1>0 DEF TypeOK, Final
  <1>10. FreeSlotsAreFree'
    BY <1>0, <1>2, <1>6, <1>7 DEF FreeSlotsAreFree
  <1>11. RowFollowsApproval'
    BY <1>0, <1>4, <1>5, <1>6, <1>7 DEF RowFollowsApproval
  <1>12. CouriersCarry'
    <2>1. \A c \in Couriers : courier'[c].step \in {"claimed", "sent"} =>
              courier'[c] = courier[c]
      BY <1>0, ConstantFacts DEF Write, TypeOK
    <2> QED BY <1>0, <1>4, <2>1, CouriersKept
  <1>13. ReleaseIsAgreed'
    BY <1>0, <1>2, <1>4, <1>5, <1>6, <1>7 DEF ReleaseIsAgreed
  <1>14. PendingApprovalIsCurrent'
    <2> SUFFICES ASSUME NEW g \in FinalIds, approval'[g] = "PENDING"
                 PROVE  /\ current'[finals'[g].meeting] = g
                        /\ finals'[g].status = "PENDING_APPROVAL"
      BY DEF PendingApprovalIsCurrent
    <2>1. CASE g = f
      BY <1>1, <1>2, <1>6, <1>8, <2>1
    <2>2. CASE g # f
      <3>1. approval[g] = "PENDING" /\ g # current[m]
        BY <1>7, <2>2
      <3>2. /\ current[finals[g].meeting] = g
            /\ finals[g].status = "PENDING_APPROVAL"
        BY <1>0, <3>1 DEF PendingApprovalIsCurrent
      <3>3. finals[g].meeting # m
        BY <3>1, <3>2
      <3> QED BY <1>7, <1>8, <1>9, <2>2, <3>1, <3>2, <3>3
    <2> QED BY <2>1, <2>2
  <1>15. ApprovedFinalIsInForce'
    <2> SUFFICES ASSUME NEW g \in FinalIds, finals'[g].status = "APPROVED"
                 PROVE  CitesInForce(valid, g)'
      BY ApprovedCites
    <2>1. g # f
      BY <1>2, <1>6
    <2>2. finals[g].status = "APPROVED" /\ g # current[m]
      BY <1>7, <2>1
    <2>3. CitesInForce(valid, g)
      BY <1>0, <2>2, ApprovedCites
    <2>4. finals[g].meeting # m
      BY <2>2, <2>3 DEF CitesInForce
    <2> QED BY <1>4, <1>7, <1>8, <1>9, <2>1, <2>3, <2>4 DEF CitesInForce
  <1> QED BY <1>10, <1>11, <1>12, <1>13, <1>14, <1>15 DEF Kept

\* A step that gives one final another status.
LEMMA StatusGiven ==
  ASSUME TypeOK, NEW f \in FinalIds, NEW s,
         finals' = [finals EXCEPT ![f].status = s]
  PROVE  /\ finals'[f].status = s
         /\ \A g \in FinalIds :
               /\ finals'[g].meeting = finals[g].meeting
               /\ finals'[g].sections = finals[g].sections
               /\ finals'[g].lineage = finals[g].lineage
               /\ g # f => finals'[g].status = finals[g].status
  <1>1. \A g \in FinalIds : finals'[g] = IF g = f THEN [finals[f] EXCEPT !.status = s]
                                         ELSE finals[g]
    BY DEF TypeOK
  <1>2. finals[f] \in Final
    BY DEF TypeOK
  <1>3. /\ [finals[f] EXCEPT !.status = s].status = s
        /\ [finals[f] EXCEPT !.status = s].meeting = finals[f].meeting
        /\ [finals[f] EXCEPT !.status = s].sections = finals[f].sections
        /\ [finals[f] EXCEPT !.status = s].lineage = finals[f].lineage
    BY <1>2 DEF Final
  <1> QED BY <1>1, <1>3

LEMMA DecideKept ==
  ASSUME ReleaseInv, NEW f \in FinalIds, Decide(f)
  PROVE  Kept
  <1>0. /\ FreeSlotsAreFree /\ RowFollowsApproval /\ CouriersCarry
        /\ ReleaseIsAgreed /\ PendingApprovalIsCurrent /\ ApprovedFinalIsInForce
        /\ TypeOK
    BY DEF ReleaseInv
  <1>1. \A c \in Couriers : courier'[c].step \in {"claimed", "sent"} =>
            courier'[c] = courier[c]
    BY <1>0, ConstantFacts DEF Decide, TypeOK
  <1>2. CASE Approve(f)
    <2>1. /\ finals' = [finals EXCEPT ![f].status = "APPROVED"]
          /\ \A g \in FinalIds :
                /\ approval'[g] = IF g = f THEN "APPROVED" ELSE approval[g]
                /\ release'[g] = IF g = f THEN "PENDING" ELSE release[g]
          /\ UNCHANGED <<current, received, valid>>
          /\ approval[f] = "PENDING" /\ finals[f].status = "PENDING_APPROVAL"
      BY <1>0, <1>2 DEF Approve, TypeOK, tasks
    <2>2. /\ finals'[f].status = "APPROVED"
          /\ \A g \in FinalIds :
                /\ finals'[g].meeting = finals[g].meeting
                /\ finals'[g].sections = finals[g].sections
                /\ finals'[g].lineage = finals[g].lineage
                /\ g # f => finals'[g].status = finals[g].status
      BY <1>0, <2>1, StatusGiven
    <2>3. FreeSlotsAreFree'
      BY <1>0, <2>1, <2>2 DEF FreeSlotsAreFree
    <2>4. RowFollowsApproval'
      BY <1>0, <2>1 DEF RowFollowsApproval, TypeOK
    <2>5. CouriersCarry'
      BY <1>0, <1>1, <2>1, CouriersKept
    <2>6. ReleaseIsAgreed'
      BY <1>0, <2>1, <2>2 DEF ReleaseIsAgreed
    <2>7. PendingApprovalIsCurrent'
      BY <1>0, <2>1, <2>2 DEF PendingApprovalIsCurrent
    <2>8. ApprovedFinalIsInForce'
      <3>1. CitesInForce(valid, f)'
        <4>1. Fingerprint(finals[f].meeting) = InForce(valid, finals[f].meeting)
          BY DEF Fingerprint, Required, InForce
        <4>2. CitesInForce(valid, f)
          BY <1>2, <4>1 DEF CitesInForce, Approve
        <4> QED BY <2>1, <2>2, <4>2 DEF CitesInForce
      <3>2. ASSUME NEW g \in FinalIds \ {f}, finals'[g].status = "APPROVED"
            PROVE  CitesInForce(valid, g)'
        <4>1. CitesInForce(valid, g)
          BY <1>0, <2>2, <3>2, ApprovedCites
        <4> QED BY <2>1, <2>2, <4>1 DEF CitesInForce
      <3> QED BY <3>1, <3>2, ApprovedCites
    <2> QED BY <2>3, <2>4, <2>5, <2>6, <2>7, <2>8 DEF Kept
  <1>3. CASE Refuse(f)
    <2>1. /\ \A g \in FinalIds :
                approval'[g] = IF g = f THEN "REJECTED" ELSE approval[g]
          /\ UNCHANGED <<finals, current, release, received, valid>>
          /\ approval[f] = "PENDING"
      BY <1>0, <1>3 DEF Refuse, TypeOK, tasks
    <2>2. FreeSlotsAreFree'
      BY <1>0, <2>1 DEF FreeSlotsAreFree
    <2>3. RowFollowsApproval'
      BY <1>0, <2>1 DEF RowFollowsApproval
    <2>4. CouriersCarry'
      BY <1>0, <1>1, <2>1, CouriersKept
    <2>5. ReleaseIsAgreed'
      BY <1>0, <2>1 DEF ReleaseIsAgreed
    <2>6. PendingApprovalIsCurrent'
      BY <1>0, <2>1 DEF PendingApprovalIsCurrent
    <2>7. ApprovedFinalIsInForce'
      BY <1>0, <2>1, ApprovedCites DEF CitesInForce
    <2> QED BY <2>2, <2>3, <2>4, <2>5, <2>6, <2>7 DEF Kept
  <1> QED BY <1>2, <1>3 DEF Decide

LEMMA ClaimKept ==
  ASSUME ReleaseInv, NEW c \in Couriers, NEW f \in FinalIds, Claim(c, f)
  PROVE  Kept
  <1>0. /\ FreeSlotsAreFree /\ RowFollowsApproval /\ CouriersCarry
        /\ ReleaseIsAgreed /\ PendingApprovalIsCurrent /\ ApprovedFinalIsInForce
        /\ TypeOK
    BY DEF ReleaseInv
  <1>1. /\ \A g \in FinalIds :
              release'[g] = IF g = f THEN "CLAIMED" ELSE release[g]
        /\ release[f] = "PENDING"
        /\ UNCHANGED <<finals, approval, current, received, valid>>
    BY <1>0 DEF Claim, TypeOK, tasks
  <1>2. FreeSlotsAreFree' /\ PendingApprovalIsCurrent'
    BY <1>0, <1>1 DEF FreeSlotsAreFree, PendingApprovalIsCurrent
  <1>3. RowFollowsApproval'
    BY <1>0, <1>1 DEF RowFollowsApproval, TypeOK
  <1>4. ReleaseIsAgreed'
    BY <1>0, <1>1 DEF ReleaseIsAgreed
  <1>5. ApprovedFinalIsInForce'
    BY <1>0, <1>1, ApprovedCites DEF CitesInForce
  <1>6. CouriersCarry'
    <2> DEFINE x == [step |-> "claimed", meeting |-> courier[c].meeting,
                     final |-> f]
    <2>1. courier'[c] = x /\ \A d \in Couriers \ {c} : courier'[d] = courier[d]
      BY <1>0 DEF Claim, TypeOK
    <2>2. /\ courier'[c].step = "claimed" /\ courier'[c].final = f
      BY <2>1
    <2>3. \A d \in Couriers \ {c} :
              /\ courier'[d].step \in {"claimed", "sent"} =>
                     release'[courier'[d].final] # "NONE"
              /\ courier'[d].step = "sent" => courier'[d].final \in received'
      BY <1>0, <1>1, <2>1, CarriedStays
    <2> QED BY <1>1, <2>2, <2>3 DEF CouriersCarry
  <1> QED BY <1>2, <1>3, <1>4, <1>5, <1>6 DEF Kept

LEMMA SendKept ==
  ASSUME ReleaseInv, NEW c \in Couriers, Send(c)
  PROVE  Kept
  <1> DEFINE f == courier[c].final
  <1>0. /\ FreeSlotsAreFree /\ RowFollowsApproval /\ CouriersCarry
        /\ ReleaseIsAgreed /\ PendingApprovalIsCurrent /\ ApprovedFinalIsInForce
        /\ TypeOK
    BY DEF ReleaseInv
  <1>1. /\ f \in FinalIds /\ release[f] # "NONE" /\ courier[c] \in Carrying
        /\ received' = received \cup {f}
        /\ UNCHANGED <<finals, approval, release, current, valid>>
    BY <1>0, CourierFields DEF Send, Carrying, tasks, CouriersCarry
  <1>2. FreeSlotsAreFree' /\ PendingApprovalIsCurrent' /\ ReleaseIsAgreed'
    BY <1>0, <1>1 DEF FreeSlotsAreFree, PendingApprovalIsCurrent, ReleaseIsAgreed
  <1>3. RowFollowsApproval'
    BY <1>0, <1>1 DEF RowFollowsApproval
  <1>4. ApprovedFinalIsInForce'
    BY <1>0, <1>1, ApprovedCites DEF CitesInForce
  <1>5. CouriersCarry'
    <2>1. \A d \in Couriers \ {c} : courier'[d] = courier[d]
      BY <1>0 DEF Send, TypeOK
    <2>2. courier'[c] = [courier[c] EXCEPT !.step = "sent"]
      BY <1>0 DEF Send, TypeOK
    <2>3. courier'[c].step = "sent" /\ courier'[c].final = f
      BY <1>1, <2>2 DEF Carrying
    <2>4. \A d \in Couriers \ {c} :
              /\ courier'[d].step \in {"claimed", "sent"} =>
                     release'[courier'[d].final] # "NONE"
              /\ courier'[d].step = "sent" => courier'[d].final \in received'
      BY <1>0, <1>1, <2>1, CarriedStays
    <2> QED BY <1>1, <2>3, <2>4 DEF CouriersCarry
  <1> QED BY <1>2, <1>3, <1>4, <1>5 DEF Kept

LEMMA CompleteKept ==
  ASSUME ReleaseInv, NEW c \in Couriers, CompleteDelivery(c)
  PROVE  Kept
  <1> DEFINE f == courier[c].final
             first == approval[f] = "APPROVED"
  <1>0. /\ FreeSlotsAreFree /\ RowFollowsApproval /\ CouriersCarry
        /\ ReleaseIsAgreed /\ PendingApprovalIsCurrent /\ ApprovedFinalIsInForce
        /\ TypeOK
    BY DEF ReleaseInv
  <1>1. f \in FinalIds /\ f \in received /\ approval[f] \in {"APPROVED", "EXECUTED"}
    <2>1. f \in FinalIds
      BY <1>0, CourierFields DEF CompleteDelivery, Carrying
    <2>2. f \in received
      BY <1>0 DEF CompleteDelivery, CouriersCarry
    <2> QED BY <1>0, <2>1, <2>2 DEF RowFollowsApproval
  <1>2. /\ \A g \in FinalIds :
              /\ release'[g] = IF g = f THEN "DELIVERED" ELSE release[g]
              /\ approval'[g] = IF g = f THEN "EXECUTED" ELSE approval[g]
        /\ UNCHANGED <<current, received, valid>>
    BY <1>0, <1>1 DEF CompleteDelivery, Executed, TypeOK
  <1>3. /\ finals'[f].status = "RELEASED"
        /\ \A g \in FinalIds :
              /\ finals'[g].meeting = finals[g].meeting
              /\ finals'[g].sections = finals[g].sections
              /\ finals'[g].lineage = finals[g].lineage
              /\ g # f => finals'[g].status = finals[g].status
    <2>1. CASE first
      <3>1. finals' = [finals EXCEPT ![f].status = "RELEASED"]
        BY <2>1 DEF CompleteDelivery
      <3> HIDE DEF f
      <3> QED BY <1>0, <1>1, <3>1, StatusGiven
    <2>2. CASE ~first
      <3>1. finals' = finals /\ approval[f] = "EXECUTED"
        BY <1>1, <2>2 DEF CompleteDelivery
      <3> QED BY <1>0, <1>1, <3>1 DEF ReleaseIsAgreed
    <2> QED BY <2>1, <2>2
  <1>4. \A d \in Couriers : courier'[d].step \in {"claimed", "sent"} =>
            courier'[d] = courier[d]
    BY <1>0 DEF CompleteDelivery, TypeOK
  <1> HIDE DEF f
  <1>5. FreeSlotsAreFree'
    BY <1>0, <1>1, <1>2, <1>3 DEF FreeSlotsAreFree
  <1>6. RowFollowsApproval'
    BY <1>0, <1>1, <1>2 DEF RowFollowsApproval, TypeOK
  <1>7. CouriersCarry'
    BY <1>0, <1>2, <1>4, CouriersKept
  <1>8. ReleaseIsAgreed'
    BY <1>0, <1>1, <1>2, <1>3 DEF ReleaseIsAgreed
  <1>9. PendingApprovalIsCurrent'
    BY <1>0, <1>2, <1>3 DEF PendingApprovalIsCurrent
  <1>10. ApprovedFinalIsInForce'
    <2> SUFFICES ASSUME NEW g \in FinalIds, finals'[g].status = "APPROVED"
                 PROVE  CitesInForce(valid, g)'
      BY ApprovedCites
    <2>1. CitesInForce(valid, g)
      BY <1>0, <1>3, ApprovedCites
    <2> QED BY <1>2, <1>3, <2>1 DEF CitesInForce
  <1> QED BY <1>5, <1>6, <1>7, <1>8, <1>9, <1>10 DEF Kept

\* The steps that only organize, serve or fail are quiet.
LEMMA OrganizeKept ==
  ASSUME ReleaseInv, NEW m \in Meetings, Organize(m)
  PROVE  Kept
  <1>1. CASE WorkerStarts(m)
    BY <1>1, QuietKept DEF WorkerStarts, Recover, Requeued, tasks
  <1>2. CASE ~WorkerStarts(m)
    <2>1. UNCHANGED <<tasks, meeting, current, finals, outgoing, courier>>
      BY <1>2 DEF Organize, Queue, OrganizerFails, Settle, Discard, Start
    <2> QED BY <2>1, QuietKept DEF tasks, outgoing
  <1> QED BY <1>1, <1>2

LEMMA BuildKept ==
  ASSUME ReleaseInv, NEW b \in Builders, Render(b) \/ BuilderStops(b)
  PROVE  Kept
  BY QuietKept DEF Render, BuilderStops, tasks, outgoing

LEMMA ConsoleKept ==
  ASSUME ReleaseInv,
         (\E m \in Meetings : ConsoleGenerates(m)) \/ ConsoleCollides
  PROVE  Kept
  <1>1. ASSUME NEW m \in Meetings, ConsoleGenerates(m) PROVE Kept
    <2>1. \A c \in Couriers : courier'[c].step \in {"claimed", "sent"} =>
              courier'[c] = courier[c]
      BY <1>1, ConstantFacts DEF ConsoleGenerates, ReleaseInv, TypeOK
    <2> QED BY <1>1, <2>1, QuietKept DEF ConsoleGenerates, tasks, outgoing
  <1>2. CASE ConsoleCollides
    BY <1>2, QuietKept DEF ConsoleCollides, tasks, outgoing
  <1> QED BY <1>1, <1>2

LEMMA WorkKept ==
  ASSUME ReleaseInv, NEW t \in Tasks, Work(t)
  PROVE  Kept
  <1>1. CASE Submit(t) \/ Reject(t)
    BY <1>1, QuietKept DEF Submit, Reject, outgoing
  <1> QED BY <1>1, AcceptKept DEF Work

LEMMA DeliverKept ==
  ASSUME ReleaseInv, NEW c \in Couriers, Deliver(c)
  PROVE  Kept
  <1>1. CASE NothingToClaim(c) \/ SendFails(c) \/ CourierStops(c)
    <2>1. PICK x \in {Idle, Down} : courier' = [courier EXCEPT ![c] = x]
      BY <1>1 DEF NothingToClaim, SendFails, CourierStops
    <2>2. \A d \in Couriers : courier'[d].step \in {"claimed", "sent"} =>
              courier'[d] = courier[d]
      BY <2>1 DEF ReleaseInv, TypeOK, Idle, Down
    <2> QED
      BY <1>1, <2>2, QuietKept
      DEF NothingToClaim, SendFails, CourierStops, tasks, outgoing
  <1> QED BY <1>1, ClaimKept, SendKept, CompleteKept DEF Deliver

LEMMA FeishuKept ==
  ASSUME ReleaseInv, (\E m \in Meetings : FeishuServes(m)) \/ FeishuStarts
  PROVE  Kept
  <1>1. ASSUME NEW m \in Meetings, FeishuServes(m) PROVE Kept
    <2>1. \A c \in Couriers : courier'[c].step \in {"claimed", "sent"} =>
              courier'[c] = courier[c]
      BY <1>1, ConstantFacts DEF FeishuServes, ReleaseInv, TypeOK
    <2> QED BY <1>1, <2>1, QuietKept DEF FeishuServes, tasks, outgoing
  <1>2. CASE FeishuStarts
    <2>1. \A c \in Couriers : courier'[c].step \in {"claimed", "sent"} =>
              courier'[c] = courier[c]
      BY <1>2, ConstantFacts DEF FeishuStarts, ReleaseInv, TypeOK, Idle
    <2> QED BY <1>2, <2>1, QuietKept DEF FeishuStarts, Recover, Requeued, tasks
  <1> QED BY <1>1, <1>2

LEMMA InvKept == ReleaseInv /\ [Next]_vars => ReleaseInv'
  <1> SUFFICES ASSUME ReleaseInv, [Next]_vars PROVE ReleaseInv'
    OBVIOUS
  <1>1. TypeOK' /\ RowsAreThere'
    BY TypeKept, RowsKept DEF ReleaseInv
  <1>2. Kept
    <2>1. CASE UNCHANGED vars
      BY <2>1, QuietKept DEF vars, tasks, outgoing
    <2>2. ASSUME NEW b \in Builders, Render(b) \/ Write(b) \/ BuilderStops(b)
          PROVE  Kept
      BY <2>2, WriteKept, BuildKept
    <2> QED
      BY <2>1, <2>2, WorkKept, OrganizeKept, ConsoleKept, DecideKept, DeliverKept,
         FeishuKept
      DEF Next
  <1> QED BY <1>1, <1>2 DEF ReleaseInv, Kept

LEMMA ReleaseAlways == Spec => []ReleaseInv
  BY InitReleases, InvKept, PTL DEF Spec

-----------------------------------------------------------------------------
(* What follows.                                                           *)

\* Every table and every thread's position has its type, for any number of
\* meetings, tasks, finals and attempts (aggregate, dispatch_all).
THEOREM TypesHold == Spec => []TypeOK
  <1>1. ReleaseInv => TypeOK
    BY DEF ReleaseInv
  <1> QED BY ReleaseAlways, <1>1, PTL

\* A pending approval is for the current, pending final of its meeting,
\* however the console, the workers and the reviews raced
\* (aggregate, _supersede_pending_final, decide_approval).
THEOREM OnePendingApproval == Spec => []PendingApprovalIsCurrent
  <1>1. ReleaseInv => PendingApprovalIsCurrent
    BY DEF ReleaseInv
  <1> QED BY ReleaseAlways, <1>1, PTL

\* Only what was approved is ever sent (decide_approval, dispatch_all).
THEOREM NothingUnapprovedIsSent == Spec => []SentWasApproved
  <1>1. ReleaseInv => SentWasApproved
    BY DEF ReleaseInv, RowFollowsApproval, SentWasApproved, TypeOK
  <1> QED BY ReleaseAlways, <1>1, PTL

\* An approved final is the current one and cites the versions in force, in
\* its report and in its lineage alike (_supersede_pending_final, aggregate).
THEOREM ApprovalsFollowTheVersions == Spec => []ApprovedFinalIsInForce
  <1>1. ReleaseInv => ApprovedFinalIsInForce
    BY DEF ReleaseInv
  <1> QED BY ReleaseAlways, <1>1, PTL

\* The approval, the final and its outbox row agree on what was released,
\* through stops, stolen claims and second deliveries (_complete_delivery,
\* recover_dispatcher).
THEOREM RecordsAgree == Spec => []ReleaseIsAgreed
  <1>1. ReleaseInv => ReleaseIsAgreed
    BY DEF ReleaseInv
  <1> QED BY ReleaseAlways, <1>1, PTL

LEMMA ReleasedStays ==
  ASSUME ReleaseInv, ReleaseInv', [Next]_vars, NEW f \in FinalIds,
         finals[f].status = "RELEASED"
  PROVE  finals'[f].status = "RELEASED"
  <1>1. approval[f] = "EXECUTED" /\ release[f] = "DELIVERED"
    BY DEF ReleaseInv, ReleaseIsAgreed
  <1> SUFFICES approval'[f] = "EXECUTED"
    BY DEF ReleaseInv, ReleaseIsAgreed
  <1>0. TypeOK
    BY DEF ReleaseInv
  <1>2. ASSUME NEW t \in Tasks, Work(t) PROVE approval'[f] = "EXECUTED"
    BY <1>0, <1>1, <1>2
    DEF Work, Submit, Accept, Reject, Withdrawn, outgoing, TypeOK
  <1>3. ASSUME NEW b \in Builders, Write(b) PROVE approval'[f] = "EXECUTED"
    <2> DEFINE m == builder[b].meeting
    <2>1. m \in Meetings
      BY <1>0, <1>3, BuilderFields DEF Write
    <2>2. PICK g \in FinalIds :
            /\ {h \in FinalIds : finals[h].status # "NONE"} = 1 .. g - 1
            /\ approval' = [IF current[m] = 0 THEN approval ELSE Withdrawn(current[m])
                               EXCEPT ![g] = "PENDING"]
      BY <1>3 DEF Write
    <2>3. g # f
      BY <2>2, ConstantFacts
    <2> QED BY <1>0, <1>1, <2>1, <2>2, <2>3, ApprovalsWhenWritten
  <1>4. ASSUME NEW g \in FinalIds, Decide(g) PROVE approval'[f] = "EXECUTED"
    BY <1>0, <1>1, <1>4 DEF Decide, Approve, Refuse, TypeOK
  <1>5. ASSUME NEW c \in Couriers, Deliver(c) PROVE approval'[f] = "EXECUTED"
    BY <1>0, <1>1, <1>5
    DEF Deliver, Claim, NothingToClaim, Send, CompleteDelivery, SendFails,
        CourierStops, Executed, outgoing, TypeOK
  <1>6. ASSUME UNCHANGED approval PROVE approval'[f] = "EXECUTED"
    BY <1>1, <1>6
  <1>7. ASSUME NEW m \in Meetings,
               Organize(m) \/ ConsoleGenerates(m) \/ FeishuServes(m)
        PROVE  UNCHANGED approval
    BY <1>7
    DEF Organize, Queue, OrganizerFails, Settle, WorkerStarts, Recover, Discard,
        Start, ConsoleGenerates, FeishuServes, outgoing
  <1>8. (ConsoleCollides \/ FeishuStarts \/ UNCHANGED vars) => UNCHANGED approval
    BY DEF ConsoleCollides, FeishuStarts, Recover, vars, outgoing
  <1>9. ASSUME NEW b \in Builders, Render(b) \/ BuilderStops(b)
        PROVE  UNCHANGED approval
    BY <1>9 DEF Render, BuilderStops, outgoing
  <1> QED BY <1>2, <1>3, <1>4, <1>5, <1>6, <1>7, <1>8, <1>9 DEF Next

\* A released final is never replaced, even by a worker that read its bundle
\* before the release (aggregate).
THEOREM ReleasesAreFinal == Spec => ReleasedStaysReleased
  <1>1. ReleaseInv /\ ReleaseInv' /\ [Next]_vars =>
            \A f \in FinalIds : finals[f].status = "RELEASED" =>
                finals'[f].status = "RELEASED"
    BY ReleasedStays
  <1> QED BY ReleaseAlways, <1>1, PTL DEF Spec, ReleasedStaysReleased
-----------------------------------------------------------------------------
(* What a final is made of.                                                *)

\* What is reviewed is newer than what is in force.
VersionsCome ==
    \A t \in Tasks : /\ valid[t] <= newest[t]
                     /\ reviewing[t] => valid[t] < newest[t]

\* A builder has a result of every required task, as it was in force at some
\* time: the report's was read before the lineage's.
BundleIsWhole ==
    \A b \in Builders :
        /\ builder[b].step = "organizing" =>
               \A t \in Required(builder[b].meeting) :
                   0 < builder[b].sections[t] /\ builder[b].sections[t] <= valid[t]
        /\ builder[b].step = "rendered" =>
               \A t \in Required(builder[b].meeting) :
                   /\ 0 < builder[b].sections[t]
                   /\ builder[b].sections[t] <= builder[b].lineage[t]
                   /\ builder[b].lineage[t] <= valid[t]

\* So does every final, whatever was accepted while it was written, and the
\* results it cites were all accepted.
RestsOnResults ==
    \A f \in FinalIds : finals[f].status # "NONE" =>
        \A t \in Required(finals[f].meeting) :
            /\ 0 < finals[f].sections[t]
            /\ finals[f].sections[t] <= finals[f].lineage[t]
            /\ finals[f].lineage[t] <= valid[t]

\* The final a meeting points at exists, and is its own.
CurrentIsThere ==
    \A m \in Meetings : current[m] # 0 =>
        finals[current[m]].status # "NONE" /\ finals[current[m]].meeting = m

SourcesInv ==
    /\ ReleaseInv
    /\ VersionsCome /\ BundleIsWhole /\ RestsOnResults /\ CurrentIsThere

LEMMA VersionsMove ==
  ASSUME SourcesInv, [Next]_vars
  PROVE  /\ VersionsCome'
         /\ \A t \in Tasks : valid[t] <= valid'[t]
  <1>0. /\ \A t \in Tasks : valid[t] \in Nat /\ newest[t] \in Nat
        /\ valid \in [Tasks -> Nat] /\ newest \in [Tasks -> Nat]
        /\ reviewing \in [Tasks -> BOOLEAN] /\ VersionsCome
    BY DEF SourcesInv, ReleaseInv, TypeOK, Citations
  <1>1. CASE UNCHANGED <<valid, newest, reviewing>>
    BY <1>0, <1>1 DEF VersionsCome
  <1>2. ASSUME NEW t \in Tasks, Submit(t)
        PROVE  VersionsCome' /\ \A u \in Tasks : valid[u] <= valid'[u]
    BY <1>0, <1>2 DEF Submit, VersionsCome
  <1>3. ASSUME NEW t \in Tasks, Accept(t)
        PROVE  VersionsCome' /\ \A u \in Tasks : valid[u] <= valid'[u]
    BY <1>0, <1>3 DEF Accept, VersionsCome
  <1>4. ASSUME NEW t \in Tasks, Reject(t)
        PROVE  VersionsCome' /\ \A u \in Tasks : valid[u] <= valid'[u]
    BY <1>0, <1>4 DEF Reject, VersionsCome
  <1> QED
    BY <1>1, <1>2, <1>3, <1>4
    DEF Next, vars, tasks, Work, Organize, Queue, OrganizerFails, Settle,
        WorkerStarts, Recover, Discard, Start, ConsoleGenerates, FeishuServes,
        ConsoleCollides, Render, Write, BuilderStops, Decide, Approve, Refuse,
        Deliver, Claim, NothingToClaim, Send, CompleteDelivery, SendFails,
        CourierStops, FeishuStarts

\* A builder is where it was, at rest, past its work, or has just taken up or
\* read again the versions in force.
LEMMA BuilderMoves ==
  ASSUME TypeOK, [Next]_vars, NEW b \in Builders
  PROVE  \/ builder'[b] = builder[b]
         \/ builder'[b].step \notin {"organizing", "rendered"}
         \/ \E m \in Meetings :
               /\ Complete(m)
               /\ builder'[b].step = "organizing"
               /\ builder'[b].meeting = m
               /\ builder'[b].sections = Fingerprint(m)
         \/ /\ builder[b].step = "organizing"
            /\ builder'[b].step = "rendered"
            /\ builder'[b].meeting = builder[b].meeting
            /\ builder'[b].sections = builder[b].sections
            /\ builder'[b].lineage = Fingerprint(builder[b].meeting)
  <1> DEFINE Moved == \/ builder'[b] = builder[b]
                      \/ builder'[b].step \notin {"organizing", "rendered"}
             Begun == \E m \in Meetings :
                         /\ Complete(m)
                         /\ builder'[b].step = "organizing"
                         /\ builder'[b].meeting = m
                         /\ builder'[b].sections = Fingerprint(m)
             Read == /\ builder[b].step = "organizing"
                     /\ builder'[b].step = "rendered"
                     /\ builder'[b].meeting = builder[b].meeting
                     /\ builder'[b].sections = builder[b].sections
                     /\ builder'[b].lineage = Fingerprint(builder[b].meeting)
  <1>0. /\ b \in DOMAIN builder
        /\ Idle.step \notin {"organizing", "rendered"}
        /\ Down.step \notin {"organizing", "rendered"}
    BY DEF TypeOK, Idle, Down
  <1>00. \A d, x : [builder EXCEPT ![d] = x][b] = IF d = b THEN x ELSE builder[b]
    BY <1>0
  <1>1. ASSUME UNCHANGED builder PROVE Moved
    BY <1>1
  <1>2. ASSUME NEW d, builder' = [builder EXCEPT ![d] = Idle]
                      \/ builder' = [builder EXCEPT ![d] = Down]
        PROVE  Moved
    BY <1>0, <1>00, <1>2
  <1>3. ASSUME NEW m \in Meetings, NEW j \in Waiting, Start(m, j)
        PROVE  Moved \/ Begun
    <2>1. CASE builder' = builder
      BY <1>1, <2>1
    <2>2. CASE builder' # builder
      <3> DEFINE x == [step |-> "organizing", meeting |-> m,
                       job |-> [j EXCEPT !.status = "CLAIMED",
                                         !.attempts = @ + 1],
                       sections |-> Fingerprint(m)]
      <3>1. Complete(m) /\ builder' = [builder EXCEPT ![m] = x]
        BY <1>3, <2>2 DEF Start
      <3>2. x.step = "organizing" /\ x.meeting = m /\ x.sections = Fingerprint(m)
        OBVIOUS
      <3> HIDE DEF x
      <3>3. builder'[b] = IF m = b THEN x ELSE builder[b]
        BY <1>00, <3>1
      <3> QED BY <3>1, <3>2, <3>3
    <2> QED BY <2>1, <2>2
  <1>4. ASSUME NEW m \in Meetings, ConsoleGenerates(m)
        PROVE  Moved \/ Begun
    <2>1. CASE builder' = builder
      BY <1>1, <2>1
    <2>2. CASE builder' # builder
      <3> DEFINE x == [step |-> "organizing", meeting |-> m,
                       sections |-> Fingerprint(m)]
      <3>1. Complete(m) /\ builder' = [builder EXCEPT ![Console] = x]
        BY <1>4, <2>2 DEF ConsoleGenerates
      <3>2. x.step = "organizing" /\ x.meeting = m /\ x.sections = Fingerprint(m)
        OBVIOUS
      <3> HIDE DEF x
      <3>3. builder'[b] = IF Console = b THEN x ELSE builder[b]
        BY <1>00, <3>1
      <3> QED BY <3>1, <3>2, <3>3
    <2> QED BY <2>1, <2>2
  <1>5. ASSUME NEW d \in Builders, Render(d) PROVE Moved \/ Read
    <2> DEFINE x == [step |-> "rendered", meeting |-> builder[d].meeting,
                     sections |-> builder[d].sections,
                     lineage |-> Fingerprint(builder[d].meeting),
                     revision |-> NextRevision(builder[d].meeting),
                     job |-> IF d = Console THEN {} ELSE builder[d].job]
    <2>1. builder' = [builder EXCEPT ![d] = x] /\ builder[d].step = "organizing"
      BY <1>5 DEF Render
    <2>2. /\ x.step = "rendered" /\ x.meeting = builder[d].meeting
          /\ x.sections = builder[d].sections
          /\ x.lineage = Fingerprint(builder[d].meeting)
      OBVIOUS
    <2> HIDE DEF x
    <2>3. builder'[b] = IF d = b THEN x ELSE builder[b]
      BY <1>00, <2>1
    <2> QED BY <2>1, <2>2, <2>3
  <1>6. ASSUME NEW d \in Builders, Write(d) PROVE Moved
    <2>1. CASE d = Console
      BY <1>2, <1>6, <2>1 DEF Write
    <2>2. CASE d # Console
      <3> DEFINE x == [step |-> "written", job |-> builder[d].job]
      <3>1. builder' = [builder EXCEPT ![d] = x]
        BY <1>6, <2>2 DEF Write
      <3>2. x.step = "written"
        OBVIOUS
      <3> HIDE DEF x
      <3>3. builder'[b] = IF d = b THEN x ELSE builder[b]
        BY <1>00, <3>1
      <3> QED BY <3>2, <3>3
    <2> QED BY <2>1, <2>2
  <1>7. ASSUME NEW d \in Builders, BuilderStops(d) PROVE Moved
    BY <1>2, <1>7 DEF BuilderStops
  <1>8. ASSUME NEW m \in Meetings,
               \/ Queue(m) \/ OrganizerFails(m) \/ Settle(m) \/ WorkerStarts(m)
               \/ FeishuServes(m)
               \/ \E j \in Waiting : Discard(m, j)
        PROVE  Moved
    BY <1>1, <1>2, <1>8
    DEF Queue, OrganizerFails, Settle, WorkerStarts, FeishuServes, Discard
  <1>9. ASSUME NEW t \in Tasks, Work(t) PROVE Moved
    BY <1>1, <1>9 DEF Work, Submit, Accept, Reject
  <1>10. ASSUME NEW f \in FinalIds, Decide(f) PROVE Moved
    BY <1>1, <1>10 DEF Decide, Approve, Refuse
  <1>11. ASSUME NEW c \in Couriers, Deliver(c) PROVE Moved
    BY <1>1, <1>11
    DEF Deliver, Claim, NothingToClaim, Send, CompleteDelivery, SendFails,
        CourierStops
  <1>12. CASE ConsoleCollides
    BY <1>2, <1>12 DEF ConsoleCollides
  <1>13. CASE FeishuStarts \/ UNCHANGED vars
    BY <1>1, <1>13 DEF FeishuStarts, vars
  <1>14. Moved \/ Begun \/ Read
    BY <1>3, <1>4, <1>5, <1>6, <1>7, <1>8, <1>9, <1>10, <1>11, <1>12, <1>13
    DEF Next, Organize
  <1> QED BY <1>14

LEMMA BundleKept ==
  ASSUME SourcesInv, TypeOK', [Next]_vars
  PROVE  BundleIsWhole'
  <1>0. /\ TypeOK /\ BundleIsWhole
        /\ valid \in [Tasks -> Nat] /\ valid' \in [Tasks -> Nat]
        /\ \A t \in Tasks : valid[t] <= valid'[t]
    BY VersionsMove DEF SourcesInv, ReleaseInv, TypeOK, Citations
  <1> SUFFICES ASSUME NEW b \in Builders,
                      builder'[b].step \in {"organizing", "rendered"},
                      NEW t \in Required(builder'[b].meeting)
               PROVE  /\ builder'[b].step = "organizing" =>
                            /\ 0 < builder'[b].sections[t]
                            /\ builder'[b].sections[t] <= valid'[t]
                      /\ builder'[b].step = "rendered" =>
                            /\ 0 < builder'[b].sections[t]
                            /\ builder'[b].sections[t] <= builder'[b].lineage[t]
                            /\ builder'[b].lineage[t] <= valid'[t]
    BY DEF BundleIsWhole, Required
  <1>1. t \in Tasks /\ valid[t] \in Nat /\ valid'[t] \in Nat /\ valid[t] <= valid'[t]
    BY <1>0 DEF Required
  <1>2. CASE builder'[b] = builder[b]
    <2>1. /\ builder[b].sections[t] \in Nat
          /\ builder[b].step = "rendered" => builder[b].lineage[t] \in Nat
      BY <1>0, <1>1, <1>2, BuilderFields DEF Citations
    <2> QED BY <1>0, <1>1, <1>2, <2>1 DEF BundleIsWhole
  <1>3. ASSUME NEW m \in Meetings, Complete(m), builder'[b].meeting = m,
               builder'[b].sections = Fingerprint(m),
               builder'[b].step = "organizing"
        PROVE  0 < builder'[b].sections[t] /\ builder'[b].sections[t] <= valid'[t]
    BY <1>1, <1>3 DEF Complete, Fingerprint
  <1>4. CASE /\ builder[b].step = "organizing" /\ builder'[b].step = "rendered"
             /\ builder'[b].meeting = builder[b].meeting
             /\ builder'[b].sections = builder[b].sections
             /\ builder'[b].lineage = Fingerprint(builder[b].meeting)
    <2>1. 0 < builder[b].sections[t] /\ builder[b].sections[t] <= valid[t]
      BY <1>0, <1>4 DEF BundleIsWhole
    <2>2. builder'[b].lineage[t] = valid[t]
      BY <1>1, <1>4 DEF Fingerprint
    <2> QED BY <1>1, <1>4, <2>1, <2>2
  <1> QED BY <1>0, <1>2, <1>3, <1>4, BuilderMoves

\* A final cites what it cited, or is the one a builder has just written.
LEMMA FinalsMove ==
  ASSUME SourcesInv, [Next]_vars, NEW f \in FinalIds
  PROVE  \/ /\ finals'[f].status # "NONE" <=> finals[f].status # "NONE"
            /\ finals'[f].meeting = finals[f].meeting
            /\ finals'[f].sections = finals[f].sections
            /\ finals'[f].lineage = finals[f].lineage
         \/ \E b \in Builders :
               /\ builder[b].step = "rendered"
               /\ finals[f].status = "NONE" /\ finals'[f].status # "NONE"
               /\ finals'[f].meeting = builder[b].meeting
               /\ finals'[f].sections = builder[b].sections
               /\ finals'[f].lineage = builder[b].lineage
  <1> DEFINE Cites == /\ finals'[f].status # "NONE" <=> finals[f].status # "NONE"
                      /\ finals'[f].meeting = finals[f].meeting
                      /\ finals'[f].sections = finals[f].sections
                      /\ finals'[f].lineage = finals[f].lineage
             New == \E b \in Builders :
                       /\ builder[b].step = "rendered"
                       /\ finals[f].status = "NONE" /\ finals'[f].status # "NONE"
                       /\ finals'[f].meeting = builder[b].meeting
                       /\ finals'[f].sections = builder[b].sections
                       /\ finals'[f].lineage = builder[b].lineage
  <1>0. TypeOK /\ ReleaseInv
    BY DEF SourcesInv, ReleaseInv
  <1>1. ASSUME UNCHANGED finals PROVE Cites
    BY <1>1
  \* A final that has none gets no status of its own.
  <1>2. ASSUME NEW g \in FinalIds, NEW s,
               finals' = [finals EXCEPT ![g].status = s],
               finals[g].status # "NONE", s # "NONE"
        PROVE  Cites
    BY <1>0, <1>2, StatusGiven
  <1>3. ASSUME NEW t \in Tasks, Work(t) PROVE Cites
    <2>1. CASE Accept(t) /\ Supersedable(MeetingOf[t])
      <3> DEFINE g == current[MeetingOf[t]]
      <3>1. MeetingOf[t] \in Meetings /\ g \in 0 .. MaxFinals
        BY <1>0, ConstantFacts DEF TypeOK
      <3>2. g # 0 /\ finals[g].status # "NONE"
        BY <2>1 DEF Supersedable, CurrentStatus
      <3>3. finals' = [finals EXCEPT ![g].status = "SUPERSEDED"]
        BY <2>1 DEF Accept
      <3>4. g \in FinalIds
        BY <3>1, <3>2, ConstantFacts
      <3> HIDE DEF g
      <3> QED BY <1>2, <3>2, <3>3, <3>4
    <2> QED BY <1>1, <1>3, <2>1 DEF Work, Submit, Accept, Reject
  <1>4. ASSUME NEW b \in Builders, Write(b) PROVE Cites \/ New
    <2> DEFINE m == builder[b].meeting
               mode == IF b = Console THEN "template" ELSE WorkerMode
               new == [meeting |-> m, status |-> "PENDING_APPROVAL",
                       mode |-> mode, sections |-> builder[b].sections,
                       lineage |-> builder[b].lineage]
    <2>1. m \in Meetings /\ builder[b].step = "rendered"
          /\ builder[b].sections \in Citations /\ builder[b].lineage \in Citations
      BY <1>0, <1>4, BuilderFields DEF Write
    <2>2. new \in Final
      <3>1. mode \in {"model", "template"}
        BY ConstantFacts
      <3> HIDE DEF mode
      <3> QED BY <2>1, <3>1 DEF Final
    <2>3. PICK g \in FinalIds :
            /\ {h \in FinalIds : finals[h].status # "NONE"} = 1 .. g - 1
            /\ finals' = [IF current[m] = 0 THEN finals ELSE Superseded(current[m])
                             EXCEPT ![g] = new]
      BY <1>4 DEF Write
    <2>4. /\ new.meeting = builder[b].meeting
          /\ new.sections = builder[b].sections
          /\ new.lineage = builder[b].lineage /\ new.status # "NONE"
      OBVIOUS
    <2> HIDE DEF new, mode
    <2>5. CASE g = f
      <3>1. f \notin 1 .. f - 1
        BY ConstantFacts
      <3>2. finals[f].status = "NONE"
        BY <2>3, <2>5, <3>1
      <3> QED BY <1>0, <2>1, <2>2, <2>3, <2>4, <2>5, <3>2, WrittenTyped
    <2>6. CASE g # f
      <3>1. /\ finals'[f] = [finals[f] EXCEPT !.status = finals'[f].status]
            /\ finals'[f].status =
                  IF f = current[m] /\ finals[f].status # "RELEASED"
                  THEN "SUPERSEDED" ELSE finals[f].status
        BY <1>0, <2>1, <2>2, <2>3, <2>6, WrittenTyped
      <3>2. finals[f] \in Final
        BY <1>0 DEF TypeOK
      <3>3. f = current[m] => finals[f].status # "NONE"
        BY <2>1, ConstantFacts DEF SourcesInv, CurrentIsThere
      <3> QED BY <3>1, <3>2, <3>3 DEF Final
    <2> QED BY <2>5, <2>6
  <1>5. ASSUME NEW g \in FinalIds, Decide(g) PROVE Cites
    <2>1. CASE Approve(g)
      BY <1>2, <2>1 DEF Approve
    <2> QED BY <1>1, <1>5, <2>1 DEF Decide, Refuse
  <1>6. ASSUME NEW c \in Couriers, Deliver(c) PROVE Cites
    <2> DEFINE g == courier[c].final
    <2>1. CASE CompleteDelivery(c) /\ approval[g] = "APPROVED"
      <3>1. g \in FinalIds
        BY <1>0, <2>1, CourierFields DEF CompleteDelivery, Carrying
      <3>2. finals[g].status # "NONE"
        BY <1>0, <2>1, <3>1 DEF ReleaseInv, FreeSlotsAreFree
      <3>3. finals' = [finals EXCEPT ![g].status = "RELEASED"]
        BY <2>1 DEF CompleteDelivery
      <3> HIDE DEF g
      <3> QED BY <1>2, <3>1, <3>2, <3>3
    <2> QED
      BY <1>1, <1>6, <2>1
      DEF Deliver, Claim, NothingToClaim, Send, CompleteDelivery, SendFails,
          CourierStops
  <1>7. CASE UNCHANGED vars
    BY <1>1, <1>7 DEF vars
  <1>8. Cites \/ New
    BY <1>1, <1>3, <1>4, <1>5, <1>6, <1>7
    DEF Next, Organize, Queue, OrganizerFails, Settle, WorkerStarts, Recover,
        Discard, Start, ConsoleGenerates, FeishuServes, ConsoleCollides, Render,
        BuilderStops, FeishuStarts
  <1> QED BY <1>8

LEMMA CitationsKept ==
  ASSUME SourcesInv, TypeOK', [Next]_vars
  PROVE  RestsOnResults'
  <1>0. /\ TypeOK /\ BundleIsWhole /\ RestsOnResults
        /\ valid \in [Tasks -> Nat] /\ valid' \in [Tasks -> Nat]
        /\ \A t \in Tasks : valid[t] <= valid'[t]
    BY VersionsMove DEF SourcesInv, ReleaseInv, TypeOK, Citations
  <1> SUFFICES ASSUME NEW f \in FinalIds, finals'[f].status # "NONE",
                      NEW t \in Required(finals'[f].meeting)
               PROVE  /\ 0 < finals'[f].sections[t]
                      /\ finals'[f].sections[t] <= finals'[f].lineage[t]
                      /\ finals'[f].lineage[t] <= valid'[t]
    BY DEF RestsOnResults, Required
  <1>1. t \in Tasks /\ valid[t] \in Nat /\ valid'[t] \in Nat /\ valid[t] <= valid'[t]
    BY <1>0 DEF Required
  <1>2. CASE /\ finals'[f].status # "NONE" <=> finals[f].status # "NONE"
             /\ finals'[f].meeting = finals[f].meeting
             /\ finals'[f].sections = finals[f].sections
             /\ finals'[f].lineage = finals[f].lineage
    <2>1. finals[f] \in Final
      BY <1>0 DEF TypeOK
    <2>2. finals[f].sections[t] \in Nat /\ finals[f].lineage[t] \in Nat
      BY <1>1, <2>1 DEF Final, Citations
    <2> QED BY <1>0, <1>1, <1>2, <2>2 DEF RestsOnResults
  <1>3. ASSUME NEW b \in Builders, builder[b].step = "rendered",
               finals'[f].meeting = builder[b].meeting,
               finals'[f].sections = builder[b].sections,
               finals'[f].lineage = builder[b].lineage
        PROVE  /\ 0 < finals'[f].sections[t]
               /\ finals'[f].sections[t] <= finals'[f].lineage[t]
               /\ finals'[f].lineage[t] <= valid'[t]
    <2>1. builder[b].sections[t] \in Nat /\ builder[b].lineage[t] \in Nat
      BY <1>0, <1>1, <1>3, BuilderFields DEF Citations
    <2> QED BY <1>0, <1>1, <1>3, <2>1 DEF BundleIsWhole
  <1> QED BY <1>2, <1>3, FinalsMove

LEMMA CurrentKept ==
  ASSUME SourcesInv, TypeOK', [Next]_vars
  PROVE  CurrentIsThere'
  <1>0. TypeOK /\ CurrentIsThere
    BY DEF SourcesInv, ReleaseInv
  <1> DEFINE Own(f, m) == finals[f].status # "NONE" /\ finals[f].meeting = m
  <1>1. ASSUME NEW f \in FinalIds, NEW m, Own(f, m)
        PROVE  Own(f, m)'
    BY <1>1, FinalsMove
  <1>2. CASE UNCHANGED current
    <2> SUFFICES ASSUME NEW m \in Meetings, current[m] # 0
                 PROVE  Own(current[m], m)'
      BY <1>2 DEF CurrentIsThere
    <2>1. current[m] \in FinalIds
      BY <1>0, ConstantFacts DEF TypeOK
    <2>2. Own(current[m], m)
      BY <1>0 DEF CurrentIsThere
    <2> QED BY <1>1, <1>2, <2>1, <2>2
  <1>3. ASSUME NEW b \in Builders, Write(b) PROVE CurrentIsThere'
    <2> DEFINE k == builder[b].meeting
               new == [meeting |-> k, status |-> "PENDING_APPROVAL",
                       mode |-> IF b = Console THEN "template" ELSE WorkerMode,
                       sections |-> builder[b].sections,
                       lineage |-> builder[b].lineage]
    <2>1. PICK f \in FinalIds :
            /\ finals' = [IF current[k] = 0 THEN finals ELSE Superseded(current[k])
                             EXCEPT ![f] = new]
            /\ current' = [current EXCEPT ![k] = f]
      BY <1>3 DEF Write
    <2>2. finals'[f].status # "NONE" /\ finals'[f].meeting = k
      <3>1. f \in DOMAIN (IF current[k] = 0 THEN finals ELSE Superseded(current[k]))
        BY <1>0 DEF TypeOK, Superseded
      <3>2. new.meeting = k /\ new.status # "NONE"
        OBVIOUS
      <3> HIDE DEF new
      <3>3. finals'[f] = new
        BY <2>1, <3>1
      <3> QED BY <3>2, <3>3
    <2> SUFFICES ASSUME NEW m \in Meetings, current'[m] # 0
                 PROVE  finals'[current'[m]].status # "NONE"
                        /\ finals'[current'[m]].meeting = m
      BY DEF CurrentIsThere
    <2>3. CASE m = k
      <3>1. current'[m] = f
        BY <1>0, <2>1, <2>3 DEF TypeOK
      <3> QED BY <2>2, <2>3, <3>1
    <2>4. CASE m # k
      <3>1. current'[m] = current[m]
        BY <1>0, <2>1, <2>4 DEF TypeOK
      <3>2. current[m] \in FinalIds /\ Own(current[m], m)
        BY <1>0, <3>1, ConstantFacts DEF TypeOK, CurrentIsThere
      <3> QED BY <1>1, <3>1, <3>2
    <2> QED BY <2>3, <2>4
  <1> QED
    BY <1>2, <1>3
    DEF Next, vars, Work, Submit, Accept, Reject, Organize, Queue,
        OrganizerFails, Settle, WorkerStarts, Recover, Discard, Start,
        ConsoleGenerates, FeishuServes, ConsoleCollides, Render, BuilderStops,
        Decide, Approve, Refuse, Deliver, Claim, NothingToClaim, Send,
        CompleteDelivery, SendFails, CourierStops, FeishuStarts

LEMMA SourcesAlways == Spec => []SourcesInv
  <1>1. Init => SourcesInv
    <2> SUFFICES ASSUME Init PROVE SourcesInv
      OBVIOUS
    <2>1. VersionsCome /\ RestsOnResults /\ CurrentIsThere
      BY DEF Init, VersionsCome, RestsOnResults, CurrentIsThere
    <2>2. BundleIsWhole
      BY DEF Init, BundleIsWhole, Idle, Down
    <2> QED BY <2>1, <2>2, InitReleases DEF SourcesInv
  <1>2. SourcesInv /\ [Next]_vars => SourcesInv'
    <2> SUFFICES ASSUME SourcesInv, [Next]_vars PROVE SourcesInv'
      OBVIOUS
    <2>1. ReleaseInv' /\ TypeOK'
      BY InvKept DEF SourcesInv, ReleaseInv
    <2> QED
      BY <2>1, VersionsMove, BundleKept, CitationsKept, CurrentKept DEF SourcesInv
  <1> QED BY <1>1, <1>2, PTL DEF Spec

\* A final never cites a result that is missing or was not accepted, and what
\* its report says is never newer than what its lineage says, however many
\* versions were accepted while it was organized, written and replaced
\* (aggregation_source_bundle, aggregate).
THEOREM FinalsRestOnResults == Spec => []RestsOnResults
  <1>1. SourcesInv => RestsOnResults
    BY DEF SourcesInv
  <1> QED BY SourcesAlways, <1>1, PTL

-----------------------------------------------------------------------------
(* The finals implement DocumentRelease.                                   *)

Known == {f \in FinalIds : finals[f].status # "NONE"}
Proposed == [m \in Meetings |->
                {f \in FinalIds : finals[f].meeting = m /\ approval[f] = "PENDING"}]
Agreed == {f \in FinalIds : approval[f] \in {"APPROVED", "EXECUTED"}}
Out == {f \in FinalIds : finals[f].status = "RELEASED"}

DocStep == [Promise!DocNext]_(Promise!documents)

\* A step of DocumentRelease, however the finals take it.
LEMMA DocMoves ==
  ASSUME NEW m \in Meetings, NEW f \in FinalIds,
         \/ Promise!Withdraw(m) \/ Promise!Propose(m, f) \/ Promise!Agree(m, f)
         \/ Promise!Tell(f) \/ Promise!Release(f)
  PROVE  DocStep
  <1>1. Promise!DocNext
    BY Zenon DEF Promise!DocNext
  <1> QED BY <1>1 DEF DocStep

\* What the coordinator sees of a final, before and after a step.
SameFinal(f) ==
    /\ finals'[f].meeting = finals[f].meeting
    /\ finals'[f].status # "NONE" <=> finals[f].status # "NONE"
    /\ finals'[f].status = "RELEASED" <=> finals[f].status = "RELEASED"

LEMMA QuietDocs ==
  ASSUME \A f \in FinalIds : SameFinal(f) /\ approval'[f] = approval[f],
         UNCHANGED received
  PROVE  DocStep
  BY DEF SameFinal, DocStep, Promise!documents

LEMMA UntouchedDocs ==
  ASSUME UNCHANGED <<finals, approval, received>> PROVE DocStep
  BY QuietDocs DEF SameFinal

\* The pending approval of a final ends without a decision for it: no other
\* one of its meeting is pending.
LEMMA DocWithdrawn ==
  ASSUME ReleaseInv, NEW f \in FinalIds, approval[f] = "PENDING",
         approval'[f] \in {"REJECTED", "SUPERSEDED"},
         \A g \in FinalIds : SameFinal(g) /\ (g # f => approval'[g] = approval[g]),
         UNCHANGED received
  PROVE  DocStep
  <1>1. PICK m \in Meetings : m = finals[f].meeting
    BY DEF ReleaseInv, TypeOK, Final
  <1>2. \A g \in FinalIds : finals[g].meeting = m /\ approval[g] = "PENDING" => g = f
    BY <1>1 DEF ReleaseInv, PendingApprovalIsCurrent
  <1>3. Known' = Known /\ Agreed' = Agreed /\ Out' = Out
    BY DEF Known, Agreed, Out, SameFinal
  <1>4. Proposed[m] = {f}
    BY <1>1, <1>2 DEF Proposed
  <1>5. Proposed' = [Proposed EXCEPT ![m] = {}]
    <2> SUFFICES ASSUME NEW k \in Meetings
                 PROVE  {g \in FinalIds : finals'[g].meeting = k /\ approval'[g] = "PENDING"}
                        = IF k = m THEN {} ELSE {g \in FinalIds :
                              finals[g].meeting = k /\ approval[g] = "PENDING"}
      BY <1>1 DEF Proposed
    <2> QED BY <1>1, <1>2 DEF SameFinal
  <1>6. Promise!Withdraw(m)
    BY <1>3, <1>4, <1>5 DEF Promise!Withdraw, Known, Agreed, Out, Proposed
  <1> QED BY <1>1, <1>6, DocMoves

LEMMA DocAgreed ==
  ASSUME ReleaseInv, NEW f \in FinalIds, approval[f] = "PENDING",
         approval'[f] = "APPROVED",
         \A g \in FinalIds : SameFinal(g) /\ (g # f => approval'[g] = approval[g]),
         UNCHANGED received
  PROVE  DocStep
  <1>1. PICK m \in Meetings : m = finals[f].meeting
    BY DEF ReleaseInv, TypeOK, Final
  <1>2. \A g \in FinalIds : finals[g].meeting = m /\ approval[g] = "PENDING" => g = f
    BY <1>1 DEF ReleaseInv, PendingApprovalIsCurrent
  <1>3. Known' = Known /\ Agreed' = Agreed \cup {f} /\ Out' = Out
    BY DEF Known, Agreed, Out, SameFinal
  <1>4. Proposed[m] = {f}
    BY <1>1, <1>2 DEF Proposed
  <1>5. Proposed' = [Proposed EXCEPT ![m] = {}]
    <2> SUFFICES ASSUME NEW k \in Meetings
                 PROVE  {g \in FinalIds : finals'[g].meeting = k /\ approval'[g] = "PENDING"}
                        = IF k = m THEN {} ELSE {g \in FinalIds :
                              finals[g].meeting = k /\ approval[g] = "PENDING"}
      BY <1>1 DEF Proposed
    <2> QED BY <1>1, <1>2 DEF SameFinal
  <1>6. Promise!Agree(m, f)
    BY <1>3, <1>4, <1>5 DEF Promise!Agree, Known, Agreed, Out, Proposed
  <1> QED BY <1>1, <1>6, DocMoves

LEMMA AcceptDocs ==
  ASSUME SourcesInv, NEW t \in Tasks, Accept(t)
  PROVE  DocStep
  <1> DEFINE m == MeetingOf[t]
             f == current[m]
  <1>0. TypeOK /\ ReleaseInv /\ UNCHANGED received
    BY DEF SourcesInv, ReleaseInv, Accept
  <1>1. CASE ~Supersedable(m)
    BY <1>1, UntouchedDocs DEF Accept
  <1>2. CASE Supersedable(m)
    <2>1. f \in FinalIds /\ finals[f].status \in {"PENDING_APPROVAL", "APPROVED"}
      <3>1. m \in Meetings /\ f \in 0 .. MaxFinals
        BY <1>0, ConstantFacts DEF TypeOK
      <3> QED BY <1>2, <3>1, ConstantFacts DEF Supersedable, CurrentStatus
    <2>2. /\ finals' = [finals EXCEPT ![f].status = "SUPERSEDED"]
          /\ approval' = Withdrawn(f)
      BY <1>2 DEF Accept
    <2> HIDE DEF f
    <2>3. \A g \in FinalIds : SameFinal(g)
      BY <1>0, <2>1, <2>2, StatusGiven DEF SameFinal
    <2>4. \A g \in FinalIds : approval'[g] =
              IF g = f /\ approval[g] = "PENDING" THEN "SUPERSEDED" ELSE approval[g]
      BY <1>0, <2>1, <2>2 DEF Withdrawn, TypeOK
    <2>5. CASE approval[f] = "PENDING"
      BY <1>0, <2>1, <2>3, <2>4, <2>5, DocWithdrawn
    <2>6. CASE approval[f] # "PENDING"
      BY <1>0, <2>3, <2>4, <2>6, QuietDocs
    <2> QED BY <2>5, <2>6
  <1> QED BY <1>1, <1>2

\* A final that is written takes the place of the one that waits.
LEMMA WriteDocs ==
  ASSUME SourcesInv, NEW b \in Builders, Write(b)
  PROVE  DocStep
  <1>0a. PICK m \in Meetings : m = builder[b].meeting
    BY BuilderFields DEF Write, SourcesInv, ReleaseInv
  <1> DEFINE mode == IF b = Console THEN "template" ELSE WorkerMode
             new == [meeting |-> m, status |-> "PENDING_APPROVAL", mode |-> mode,
                     sections |-> builder[b].sections,
                     lineage |-> builder[b].lineage]
  <1>0. TypeOK /\ ReleaseInv /\ FreeSlotsAreFree /\ PendingApprovalIsCurrent
        /\ UNCHANGED received
    BY DEF SourcesInv, ReleaseInv, Write
  <1>1. m \in Meetings
        /\ builder[b].sections \in Citations /\ builder[b].lineage \in Citations
    BY <1>0, BuilderFields DEF Write
  <1>2. new \in Final /\ new.status = "PENDING_APPROVAL" /\ new.meeting = m
    <2>1. mode \in {"model", "template"}
      BY ConstantFacts
    <2> HIDE DEF mode
    <2> QED BY <1>1, <2>1 DEF Final
  <1>3. PICK f \in FinalIds :
          /\ {g \in FinalIds : finals[g].status # "NONE"} = 1 .. f - 1
          /\ finals' = [IF current[m] = 0 THEN finals ELSE Superseded(current[m])
                           EXCEPT ![f] = new]
          /\ approval' = [IF current[m] = 0 THEN approval ELSE Withdrawn(current[m])
                             EXCEPT ![f] = "PENDING"]
    BY <1>0a DEF Write
  <1> HIDE DEF mode, new
  <1>4. finals[f].status = "NONE" /\ approval[f] = "NONE"
    <2>1. f \notin 1 .. f - 1
      BY ConstantFacts
    <2> QED BY <1>0, <1>3, <2>1 DEF FreeSlotsAreFree
  <1>5. finals'[f] = new /\ approval'[f] = "PENDING"
    BY <1>0, <1>1, <1>2, <1>3, WrittenTyped, ApprovalsWhenWritten
  <1>6. ASSUME NEW g \in FinalIds \ {f}
        PROVE  /\ SameFinal(g)
               /\ approval'[g] = IF g = current[m] /\ approval[g] = "PENDING"
                                 THEN "SUPERSEDED" ELSE approval[g]
    <2>1. /\ finals'[g] = [finals[g] EXCEPT !.status = finals'[g].status]
          /\ finals'[g].status =
                IF g = current[m] /\ finals[g].status # "RELEASED"
                THEN "SUPERSEDED" ELSE finals[g].status
      BY <1>0, <1>1, <1>2, <1>3, <1>6, WrittenTyped
    <2>2. finals'[g].meeting = finals[g].meeting
      BY <1>0, <2>1 DEF TypeOK, Final
    <2>3. g = current[m] => finals[g].status # "NONE"
      BY <1>1, ConstantFacts DEF SourcesInv, CurrentIsThere
    <2>4. approval'[g] = IF g = current[m] /\ approval[g] = "PENDING"
                         THEN "SUPERSEDED" ELSE approval[g]
      BY <1>0, <1>1, <1>3, <1>6, ApprovalsWhenWritten
    <2> QED BY <2>1, <2>2, <2>3, <2>4 DEF SameFinal
  <1>7. Known' = Known \cup {f} /\ f \notin Known
    BY <1>2, <1>4, <1>5, <1>6 DEF Known, SameFinal
  <1>8. Agreed' = Agreed /\ Out' = Out
    BY <1>2, <1>4, <1>5, <1>6 DEF Agreed, Out, SameFinal
  <1>9. Proposed' = [Proposed EXCEPT ![m] = {f}]
    <2> SUFFICES ASSUME NEW k \in Meetings
                 PROVE  {g \in FinalIds : finals'[g].meeting = k /\ approval'[g] = "PENDING"}
                        = IF k = m THEN {f} ELSE {g \in FinalIds :
                              finals[g].meeting = k /\ approval[g] = "PENDING"}
      BY <1>1 DEF Proposed
    <2>1. CASE k = m
      <3>1. ASSUME NEW g \in FinalIds \ {f}, finals'[g].meeting = m
            PROVE  approval'[g] # "PENDING"
        BY <1>0, <1>6, <3>1 DEF SameFinal, PendingApprovalIsCurrent
      <3> QED BY <1>2, <1>5, <2>1, <3>1
    <2>2. CASE k # m
      <3>1. current[m] # 0 => finals[current[m]].meeting = m
        BY <1>1 DEF SourcesInv, CurrentIsThere
      <3>2. \A g \in FinalIds \ {f} : finals[g].meeting = k => g # current[m]
        BY <2>2, <3>1, ConstantFacts
      <3> QED BY <1>2, <1>4, <1>5, <1>6, <2>2, <3>2 DEF SameFinal
    <2> QED BY <2>1, <2>2
  <1>10. Promise!Propose(m, f)
    BY <1>0, <1>7, <1>8, <1>9 DEF Promise!Propose, Known, Agreed, Out, Proposed
  <1> QED BY <1>1, <1>10, DocMoves

LEMMA DecideDocs ==
  ASSUME SourcesInv, NEW f \in FinalIds, Decide(f)
  PROVE  DocStep
  <1>0. TypeOK /\ ReleaseInv
    BY DEF SourcesInv, ReleaseInv
  <1>1. CASE Approve(f)
    <2>1. /\ finals' = [finals EXCEPT ![f].status = "APPROVED"]
          /\ \A g \in FinalIds :
                approval'[g] = IF g = f THEN "APPROVED" ELSE approval[g]
          /\ approval[f] = "PENDING" /\ finals[f].status = "PENDING_APPROVAL"
          /\ UNCHANGED received
      BY <1>0, <1>1 DEF Approve, TypeOK
    <2>2. \A g \in FinalIds : SameFinal(g)
      BY <1>0, <2>1, StatusGiven DEF SameFinal
    <2> QED BY <1>0, <2>1, <2>2, DocAgreed
  <1>2. CASE Refuse(f)
    <2>1. /\ \A g \in FinalIds :
                approval'[g] = IF g = f THEN "REJECTED" ELSE approval[g]
          /\ approval[f] = "PENDING"
          /\ UNCHANGED <<finals, received>>
      BY <1>0, <1>2 DEF Refuse, TypeOK
    <2>2. \A g \in FinalIds : SameFinal(g)
      BY <2>1 DEF SameFinal
    <2> QED BY <1>0, <2>1, <2>2, DocWithdrawn
  <1> QED BY <1>1, <1>2 DEF Decide

\* What a courier carries was agreed to, whoever holds its row by now.
LEMMA SendDocs ==
  ASSUME SourcesInv, NEW c \in Couriers, Send(c)
  PROVE  DocStep
  <1>0a. PICK f : f = courier[c].final
    OBVIOUS
  <1>1. /\ f \in FinalIds /\ release[f] # "NONE"
        /\ received' = received \cup {f}
        /\ UNCHANGED <<finals, approval>>
    BY <1>0a, CourierFields DEF Send, Carrying, SourcesInv, ReleaseInv, CouriersCarry
  <1>2. f \in Agreed
    BY <1>1 DEF Agreed, SourcesInv, ReleaseInv, RowFollowsApproval
  <1>3. Promise!Tell(f)
    BY <1>1, <1>2 DEF Promise!Tell, Agreed
  <1> QED BY <1>1, <1>3, ConstantFacts, DocMoves

LEMMA CompleteDocs ==
  ASSUME SourcesInv, NEW c \in Couriers, CompleteDelivery(c)
  PROVE  DocStep
  <1>0a. PICK f : f = courier[c].final
    OBVIOUS
  <1>0. TypeOK /\ RowFollowsApproval /\ FreeSlotsAreFree /\ CouriersCarry
    BY DEF SourcesInv, ReleaseInv
  <1>1. f \in FinalIds /\ f \in received /\ approval[f] \in {"APPROVED", "EXECUTED"}
        /\ UNCHANGED received
    <2>1. f \in FinalIds
      BY <1>0a, <1>0, CourierFields DEF CompleteDelivery, Carrying
    <2>2. f \in received
      BY <1>0a, <1>0 DEF CompleteDelivery, CouriersCarry
    <2> QED BY <1>0, <2>1, <2>2 DEF CompleteDelivery, RowFollowsApproval
  <1>2. \A g \in FinalIds : approval'[g] = IF g = f THEN "EXECUTED" ELSE approval[g]
    BY <1>0a, <1>0, <1>1 DEF CompleteDelivery, Executed, TypeOK
  <1>3. finals' = IF approval[f] = "APPROVED"
                  THEN [finals EXCEPT ![f].status = "RELEASED"] ELSE finals
    BY <1>0a DEF CompleteDelivery
  <1>4. CASE approval[f] = "APPROVED"
    <2>1. finals[f].status # "NONE"
      BY <1>0, <1>1, <1>4 DEF FreeSlotsAreFree
    <2>2. /\ finals'[f].status = "RELEASED"
          /\ \A g \in FinalIds :
                /\ finals'[g].meeting = finals[g].meeting
                /\ g # f => finals'[g].status = finals[g].status
      BY <1>0, <1>1, <1>3, <1>4, StatusGiven
    <2>3. Known' = Known /\ Agreed' = Agreed /\ Out' = Out \cup {f}
      BY <1>1, <1>2, <2>1, <2>2 DEF Known, Agreed, Out
    <2>4. Proposed' = Proposed
      BY <1>1, <1>2, <2>2 DEF Proposed
    <2>5. Promise!Release(f)
      BY <1>1, <2>3, <2>4 DEF Promise!Release, Known, Agreed, Out, Proposed
    <2> QED BY <1>1, <2>5, ConstantFacts, DocMoves
  <1>5. CASE approval[f] = "EXECUTED"
    BY <1>1, <1>2, <1>3, <1>5, QuietDocs DEF SameFinal
  <1> QED BY <1>1, <1>4, <1>5

LEMMA StepsOfDocs == SourcesInv /\ [Next]_vars => DocStep
  <1> SUFFICES ASSUME SourcesInv, [Next]_vars PROVE DocStep
    OBVIOUS
  <1>1. ASSUME NEW t \in Tasks, Work(t) PROVE DocStep
    BY <1>1, AcceptDocs, UntouchedDocs DEF Work, Submit, Reject, outgoing
  <1>2. ASSUME NEW m \in Meetings,
               Organize(m) \/ ConsoleGenerates(m) \/ FeishuServes(m)
        PROVE  DocStep
    BY <1>2, UntouchedDocs
    DEF Organize, Queue, OrganizerFails, Settle, WorkerStarts, Recover, Discard,
        Start, ConsoleGenerates, FeishuServes, outgoing
  <1>3. CASE ConsoleCollides \/ FeishuStarts \/ UNCHANGED vars
    BY <1>3, UntouchedDocs DEF ConsoleCollides, FeishuStarts, Recover, vars, outgoing
  <1>4. ASSUME NEW b \in Builders, Render(b) \/ Write(b) \/ BuilderStops(b)
        PROVE  DocStep
    BY <1>4, WriteDocs, UntouchedDocs DEF Render, BuilderStops, outgoing
  <1>5. ASSUME NEW c \in Couriers, Deliver(c) PROVE DocStep
    BY <1>5, SendDocs, CompleteDocs, UntouchedDocs
    DEF Deliver, Claim, NothingToClaim, SendFails, CourierStops, outgoing
  <1> QED BY <1>1, <1>2, <1>3, <1>4, <1>5, DecideDocs DEF Next

\* The finals implement the promise to the coordinator: of each meeting one
\* waits at most, a newer one takes its place, and only what was agreed to is
\* told to people and released, once and for all, whichever of the workers,
\* the console and the Feishu loop organizes, decides, sends or stops.
THEOREM ReleaseKeepsItsPromise == Spec => ImplementsRelease
  <1>1. Init => Promise!DocInit
    <2> SUFFICES ASSUME Init PROVE Promise!DocInit
      OBVIOUS
    <2>1. \A f \in FinalIds : finals[f].status = "NONE" /\ approval[f] = "NONE"
      BY DEF Init
    <2> QED BY <2>1 DEF Init, Promise!DocInit
  <1>2. SourcesInv /\ [Next]_vars => [Promise!DocNext]_(Promise!documents)
    BY StepsOfDocs DEF DocStep
  <1> QED
    BY SourcesAlways, <1>1, <1>2, PTL
    DEF Spec, ImplementsRelease, Promise!DocSpec

-----------------------------------------------------------------------------
(* Every task moves as TaskLifecycle says.                                 *)

LEMMA VerdictLives ==
  ASSUME SourcesInv, NEW t \in Tasks, NEW u \in Tasks,
         Submit(u) \/ Accept(u) \/ Reject(u)
  PROVE  [Life(t)!LifeNext]_(Life(t)!life)
  <1>0. /\ valid \in [Tasks -> Nat] /\ newest \in [Tasks -> Nat]
        /\ reviewing \in [Tasks -> BOOLEAN] /\ taskStatus \in [Tasks -> Worked]
    BY DEF SourcesInv, ReleaseInv, TypeOK, Citations
  <1>1. CASE Submit(u)
    <2>1. CASE t = u
      BY <1>0, <1>1, <2>1
      DEF Submit, Submittable, Life!Submittable, Life!LifeNext, Life!PutForward
    <2>2. CASE t # u
      BY <1>0, <1>1, <2>2 DEF Submit, Life!life
    <2> QED BY <2>1, <2>2
  <1>2. CASE Accept(u)
    <2>1. CASE t = u
      <3>1. /\ valid'[t] = newest[t] /\ newest[t] \in Nat /\ valid[t] < newest[t]
            /\ valid[t] \in Nat /\ reviewing[t] /\ ~reviewing'[t]
            /\ taskStatus'[t] = "ACCEPTED" /\ reviewing'[t] = FALSE
        BY <1>0, <1>2, <2>1 DEF Accept, SourcesInv, VersionsCome
      <3>2. valid'[t] \in Nat \ {0, valid[t]} /\ valid'[t] > 0
        BY <3>1
      <3> QED BY <3>1, <3>2 DEF Life!LifeNext, Life!Approve
    <2>2. CASE t # u
      <3>1. /\ valid'[t] = valid[t] /\ reviewing'[t] = reviewing[t]
            /\ \/ taskStatus'[t] = taskStatus[t]
               \/ taskStatus[t] = "AGGREGATED" /\ taskStatus'[t] = "ACCEPTED"
        BY <1>0, <1>2, <2>2 DEF Accept
      <3> QED BY <3>1 DEF Life!life, Life!LifeNext, Life!LeaveFinal
    <2> QED BY <2>1, <2>2
  <1>3. CASE Reject(u)
    <2>1. CASE t = u
      <3>1. /\ valid'[t] = valid[t] /\ reviewing[t] /\ reviewing'[t] = FALSE
            /\ taskStatus'[t] \in IF valid[t] = 0 THEN {"TRACKING"}
                                  ELSE {"ACCEPTED", "AGGREGATED"}
        BY <1>0, <1>3, <2>1 DEF Reject
      <3> QED BY <3>1 DEF Life!LifeNext, Life!TurnDown, Life!Standing
    <2>2. CASE t # u
      BY <1>0, <1>3, <2>2 DEF Reject, Life!life
    <2> QED BY <2>1, <2>2
  <1> QED BY <1>1, <1>2, <1>3

LEMMA WriteLives ==
  ASSUME SourcesInv, NEW t \in Tasks, NEW b \in Builders, Write(b)
  PROVE  [Life(t)!LifeNext]_(Life(t)!life)
  <1>1. /\ valid' = valid /\ reviewing' = reviewing
        /\ taskStatus'[t] = IF t \in Required(builder[b].meeting)
                            THEN "AGGREGATED" ELSE taskStatus[t]
    BY DEF Write
  <1>2. CASE t \in Required(builder[b].meeting)
    <2>1. /\ 0 < builder[b].sections[t]
          /\ builder[b].sections[t] <= builder[b].lineage[t]
          /\ builder[b].lineage[t] <= valid[t]
      BY <1>2 DEF SourcesInv, BundleIsWhole, Write
    <2>2. /\ valid[t] \in Nat /\ builder[b].sections[t] \in Nat
          /\ builder[b].lineage[t] \in Nat
      BY BuilderFields DEF SourcesInv, ReleaseInv, TypeOK, Citations, Write
    <2>3. valid[t] > 0
      BY <2>1, <2>2
    <2> QED BY <1>1, <1>2, <2>3 DEF Life!LifeNext, Life!Include
  <1>3. CASE t \notin Required(builder[b].meeting)
    BY <1>1, <1>3 DEF Life!life
  <1> QED BY <1>2, <1>3

LEMMA TaskLives ==
  ASSUME SourcesInv, [Next]_vars, NEW t \in Tasks
  PROVE  [Life(t)!LifeNext]_(Life(t)!life)
  <1>1. ASSUME UNCHANGED tasks PROVE [Life(t)!LifeNext]_(Life(t)!life)
    BY <1>1 DEF tasks, Life!life
  <1>2. ASSUME NEW c \in Couriers, Deliver(c)
        PROVE  [Life(t)!LifeNext]_(Life(t)!life)
    <2>1. CASE CompleteDelivery(c)
      <3>1. /\ valid' = valid /\ reviewing' = reviewing
            /\ \/ taskStatus'[t] = taskStatus[t]
               \/ taskStatus[t] = "AGGREGATED" /\ taskStatus'[t] = "ARCHIVED"
        BY <2>1 DEF CompleteDelivery
      <3> QED BY <3>1 DEF Life!life, Life!LifeNext, Life!LeaveFinal
    <2> QED
      BY <1>1, <1>2, <2>1
      DEF Deliver, Claim, NothingToClaim, Send, SendFails, CourierStops
  <1>3. ASSUME NEW u \in Tasks, Work(u)
        PROVE  [Life(t)!LifeNext]_(Life(t)!life)
    BY <1>3, VerdictLives DEF Work
  <1>4. ASSUME NEW b \in Builders, Write(b)
        PROVE  [Life(t)!LifeNext]_(Life(t)!life)
    BY <1>4, WriteLives
  <1> QED
    BY <1>1, <1>2, <1>3, <1>4
    DEF Next, vars, Organize, Queue, OrganizerFails, Settle, WorkerStarts,
        Recover, Discard, Start, ConsoleGenerates, FeishuServes,
        ConsoleCollides, Render, BuilderStops, Decide, Approve, Refuse,
        FeishuStarts

LEMMA TaskLivesFirst ==
  ASSUME Init, NEW t \in Tasks
  PROVE  Life(t)!LifeInit
  BY DEF Init, Life!LifeInit

\* Every task of every meeting moves as TaskLifecycle says, although a task is
\* marked by whoever writes, replaces or releases a final, whatever it is by
\* then (aggregate, _supersede_pending_final, _complete_delivery,
\* review_artifact).
THEOREM FinalsFollowTheLifecycle == Spec => TasksFollowLifecycle
  <1>1. Init => \A t \in Tasks : Life(t)!LifeInit
    BY TaskLivesFirst
  <1>2. SourcesInv /\ [Next]_vars =>
            [\A t \in Tasks : [Life(t)!LifeNext]_(Life(t)!life)]_vars
    BY TaskLives
  <1> QED BY SourcesAlways, <1>1, <1>2, PTL DEF Spec, TasksFollowLifecycle

BoardsAreRight == \A t \in Tasks : Life(t)!BoardIsRight

LEMMA BoardsKept ==
  ASSUME SourcesInv, BoardsAreRight, [Next]_vars
  PROVE  /\ BoardsAreRight'
         /\ \A t \in Tasks : taskStatus'[t] # taskStatus[t] =>
                WorkMove(taskStatus[t], taskStatus'[t])
  <1> SUFFICES ASSUME NEW t \in Tasks
               PROVE  /\ Life(t)!BoardIsRight'
                      /\ taskStatus'[t] # taskStatus[t] =>
                             WorkMove(taskStatus[t], taskStatus'[t])
    BY DEF BoardsAreRight
  <1>1. [Life(t)!LifeNext]_(Life(t)!life) /\ Life(t)!BoardIsRight
    BY TaskLives DEF BoardsAreRight
  <1>2. Life(t)!BoardIsRight'
    BY <1>1
    DEF Life!BoardIsRight, Life!LifeNext, Life!life, Life!PutForward,
        Life!Approve, Life!TurnDown, Life!Fail, Life!Include, Life!LeaveFinal,
        Life!Reopen, Life!Standing, Life!Submittable, Life!Worked
  <1> QED
    BY <1>1, <1>2
    DEF WorkMove, Worked, Submittable, Life!BoardIsRight, Life!LifeNext,
        Life!life, Life!PutForward, Life!Approve, Life!TurnDown, Life!Fail,
        Life!Include, Life!LeaveFinal, Life!Reopen, Life!Standing,
        Life!Submittable, Life!Worked

\* The board of every meeting is right about every task: nothing is shown as
\* waiting that does not wait, and nothing as accepted, part of a final or
\* archived of which no version was accepted (all that write
\* action_items.status).
THEOREM BoardStaysRight == Spec => []BoardsAreRight
  <1>1. Init => BoardsAreRight
    BY DEF Init, BoardsAreRight, Life!BoardIsRight, Life!Worked, Life!Submittable
  <1>2. SourcesInv /\ BoardsAreRight /\ [Next]_vars => BoardsAreRight'
    BY BoardsKept
  <1> QED BY SourcesAlways, <1>1, <1>2, PTL DEF Spec

\* The finals of the meetings, too, change a status only in the ways that
\* TaskDispatch allows for in its DeliveryStep.
THEOREM StatusesMoveAsExpected ==
  Spec => [][\A t \in Tasks : taskStatus'[t] # taskStatus[t] =>
                 WorkMove(taskStatus[t], taskStatus'[t])]_vars
  <1>1. SourcesInv /\ BoardsAreRight /\ [Next]_vars =>
            [\A t \in Tasks : taskStatus'[t] # taskStatus[t] =>
                 WorkMove(taskStatus[t], taskStatus'[t])]_vars
    BY BoardsKept
  <1> QED BY BoardStaysRight, SourcesAlways, <1>1, PTL DEF Spec
=============================================================================
