--------------------------- MODULE FollowUpProofs ---------------------------
(***************************************************************************)
(* Proofs about FollowUp, for any tasks, any people and any policy: nobody *)
(* is contacted more often on a day than allowed, and the inquiries about  *)
(* a task are as far apart as they have to be.                             *)
(***************************************************************************)
EXTENDS FollowUp, FiniteSetTheorems, WellFoundedInduction, TLAPS

LEMMA ConstantFacts ==
  /\ NoOwner \notin People /\ Promises \subseteq Nat /\ Validities \subseteq Nat
  /\ Day \in Nat \ {0} /\ Cooldown \in Nat \ {0} /\ SignalTtl \in Nat
  /\ ConfirmTimeout \in Nat /\ L2Wait \in Nat /\ TouchBudget \in Nat
  /\ MaxTime \in Nat /\ MaxRevisions \in Nat
  BY FollowUpAssumption

-----------------------------------------------------------------------------
(* Types.                                                                  *)

Planning == tick.step = "evaluating"

LEMMA PlanningFacts ==
  ASSUME TypeOK, Planning
  PROVE  /\ tick.plan \subseteq Effects /\ tick.time \in Nat
         /\ DOMAIN tick.seen \subseteq Tasks
         /\ \A t \in DOMAIN tick.seen : tick.seen[t] \in Row
  <1>1. PICK S \in SUBSET Tasks :
            tick \in [step : {"evaluating"}, time : Nat, plan : SUBSET Effects,
                      seen : [S -> Row]]
    BY DEF TypeOK, Planning, Idle, Down
  <1> QED BY <1>1

\* What people's rows become.
LEMMA RowsChange ==
  ASSUME TypeOK, NEW row \in Row
  PROVE  /\ \A until \in Nat : Signalled(row, until) \in Row
         /\ Signal(row) \in Row
         /\ \A promise \in Nat : Promised(row, promise) \in Row
  <1>1. now \in Nat /\ SignalTtl \in Nat
    BY ConstantFacts DEF TypeOK
  <1>2. \A until \in Nat : Signalled(row, until) \in Row
    BY <1>1 DEF Signalled, Row
  <1>3. Signal(row) \in Row
    BY <1>1, <1>2 DEF Signal
  <1>4. \A promise \in Nat : Promised(row, promise) \in Row
    <2> SUFFICES ASSUME NEW promise \in Nat PROVE Promised(row, promise) \in Row
      OBVIOUS
    <2>1. row.revision + 1 \in Nat
      BY DEF Row
    <2>2. Promised(row, promise) =
              [row EXCEPT !.revision = row.revision + 1, !.deadline = promise]
      BY DEF Promised
    <2> QED BY <2>1, <2>2 DEF Row
  <1> QED BY <1>2, <1>3, <1>4

LEMMA RowsTyped ==
  ASSUME TypeOK, NEW t \in Tasks, Request(t)
  PROVE  task' \in [Tasks -> Row]
  <1>0. task \in [Tasks -> Row] /\ task[t] \in Row /\ now \in Nat
        /\ Promises \subseteq Nat /\ Validities \subseteq Nat
    BY ConstantFacts DEF TypeOK
  <1>1. \A row \in Row : task' = [task EXCEPT ![t] = row] => task' \in [Tasks -> Row]
    BY <1>0
  <1>2. CASE task' = task
    BY <1>0, <1>2
  <1>3. CASE Publish(t)
    BY <1>0, <1>3 DEF Publish, Row
  <1>4. CASE Ignore(t)
    BY <1>0, <1>4 DEF Ignore, Row
  <1>5. ASSUME NEW p \in People, NEW promise \in Promises, Claim(t, p, promise)
        PROVE  task' \in [Tasks -> Row]
    <2>1. PICK row : row = Promised(Signal(task[t]), promise)
      OBVIOUS
    <2>2. row \in Row
      BY <1>0, <2>1, RowsChange
    <2>3. task' = [task EXCEPT ![t] = [row EXCEPT !.owner = p, !.claimable = FALSE,
                                                  !.status = "TRACKING"]]
      BY <1>5, <2>1 DEF Claim
    <2>4. [row EXCEPT !.owner = p, !.claimable = FALSE, !.status = "TRACKING"] \in Row
      BY <2>2 DEF Row
    <2> QED BY <1>1, <2>3, <2>4
  <1>6. ASSUME NEW promise \in Promises, Confirm(t, promise)
        PROVE  task' \in [Tasks -> Row]
    <2>1. PICK row : row = Promised(Signal(task[t]), promise)
      OBVIOUS
    <2>2. row \in Row
      BY <1>0, <2>1, RowsChange
    <2>3. task' = [task EXCEPT ![t] = [row EXCEPT !.status = "TRACKING"]]
      BY <1>6, <2>1 DEF Confirm
    <2>4. [row EXCEPT !.status = "TRACKING"] \in Row
      BY <2>2 DEF Row
    <2> QED BY <1>1, <2>3, <2>4
  <1>7. CASE Reject(t)
    BY <1>0, <1>7 DEF Reject, Row
  <1>8. ASSUME NEW length \in Validities, Report(t, now + length)
        PROVE  task' \in [Tasks -> Row]
    <2>1. now + length \in Nat
      BY <1>0
    <2>2. Signalled(task[t], now + length) \in Row
      BY <1>0, <2>1, RowsChange
    <2> QED BY <1>1, <1>8, <2>2 DEF Report
  <1>9. ASSUME NEW promise \in Promises, Revise(t, promise)
        PROVE  task' \in [Tasks -> Row]
    <2>1. Promised(Signal(task[t]), promise) \in Row
      BY <1>0, RowsChange
    <2> QED BY <1>1, <1>9, <2>1 DEF Revise
  <1>10. CASE RequestHelp(t)
    <2>1. Signal(task[t]) \in Row
      BY <1>0, RowsChange
    <2> QED BY <1>1, <1>10, <2>1 DEF RequestHelp
  <1>11. ASSUME NEW passed \in BOOLEAN, Submit(t, passed)
         PROVE  task' \in [Tasks -> Row]
    <2>1. PICK row : row = Signal(task[t])
      OBVIOUS
    <2>2. row \in Row
      BY <1>0, <2>1, RowsChange
    <2>3. [row EXCEPT !.status = "PENDING_ACCEPTANCE"] \in Row
      BY <2>2 DEF Row
    <2> QED BY <1>1, <1>11, <2>1, <2>2, <2>3 DEF Submit
  <1>12. ASSUME NEW approve \in BOOLEAN, Review(t, approve)
         PROVE  task' \in [Tasks -> Row]
    <2>1. PICK row : row = [task[t] EXCEPT
                      !.valid = @ \/ approve,
                      !.status = IF approve \/ task[t].valid THEN "ACCEPTED"
                                 ELSE "TRACKING"]
      OBVIOUS
    <2>2. row \in Row
      BY <1>0, <2>1 DEF Row
    <2>3. task' = [task EXCEPT ![t] = row]
      BY <1>0, <1>12, <2>1 DEF Review
    <2> QED BY <1>1, <2>2, <2>3
  <1> QED
    BY <1>2, <1>3, <1>4, <1>5, <1>6, <1>7, <1>8, <1>9, <1>10, <1>11, <1>12
    DEF Request, TakeUpHelp, EndHelp

LEMMA RequestTyped ==
  ASSUME TypeOK, NEW t \in Tasks, Request(t)
  PROVE  TypeOK'
  <1>1. task' \in [Tasks -> Row] /\ UNCHANGED <<now, touches, tick>>
    BY RowsTyped DEF Request
  <1> DEFINE LatestTyped ==
                 latest \in [Tasks -> [no : Nat, state : {"NONE", "PENDING",
                                          "FAILED", "ACCEPTED", "REJECTED"}]]
  <1>2. LatestTyped'
    <2>1. CASE latest' = latest
      BY <2>1 DEF TypeOK
    <2>2. ASSUME NEW passed \in BOOLEAN, Submit(t, passed)
          PROVE  LatestTyped'
      BY <2>2 DEF TypeOK, Submit
    <2>3. ASSUME NEW approve \in BOOLEAN, Review(t, approve)
          PROVE  LatestTyped'
      BY <2>3 DEF TypeOK, Review
    <2> QED BY <2>1, <2>2, <2>3
        DEF Request, Publish, Ignore, Claim, Confirm, Reject, Report, Revise,
            RequestHelp, TakeUpHelp, EndHelp
  <1>3. help' \in [Tasks -> {"NONE", "OPEN", "ACKNOWLEDGED"}]
    BY DEF TypeOK, Request, Publish, Ignore, Claim, Confirm, Reject, Report, Revise,
       RequestHelp, TakeUpHelp, EndHelp, Submit, Review
  <1> QED BY <1>1, <1>2, <1>3 DEF TypeOK

\* The effects that may be due are effects.
LEMMA DueTyped ==
  ASSUME TypeOK, NEW t \in Tasks, NEW row \in Row, NEW time
  PROVE  Due(t, row, time) \subseteq Effects
  <1>1. /\ ConfirmTimeout \in Nat /\ latest[t].no \in Nat /\ row.at \in Nat
        /\ row.revision \in Nat /\ row.deadline \in Nat
    BY ConstantFacts DEF TypeOK, Row
  <1>2. ASSUME NEW a \in Nat PROVE <<a>> \in Seq(Nat)
    OBVIOUS
  <1>3. ASSUME NEW a \in Nat, NEW b \in Nat PROVE <<a, b>> \in Seq(Nat)
    OBVIOUS
  <1>4. ASSUME NEW level \in {"L1", "L2"}, NEW key \in Seq(Nat),
               NEW kind \in {"CONFIRMATION_REMINDER", "REWORK_REQUEST",
                             "PROGRESS_INQUIRY"}
        PROVE  Effect(t, level, kind, key) \in Effects
    BY DEF Effect, Effects
  <1>5. Reminder(t) \in Effects /\ Rework(t) \in Effects
    BY <1>1, <1>2, <1>4 DEF Reminder, Rework
  <1>6. Inquiry(t, row) \in Effects /\ Escalation(t, row) \in Effects
    BY <1>1, <1>3, <1>4 DEF Inquiry, Escalation
  <1> QED BY <1>5, <1>6 DEF Due

\* The rest of the tick once a task is dealt with.
LEMMA DoneFacts ==
  ASSUME TypeOK, Planning, NEW t \in DOMAIN tick.seen
  PROVE  \/ Done(t) = Idle
         \/ \E S \in SUBSET Tasks :
               /\ Done(t) \in [step : {"evaluating"}, time : {tick.time},
                               plan : {{}}, seen : [S -> Row]]
  <1>1. PICK S \in SUBSET Tasks :
            tick \in [step : {"evaluating"}, time : Nat, plan : SUBSET Effects,
                      seen : [S -> Row]]
    BY DEF TypeOK, Planning, Idle, Down
  <1>2. CASE DOMAIN tick.seen = {t}
    BY <1>2 DEF Done
  <1>3. CASE DOMAIN tick.seen # {t}
    <2>1. PICK seen : seen = [u \in S \ {t} |-> tick.seen[u]]
      OBVIOUS
    <2>2. seen \in [S \ {t} -> Row] /\ S \ {t} \in SUBSET Tasks
      BY <1>1, <2>1
    <2>3. Done(t) = [tick EXCEPT !.plan = {}, !.seen = seen]
      BY <1>1, <1>3, <2>1 DEF Done
    <2>4. Done(t) \in [step : {"evaluating"}, time : {tick.time}, plan : {{}},
                       seen : [S \ {t} -> Row]]
      BY <1>1, <2>2, <2>3
    <2> QED BY <2>2, <2>4
  <1> QED BY <1>2, <1>3

LEMMA ConsiderTyped ==
  ASSUME TypeOK, Planning, NEW t \in DOMAIN tick.seen, Consider(t)
  PROVE  TypeOK'
  <1>1. PICK wanted : wanted = Wanted(t, tick.seen[t], tick.time)
    OBVIOUS
  <1>2. wanted \subseteq Effects
    BY <1>1, PlanningFacts, DueTyped DEF Wanted
  <1>3. UNCHANGED <<work, now, touches>>
        /\ tick' = IF wanted = {} THEN Done(t) ELSE [tick EXCEPT !.plan = wanted]
    BY <1>1 DEF Consider
  <1>4. PICK S \in SUBSET Tasks :
            tick \in [step : {"evaluating"}, time : Nat, plan : SUBSET Effects,
                      seen : [S -> Row]]
    BY DEF TypeOK, Planning, Idle, Down
  <1>5. CASE wanted = {}
    <2>1. tick' = Done(t)
      BY <1>3, <1>5
    <2>2. \/ tick' = Idle
          \/ \E R \in SUBSET Tasks :
                tick' \in [step : {"evaluating"}, time : Nat, plan : SUBSET Effects,
                           seen : [R -> Row]]
      BY <1>4, <2>1, DoneFacts
    <2> QED BY <1>3, <2>2 DEF TypeOK, work
  <1>6. CASE wanted # {}
    <2>1. tick' \in [step : {"evaluating"}, time : Nat, plan : SUBSET Effects,
                     seen : [S -> Row]]
      BY <1>2, <1>3, <1>4, <1>6
    <2> QED BY <1>3, <2>1 DEF TypeOK, work
  <1> QED BY <1>5, <1>6

LEMMA PlanTyped ==
  ASSUME TypeOK, Planning, NEW t \in DOMAIN tick.seen, Plan(t)
  PROVE  TypeOK'
  <1>1. PICK e \in tick.plan :
            /\ e.task = t
            /\ touches' = touches \cup {[effect |-> e, at |-> now,
                                         to |-> tick.seen[t].owner,
                                         heard |-> task[t].at,
                                         status |-> "PLANNED"]}
    BY DEF Plan
  <1>2. /\ e \in Effects /\ now \in Nat /\ t \in Tasks
        /\ tick.seen[t].owner \in People \cup {NoOwner} /\ task[t].at \in Nat
    BY PlanningFacts DEF TypeOK, Row
  <1>3. touches' \subseteq [effect : Effects, at : Nat, to : People \cup {NoOwner},
                            heard : Nat, status : {"PLANNED", "DELIVERED"}]
    BY <1>1, <1>2 DEF TypeOK
  <1>4. tick' = Done(t) /\ UNCHANGED <<work, now>>
    BY DEF Plan
  <1>5. PICK S \in SUBSET Tasks :
            tick \in [step : {"evaluating"}, time : Nat, plan : SUBSET Effects,
                      seen : [S -> Row]]
    BY DEF TypeOK, Planning, Idle, Down
  <1>6. \/ tick' = Idle
        \/ \E R \in SUBSET Tasks :
              tick' \in [step : {"evaluating"}, time : Nat, plan : SUBSET Effects,
                         seen : [R -> Row]]
    BY <1>4, <1>5, DoneFacts
  <1> QED BY <1>3, <1>4, <1>6 DEF TypeOK, work

LEMMA TypeKept == TypeOK /\ [Next]_vars => TypeOK'
  <1> SUFFICES ASSUME TypeOK, [Next]_vars PROVE TypeOK'
    OBVIOUS
  <1>1. ASSUME NEW t \in Tasks, Request(t) PROVE TypeOK'
    BY <1>1, RequestTyped
  <1>2. CASE Advance
    BY <1>2, ConstantFacts DEF Advance, TypeOK, work
  <1>3. CASE ReadTasks
    <2>1. PICK followed : followed = {t \in Tasks : Followed(t)}
      OBVIOUS
    <2>2. [t \in followed |-> task[t]] \in [followed -> Row]
      BY <2>1 DEF TypeOK
    <2>3. tick' = IF followed = {} THEN Idle
                  ELSE [step |-> "evaluating", time |-> now, plan |-> {},
                        seen |-> [t \in followed |-> task[t]]]
      BY <1>3, <2>1 DEF ReadTasks
    <2>4. \/ tick' = Idle
          \/ tick' \in [step : {"evaluating"}, time : Nat, plan : SUBSET Effects,
                        seen : [followed -> Row]]
      BY <2>2, <2>3 DEF TypeOK
    <2>5. followed \in SUBSET Tasks /\ UNCHANGED <<work, now, touches>>
      BY <1>3, <2>1 DEF ReadTasks
    <2> QED BY <2>4, <2>5 DEF TypeOK, work
  <1>4. CASE Evaluate
    BY <1>4, ConsiderTyped, PlanTyped DEF Evaluate, Planning
  <1>5. ASSUME NEW i \in touches, Deliver(i) PROVE TypeOK'
    BY <1>5 DEF Deliver, TypeOK, work
  <1>6. CASE CatchUp
    BY <1>6, ConstantFacts DEF CatchUp, TypeOK, work
  <1>7. CASE Stop
    BY <1>7 DEF Stop, TypeOK, work
  <1>8. CASE Restart
    BY <1>8, ConstantFacts DEF Restart, TypeOK, work
  <1>9. CASE UNCHANGED vars
    BY <1>9 DEF vars, TypeOK, work
  <1> QED BY <1>1, <1>2, <1>3, <1>4, <1>5, <1>6, <1>7, <1>8, <1>9 DEF Next, Tick

LEMMA InitTyped == Init => TypeOK
  <1> SUFFICES ASSUME Init PROVE TypeOK
    OBVIOUS
  <1>1. task \in [Tasks -> Row]
    BY DEF Init, Row
  <1> QED BY <1>1 DEF Init, TypeOK

\* The rows, the interventions and what a tick has read keep their types.
THEOREM TypesHold == Spec => []TypeOK
  BY InitTyped, TypeKept, PTL DEF Spec
-----------------------------------------------------------------------------
(* Contacts counted by the day.                                            *)

\* The contacts with a person on a day; TouchesToday counts those of today.
Contacts(p, day) == {i \in touches : i.to = p /\ i.at \div Day = day}

LEMMA DaysPass ==
  ASSUME NEW a \in Nat, NEW b \in Nat, a <= b, NEW d \in Nat \ {0}
  PROVE  a \div d \in Nat /\ a \div d <= b \div d
  OBVIOUS

LEMMA OneMoreAtMost ==
  ASSUME NEW S, IsFiniteSet(S), NEW x
  PROVE  IsFiniteSet(S \cup {x}) /\ Cardinality(S \cup {x}) <= Cardinality(S) + 1
  <1>1. Cardinality(S) \in Nat
    BY FS_CardinalityType
  <1> QED BY <1>1, FS_AddElement

LEMMA CountsAreNumbers ==
  ASSUME IsFiniteSet(touches), NEW p, NEW day
  PROVE  /\ IsFiniteSet(Contacts(p, day)) /\ Cardinality(Contacts(p, day)) \in Nat
  BY FS_Subset, FS_CardinalityType DEF Contacts

\* A new day begins without contacts.
LEMMA RoomStays ==
  ASSUME TypeOK, IsFiniteSet(touches), \A i \in touches : i.at <= now,
         now' \in Nat, now <= now', touches' = touches,
         NEW p, TouchesToday(p) < TouchBudget
  PROVE  TouchesToday(p)' < TouchBudget
  <1>1. PICK today, later : today = now \div Day /\ later = now' \div Day
    OBVIOUS
  <1>2. TouchBudget \in Nat /\ Day \in Nat \ {0} /\ now \in Nat
        /\ \A i \in touches : i.at \in Nat
    BY ConstantFacts DEF TypeOK
  <1>3. /\ TouchesToday(p) = Cardinality(Contacts(p, today))
        /\ TouchesToday(p)' = Cardinality(Contacts(p, later))
    BY <1>1 DEF TouchesToday, Contacts
  <1>4. CASE later = today
    BY <1>3, <1>4
  <1>5. CASE later # today
    <2>1. \A i \in touches : i.at \div Day # later
      BY <1>1, <1>2, <1>5, DaysPass
    <2>2. Contacts(p, later) = {}
      BY <2>1 DEF Contacts
    <2>3. Cardinality(Contacts(p, later)) = 0 /\ Cardinality(Contacts(p, today)) \in Nat
      BY <2>2, FS_EmptySet, CountsAreNumbers
    <2> QED BY <1>2, <1>3, <2>3
  <1> QED BY <1>4, <1>5

\* An intervention that arrives is no contact more.
LEMMA DeliveredOnce ==
  ASSUME TypeOK, IsFiniteSet(touches), NEW i \in touches, Deliver(i)
  PROVE  /\ IsFiniteSet(touches')
         /\ \A p, day : Cardinality(Contacts(p, day)') <= Cardinality(Contacts(p, day))
  <1>1. PICK j : j = [i EXCEPT !.status = "DELIVERED"]
    OBVIOUS
  <1>2. j.to = i.to /\ j.at = i.at
    BY <1>1 DEF TypeOK
  <1>3. touches' = (touches \ {i}) \cup {j}
    BY <1>1 DEF Deliver
  <1>4. IsFiniteSet(touches')
    BY <1>3, FS_RemoveElement, FS_AddElement
  <1>5. ASSUME NEW p, NEW day
        PROVE  Cardinality(Contacts(p, day)') <= Cardinality(Contacts(p, day))
    <2>1. PICK S, T : S = Contacts(p, day) /\ T = Contacts(p, day)'
      OBVIOUS
    <2>2. IsFiniteSet(S) /\ Cardinality(S) \in Nat
      BY <2>1, CountsAreNumbers
    <2>3. CASE i \in S
      <3>1. T = (S \ {i}) \cup {j}
        BY <1>2, <1>3, <2>1, <2>3 DEF Contacts
      <3>2. IsFiniteSet(S \ {i}) /\ Cardinality(S \ {i}) = Cardinality(S) - 1
        BY <2>2, <2>3, FS_RemoveElement
      <3>3. Cardinality(T) <= Cardinality(S \ {i}) + 1
        BY <3>1, <3>2, OneMoreAtMost
      <3> QED BY <2>1, <2>2, <3>2, <3>3
    <2>4. CASE i \notin S
      <3>1. T = S
        BY <1>2, <1>3, <2>1, <2>4 DEF Contacts
      <3> QED BY <2>1, <2>2, <3>1
    <2> QED BY <2>3, <2>4
  <1> QED BY <1>4, <1>5

\* An intervention that is planned is one contact more, with one person today.
LEMMA PlannedOnce ==
  ASSUME TypeOK, IsFiniteSet(touches), NEW i, touches' = touches \cup {i}
  PROVE  /\ IsFiniteSet(touches')
         /\ \A q, day :
               Cardinality(Contacts(q, day)') <= Cardinality(Contacts(q, day)) + 1
         /\ \A q, day : q # i.to \/ day # i.at \div Day =>
               Contacts(q, day)' = Contacts(q, day)
  <1>1. IsFiniteSet(touches')
    BY FS_AddElement
  <1>2. \A q, day : q # i.to \/ day # i.at \div Day =>
            Contacts(q, day)' = Contacts(q, day)
    BY DEF Contacts
  <1>3. ASSUME NEW q, NEW day
        PROVE  Cardinality(Contacts(q, day)') <= Cardinality(Contacts(q, day)) + 1
    <2>1. CASE q # i.to \/ day # i.at \div Day
      BY <1>2, <2>1, CountsAreNumbers
    <2>2. CASE q = i.to /\ day = i.at \div Day
      <3>1. Contacts(q, day)' = Contacts(q, day) \cup {i}
        BY <2>2 DEF Contacts
      <3> QED BY <3>1, CountsAreNumbers, OneMoreAtMost
    <2> QED BY <2>1, <2>2
  <1> QED BY <1>1, <1>2, <1>3

-----------------------------------------------------------------------------
(* What a tick means to plan, until it is planned.  It was decided on at   *)
(* an earlier time, by rows read earlier still: it is sound when it is     *)
(* written because contacts are only ever planned by the tick, and because *)
(* a day that ends in between leaves more room, not less.                  *)

TimesPass ==
    /\ \A i \in touches : i.at <= now
    /\ Planning => tick.time <= now

PlanHasRoom ==
    Planning => \A e \in tick.plan :
        /\ e.task \in DOMAIN tick.seen
        /\ TouchesToday(tick.seen[e.task].owner) < TouchBudget

IsInquiry(e, level) == e.kind = "PROGRESS_INQUIRY" /\ e.level = level

\* An inquiry meant now comes after an answer to all before it, and after a
\* pause; an escalation is the first, after a deadline and an inquiry heard.
MayFollow(e) ==
    /\ e.key[1] \in Nat
    /\ IsInquiry(e, "L1") =>
           \A i \in Inquiries(e.task, "L1") :
               i.at < e.key[1] /\ i.at + Cooldown <= now
    /\ IsInquiry(e, "L2") =>
           /\ Inquiries(e.task, "L2") = {} /\ e.key[1] < now
           /\ \E i \in Inquiries(e.task, "L1") :
                  i.status = "DELIVERED" /\ i.at + L2Wait <= now

PlanIsSpaced == Planning => \A e \in tick.plan : MayFollow(e)

FollowInv ==
    /\ TypeOK /\ IsFiniteSet(touches) /\ TimesPass
    /\ PlanHasRoom /\ TouchBudgetIsKept
    /\ PlanIsSpaced /\ InquiriesAreSpaced

\* Among interventions there is a last one.
LEMMA ThereIsALast ==
  ASSUME TypeOK, TimesPass, NEW S \in SUBSET touches, S # {}
  PROVE  \E i \in Last(S) : \A j \in S : j.at <= i.at
  <1>1. now \in Nat /\ \A i \in S : i.at \in Nat /\ i.at <= now
    BY DEF TypeOK, TimesPass
  <1> DEFINE R == StrictSubsetOrdering(Nat)
             After(i) == i.at .. now
             T == {After(i) : i \in S}
  <1>2. T \subseteq FiniteSubsetsOf(Nat) /\ T # {}
    <2>1. ASSUME NEW a \in Nat PROVE a .. now \in SUBSET Nat /\ IsFiniteSet(a .. now)
      <3>1. a \in Int /\ now \in Int /\ a .. now \in SUBSET Nat
        BY <1>1
      <3> QED BY <3>1, FS_Interval
    <2>2. \A i \in S : After(i) \in FiniteSubsetsOf(Nat)
      BY <1>1, <2>1 DEF FiniteSubsetsOf
    <2> QED BY <2>2
  <1>3. IsWellFoundedOn(R, FiniteSubsetsOf(Nat))
    BY FS_StrictSubsetOrderingWellFounded
  <1> HIDE DEF R, T
  <1>4. PICK least \in T : \A U \in T : ~(<<U, least>> \in R)
    BY <1>2, <1>3, WFMin
  <1>5. PICK i \in S : least = After(i)
    BY DEF T
  <1>6. ASSUME NEW j \in S PROVE j.at <= i.at
    <2>1. After(j) \in T /\ ~(<<After(j), After(i)>> \in R)
      BY <1>4, <1>5 DEF T
    <2>2. i.at \in Nat /\ j.at \in Nat /\ now \in Nat /\ i.at <= now /\ j.at <= now
      BY <1>1
    <2> SUFFICES ASSUME i.at < j.at PROVE FALSE
      BY <2>2
    <2>3. After(j) \in SUBSET After(i) /\ i.at \in After(i) /\ i.at \notin After(j)
      BY <2>2
    <2>4. After(j) \in SUBSET Nat /\ After(i) \in SUBSET Nat
      BY <2>2
    <2> HIDE DEF After
    <2> QED BY <2>1, <2>3, <2>4 DEF R, StrictSubsetOrdering
  <1> QED BY <1>6 DEF Last

\* What the policy asks for may follow what was asked before.
LEMMA DueMayFollow ==
  ASSUME FollowInv, Planning, NEW t \in DOMAIN tick.seen,
         NEW e \in Due(t, tick.seen[t], tick.time)
  PROVE  e.task = t /\ MayFollow(e)
  <1>0. /\ TypeOK /\ TimesPass /\ tick.time \in Nat /\ tick.time <= now
        /\ now \in Nat /\ t \in Tasks /\ tick.seen[t] \in Row
        /\ Cooldown \in Nat /\ L2Wait \in Nat
    BY PlanningFacts, ConstantFacts DEF FollowInv, TimesPass, TypeOK
  <1>1. PICK row \in Row : row = tick.seen[t]
    BY <1>0
  <1>2. row.at \in Nat /\ row.deadline \in Nat
    BY DEF Row
  <1>3. /\ \A i \in Inquiries(t, "L1") : i.at \in Nat
        /\ Inquiries(t, "L1") \in SUBSET touches
    BY <1>0 DEF TypeOK, Inquiries
  <1>4. e.task = t
    BY DEF Due, Reminder, Rework, Inquiry, Escalation, Effect
  <1>5. ASSUME IsInquiry(e, "L1") 
        PROVE  /\ e.key[1] = row.at
               /\ MayAsk(t, row, tick.time)
    BY <1>1, <1>5
    DEF Due, Reminder, Rework, Inquiry, Escalation, Effect, IsInquiry
  <1>6. ASSUME IsInquiry(e, "L2")
        PROVE  /\ e.key[1] = row.deadline
               /\ MayEscalate(t, row, tick.time)
    BY <1>1, <1>6
    DEF Due, Reminder, Rework, Inquiry, Escalation, Effect, IsInquiry
  <1>7. ASSUME IsInquiry(e, "L1"), NEW i \in Inquiries(t, "L1")
        PROVE  i.at < e.key[1] /\ i.at + Cooldown <= now
    <2>1. PICK last \in Last(Inquiries(t, "L1")) : i.at <= last.at
      BY <1>0, <1>3, ThereIsALast
    <2>2. row.at > last.at /\ tick.time >= last.at + Cooldown
      BY <1>5, <1>7 DEF MayAsk, Answered
    <2>3. last.at \in Nat /\ i.at \in Nat
      BY <1>3 DEF Last
    <2> QED BY <1>0, <1>2, <1>5, <1>7, <2>1, <2>2, <2>3
  <1>8. ASSUME IsInquiry(e, "L2")
        PROVE  /\ Inquiries(t, "L2") = {} /\ e.key[1] < now
               /\ \E i \in Inquiries(t, "L1") :
                      i.status = "DELIVERED" /\ i.at + L2Wait <= now
    <2>1. PICK last \in Last(Inquiries(t, "L1")) :
              last.status = "DELIVERED" /\ tick.time >= last.at + L2Wait
      BY <1>6, <1>8 DEF MayEscalate
    <2>2. /\ Inquiries(t, "L2") = {} /\ tick.time > row.deadline
          /\ e.key[1] = row.deadline
      BY <1>6, <1>8 DEF MayEscalate
    <2>3. last \in Inquiries(t, "L1") /\ last.at \in Nat
      BY <1>3 DEF Last
    <2> QED BY <1>0, <1>2, <2>1, <2>2, <2>3
  <1>9. e.key[1] \in Nat
    <2>1. latest[t].no \in Nat /\ ConfirmTimeout \in Nat
      BY <1>0, ConstantFacts DEF TypeOK
    <2> QED BY <1>1, <1>2, <2>1
        DEF Due, Reminder, Rework, Inquiry, Escalation, Effect
  <1> QED BY <1>4, <1>7, <1>8, <1>9 DEF MayFollow

\* What may follow may follow later: nothing else is asked meanwhile.
LEMMA MayFollowLater ==
  ASSUME FollowInv, touches' = touches, now' \in Nat, now <= now',
         NEW e, MayFollow(e)
  PROVE  MayFollow(e)'
  <1>1. /\ now \in Nat /\ Cooldown \in Nat /\ L2Wait \in Nat
        /\ \A i \in touches : i.at \in Nat
    BY ConstantFacts DEF FollowInv, TypeOK
  <1>2. \A t, level : /\ Inquiries(t, level)' = Inquiries(t, level)
                      /\ \A i \in Inquiries(t, level) : i \in touches
    BY DEF Inquiries
  <1>3. ASSUME IsInquiry(e, "L1"), NEW i \in Inquiries(e.task, "L1")
        PROVE  i.at < e.key[1] /\ i.at + Cooldown <= now'
    BY <1>1, <1>2, <1>3 DEF MayFollow
  <1>4. ASSUME IsInquiry(e, "L2")
        PROVE  /\ Inquiries(e.task, "L2") = {} /\ e.key[1] < now'
               /\ \E i \in Inquiries(e.task, "L1") :
                      i.status = "DELIVERED" /\ i.at + L2Wait <= now'
    BY <1>1, <1>2, <1>4 DEF MayFollow
  <1>5. e.key[1] \in Nat
    BY DEF MayFollow
  <1> QED BY <1>2, <1>3, <1>4, <1>5 DEF MayFollow, IsInquiry

\* Steps that neither plan nor deliver: what is meant stays, or is dropped.
LEMMA QuietKept ==
  ASSUME FollowInv, TypeOK', touches' = touches, now <= now',
         \/ tick' = tick
         \/ Planning' => tick'.plan = {} /\ tick'.time <= now'
  PROVE  FollowInv'
  <1>1. TypeOK /\ TimesPass /\ now \in Nat /\ now' \in Nat /\ IsFiniteSet(touches)
    BY DEF FollowInv, TypeOK
  <1>2. TimesPass'
    <2>1. \A i \in touches : i.at \in Nat /\ i.at <= now'
      BY <1>1 DEF TypeOK, TimesPass
    <2>2. Planning' => tick'.time <= now'
      <3>1. ASSUME tick' = tick, Planning' PROVE tick'.time <= now'
        <4>1. Planning /\ tick.time \in Nat /\ tick.time <= now
          BY <1>1, <3>1, PlanningFacts DEF Planning, TimesPass
        <4> QED BY <1>1, <3>1, <4>1
      <3> QED BY <3>1
    <2> QED BY <2>1, <2>2 DEF TimesPass
  <1>3. PlanHasRoom' /\ PlanIsSpaced'
    <2>1. ASSUME tick' = tick, Planning, NEW e \in tick.plan
          PROVE  /\ e.task \in DOMAIN tick.seen
                 /\ TouchesToday(tick.seen[e.task].owner)' < TouchBudget
                 /\ MayFollow(e)'
      <3>1. PICK p : p = tick.seen[e.task].owner
        OBVIOUS
      <3>2. e.task \in DOMAIN tick.seen /\ TouchesToday(p) < TouchBudget
        BY <2>1, <3>1 DEF FollowInv, PlanHasRoom
      <3>3. TouchesToday(p)' < TouchBudget
        BY <1>1, <3>2, RoomStays DEF TimesPass
      <3>4. MayFollow(e)
        BY <2>1 DEF FollowInv, PlanIsSpaced
      <3>5. MayFollow(e)'
        BY <1>1, <3>4, MayFollowLater
      <3> QED BY <2>1, <3>1, <3>2, <3>3, <3>5
    <2> QED BY <2>1 DEF PlanHasRoom, PlanIsSpaced, Planning
  <1>4. TouchBudgetIsKept' /\ InquiriesAreSpaced'
    BY DEF FollowInv, TouchBudgetIsKept, InquiriesAreSpaced, Inquiries
  <1> QED BY <1>1, <1>2, <1>3, <1>4 DEF FollowInv

LEMMA ConsiderFollows ==
  ASSUME FollowInv, Planning, NEW t \in DOMAIN tick.seen, Consider(t)
  PROVE  FollowInv'
  <1>1. TypeOK /\ TimesPass /\ now \in Nat /\ TypeOK'
    BY ConsiderTyped DEF FollowInv, TypeOK
  <1>2. PICK wanted : wanted = Wanted(t, tick.seen[t], tick.time)
    OBVIOUS
  <1>3. UNCHANGED <<work, now, touches>>
        /\ tick' = IF wanted = {} THEN Done(t) ELSE [tick EXCEPT !.plan = wanted]
    BY <1>2 DEF Consider
  <1>4. tick.time <= now /\ tick.time \in Nat
    BY <1>1, PlanningFacts DEF TimesPass
  <1>5. CASE wanted = {}
    <2>1. Planning' => tick'.plan = {} /\ tick'.time <= now'
      <3>1. \/ tick' = Idle
            \/ \E S \in SUBSET Tasks :
                  tick' \in [step : {"evaluating"}, time : {tick.time},
                             plan : {{}}, seen : [S -> Row]]
        BY <1>1, <1>3, <1>5, DoneFacts
      <3>2. CASE tick' = Idle
        BY <3>2 DEF Idle, Planning
      <3> QED BY <1>3, <1>4, <3>1, <3>2
    <2> QED BY <1>1, <1>3, <2>1, QuietKept
  <1>6. CASE wanted # {}
    <2>1. PICK S \in SUBSET Tasks :
              tick \in [step : {"evaluating"}, time : Nat, plan : SUBSET Effects,
                        seen : [S -> Row]]
      BY <1>1 DEF TypeOK, Planning, Idle, Down
    <2>2. /\ tick'.plan = wanted /\ tick'.seen = tick.seen
          /\ tick'.time = tick.time /\ tick'.step = "evaluating"
      BY <1>3, <1>6, <2>1
    <2>3. ASSUME NEW e \in wanted
          PROVE  /\ e.task = t /\ MayFollow(e)
                 /\ TouchesToday(tick.seen[t].owner) < TouchBudget
      <3>1. /\ e \in Due(t, tick.seen[t], tick.time)
            /\ TouchesToday(tick.seen[t].owner) < TouchBudget
        BY <1>2 DEF Wanted
      <3> QED BY <3>1, DueMayFollow
    <2>4. PICK p : p = tick.seen[t].owner
      OBVIOUS
    <2>5. TouchesToday(p)' = TouchesToday(p)
      BY <1>3 DEF TouchesToday
    <2>6. \A e \in wanted : MayFollow(e)'
      BY <1>1, <1>3, <2>3, MayFollowLater
    <2>7. PlanHasRoom'
      <3>1. \A e \in tick'.plan : e.task = t /\ TouchesToday(p) < TouchBudget
        BY <2>2, <2>3, <2>4
      <3> QED BY <2>2, <2>4, <2>5, <3>1 DEF PlanHasRoom
    <2>8. PlanIsSpaced'
      BY <2>2, <2>6 DEF PlanIsSpaced
    <2>9. TimesPass'
      BY <1>1, <1>3, <1>4, <2>2 DEF TimesPass
    <2>10. TouchBudgetIsKept' /\ InquiriesAreSpaced' /\ IsFiniteSet(touches')
      BY <1>3 DEF FollowInv, TouchBudgetIsKept, InquiriesAreSpaced, Inquiries
    <2> QED BY <1>1, <2>7, <2>8, <2>9, <2>10 DEF FollowInv
  <1> QED BY <1>5, <1>6

\* What is planned was meant: it is one contact more on a day with room, and
\* it comes after what it may follow.
LEMMA PlanFollows ==
  ASSUME FollowInv, Planning, NEW t \in DOMAIN tick.seen, Plan(t)
  PROVE  FollowInv'
  <1>1. /\ TypeOK /\ TimesPass /\ TypeOK' /\ now \in Nat /\ IsFiniteSet(touches)
        /\ Cooldown \in Nat \ {0} /\ L2Wait \in Nat /\ TouchBudget \in Nat
        /\ \A i \in touches : i.at \in Nat /\ i.at <= now
    BY PlanTyped, ConstantFacts DEF FollowInv, TimesPass, TypeOK
  <1>2. PICK e \in tick.plan :
            /\ e.task = t
            /\ touches' = touches \cup {[effect |-> e, at |-> now,
                                         to |-> tick.seen[t].owner,
                                         heard |-> task[t].at,
                                         status |-> "PLANNED"]}
    BY DEF Plan
  <1>3. PICK new : new = [effect |-> e, at |-> now, to |-> tick.seen[t].owner,
                          heard |-> task[t].at, status |-> "PLANNED"]
    OBVIOUS
  <1>4. /\ touches' = touches \cup {new} /\ now' = now /\ tick' = Done(t)
        /\ new.effect = e /\ new.at = now /\ new.to = tick.seen[t].owner
    BY <1>2, <1>3 DEF Plan
  <1>5. MayFollow(e) /\ TouchesToday(new.to) < TouchBudget
    BY <1>2, <1>4 DEF FollowInv, PlanIsSpaced, PlanHasRoom
  <1>6. Planning' => tick'.plan = {} /\ tick'.time <= now'
    <2>1. \/ tick' = Idle
          \/ \E S \in SUBSET Tasks :
                tick' \in [step : {"evaluating"}, time : {tick.time},
                           plan : {{}}, seen : [S -> Row]]
      BY <1>1, <1>4, DoneFacts
    <2>2. tick.time <= now
      BY <1>1 DEF TimesPass
    <2>3. CASE tick' = Idle
      BY <2>3 DEF Idle, Planning
    <2> QED BY <1>4, <2>1, <2>2, <2>3
  <1>7. TimesPass' /\ PlanHasRoom' /\ PlanIsSpaced'
    <2>1. \A i \in touches' : i.at <= now'
      BY <1>1, <1>4
    <2> QED BY <1>6, <2>1 DEF TimesPass, PlanHasRoom, PlanIsSpaced
  <1>8. IsFiniteSet(touches') /\ TouchBudgetIsKept'
    <2>1. PICK today, p : today = now \div Day /\ p = new.to
      OBVIOUS
    <2>2. /\ IsFiniteSet(touches')
          /\ Cardinality(Contacts(p, today)') <= TouchesToday(p) + 1
          /\ \A q, day : q # p \/ day # today =>
                 Contacts(q, day)' = Contacts(q, day)
      <3>1. touches' = touches \cup {new} /\ new.to = p /\ today = new.at \div Day
        BY <1>4, <2>1
      <3>2. TouchesToday(p) = Cardinality(Contacts(p, today))
        BY <2>1 DEF TouchesToday, Contacts
      <3> QED BY <1>1, <3>1, <3>2, PlannedOnce
    <2>3. TouchesToday(p) \in Nat /\ TouchesToday(p) < TouchBudget
      <3>1. TouchesToday(p) = Cardinality(Contacts(p, today))
        BY <2>1 DEF TouchesToday, Contacts
      <3>2. Cardinality(Contacts(p, today)) \in Nat
        BY <1>1, CountsAreNumbers
      <3>3. TouchesToday(new.to) < TouchBudget /\ p = new.to
        BY <1>5, <2>1
      <3> QED BY <3>1, <3>2, <3>3
    <2>4. IsFiniteSet(Contacts(p, today)')
      BY <2>2, FS_Subset DEF Contacts
    <2>5. Cardinality(Contacts(p, today)') \in Nat
      BY <2>4, FS_CardinalityType
    <2>6. ASSUME NEW q \in People, NEW day \in 0 .. MaxTime \div Day
          PROVE  Cardinality(Contacts(q, day)') <= TouchBudget
      <3>1. CASE q = p /\ day = today
        BY <1>1, <2>2, <2>3, <2>5, <3>1
      <3>2. CASE q # p \/ day # today
        <4>1. Cardinality(Contacts(q, day)) <= TouchBudget
          BY DEF FollowInv, TouchBudgetIsKept, Contacts
        <4> QED BY <2>2, <3>2, <4>1
      <3> QED BY <3>1, <3>2
    <2> QED BY <2>2, <2>6 DEF TouchBudgetIsKept, Contacts
  <1>9. ASSUME NEW u, NEW level
        PROVE  Inquiries(u, level)' =
                   IF u = e.task /\ IsInquiry(e, level)
                   THEN Inquiries(u, level) \cup {new} ELSE Inquiries(u, level)
    BY <1>4 DEF Inquiries, IsInquiry
  <1>10. ASSUME NEW u \in Tasks, NEW i \in Inquiries(u, "L1")',
                NEW j \in Inquiries(u, "L1")', i # j, i.at <= j.at
         PROVE  i.at + Cooldown <= j.at /\ i.at < j.effect.key[1]
    <2>1. CASE i \in Inquiries(u, "L1") /\ j \in Inquiries(u, "L1")
      BY <1>10, <2>1 DEF FollowInv, InquiriesAreSpaced
    <2>2. CASE ~(i \in Inquiries(u, "L1") /\ j \in Inquiries(u, "L1"))
      <3>1. u = e.task /\ IsInquiry(e, "L1")
        BY <1>9, <1>10, <2>2
      <3>2. \A k \in Inquiries(u, "L1") : k.at < e.key[1] /\ k.at + Cooldown <= now
        BY <1>5, <3>1 DEF MayFollow
      <3>3. \A k \in Inquiries(u, "L1") : k.at \in Nat
        BY <1>1 DEF Inquiries
      <3>4. CASE j = new
        <4>1. i \in Inquiries(u, "L1")
          BY <1>9, <1>10, <3>1, <3>4
        <4> QED BY <1>4, <3>2, <3>4, <4>1
      <3>5. CASE j # new
        <4>1. j \in Inquiries(u, "L1") /\ i = new
          BY <1>9, <2>2, <3>1, <3>5
        <4> QED BY <1>1, <1>4, <1>10, <3>2, <3>3, <4>1
      <3> QED BY <3>4, <3>5
    <2> QED BY <2>1, <2>2
  <1>11. ASSUME NEW u \in Tasks, NEW i \in Inquiries(u, "L2")'
         PROVE  /\ \E j \in Inquiries(u, "L1")' :
                      j.status = "DELIVERED" /\ j.at + L2Wait <= i.at
                /\ i.effect.key[1] < i.at
                /\ Inquiries(u, "L2")' = {i}
    <2>1. Inquiries(u, "L1") \subseteq Inquiries(u, "L1")'
      BY <1>9
    <2>2. CASE u = e.task /\ IsInquiry(e, "L2")
      <3>1. /\ Inquiries(u, "L2") = {} /\ e.key[1] < now
            /\ \E j \in Inquiries(u, "L1") :
                   j.status = "DELIVERED" /\ j.at + L2Wait <= now
        BY <1>5, <2>2 DEF MayFollow
      <3>2. i = new /\ Inquiries(u, "L2")' = {new}
        BY <1>9, <2>2, <3>1
      <3> QED BY <1>4, <2>1, <3>1, <3>2
    <2>3. CASE ~(u = e.task /\ IsInquiry(e, "L2"))
      <3>1. Inquiries(u, "L2")' = Inquiries(u, "L2")
        BY <1>9, <2>3
      <3>2. i \in Inquiries(u, "L2")
        BY <3>1
      <3>3. /\ \E j \in Inquiries(u, "L1") :
                   j.status = "DELIVERED" /\ j.at + L2Wait <= i.at
            /\ i.effect.key[1] < i.at
            /\ Inquiries(u, "L2") = {i}
        BY <3>2 DEF FollowInv, InquiriesAreSpaced
      <3> QED BY <2>1, <3>1, <3>3
    <2> QED BY <2>2, <2>3
  <1>12. InquiriesAreSpaced'
    BY <1>10, <1>11 DEF InquiriesAreSpaced
  <1> QED BY <1>1, <1>7, <1>8, <1>12 DEF FollowInv

\* What an intervention says of an inquiry does not change when it arrives.
LEMMA DeliverFollows ==
  ASSUME FollowInv, TypeOK', NEW i \in touches, Deliver(i)
  PROVE  FollowInv'
  <1>1. TypeOK /\ TimesPass /\ IsFiniteSet(touches)
    BY DEF FollowInv
  <1>2. PICK heard : heard = [i EXCEPT !.status = "DELIVERED"]
    OBVIOUS
  <1>3. /\ touches' = (touches \ {i}) \cup {heard}
        /\ now' = now /\ tick' = tick /\ task' = task
        /\ heard.at = i.at /\ heard.effect = i.effect /\ heard.to = i.to
        /\ heard.status = "DELIVERED"
    BY <1>1, <1>2 DEF Deliver, TypeOK, work
  <1>4. TimesPass'
    BY <1>1, <1>3 DEF TimesPass, Planning
  <1>5. /\ IsFiniteSet(touches')
        /\ \A p, day : /\ Cardinality(Contacts(p, day)') <= Cardinality(Contacts(p, day))
                       /\ Cardinality(Contacts(p, day)) \in Nat
                       /\ Cardinality(Contacts(p, day)') \in Nat
    <2>1. /\ IsFiniteSet(touches')
          /\ \A p, day : Cardinality(Contacts(p, day)') <= Cardinality(Contacts(p, day))
      BY <1>1, DeliveredOnce
    <2>2. ASSUME NEW p, NEW day
          PROVE  /\ Cardinality(Contacts(p, day)) \in Nat
                 /\ Cardinality(Contacts(p, day)') \in Nat
      <3>1. IsFiniteSet(Contacts(p, day)')
        BY <2>1, FS_Subset DEF Contacts
      <3> QED BY <1>1, <3>1, CountsAreNumbers, FS_CardinalityType
    <2> QED BY <2>1, <2>2
  <1>6. TouchBudget \in Nat
    BY ConstantFacts
  <1>7. TouchBudgetIsKept'
    <2>1. ASSUME NEW p \in People, NEW day \in 0 .. MaxTime \div Day
          PROVE  Cardinality(Contacts(p, day)') <= TouchBudget
      <3>1. Cardinality(Contacts(p, day)) <= TouchBudget
        BY DEF FollowInv, TouchBudgetIsKept, Contacts
      <3> QED BY <1>5, <1>6, <3>1
    <2> QED BY <2>1 DEF TouchBudgetIsKept, Contacts
  <1>8. ASSUME NEW p, TouchesToday(p) < TouchBudget
        PROVE  TouchesToday(p)' < TouchBudget
    <2>1. PICK today : today = now \div Day
      OBVIOUS
    <2>2. /\ TouchesToday(p) = Cardinality(Contacts(p, today))
          /\ TouchesToday(p)' = Cardinality(Contacts(p, today)')
      BY <1>3, <2>1 DEF TouchesToday, Contacts
    <2> QED BY <1>5, <1>6, <1>8, <2>2
  <1>9. PlanHasRoom'
    <2>1. ASSUME Planning, NEW e \in tick.plan
          PROVE  /\ e.task \in DOMAIN tick.seen
                 /\ TouchesToday(tick.seen[e.task].owner)' < TouchBudget
      <3>1. PICK p : p = tick.seen[e.task].owner
        OBVIOUS
      <3>2. e.task \in DOMAIN tick.seen /\ TouchesToday(p) < TouchBudget
        BY <2>1, <3>1 DEF FollowInv, PlanHasRoom
      <3>3. TouchesToday(p)' < TouchBudget
        BY <1>8, <3>2
      <3> QED BY <1>3, <3>1, <3>2, <3>3
    <2> QED BY <1>3, <2>1 DEF PlanHasRoom, Planning
  \* Every inquiry was one before, planned or arrived.
  <1> DEFINE Before(k) == IF k = heard THEN i ELSE k
  <1>10. ASSUME NEW u, NEW level, NEW k \in Inquiries(u, level)'
         PROVE  /\ Before(k) \in Inquiries(u, level)
                /\ Before(k).at = k.at /\ Before(k).effect = k.effect
    BY <1>3 DEF Inquiries
  <1>11. ASSUME NEW u, NEW level, NEW k \in Inquiries(u, level)
         PROVE  \E l \in Inquiries(u, level)' :
                    /\ l.at = k.at /\ (k.status = "DELIVERED" => l.status = "DELIVERED")
    <2>1. CASE k = i
      BY <1>3, <2>1 DEF Inquiries
    <2>2. CASE k # i
      BY <1>3, <2>2 DEF Inquiries
    <2> QED BY <2>1, <2>2
  <1>12. ASSUME NEW k \in touches', NEW l \in touches', k # l
         PROVE  Before(k) # Before(l)
    BY <1>3, <1>12
  <1> HIDE DEF Before
  <1>13. PlanIsSpaced'
    <2>1. ASSUME NEW e, MayFollow(e) PROVE MayFollow(e)'
      <3>1. ASSUME IsInquiry(e, "L1"), NEW k \in Inquiries(e.task, "L1")'
            PROVE  k.at < e.key[1] /\ k.at + Cooldown <= now'
        BY <1>3, <1>10, <2>1, <3>1 DEF MayFollow
      <3>2. ASSUME IsInquiry(e, "L2")
            PROVE  /\ Inquiries(e.task, "L2")' = {} /\ e.key[1] < now'
                   /\ \E k \in Inquiries(e.task, "L1")' :
                          k.status = "DELIVERED" /\ k.at + L2Wait <= now'
        <4>1. /\ Inquiries(e.task, "L2") = {} /\ e.key[1] < now
              /\ \E k \in Inquiries(e.task, "L1") :
                     k.status = "DELIVERED" /\ k.at + L2Wait <= now
          BY <2>1, <3>2 DEF MayFollow
        <4>2. Inquiries(e.task, "L2")' = {}
          BY <1>10, <4>1
        <4>3. \E k \in Inquiries(e.task, "L1")' :
                  k.status = "DELIVERED" /\ k.at + L2Wait <= now
          BY <1>11, <4>1
        <4> QED BY <1>3, <4>1, <4>2, <4>3
      <3>3. e.key[1] \in Nat
        BY <2>1 DEF MayFollow
      <3> QED BY <3>1, <3>2, <3>3 DEF MayFollow, IsInquiry
    <2>2. ASSUME Planning, NEW e \in tick.plan PROVE MayFollow(e)'
      <3>1. MayFollow(e)
        BY <2>2 DEF FollowInv, PlanIsSpaced
      <3> QED BY <2>1, <3>1
    <2> QED BY <1>3, <2>2 DEF PlanIsSpaced, Planning
  <1>14. InquiriesAreSpaced'
    <2>1. ASSUME NEW u \in Tasks, NEW k \in Inquiries(u, "L1")',
                 NEW l \in Inquiries(u, "L1")', k # l, k.at <= l.at
          PROVE  k.at + Cooldown <= l.at /\ k.at < l.effect.key[1]
      <3>1. k \in touches' /\ l \in touches'
        BY DEF Inquiries
      <3>2. PICK a, b : a = Before(k) /\ b = Before(l)
        OBVIOUS
      <3>3. /\ a # b /\ a \in Inquiries(u, "L1") /\ b \in Inquiries(u, "L1")
            /\ a.at = k.at /\ b.at = l.at /\ b.effect = l.effect
        BY <1>10, <1>12, <2>1, <3>1, <3>2
      <3>4. a.at + Cooldown <= b.at /\ a.at < b.effect.key[1]
        BY <2>1, <3>3 DEF FollowInv, InquiriesAreSpaced
      <3> QED BY <3>3, <3>4
    <2>2. ASSUME NEW u \in Tasks, NEW k \in Inquiries(u, "L2")'
          PROVE  /\ \E l \in Inquiries(u, "L1")' :
                       l.status = "DELIVERED" /\ l.at + L2Wait <= k.at
                 /\ k.effect.key[1] < k.at
                 /\ Inquiries(u, "L2")' = {k}
      <3>1. PICK a : a = Before(k)
        OBVIOUS
      <3>2. a \in Inquiries(u, "L2") /\ a.at = k.at /\ a.effect = k.effect
        BY <1>10, <3>1
      <3>3. /\ \E l \in Inquiries(u, "L1") :
                   l.status = "DELIVERED" /\ l.at + L2Wait <= a.at
            /\ a.effect.key[1] < a.at
            /\ Inquiries(u, "L2") = {a}
        BY <3>2 DEF FollowInv, InquiriesAreSpaced
      <3>4. \E l \in Inquiries(u, "L1")' :
                l.status = "DELIVERED" /\ l.at + L2Wait <= k.at
        BY <1>11, <3>2, <3>3
      <3>5. ASSUME NEW l \in Inquiries(u, "L2")' PROVE l = k
        <4>1. Before(l) = a
          BY <1>10, <3>3
        <4>2. l \in touches' /\ k \in touches'
          BY DEF Inquiries
        <4> QED BY <1>12, <3>1, <4>1, <4>2
      <3> QED BY <3>2, <3>3, <3>4, <3>5
    <2> QED BY <2>1, <2>2 DEF InquiriesAreSpaced
  <1> QED BY <1>4, <1>5, <1>7, <1>9, <1>13, <1>14 DEF FollowInv

LEMMA FollowKept == FollowInv /\ [Next]_vars => FollowInv'
  <1> SUFFICES ASSUME FollowInv, [Next]_vars PROVE FollowInv'
    OBVIOUS
  <1>1. TypeOK /\ TypeOK' /\ now \in Nat /\ now' \in Nat
    BY TypeKept DEF FollowInv, TypeOK
  <1>2. ASSUME NEW t \in Tasks, Request(t) PROVE FollowInv'
    BY <1>1, <1>2, QuietKept DEF Request
  <1>3. CASE Advance
    <2>1. ~Planning' /\ touches' = touches /\ now <= now'
      BY <1>1, <1>3, ConstantFacts DEF Advance, Planning
    <2> QED BY <1>1, <2>1, QuietKept
  <1>4. CASE ReadTasks
    <2>1. PICK followed : followed = {t \in Tasks : Followed(t)}
      OBVIOUS
    <2>2. /\ touches' = touches /\ now' = now
          /\ tick' = IF followed = {} THEN Idle
                     ELSE [step |-> "evaluating", time |-> now, plan |-> {},
                           seen |-> [t \in followed |-> task[t]]]
      BY <1>4, <2>1 DEF ReadTasks
    <2>3. Planning' => tick'.plan = {} /\ tick'.time <= now'
      BY <1>1, <2>2 DEF Idle, Planning
    <2> QED BY <1>1, <2>2, <2>3, QuietKept
  <1>5. CASE Evaluate
    BY <1>5, ConsiderFollows, PlanFollows DEF Evaluate, Planning
  <1>6. ASSUME NEW i \in touches, Deliver(i) PROVE FollowInv'
    BY <1>1, <1>6, DeliverFollows
  <1>7. CASE CatchUp
    <2>1. touches' = touches /\ tick' = tick /\ now <= now'
      BY <1>1, <1>7, ConstantFacts DEF CatchUp
    <2> QED BY <1>1, <2>1, QuietKept
  <1>8. CASE Stop
    <2>1. ~Planning' /\ touches' = touches /\ now' = now
      BY <1>8 DEF Stop, Down, Planning
    <2> QED BY <1>1, <2>1, QuietKept
  <1>9. CASE Restart
    <2>1. ~Planning' /\ touches' = touches /\ now <= now'
      BY <1>1, <1>9, ConstantFacts DEF Restart, Idle, Planning
    <2> QED BY <1>1, <2>1, QuietKept
  <1>10. CASE UNCHANGED vars
    <2>1. touches' = touches /\ tick' = tick /\ now' = now
      BY <1>10 DEF vars
    <2> QED BY <1>1, <2>1, QuietKept
  <1> QED
    BY <1>2, <1>3, <1>4, <1>5, <1>6, <1>7, <1>8, <1>9, <1>10 DEF Next, Tick

LEMMA InitFollows == Init => FollowInv
  <1> SUFFICES ASSUME Init PROVE FollowInv
    OBVIOUS
  <1>1. touches = {} /\ ~Planning
    BY DEF Init, Idle, Planning
  <1>2. IsFiniteSet(touches) /\ TimesPass /\ PlanHasRoom /\ PlanIsSpaced
    BY <1>1, FS_EmptySet DEF TimesPass, PlanHasRoom, PlanIsSpaced
  <1>3. TouchBudgetIsKept
    <2>1. TouchBudget \in Nat /\ Cardinality({}) = 0
      BY ConstantFacts, FS_EmptySet
    <2>2. \A p, day : {i \in touches : i.to = p /\ i.at \div Day = day} = {}
      BY <1>1
    <2> QED BY <2>1, <2>2 DEF TouchBudgetIsKept
  <1>4. InquiriesAreSpaced
    BY <1>1 DEF InquiriesAreSpaced, Inquiries
  <1> QED BY <1>2, <1>3, <1>4, InitTyped DEF FollowInv

LEMMA FollowAlways == Spec => []FollowInv
  BY InitFollows, FollowKept, PTL DEF Spec

\* service.py:8354.  Whatever the policy, the tasks and the people, through
\* restarts and interventions that never arrive: on no day is a person
\* contacted more often than the budget allows.
THEOREM NobodyIsPestered == Spec => []TouchBudgetIsKept
  <1>1. FollowInv => TouchBudgetIsKept
    BY DEF FollowInv
  <1> QED BY FollowAlways, <1>1, PTL

\* service.py:8213.  However old what the tick had read, a second inquiry came
\* after a pause and after an answer to the first, and an escalation once,
\* past a deadline and a while after an inquiry that had arrived.
THEOREM InquiriesKeepTheirDistance == Spec => []InquiriesAreSpaced
  <1>1. FollowInv => InquiriesAreSpaced
    BY DEF FollowInv
  <1> QED BY FollowAlways, <1>1, PTL

\* service.py:8354.  What a tick has collected and not yet written still has
\* room in its people's day and still follows what stands, whatever they
\* reported, promised or delivered, and whatever arrived, since it was
\* collected: the transaction that plans needs no second look.
THEOREM PlansStillFit == Spec => [](PlanHasRoom /\ PlanIsSpaced)
  <1>1. FollowInv => PlanHasRoom /\ PlanIsSpaced
    BY DEF FollowInv
  <1> QED BY FollowAlways, <1>1, PTL
=============================================================================
