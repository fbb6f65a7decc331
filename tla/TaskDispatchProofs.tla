------------------------- MODULE TaskDispatchProofs -------------------------
(***************************************************************************)
(* Proofs about TaskDispatch, for every roster and every bound: type       *)
(* correctness, who holds the OWNER part, the one live commitment, that    *)
(* parts only move by handover, and that TaskDispatch implements           *)
(* WorkAgreement; and about TaskTerms, which adds what a task asks for:    *)
(* who knows the wording, and where merges lead.                           *)
(***************************************************************************)
EXTENDS TaskTerms, SequenceTheorems, TLAPS

USE DEF Definitions, Draft, Submittable, Worked, Statuses, Roles, Responses

LEMMA ActorFacts ==
    /\ NoActor \notin Roster
    /\ Participants \subseteq Roster
BY ActorsAssumption DEF Roster

LEMMA InitTyped == Init => TypeOK
BY BoundsAssumption DEF Init, TypeOK, Offers, NoOffer, Roster

\* An offer that names a receiver is a real offer.
LEMMA OfferIsReal ==
    ASSUME TypeOK, NEW giver \in Roster, NEW receiver \in Roster,
           offers[giver].to = receiver
    PROVE  /\ offers[giver].role \in Roles
           /\ offers[giver] # NoOffer
BY ActorFacts DEF TypeOK, Offers, NoOffer

LEMMA TypeKept == TypeOK /\ [Next]_vars => TypeOK'
<1> SUFFICES ASSUME TypeOK, [Next]_vars PROVE TypeOK'
    OBVIOUS
<1> USE ActorFacts
<1>1. CASE Revise
    BY <1>1 DEF Revise, TypeOK
<1>2. CASE Discard
    BY <1>2 DEF Discard, TypeOK
<1>3. ASSUME NEW o \in Participants, NEW helpers \in SUBSET Participants,
             Dispatch(o, helpers)
      PROVE  TypeOK'
    <2> DEFINE v == IF status = "NEEDS_REVISION" THEN definition + 1
                    ELSE definition
    <2>1. /\ v \in Definitions
          /\ definition' = v
          /\ status' = "PENDING_ASSIGNMENT"
          /\ collaborators' = helpers
          /\ role' = [role EXCEPT ![v] =
                         [a \in Roster |-> IF a = o THEN "OWNER"
                                           ELSE IF a \in helpers
                                                THEN "COLLABORATOR"
                                                ELSE role[v][a]]]
          /\ response' = [response EXCEPT ![v] =
                             [a \in Roster |-> IF a \in {o} \cup helpers
                                               THEN "PENDING"
                                               ELSE response[v][a]]]
          /\ UNCHANGED <<teamTime, owner, commitments, active, offers>>
        BY <1>3 DEF Dispatch
    <2> HIDE DEF v
    <2> QED BY <2>1 DEF TypeOK
<1>4. ASSUME NEW a \in Participants, Return(a) PROVE TypeOK'
    BY <1>4 DEF Return, Voided, OnTask, TypeOK
<1>5. ASSUME NEW a \in Participants, AcceptAndWait(a) PROVE TypeOK'
    BY <1>5 DEF AcceptAndWait, TypeOK
<1>6. ASSUME NEW a \in Participants, AcceptAndActivate(a) PROVE TypeOK'
    BY <1>6 DEF AcceptAndActivate, TypeOK, Commitments
<1>7. ASSUME NEW a \in Participants, ReviseCommitment(a) PROVE TypeOK'
    <2> DEFINE superseded == [commitments EXCEPT ![active].state = "SUPERSEDED"]
    <2>1. superseded \in Seq(Commitments)
        <3>1. commitments[active] \in Commitments
            BY <1>7 DEF ReviseCommitment, TypeOK
        <3>2. [commitments[active] EXCEPT !.state = "SUPERSEDED"] \in Commitments
            BY <3>1 DEF Commitments
        <3> QED BY <1>7, <3>2, ExceptSeq DEF ReviseCommitment, TypeOK
    <2>2. [owner |-> a, state |-> "ACTIVE"] \in Commitments
        BY DEF Commitments
    <2>3. commitments' = Append(superseded, [owner |-> a, state |-> "ACTIVE"])
        BY <1>7 DEF ReviseCommitment, RevisedCommitments
    <2>4. commitments' \in Seq(Commitments)
        BY <2>1, <2>2, <2>3, AppendProperties
    <2> QED BY <1>7, <2>4 DEF ReviseCommitment, TypeOK
<1>8. ASSUME NEW giver \in Roster, NEW receiver \in Roster,
             ProposeHandoff(giver, receiver)
      PROVE  TypeOK'
    <2>1. role[definition][giver] \in Roles
        BY <1>8 DEF ProposeHandoff, MayOffer, Accepted, TypeOK
    <2> QED BY <1>8, <2>1 DEF ProposeHandoff, TypeOK, Offers
<1>9. ASSUME NEW giver \in Roster, NEW receiver \in Roster,
             AcceptHandoff(giver, receiver)
      PROVE  TypeOK'
    BY <1>9, OfferIsReal
       DEF AcceptHandoff, HandedRow, OwnerAfter, CollaboratorsAfter,
           Answered, TypeOK, Offers
<1>10. ASSUME NEW giver \in Roster, NEW receiver \in Roster,
              DeclineHandoff(giver, receiver)
       PROVE  TypeOK'
    BY <1>10 DEF DeclineHandoff, Answered, TypeOK, Offers
<1>11. CASE DeliveryStep
    BY <1>11 DEF DeliveryStep, WorkMove, TypeOK
<1>12. CASE UNCHANGED vars
    BY <1>12 DEF vars, TypeOK
<1> QED
    BY <1>1, <1>2, <1>3, <1>4, <1>5, <1>6, <1>7, <1>8, <1>9, <1>10, <1>11,
       <1>12
    DEF Next, Respond, Handoff

\* Every variable keeps its type (all commands of the dispatch).
THEOREM TypeCorrect == Spec => []TypeOK
BY InitTyped, TypeKept, PTL DEF Spec

-----------------------------------------------------------------------------
(* The rounds of an assignment and the offers made on it.  No offer stands *)
(* outside a task in work, which is why a new round finds none.            *)

RoundInv ==
    TypeOK /\ AnswersFitTheStatus /\ EarlierRoundsAreClosed /\ OffersAreHeld

LEMMA InitRounds == Init => RoundInv
<1> SUFFICES ASSUME Init PROVE RoundInv
    OBVIOUS
<1>1. definition \in Definitions
    BY InitTyped DEF TypeOK
<1>2. \A d \in Definitions, a \in Roster : response[d][a] = "NONE"
    BY DEF Init
<1>3. AnswersFitTheStatus
    BY <1>1, <1>2 DEF AnswersFitTheStatus, OnTask, Init
<1>4. EarlierRoundsAreClosed
    BY <1>2 DEF EarlierRoundsAreClosed
<1>5. OffersAreHeld
    BY DEF OffersAreHeld, Init
<1> QED BY <1>3, <1>4, <1>5, InitTyped DEF RoundInv

\* What Dispatch writes: the new round waits for exactly its recipients.
LEMMA DispatchedRound ==
    ASSUME TypeOK, NEW o \in Participants,
           NEW helpers \in SUBSET Participants, Dispatch(o, helpers)
    PROVE  /\ definition' \in {definition, definition + 1}
           /\ definition' = definition + 1 => status = "NEEDS_REVISION"
           /\ \A d \in Definitions \ {definition'} : response'[d] = response[d]
           /\ \A a \in {o} \cup helpers : response'[definition'][a] = "PENDING"
           /\ \A a \in Roster \ ({o} \cup helpers) :
                 response'[definition'][a] = response[definition'][a]
<1> DEFINE v == IF status = "NEEDS_REVISION" THEN definition + 1
                ELSE definition
<1>1. /\ v \in Definitions
      /\ definition' = v
      /\ response' = [response EXCEPT ![v] =
                         [a \in Roster |-> IF a \in {o} \cup helpers
                                           THEN "PENDING"
                                           ELSE response[v][a]]]
    BY DEF Dispatch
<1>2. /\ v \in {definition, definition + 1}
      /\ v = definition + 1 => status = "NEEDS_REVISION"
    BY DEF TypeOK
<1> HIDE DEF v
<1> QED BY <1>1, <1>2, ActorFacts DEF TypeOK

LEMMA RoundsKept == RoundInv /\ [Next]_vars => RoundInv'
<1> SUFFICES ASSUME RoundInv, [Next]_vars
             PROVE  AnswersFitTheStatus' /\ EarlierRoundsAreClosed'
                    /\ OffersAreHeld'
    BY TypeKept DEF RoundInv
<1>0. TypeOK /\ TypeOK'
    BY TypeKept DEF RoundInv
<1> USE ActorFacts DEF AnswersFitTheStatus, EarlierRoundsAreClosed,
        OffersAreHeld, Accepted, OnTask
<1>1. CASE Revise
    BY <1>1 DEF Revise, RoundInv
<1>2. CASE Discard
    BY <1>2 DEF Discard, RoundInv
<1>3. ASSUME NEW o \in Participants, NEW helpers \in SUBSET Participants,
             Dispatch(o, helpers)
      PROVE  AnswersFitTheStatus' /\ EarlierRoundsAreClosed' /\ OffersAreHeld'
    <2>1. status \in Draft /\ status' = "PENDING_ASSIGNMENT" /\ offers' = offers
        BY <1>3 DEF Dispatch
    <2>2. AnswersFitTheStatus'
        BY <2>1
    <2>3. EarlierRoundsAreClosed'
        <3> SUFFICES ASSUME NEW d \in Definitions, NEW a \in Roster,
                            response'[d][a] \in {"PENDING", "ACCEPTED"},
                            d # definition'
                     PROVE  FALSE
            OBVIOUS
        <3>1. response[d][a] \in {"PENDING", "ACCEPTED"}
            BY <1>0, <1>3, DispatchedRound
        <3>2. d = definition
            BY <3>1 DEF RoundInv
        <3> QED BY <2>1, <3>1, <3>2 DEF RoundInv
    <2>4. OffersAreHeld'
        BY <2>1 DEF RoundInv
    <2> QED BY <2>2, <2>3, <2>4
<1>4. ASSUME NEW a \in Participants, Return(a)
      PROVE  AnswersFitTheStatus' /\ EarlierRoundsAreClosed' /\ OffersAreHeld'
    <2>1. /\ status = "PENDING_ASSIGNMENT"
          /\ status' = "NEEDS_REVISION"
          /\ definition' = definition
          /\ offers' = offers
          /\ \A b \in Roster :
                response'[definition][b] \notin {"PENDING", "ACCEPTED"}
          /\ \A d \in Definitions \ {definition} : response'[d] = response[d]
        BY <1>0, <1>4 DEF Return, Voided, TypeOK
    <2> QED BY <2>1 DEF RoundInv
<1>5. ASSUME NEW a \in Participants, AcceptAndWait(a)
      PROVE  AnswersFitTheStatus' /\ EarlierRoundsAreClosed' /\ OffersAreHeld'
    BY <1>0, <1>5 DEF AcceptAndWait, RoundInv, TypeOK
<1>6. ASSUME NEW a \in Participants, AcceptAndActivate(a)
      PROVE  AnswersFitTheStatus' /\ EarlierRoundsAreClosed' /\ OffersAreHeld'
    <2>1. /\ status = "PENDING_ASSIGNMENT"
          /\ definition' = definition
          /\ offers' = offers
          /\ response' = [response EXCEPT ![definition][a] = "ACCEPTED"]
          /\ \A b \in Roster \ {a} :
                response[definition][b] \in {"NONE", "ACCEPTED"}
          /\ status' = "TRACKING"
        BY <1>6 DEF AcceptAndActivate, EverybodyElseAccepted
    <2> QED BY <1>0, <2>1 DEF RoundInv, TypeOK
<1>7. ASSUME NEW a \in Participants, ReviseCommitment(a)
      PROVE  AnswersFitTheStatus' /\ EarlierRoundsAreClosed' /\ OffersAreHeld'
    BY <1>7 DEF ReviseCommitment, RoundInv
<1>8. ASSUME NEW giver \in Roster, NEW receiver \in Roster,
             ProposeHandoff(giver, receiver)
      PROVE  AnswersFitTheStatus' /\ EarlierRoundsAreClosed' /\ OffersAreHeld'
    BY <1>0, <1>8 DEF ProposeHandoff, MayOffer, RoundInv, TypeOK
<1>9. ASSUME NEW giver \in Roster, NEW receiver \in Roster,
             AcceptHandoff(giver, receiver)
      PROVE  AnswersFitTheStatus' /\ EarlierRoundsAreClosed' /\ OffersAreHeld'
    <2>1. offers[giver] # NoOffer
        BY <1>0, <1>9, OfferIsReal DEF AcceptHandoff
    <2>2. /\ status \in Worked
          /\ receiver # giver
          /\ Accepted(giver)
        BY <1>9, <2>1 DEF AcceptHandoff, RoundInv
    <2>3. /\ status' = status
          /\ definition' = definition
          /\ offers' = [offers EXCEPT ![giver] = NoOffer]
        BY <1>9 DEF AcceptHandoff, Answered
    <2>4. /\ response'[definition][giver] = "SUPERSEDED"
          /\ response'[definition][receiver] = "ACCEPTED"
          /\ \A b \in Roster \ {giver, receiver} :
                response'[definition][b] = response[definition][b]
          /\ \A d \in Definitions \ {definition} : response'[d] = response[d]
        BY <1>0, <1>9, <2>2 DEF AcceptHandoff, HandedRow, TypeOK
    <2>5. AnswersFitTheStatus'
        BY <1>0, <2>2, <2>3, <2>4 DEF RoundInv
    <2>6. EarlierRoundsAreClosed'
        BY <1>0, <2>2, <2>3, <2>4 DEF RoundInv
    <2>7. OffersAreHeld'
        BY <1>0, <2>2, <2>3, <2>4 DEF RoundInv, TypeOK
    <2> QED BY <2>5, <2>6, <2>7
<1>10. ASSUME NEW giver \in Roster, NEW receiver \in Roster,
              DeclineHandoff(giver, receiver)
       PROVE  AnswersFitTheStatus' /\ EarlierRoundsAreClosed' /\ OffersAreHeld'
    BY <1>0, <1>10 DEF DeclineHandoff, Answered, RoundInv, TypeOK
<1>11. CASE DeliveryStep
    BY <1>11 DEF DeliveryStep, WorkMove, RoundInv
<1>12. CASE UNCHANGED vars
    BY <1>12 DEF vars, RoundInv
<1> QED
    BY <1>1, <1>2, <1>3, <1>4, <1>5, <1>6, <1>7, <1>8, <1>9, <1>10, <1>11,
       <1>12
    DEF Next, Respond, Handoff

LEMMA RoundsHold == Spec => []RoundInv
BY InitRounds, RoundsKept, PTL DEF Spec

\* Nobody waits or is counted on outside a round (respond_to_assignment).
THEOREM AnswersAlwaysFit == Spec => []AnswersFitTheStatus
BY RoundsHold, PTL DEF RoundInv

\* A returned round leaves no open row (dispatch_action,
\* respond_to_assignment).
THEOREM ReturnedRoundsStayClosed == Spec => []EarlierRoundsAreClosed
BY RoundsHold, PTL DEF RoundInv

\* Whoever offers a part still holds it (propose_handoff, respond_to_handoff).
THEOREM OfferedPartsAreHeld == Spec => []OffersAreHeld
BY RoundsHold, PTL DEF RoundInv

-----------------------------------------------------------------------------
(* The OWNER part.  Accepting an OWNER offer supersedes the giver's row,   *)
(* and the giver was the owner, so nobody else is left with that part.     *)

OwnerInv == RoundInv /\ OwnerPartIsTheOwners

LEMMA OwnerKept == OwnerInv /\ [Next]_vars => OwnerPartIsTheOwners'
<1> SUFFICES ASSUME OwnerInv, [Next]_vars PROVE OwnerPartIsTheOwners'
    OBVIOUS
<1>0. /\ TypeOK /\ TypeOK'
      /\ AnswersFitTheStatus /\ OffersAreHeld /\ OwnerPartIsTheOwners
    BY TypeKept DEF OwnerInv, RoundInv
<1> USE ActorFacts DEF OwnerPartIsTheOwners, HoldsRow, Accepted
<1>1. CASE Revise
    BY <1>0, <1>1 DEF Revise
<1>2. CASE Discard
    BY <1>0, <1>2 DEF Discard
<1>3. ASSUME NEW o \in Participants, NEW helpers \in SUBSET Participants,
             Dispatch(o, helpers)
      PROVE  OwnerPartIsTheOwners'
    BY <1>3 DEF Dispatch
<1>4. ASSUME NEW a \in Participants, Return(a) PROVE OwnerPartIsTheOwners'
    BY <1>4 DEF Return
<1>5. ASSUME NEW a \in Participants, AcceptAndWait(a)
      PROVE  OwnerPartIsTheOwners'
    BY <1>5 DEF AcceptAndWait
<1>6. ASSUME NEW a \in Participants, AcceptAndActivate(a)
      PROVE  OwnerPartIsTheOwners'
    <2>1. \A b \in Roster : offers[b] = NoOffer
        BY <1>0, <1>6 DEF AcceptAndActivate, OffersAreHeld
    <2>2. \A b \in Roster : role[definition][b] = "OWNER" => owner' = b
        BY <1>6 DEF AcceptAndActivate
    <2>3. UNCHANGED <<offers, role, definition>>
        BY <1>6 DEF AcceptAndActivate
    <2> QED BY <2>1, <2>2, <2>3 DEF NoOffer
<1>7. ASSUME NEW a \in Participants, ReviseCommitment(a)
      PROVE  OwnerPartIsTheOwners'
    BY <1>0, <1>7 DEF ReviseCommitment
<1>8. ASSUME NEW giver \in Roster, NEW receiver \in Roster,
             ProposeHandoff(giver, receiver)
      PROVE  OwnerPartIsTheOwners'
    BY <1>0, <1>8 DEF ProposeHandoff, MayOffer, TypeOK
<1>9. ASSUME NEW giver \in Roster, NEW receiver \in Roster,
             AcceptHandoff(giver, receiver)
      PROVE  OwnerPartIsTheOwners'
    <2>1. /\ status \in Worked
          /\ receiver # giver
          /\ Accepted(giver)
        BY <1>0, <1>9, OfferIsReal DEF AcceptHandoff, OffersAreHeld
    <2>2. /\ UNCHANGED <<status, definition>>
          /\ offers'[giver].role = "NONE"
          /\ \A b \in Roster \ {giver} : offers'[b] = offers[b]
          /\ ~Accepted(giver)'
          /\ role'[definition][receiver] = offers[giver].role
        BY <1>0, <1>9, <2>1
        DEF AcceptHandoff, HandedRow, Answered, NoOffer, TypeOK
    <2>3. \A b \in Roster \ {giver, receiver} :
             /\ role'[definition][b] = role[definition][b]
             /\ response'[definition][b] = response[definition][b]
        BY <1>0, <1>9, <2>1 DEF AcceptHandoff, HandedRow, TypeOK
    <2>4. owner' = OwnerAfter(giver, receiver)
        BY <1>9 DEF AcceptHandoff
    <2>5. CASE offers[giver].role = "OWNER"
        <3>1. owner = giver /\ owner' = receiver
            BY <1>0, <2>1, <2>4, <2>5 DEF OwnerAfter
        <3>2. \A b \in Roster \ {giver} :
                 ~HoldsRow(b, "OWNER") /\ offers[b].role # "OWNER"
            BY <1>0, <2>1, <3>1
        <3> QED BY <2>2, <2>3, <3>1, <3>2
    <2>6. CASE offers[giver].role # "OWNER"
        <3>1. owner' = owner
            BY <2>4, <2>6 DEF OwnerAfter
        <3> QED BY <1>0, <2>1, <2>2, <2>3, <2>6, <3>1
    <2> QED BY <2>5, <2>6
<1>10. ASSUME NEW giver \in Roster, NEW receiver \in Roster,
              DeclineHandoff(giver, receiver)
       PROVE  OwnerPartIsTheOwners'
    BY <1>0, <1>10 DEF DeclineHandoff, Answered, NoOffer, TypeOK
<1>11. CASE DeliveryStep
    BY <1>0, <1>11 DEF DeliveryStep, WorkMove
<1>12. CASE UNCHANGED vars
    BY <1>0, <1>12 DEF vars
<1> QED
    BY <1>1, <1>2, <1>3, <1>4, <1>5, <1>6, <1>7, <1>8, <1>9, <1>10, <1>11,
       <1>12
    DEF Next, Respond, Handoff

\* No second person ever holds or offers the OWNER part (propose_handoff,
\* respond_to_handoff).
THEOREM OnlyTheOwnerOwns == Spec => []OwnerPartIsTheOwners
<1>1. Init => OwnerInv
    BY InitRounds DEF Init, OwnerInv, OwnerPartIsTheOwners
<1>2. OwnerInv /\ [Next]_vars => OwnerInv'
    BY RoundsKept, OwnerKept DEF OwnerInv
<1> QED BY <1>1, <1>2, PTL DEF Spec, OwnerInv

-----------------------------------------------------------------------------
(* The one live commitment.                                                *)

CommitmentInv == TypeOK /\ OneLiveCommitment

LEMMA CommitmentKept == CommitmentInv /\ [Next]_vars => CommitmentInv'
<1> SUFFICES ASSUME CommitmentInv, [Next]_vars PROVE OneLiveCommitment'
    BY TypeKept DEF CommitmentInv
<1>0. TypeOK /\ OneLiveCommitment /\ TypeOK'
    BY TypeKept DEF CommitmentInv
<1>1. CASE UNCHANGED <<active, commitments>>
           /\ (status \in Worked <=> status' \in Worked)
    BY <1>0, <1>1 DEF OneLiveCommitment
<1>2. ASSUME NEW o \in Participants, NEW helpers \in SUBSET Participants,
             Dispatch(o, helpers)
      PROVE  OneLiveCommitment'
    BY <1>0, <1>1, <1>2 DEF Dispatch
<1>3. ASSUME NEW a \in Participants, Return(a) PROVE OneLiveCommitment'
    BY <1>0, <1>3 DEF Return, OneLiveCommitment
<1>4. ASSUME NEW a \in Participants, AcceptAndActivate(a)
      PROVE  OneLiveCommitment'
    <2>1. PICK o \in Roster :
             commitments' = Append(commitments,
                                   [owner |-> o, state |-> "ACTIVE"])
        BY <1>4 DEF AcceptAndActivate
    <2>2. /\ status' = "TRACKING"
          /\ active' = Len(commitments) + 1
          /\ \A n \in DOMAIN commitments : commitments[n].state # "ACTIVE"
        BY <1>4 DEF AcceptAndActivate
    <2>3. commitments \in Seq(Commitments)
        BY <1>0 DEF TypeOK
    <2>4. /\ Len(commitments') = Len(commitments) + 1
          /\ commitments'[Len(commitments) + 1].state = "ACTIVE"
          /\ \A n \in DOMAIN commitments : commitments'[n] = commitments[n]
          /\ DOMAIN commitments = 1 .. Len(commitments)
          /\ DOMAIN commitments' = 1 .. Len(commitments) + 1
          /\ Len(commitments) \in Nat
        BY <2>1, <2>3 DEF Commitments
    <2> QED BY <2>2, <2>4 DEF OneLiveCommitment
<1>5. ASSUME NEW a \in Participants, ReviseCommitment(a)
      PROVE  OneLiveCommitment'
    <2> DEFINE superseded == [commitments EXCEPT ![active].state = "SUPERSEDED"]
    <2>1. /\ status \in Worked
          /\ status' = status
          /\ active \in DOMAIN commitments
          /\ active = Len(commitments)
          /\ active' = active + 1
          /\ commitments' = Append(superseded,
                                   [owner |-> a, state |-> "ACTIVE"])
        BY <1>5 DEF ReviseCommitment, RevisedCommitments
    <2>2. /\ commitments \in Seq(Commitments)
          /\ commitments' \in Seq(Commitments)
          /\ DOMAIN commitments = 1 .. Len(commitments)
          /\ Len(commitments) \in Nat
        BY <1>0 DEF TypeOK
    <2>3. commitments[active] \in Commitments
        BY <2>1, <2>2
    <2>4. /\ DOMAIN superseded = DOMAIN commitments
          /\ superseded[active].state = "SUPERSEDED"
          /\ \A n \in DOMAIN commitments \ {active} :
                superseded[n] = commitments[n]
        BY <2>1, <2>3 DEF Commitments
    <2>5. superseded \in Seq(Commitments) /\ Len(superseded) = Len(commitments)
        <3>1. [commitments[active] EXCEPT !.state = "SUPERSEDED"]
              \in Commitments
            BY <2>3 DEF Commitments
        <3> QED BY <2>1, <2>2, <3>1, ExceptSeq
    <2> HIDE DEF superseded
    <2>6. /\ Len(commitments') = active + 1
          /\ commitments'[active + 1] = [owner |-> a, state |-> "ACTIVE"]
          /\ \A n \in 1 .. active : commitments'[n] = superseded[n]
          /\ DOMAIN commitments' = 1 .. active + 1
        BY <2>1, <2>2, <2>5
    <2>7. \A n \in 1 .. active : commitments'[n].state # "ACTIVE"
        BY <1>0, <2>1, <2>2, <2>4, <2>6 DEF OneLiveCommitment
    <2> QED BY <2>1, <2>2, <2>6, <2>7 DEF OneLiveCommitment
<1>6. CASE Revise \/ Discard \/ DeliveryStep \/ UNCHANGED vars
    BY <1>1, <1>6 DEF Revise, Discard, DeliveryStep, WorkMove, vars
<1>7. ASSUME NEW a \in Participants, AcceptAndWait(a)
      PROVE  OneLiveCommitment'
    BY <1>1, <1>7 DEF AcceptAndWait
<1>8. ASSUME NEW giver \in Roster, NEW receiver \in Roster,
             Handoff(giver, receiver)
      PROVE  OneLiveCommitment'
    BY <1>1, <1>8
    DEF Handoff, ProposeHandoff, AcceptHandoff, DeclineHandoff
<1> QED
    BY <1>2, <1>3, <1>4, <1>5, <1>6, <1>7, <1>8 DEF Next, Respond

\* A task in work has one ACTIVE commitment, its latest, and points at it
\* (respond_to_assignment, revise_personal_commitment).
THEOREM OneCommitmentInForce == Spec => []OneLiveCommitment
<1>1. Init => CommitmentInv
    BY InitTyped DEF Init, CommitmentInv, OneLiveCommitment
<1>2. CommitmentInv => OneLiveCommitment
    BY DEF CommitmentInv
<1> QED BY <1>1, <1>2, CommitmentKept, PTL DEF Spec

-----------------------------------------------------------------------------
(* What a step does to somebody who is on the task.                        *)

HandoverOnly ==
    \A a \in Roster :
        status \in Worked /\ Accepted(a) /\ ~Accepted(a)' =>
            \E b \in Roster : offers[a].to = b /\ Accepted(b)'

\* What AcceptHandoff writes in the round in force.
LEMMA HandedOver ==
    ASSUME RoundInv, NEW giver \in Roster, NEW receiver \in Roster,
           AcceptHandoff(giver, receiver)
    PROVE  /\ status \in Worked
           /\ receiver # giver
           /\ Accepted(giver)
           /\ offers[giver].to = receiver
           /\ UNCHANGED <<status, definition>>
           /\ response'[definition][giver] = "SUPERSEDED"
           /\ response'[definition][receiver] = "ACCEPTED"
           /\ \A b \in Roster \ {giver, receiver} :
                 response'[definition][b] = response[definition][b]
<1>1. /\ status \in Worked
      /\ receiver # giver
      /\ Accepted(giver)
      /\ offers[giver].to = receiver
    BY OfferIsReal DEF RoundInv, AcceptHandoff, OffersAreHeld
<1>2. UNCHANGED <<status, definition>>
    BY DEF AcceptHandoff
<1>3. response' = [response EXCEPT ![definition] = HandedRow(giver, receiver)]
    BY DEF AcceptHandoff
<1>4. /\ response'[definition][giver] = "SUPERSEDED"
      /\ response'[definition][receiver] = "ACCEPTED"
      /\ \A b \in Roster \ {giver, receiver} :
            response'[definition][b] = response[definition][b]
    BY <1>1, <1>3 DEF HandedRow, Accepted, RoundInv, TypeOK
<1> QED BY <1>1, <1>2, <1>4

LEMMA StepHandsOver == RoundInv /\ [Next]_vars => HandoverOnly
<1> SUFFICES ASSUME RoundInv, [Next]_vars PROVE HandoverOnly
    OBVIOUS
<1> USE ActorFacts DEF HandoverOnly
<1>1. CASE UNCHANGED <<response, definition>>
    BY <1>1 DEF Accepted
<1>2. CASE Revise \/ Discard \/ DeliveryStep \/ UNCHANGED vars
    BY <1>1, <1>2 DEF Revise, Discard, DeliveryStep, WorkMove, vars
<1>3. ASSUME NEW o \in Participants, NEW helpers \in SUBSET Participants,
             Dispatch(o, helpers)
      PROVE  HandoverOnly
    BY <1>3 DEF Dispatch
<1>4. ASSUME NEW a \in Participants, Respond(a) PROVE HandoverOnly
    BY <1>4 DEF Respond, Return, AcceptAndWait, AcceptAndActivate
<1>5. ASSUME NEW a \in Participants, ReviseCommitment(a) PROVE HandoverOnly
    BY <1>1, <1>5 DEF ReviseCommitment
<1>6. ASSUME NEW giver \in Roster, NEW receiver \in Roster,
             ProposeHandoff(giver, receiver) \/ DeclineHandoff(giver, receiver)
      PROVE  HandoverOnly
    BY <1>1, <1>6 DEF ProposeHandoff, DeclineHandoff
<1>7. ASSUME NEW giver \in Roster, NEW receiver \in Roster,
             AcceptHandoff(giver, receiver)
      PROVE  HandoverOnly
    BY <1>7, HandedOver DEF Accepted
<1> QED
    BY <1>2, <1>3, <1>4, <1>5, <1>6, <1>7 DEF Next, Handoff

\* Nobody leaves a task in work unless the person they offered their part to
\* is on it afterwards (respond_to_handoff).
THEOREM OnlyHandoverLetsGo == Spec => PartsOnlyMoveByHandover
<1>1. RoundInv /\ [Next]_vars => [HandoverOnly]_vars
    BY StepHandsOver
<1>2. Spec => [][HandoverOnly]_vars
    BY <1>1, RoundsHold, PTL DEF Spec
<1> QED BY <1>2 DEF PartsOnlyMoveByHandover, HandoverOnly

-----------------------------------------------------------------------------
(* TaskDispatch implements WorkAgreement: Dispatch is Ask, an ACCEPT is    *)
(* Agree, a RETURN is Refuse, leaving the flow is Drop, an accepted        *)
(* handoff is HandOver, and every other step is a stutter.                 *)

AskedNow == {a \in Roster : OnTask(a)}
AgreedNow == {a \in Roster : Accepted(a)}

LEMMA InitImplements == Init => Agreement!AgreementInit
<1> SUFFICES ASSUME Init PROVE Agreement!AgreementInit
    OBVIOUS
<1>1. definition \in Definitions
    BY InitTyped DEF TypeOK
<1>2. \A a \in Roster : response[definition][a] = "NONE"
    BY <1>1 DEF Init
<1>3. Phase = "draft"
    BY DEF Init, Phase
<1> QED BY <1>2, <1>3 DEF Agreement!AgreementInit, OnTask, Accepted

LEMMA DispatchAsks ==
    ASSUME RoundInv, NEW o \in Participants,
           NEW helpers \in SUBSET Participants, Dispatch(o, helpers)
    PROVE  Agreement!Ask({o} \cup helpers)
<1>1. /\ status \in Draft
      /\ status' = "PENDING_ASSIGNMENT"
    BY DEF Dispatch
<1>2. Phase = "draft" /\ Phase' = "asking"
    BY <1>1 DEF Phase
<1>3. \A a \in {o} \cup helpers : response'[definition'][a] = "PENDING"
    BY DispatchedRound DEF RoundInv
<1>4. \A a \in Roster \ ({o} \cup helpers) :
         response'[definition'][a] \notin {"PENDING", "ACCEPTED"}
    <2> SUFFICES ASSUME NEW a \in Roster \ ({o} \cup helpers)
                 PROVE  response[definition'][a] \notin {"PENDING", "ACCEPTED"}
        BY DispatchedRound DEF RoundInv
    <2>1. definition' \in Definitions
        BY DEF Dispatch
    <2>2. CASE definition' = definition
        BY <1>1, <2>2 DEF RoundInv, AnswersFitTheStatus, OnTask
    <2>3. CASE definition' # definition
        BY <2>1, <2>3 DEF RoundInv, EarlierRoundsAreClosed
    <2> QED BY <2>2, <2>3
<1>5. {o} \cup helpers \subseteq Roster
    BY ActorFacts
<1>6. AskedNow' = {o} \cup helpers /\ AgreedNow' = {}
    BY <1>3, <1>4, <1>5 DEF AskedNow, AgreedNow, OnTask, Accepted
<1> QED BY <1>2, <1>6 DEF Agreement!Ask, AskedNow, AgreedNow

LEMMA ReturnRefuses ==
    ASSUME RoundInv, NEW a \in Participants, Return(a)
    PROVE  Agreement!Refuse(a)
<1>1. /\ status = "PENDING_ASSIGNMENT"
      /\ status' = "NEEDS_REVISION"
      /\ definition' = definition
      /\ response[definition][a] = "PENDING"
      /\ \A b \in Roster :
            response'[definition][b] \notin {"PENDING", "ACCEPTED"}
    BY ActorFacts DEF Return, Voided, OnTask, RoundInv, TypeOK
<1>2. Phase = "asking" /\ Phase' = "draft"
    BY <1>1 DEF Phase
<1>3. a \in AskedNow \ AgreedNow /\ AskedNow' = {} /\ AgreedNow' = {}
    BY <1>1, ActorFacts DEF AskedNow, AgreedNow, OnTask, Accepted
<1> QED BY <1>2, <1>3 DEF Agreement!Refuse, AskedNow, AgreedNow

LEMMA AcceptAgrees ==
    ASSUME RoundInv, NEW a \in Participants,
           AcceptAndWait(a) \/ AcceptAndActivate(a)
    PROVE  Agreement!Agree(a)
<1>1. /\ status = "PENDING_ASSIGNMENT"
      /\ definition' = definition
      /\ response[definition][a] = "PENDING"
      /\ response' = [response EXCEPT ![definition][a] = "ACCEPTED"]
    BY DEF AcceptAndWait, AcceptAndActivate
<1>2. /\ response'[definition][a] = "ACCEPTED"
      /\ \A b \in Roster \ {a} :
            response'[definition][b] = response[definition][b]
    BY <1>1, ActorFacts DEF RoundInv, TypeOK
<1>3. /\ a \in AskedNow \ AgreedNow
      /\ AgreedNow' = AgreedNow \cup {a}
      /\ AskedNow' = AskedNow
    BY <1>1, <1>2, ActorFacts DEF AskedNow, AgreedNow, OnTask, Accepted
<1>4. Phase = "asking"
    BY <1>1 DEF Phase
<1>5. CASE AcceptAndWait(a)
    <2>1. PICK b \in Roster \ {a} : response[definition][b] = "PENDING"
        BY <1>5 DEF AcceptAndWait
    <2>2. b \in AskedNow /\ b \notin AgreedNow'
        BY <1>1, <1>2, <2>1 DEF AskedNow, AgreedNow, OnTask, Accepted
    <2>3. Phase' = "asking"
        BY <1>1, <1>5 DEF Phase, AcceptAndWait
    <2> QED BY <1>3, <1>4, <2>2, <2>3 DEF Agreement!Agree, AskedNow, AgreedNow
<1>6. CASE AcceptAndActivate(a)
    <2>1. \A b \in Roster \ {a} : OnTask(b) => Accepted(b)
        BY <1>6 DEF AcceptAndActivate, EverybodyElseAccepted, OnTask, Accepted
    <2>2. AgreedNow' = AskedNow'
        <3>1. AskedNow \subseteq AgreedNow \cup {a}
            BY <2>1 DEF AskedNow, AgreedNow
        <3>2. AgreedNow \subseteq AskedNow
            BY DEF AskedNow, AgreedNow, OnTask, Accepted
        <3> QED BY <1>3, <3>1, <3>2
    <2>3. Phase' = "bound"
        BY <1>6 DEF Phase, AcceptAndActivate
    <2> QED BY <1>3, <1>4, <2>2, <2>3 DEF Agreement!Agree, AskedNow, AgreedNow
<1> QED BY <1>5, <1>6

LEMMA AcceptHandsOver ==
    ASSUME RoundInv, NEW giver \in Roster, NEW receiver \in Roster,
           AcceptHandoff(giver, receiver)
    PROVE  Agreement!HandOver(giver, receiver)
<1>1. Phase = "bound" /\ Phase' = "bound"
    BY HandedOver DEF Phase
<1>2. \A b \in Roster : response[definition][b] # "PENDING"
    BY HandedOver DEF RoundInv, AnswersFitTheStatus
<1>3. /\ giver \in AgreedNow
      /\ AgreedNow' = (AgreedNow \ {giver}) \cup {receiver}
    BY HandedOver DEF AgreedNow, Accepted
<1>4. AskedNow' = AgreedNow'
    BY <1>2, HandedOver DEF AskedNow, AgreedNow, OnTask, Accepted
<1> QED BY <1>1, <1>3, <1>4, HandedOver
        DEF Agreement!HandOver, AskedNow, AgreedNow

LEMMA StepImplements ==
    RoundInv /\ [Next]_vars =>
        [Agreement!AgreementNext]_(Agreement!agreement)
<1> SUFFICES ASSUME RoundInv, [Next]_vars
             PROVE  \/ Agreement!AgreementNext
                    \/ UNCHANGED Agreement!agreement
    OBVIOUS
<1> USE ActorFacts
<1>1. ASSUME UNCHANGED <<response, definition>>, Phase' = Phase
      PROVE  UNCHANGED Agreement!agreement
    BY <1>1 DEF Agreement!agreement, OnTask, Accepted
<1>2. CASE Revise
    BY <1>1, <1>2 DEF Revise, Phase
<1>3. CASE Discard
    <2>1. Phase = "draft" /\ Phase' = "dropped"
        BY <1>3 DEF Discard, Phase
    <2>2. UNCHANGED <<response, definition>>
        BY <1>3 DEF Discard
    <2> QED BY <2>1, <2>2
            DEF Agreement!AgreementNext, Agreement!Drop, OnTask, Accepted
<1>4. ASSUME NEW o \in Participants, NEW helpers \in SUBSET Participants,
             Dispatch(o, helpers)
      PROVE  Agreement!AgreementNext
    <2>1. {o} \cup helpers \in SUBSET Roster
        OBVIOUS
    <2>2. Agreement!Ask({o} \cup helpers)
        BY <1>4, DispatchAsks
    <2> QED BY <2>1, <2>2 DEF Agreement!AgreementNext
<1>5. ASSUME NEW a \in Participants, Respond(a) PROVE Agreement!AgreementNext
    <2>1. Agreement!Refuse(a) \/ Agreement!Agree(a)
        BY <1>5, ReturnRefuses, AcceptAgrees DEF Respond
    <2> QED BY <2>1 DEF Agreement!AgreementNext
<1>6. ASSUME NEW a \in Participants, ReviseCommitment(a)
      PROVE  UNCHANGED Agreement!agreement
    BY <1>1, <1>6 DEF ReviseCommitment, Phase
<1>7. ASSUME NEW giver \in Roster, NEW receiver \in Roster,
             ProposeHandoff(giver, receiver) \/ DeclineHandoff(giver, receiver)
      PROVE  UNCHANGED Agreement!agreement
    BY <1>1, <1>7 DEF ProposeHandoff, DeclineHandoff, Phase
<1>8. ASSUME NEW giver \in Roster, NEW receiver \in Roster,
             AcceptHandoff(giver, receiver)
      PROVE  Agreement!AgreementNext
    BY <1>8, AcceptHandsOver DEF Agreement!AgreementNext
<1>9. CASE DeliveryStep
    BY <1>1, <1>9 DEF DeliveryStep, WorkMove, Phase
<1>10. CASE UNCHANGED vars
    BY <1>1, <1>10 DEF vars, Phase
<1> QED
    BY <1>2, <1>3, <1>4, <1>5, <1>6, <1>7, <1>8, <1>9, <1>10
    DEF Next, Handoff

\* The dispatch of a task keeps what WorkAgreement promises: nobody is bound
\* without agreeing, one refusal lets everybody go, and a part changes hands
\* only to somebody who takes it.
THEOREM DispatchImplementsAgreement == Spec => ImplementsAgreement
<1>1. Spec => [][Agreement!AgreementNext]_(Agreement!agreement)
    BY StepImplements, RoundsHold, PTL DEF Spec
<1>2. Spec => Agreement!AgreementInit
    BY InitImplements DEF Spec
<1> QED BY <1>1, <1>2 DEF ImplementsAgreement, Agreement!AgreementSpec

-----------------------------------------------------------------------------
(* TaskTerms.  Each of its steps is one of TaskDispatch's or leaves that   *)
(* alone, so what is proved above of the rounds holds with it.             *)

LEMMA TermsStepIsAStep == TermsNext => [Next]_vars
  BY ActorFacts DEF TermsNext, Materialize, AddItem, Proposed, Ignore, Merge,
     SendOut, TakeOver, Unworded, Reword, Amend, ProposeScope, DecideScope,
     Next, Handoff

LEMMA TermsRoundsHold == TermsSpec => []RoundInv
  <1>1. TermsInit => RoundInv
    BY InitRounds DEF TermsInit
  <1>2. RoundInv /\ [TermsNext]_<<vars, around, terms>> => RoundInv'
    BY RoundsKept, TermsStepIsAStep
  <1> QED BY <1>1, <1>2, PTL DEF TermsSpec

-----------------------------------------------------------------------------
(* The proposals that were merged away.  A merge goes into one that is     *)
(* still pending, so nothing has gone out of it.                           *)

MergedAway == \A p \in merged : p[1] # p[2] /\ StatusOf(p[1]) = "REJECTED"

MergeInv == TermsTypeOK /\ MergedAway /\ MergesLeadSomewhere

\* What was rejected is out of the flow for good.
LEMMA RejectedStays ==
  ASSUME TermsTypeOK, [TermsNext]_<<vars, around, terms>>,
         NEW p \in Proposals, StatusOf(p) = "REJECTED"
  PROVE  StatusOf(p)' = "REJECTED"
  <1>1. CASE p = It
    <2>1. status = "REJECTED"
      BY <1>1 DEF StatusOf
    <2>2. [Next]_vars
      BY TermsStepIsAStep
    <2>3. ASSUME Revise \/ Discard \/ DeliveryStep \/ UNCHANGED vars
          PROVE  status' = "REJECTED"
      BY <2>1, <2>3 DEF vars, Revise, Discard, DeliveryStep, WorkMove
    <2>4. ASSUME NEW o \in Participants, NEW helpers \in SUBSET Participants,
                 Dispatch(o, helpers)
          PROVE  status' = status
      BY <2>1, <2>4 DEF Dispatch, Draft
    <2>5. ASSUME NEW a \in Participants, Respond(a) \/ ReviseCommitment(a)
          PROVE  status' = status
      BY <2>1, <2>5 DEF Respond, Return, AcceptAndWait, AcceptAndActivate,
                        ReviseCommitment
    <2>6. ASSUME NEW giver \in Roster, NEW receiver \in Roster,
                 Handoff(giver, receiver)
          PROVE  status' = status
      BY <2>6 DEF Handoff, ProposeHandoff, AcceptHandoff, DeclineHandoff
    <2>7. status' = "REJECTED"
      BY <2>1, <2>2, <2>3, <2>4, <2>5, <2>6 DEF Next
    <2> QED BY <1>1, <2>7 DEF StatusOf
  <1>2. CASE p # It
    <2>1. p \in Hints \cup Additions /\ others[p] = "REJECTED"
      BY <1>2 DEF Proposals, StatusOf
    <2>2. others'[p] = "REJECTED"
      BY <2>1 DEF TermsTypeOK, TermsNext, Materialize, AddItem, Proposed, Ignore,
         Merge, SendOut, TakeOver, Unworded, Reword, Amend, ProposeScope,
         DecideScope, around
    <2> QED BY <1>2, <2>2 DEF StatusOf
  <1> QED BY <1>1, <1>2

LEMMA TermsTyped ==
  ASSUME RoundInv, TermsTypeOK, [TermsNext]_<<vars, around, terms>>
  PROVE  TermsTypeOK'
  <1> DEFINE AroundTyped ==
                 /\ others \in [Hints \cup Additions ->
                                   {"NONE", "PENDING_CONFIRMATION", "REJECTED"}]
                 /\ merged \subseteq Proposals \X Proposals
             ToldTyped == told \in [Roster -> SUBSET Wordings]
  <1>1. AroundTyped'
    <2>1. ASSUME NEW o \in Hints \cup Additions, Proposed(o) \/ Ignore(o)
          PROVE  AroundTyped'
      BY <2>1 DEF TermsTypeOK, Proposed, Ignore
    <2>2. ASSUME NEW s \in Proposals, NEW t \in Proposals, Merge(s, t)
          PROVE  AroundTyped'
      BY <2>2 DEF TermsTypeOK, Merge, Discard
    <2>3. CASE UNCHANGED around
      BY <2>3 DEF TermsTypeOK, around
    <2> QED BY <2>1, <2>2, <2>3
        DEF TermsNext, Materialize, AddItem, SendOut, TakeOver, Unworded, Reword,
            Amend, ProposeScope, DecideScope
  <1>2. text' \in Wordings /\ scope' \in Wordings \cup {NoWording}
    BY TermsAssumption
    DEF TermsTypeOK, TermsNext, Materialize, AddItem, Proposed, Ignore, Merge,
        SendOut, TakeOver, Unworded, Reword, Amend, ProposeScope, DecideScope, terms
  <1>3. ToldTyped'
    <2>1. ASSUME NEW group, NEW w \in Wordings, Tell(group, w)
          PROVE  ToldTyped'
      BY <2>1 DEF TermsTypeOK, Tell
    <2>2. ASSUME NEW w \in Wordings, Amend(w)
          PROVE  ToldTyped'
      BY <2>2 DEF TermsTypeOK, Amend
    <2>3. CASE told' = told
      BY <2>3 DEF TermsTypeOK
    <2>4. ASSUME NEW accept \in BOOLEAN, DecideScope(accept)
          PROVE  ToldTyped'
      <3>1. PICK w : w = text'
        OBVIOUS
      <3> QED BY <1>2, <2>1, <2>4, <3>1 DEF DecideScope
    <2>5. text \in Wordings
      BY DEF TermsTypeOK
    <2>6. ASSUME NEW w \in Wordings, Reword(w) PROVE ToldTyped'
      BY <2>1, <2>6 DEF Reword
    <2>7. ASSUME NEW o, NEW helpers, SendOut(o, helpers) PROVE ToldTyped'
      BY <2>1, <2>5, <2>7 DEF SendOut
    <2> HIDE DEF ToldTyped
    <2> QED BY <2>2, <2>3, <2>4, <2>6, <2>7
        DEF TermsNext, Materialize, AddItem, Proposed, Ignore, Merge, TakeOver,
            Unworded, ProposeScope, terms
  <1>4. notices' \subseteq (SUBSET Roster) \X Wordings
    <2>1. ASSUME NEW w \in Wordings, Amend(w)
          PROVE  notices' \subseteq (SUBSET Roster) \X Wordings
      <3>1. (OnTheTask \cup {Coordinator}) \ {owner} \in SUBSET Roster
        BY DEF OnTheTask, Roster
      <3> QED BY <2>1, <3>1 DEF TermsTypeOK, Amend
    <2>2. CASE notices' = notices
      BY <2>2 DEF TermsTypeOK
    <2> QED BY <2>1, <2>2
        DEF TermsNext, Materialize, AddItem, Proposed, Ignore, Merge, SendOut,
            TakeOver, Unworded, Reword, ProposeScope, DecideScope, terms
  <1>5. heirs' \subseteq Roster
    <2>1. ASSUME NEW group, NEW w, Tell(group, w)
          PROVE  heirs' \subseteq Roster
      BY <2>1 DEF TermsTypeOK, Tell
    <2>2. CASE heirs' = heirs \/ heirs' = {}
      BY <2>2 DEF TermsTypeOK
    <2>3. ASSUME NEW giver \in Roster, NEW receiver \in Roster,
                 TakeOver(giver, receiver)
          PROVE  heirs' \subseteq Roster
      BY <2>3 DEF TermsTypeOK, TakeOver
    <2>4. ASSUME NEW accept \in BOOLEAN, DecideScope(accept)
          PROVE  heirs' \subseteq Roster
      <3>1. \E group : Tell(group, text')
        BY <2>4 DEF DecideScope
      <3> QED BY <2>1, <3>1
    <2>5. ASSUME NEW w \in Wordings, Reword(w) PROVE heirs' \subseteq Roster
      BY <2>1, <2>5 DEF Reword
    <2>6. ASSUME NEW o, NEW helpers, SendOut(o, helpers)
          PROVE  heirs' \subseteq Roster
      BY <2>1, <2>6 DEF SendOut
    <2> QED BY <2>2, <2>3, <2>4, <2>5, <2>6
        DEF TermsNext, Materialize, AddItem, Proposed, Ignore, Merge, Unworded,
            Amend, ProposeScope, terms
  <1> QED BY <1>1, <1>2, <1>3, <1>4, <1>5 DEF TermsTypeOK

LEMMA MergeKept ==
  ASSUME RoundInv, MergeInv, [TermsNext]_<<vars, around, terms>>
  PROVE  MergeInv'
  <1>0. TermsTypeOK /\ MergedAway /\ MergesLeadSomewhere /\ TermsTypeOK'
    BY TermsTyped DEF MergeInv
  <1>1. CASE merged' = merged
    <2>1. MergedAway'
      BY <1>0, <1>1, RejectedStays DEF MergedAway, TermsTypeOK
    <2>2. MergesLeadSomewhere'
      BY <1>0, <1>1 DEF MergesLeadSomewhere
    <2> QED BY <1>0, <2>1, <2>2 DEF MergeInv
  <1>2. ASSUME NEW s \in Proposals, NEW t \in Proposals, Merge(s, t)
        PROVE  MergeInv'
    <2>1. /\ s # t /\ merged' = merged \cup {<<s, t>>}
          /\ StatusOf(t) = "PENDING_CONFIRMATION"
      BY <1>2 DEF Merge, Mergeable
    <2>2. StatusOf(s)' = "REJECTED"
      <3>1. CASE s = It
        BY <1>2, <3>1 DEF Merge, Discard, StatusOf
      <3>2. CASE s # It
        <4>1. s \in Hints \cup Additions
          BY <3>2 DEF Proposals
        <4>2. others'[s] = "REJECTED"
          BY <1>0, <1>2, <3>2, <4>1 DEF Merge, TermsTypeOK
        <4> QED BY <3>2, <4>2 DEF StatusOf
      <3> QED BY <3>1, <3>2
    <2>3. MergedAway'
      <3>1. \A p \in merged : p[1] # p[2] /\ StatusOf(p[1])' = "REJECTED"
        BY <1>0, RejectedStays DEF MergedAway, TermsTypeOK
      <3> QED BY <2>1, <2>2, <3>1 DEF MergedAway
    <2>4. \A u \in Proposals : <<t, u>> \notin merged'
      BY <1>0, <2>1 DEF MergedAway
    <2>5. MergesLeadSomewhere'
      <3> SUFFICES ASSUME NEW S \in (SUBSET Proposals) \ {{}}
                   PROVE  \E x \in S : \A u \in S : <<x, u>> \notin merged'
        BY DEF MergesLeadSomewhere
      <3>1. CASE t \in S
        BY <2>4, <3>1
      <3>2. CASE t \notin S
        <4>1. PICK x \in S : \A u \in S : <<x, u>> \notin merged
          BY <1>0 DEF MergesLeadSomewhere
        <4> QED BY <2>1, <3>2, <4>1
      <3> QED BY <3>1, <3>2
    <2> QED BY <1>0, <2>3, <2>5 DEF MergeInv
  <1> QED BY <1>1, <1>2
      DEF TermsNext, Materialize, AddItem, Proposed, Ignore, SendOut, TakeOver,
          Unworded, Reword, Amend, ProposeScope, DecideScope, around

\* No chain of merges closes on itself, so what was merged away is still part
\* of a proposal that was not (merge_action, ignore_action).
THEOREM MergesAlwaysLeadSomewhere == TermsSpec => []MergesLeadSomewhere
  <1>1. TermsInit => MergeInv
    <2>1. TermsInit => TermsTypeOK /\ merged = {}
      BY DEF TermsInit, TermsTypeOK
    <2> QED BY <2>1 DEF MergeInv, MergedAway, MergesLeadSomewhere
  <1>2. RoundInv /\ MergeInv /\ [TermsNext]_<<vars, around, terms>> => MergeInv'
    BY MergeKept
  <1>3. MergeInv => MergesLeadSomewhere
    BY DEF MergeInv
  <1> QED BY <1>1, <1>2, <1>3, TermsRoundsHold, PTL DEF TermsSpec
-----------------------------------------------------------------------------
(* The wording and who knows it.                                           *)

\* Whoever has had a part knows the wording while the task is not in work:
\* a round may still be returned, and then they wait for another wording.
\* Who took a part over may not know it.
EverybodyKnows ==
    \A a \in Roster :
        OnTask(a) \/ (status \notin Worked /\ a \in WereAsked)
            => text \in told[a] \/ a \in heirs

\* A notice that was sent has told whom it was sent to: another of the same
\* is not sent, and need not be.
NoticesTold == \A n \in notices : \A a \in n[1] : n[2] \in told[a]

\* Another scope is asked for while the task is in work.
ScopeIsOfWork == scope # NoWording => status \in Worked

WordingInv ==
    TermsTypeOK /\ EverybodyKnows /\ NoticesTold /\ ScopeIsOfWork

\* Who is told, and that nobody is made to forget.
LEMMA TellTells ==
  ASSUME TermsTypeOK, NEW group, NEW w, Tell(group, w)
  PROVE  /\ \A a \in Roster : told[a] \subseteq told'[a]
         /\ \A a \in Roster : a \in group => w \in told'[a]
         /\ \A a \in heirs : a \in Roster /\ (a \in heirs' \/ w \in told'[a])
  BY DEF Tell, TermsTypeOK

LEMMA AmendTells ==
  ASSUME WordingInv, NEW w \in Wordings, Amend(w)
  PROVE  /\ \A a \in Roster : told[a] \subseteq told'[a]
         /\ \A a \in Roster : a = owner \/ OnTask(a) => w \in told'[a]
         /\ \A a \in (OnTheTask \cup {Coordinator}) \ {owner} : w \in told'[a]
  <1>1. Coordinator \in Roster /\ OnTheTask \subseteq Roster
    BY DEF Roster, OnTheTask
  <1>2. PICK audience, notice :
            /\ audience = (OnTheTask \cup {Coordinator}) \ {owner}
            /\ notice = <<audience, w>>
    OBVIOUS
  <1>3. told' = [a \in Roster |->
                    IF a = owner \/ (a \in audience /\ notice \notin notices)
                    THEN told[a] \cup {w} ELSE told[a]]
    BY <1>2 DEF Amend
  <1>4. \A a \in Roster : told[a] \subseteq told'[a]
    BY <1>3
  <1>5. \A a \in audience : w \in told'[a]
    <2>1. CASE notice \notin notices
      BY <1>1, <1>2, <1>3, <2>1
    <2>2. CASE notice \in notices
      <3>1. \A a \in audience : w \in told[a]
        BY <1>2, <2>2 DEF WordingInv, NoticesTold
      <3> QED BY <1>1, <1>2, <1>4, <3>1
    <2> QED BY <2>1, <2>2
  <1>6. \A a \in Roster : a = owner => w \in told'[a]
    BY <1>3
  <1>7. \A a \in Roster : OnTask(a) /\ a # owner => a \in audience
    BY <1>2 DEF OnTheTask
  <1> QED BY <1>2, <1>4, <1>5, <1>6, <1>7

\* Nobody forgets, and every notice reaches whom it names.
LEMMA NoticesKept ==
  ASSUME WordingInv, [TermsNext]_<<vars, around, terms>>
  PROVE  NoticesTold' /\ \A a \in Roster : told[a] \subseteq told'[a]
  <1>0. TermsTypeOK /\ NoticesTold
    BY DEF WordingInv
  <1>1. ASSUME NEW w \in Wordings, Amend(w)
        PROVE  NoticesTold' /\ \A a \in Roster : told[a] \subseteq told'[a]
    <2>1. PICK audience : audience = (OnTheTask \cup {Coordinator}) \ {owner}
      OBVIOUS
    <2>2. /\ notices' = notices \cup {<<audience, w>>}
          /\ \A a \in audience : w \in told'[a]
          /\ \A a \in Roster : told[a] \subseteq told'[a]
      BY <1>1, <2>1, AmendTells DEF Amend
    <2>3. \A n \in notices : \A a \in n[1] : a \in Roster /\ n[2] \in told[a]
      BY <1>0 DEF TermsTypeOK, NoticesTold
    <2> QED BY <2>2, <2>3 DEF NoticesTold
  <1>2. ASSUME notices' = notices, told' = told \/ \E group, w : Tell(group, w)
        PROVE  NoticesTold' /\ \A a \in Roster : told[a] \subseteq told'[a]
    <2>1. \A a \in Roster : told[a] \subseteq told'[a]
      BY <1>0, <1>2, TellTells
    <2>2. \A n \in notices : \A a \in n[1] : a \in Roster /\ n[2] \in told[a]
      BY <1>0 DEF TermsTypeOK, NoticesTold
    <2> QED BY <1>2, <2>1, <2>2 DEF NoticesTold
  <1>3. CASE UNCHANGED terms
    BY <1>2, <1>3 DEF terms
  <1> QED BY <1>1, <1>2, <1>3
      DEF TermsNext, Materialize, AddItem, Proposed, Ignore, Merge, SendOut,
          TakeOver, Unworded, Reword, ProposeScope, DecideScope
\* Work goes on: nothing takes a task out of it.
LEMMA WorkGoesOn ==
  ASSUME [Next]_vars, status \in Worked
  PROVE  status' \in Worked
  <1>1. CASE Revise \/ Discard \/ DeliveryStep \/ UNCHANGED vars
    BY <1>1 DEF vars, Revise, Discard, DeliveryStep, WorkMove, Worked
  <1>2. ASSUME NEW o \in Participants, NEW helpers \in SUBSET Participants,
               Dispatch(o, helpers)
        PROVE  FALSE
    BY <1>2 DEF Dispatch, Draft, Worked
  <1>3. ASSUME NEW a \in Participants, Respond(a)
        PROVE  FALSE
    BY <1>3 DEF Respond, Return, AcceptAndWait, AcceptAndActivate, Worked
  <1>4. ASSUME NEW a \in Participants, ReviseCommitment(a)
        PROVE  status' = status
    BY <1>4 DEF ReviseCommitment
  <1>5. ASSUME NEW giver \in Roster, NEW receiver \in Roster,
               Handoff(giver, receiver)
        PROVE  status' = status
    BY <1>5 DEF Handoff, ProposeHandoff, AcceptHandoff, DeclineHandoff
  <1> QED BY <1>1, <1>2, <1>3, <1>4, <1>5 DEF Next

LEMMA ScopeKept ==
  ASSUME WordingInv, [TermsNext]_<<vars, around, terms>>
  PROVE  ScopeIsOfWork'
  <1>1. ScopeIsOfWork /\ [Next]_vars
    BY TermsStepIsAStep DEF WordingInv
  <1>2. ASSUME NEW a, NEW w, ProposeScope(a, w) PROVE ScopeIsOfWork'
    BY <1>2 DEF ProposeScope, Amendable, ScopeIsOfWork, vars, Worked
  <1>3. CASE scope' = scope \/ scope' = NoWording
    BY <1>1, <1>3, WorkGoesOn DEF ScopeIsOfWork
  <1> QED BY <1>2, <1>3
      DEF TermsNext, Materialize, AddItem, Proposed, Ignore, Merge, SendOut,
          TakeOver, Unworded, Reword, Amend, DecideScope, terms

\* Whom an answer makes wait for another wording was on the task.
LEMMA AnswersLeaveKnowing ==
  ASSUME RoundInv, EverybodyKnows, NEW a \in Participants, Respond(a),
         UNCHANGED terms
  PROVE  EverybodyKnows'
  <1>0. TypeOK /\ AnswersFitTheStatus /\ Participants \subseteq Roster
    BY ActorFacts DEF RoundInv
  <1>1. text' = text /\ told' = told /\ heirs' = heirs /\ definition' = definition
    BY DEF terms, Respond, Return, AcceptAndWait, AcceptAndActivate
  <1>2. status = "PENDING_ASSIGNMENT" /\ response[definition][a] = "PENDING"
    BY DEF Respond, Return, AcceptAndWait, AcceptAndActivate
  <1>3. CASE Return(a)
    <2>1. \A b \in Roster : ~OnTask(b)'
      BY <1>0, <1>3 DEF Return, Voided, OnTask, TypeOK
    <2>2. \A b \in Roster : b \in WereAsked' => b \in WereAsked \/ OnTask(b)
      <3> SUFFICES ASSUME NEW b \in Roster, NEW d \in Definitions,
                          response'[d][b] \in {"RETURNED", "SUPERSEDED"}
                   PROVE  b \in WereAsked \/ OnTask(b)
        BY DEF WereAsked
      <3>1. CASE d = definition
        BY <1>0, <1>2, <1>3, <3>1 DEF Return, Voided, OnTask, WereAsked, TypeOK
      <3>2. CASE d # definition
        BY <1>0, <1>3, <3>2 DEF Return, WereAsked, TypeOK
      <3> QED BY <3>1, <3>2
    <2>3. status \notin Worked
      BY <1>2 DEF Worked
    <2> QED BY <1>1, <2>1, <2>2, <2>3 DEF EverybodyKnows
  <1>4. CASE AcceptAndWait(a) \/ AcceptAndActivate(a)
    <2>1. response' = [response EXCEPT ![definition][a] = "ACCEPTED"]
      BY <1>4 DEF AcceptAndWait, AcceptAndActivate
    <2>2. \A b \in Roster : OnTask(b)' => OnTask(b)
      BY <1>0, <1>1, <1>2, <2>1 DEF OnTask, TypeOK
    <2>3. \A b \in Roster : b \in WereAsked' => b \in WereAsked
      <3> SUFFICES ASSUME NEW b \in Roster, NEW d \in Definitions,
                          response'[d][b] \in {"RETURNED", "SUPERSEDED"}
                   PROVE  response[d][b] \in {"RETURNED", "SUPERSEDED"}
        BY DEF WereAsked
      <3> QED BY <1>0, <2>1 DEF TypeOK
    <2>4. status \notin Worked
      BY <1>2 DEF Worked
    <2> QED BY <1>1, <2>2, <2>3, <2>4 DEF EverybodyKnows
  <1> QED BY <1>3, <1>4 DEF Respond

LEMMA SendOutTells ==
  ASSUME RoundInv, WordingInv, NEW o \in Participants,
         NEW helpers \in SUBSET Participants, SendOut(o, helpers)
  PROVE  EverybodyKnows'
  <1>0. /\ TypeOK /\ AnswersFitTheStatus /\ EarlierRoundsAreClosed
        /\ TermsTypeOK /\ EverybodyKnows /\ Dispatch(o, helpers)
    BY DEF RoundInv, WordingInv, SendOut
  <1>1. PICK asked : asked = {o} \cup helpers
    OBVIOUS
  <1>2. /\ text' = text /\ \A a \in Roster : told[a] \subseteq told'[a]
        /\ \A a \in Roster : a \in asked => text \in told'[a]
        /\ \A a \in heirs : a \in heirs' \/ text \in told'[a]
    BY <1>0, <1>1, TellTells DEF SendOut
  <1>3. /\ definition' \in Definitions /\ status \in Draft
        /\ \A d \in Definitions \ {definition'} : response'[d] = response[d]
        /\ \A a \in asked : response'[definition'][a] = "PENDING"
        /\ \A a \in Roster \ asked :
              response'[definition'][a] = response[definition'][a]
    <2>1. definition' \in Definitions /\ status \in Draft
      BY <1>0 DEF Dispatch
    <2>2. /\ \A d \in Definitions \ {definition'} : response'[d] = response[d]
          /\ \A a \in {o} \cup helpers : response'[definition'][a] = "PENDING"
          /\ \A a \in Roster \ ({o} \cup helpers) :
                response'[definition'][a] = response[definition'][a]
      BY <1>0, DispatchedRound
    <2> QED BY <1>1, <2>1, <2>2
  <1>4. \A a \in Roster : OnTask(a)' => a \in asked
    <2> SUFFICES ASSUME NEW a \in Roster \ asked
                 PROVE  response[definition'][a] \notin {"PENDING", "ACCEPTED"}
      BY <1>3 DEF OnTask
    <2>1. CASE definition' = definition
      BY <1>0, <1>3, <2>1 DEF AnswersFitTheStatus, OnTask
    <2>2. CASE definition' # definition
      BY <1>0, <1>3, <2>2 DEF EarlierRoundsAreClosed
    <2> QED BY <2>1, <2>2
  <1>5. \A a \in Roster : a \in WereAsked' => a \in WereAsked
    <2> SUFFICES ASSUME NEW a \in Roster, NEW d \in Definitions,
                        response'[d][a] \in {"RETURNED", "SUPERSEDED"}
                 PROVE  response[d][a] \in {"RETURNED", "SUPERSEDED"}
      BY DEF WereAsked
    <2>1. CASE d = definition' /\ a \in asked
      BY <1>3, <2>1
    <2>2. CASE d = definition' /\ a \notin asked
      BY <1>3, <2>2
    <2>3. CASE d # definition'
      BY <1>3, <2>3
    <2> QED BY <2>1, <2>2, <2>3
  <1>6. status \notin Worked
    BY <1>3 DEF Draft, Worked
  <1> QED BY <1>0, <1>2, <1>4, <1>5, <1>6 DEF EverybodyKnows

LEMMA TakeOverLeavesKnowing ==
  ASSUME RoundInv, WordingInv, NEW giver \in Roster, NEW receiver \in Roster,
         TakeOver(giver, receiver)
  PROVE  EverybodyKnows'
  <1>1. /\ text' = text /\ told' = told
        /\ heirs' = (heirs \ {giver}) \cup {receiver}
    BY DEF TakeOver
  <1>2. /\ status' \in Worked /\ definition' = definition
        /\ response'[definition][giver] = "SUPERSEDED"
        /\ \A b \in Roster \ {giver, receiver} :
              response'[definition][b] = response[definition][b]
    BY HandedOver DEF TakeOver
  <1>3. \A a \in Roster : OnTask(a)' => a = receiver \/ (a # giver /\ OnTask(a))
    BY <1>2 DEF OnTask
  <1> QED BY <1>1, <1>2, <1>3 DEF EverybodyKnows, WordingInv
LEMMA WordingKept ==
  ASSUME RoundInv, WordingInv, [TermsNext]_<<vars, around, terms>>
  PROVE  WordingInv'
  <1>0. /\ TermsTypeOK /\ EverybodyKnows /\ AnswersFitTheStatus
        /\ Participants \subseteq Roster
    BY ActorFacts DEF WordingInv, RoundInv
  <1>1. TermsTypeOK' /\ NoticesTold' /\ ScopeIsOfWork'
        /\ \A a \in Roster : told[a] \subseteq told'[a]
    BY <1>0, TermsTyped, NoticesKept, ScopeKept
  \* As many are on the task, and as many wait for a wording.
  <1> DEFINE SameHands == UNCHANGED <<status, definition, response>>
  <1>2. ASSUME status' = status \/ status' = "REJECTED" \/ status \in Worked,
               UNCHANGED <<definition, response>>, text' = text,
               \A a \in heirs : a \in heirs' \/ text \in told'[a]
        PROVE  EverybodyKnows'
    <2>1. \A a \in Roster : /\ OnTask(a)' => OnTask(a)
                            /\ a \in WereAsked' => a \in WereAsked
      BY <1>2 DEF OnTask, WereAsked
    <2>2. status' \notin Worked => status \notin Worked
      BY <1>2, TermsStepIsAStep, WorkGoesOn DEF Worked
    <2> QED BY <1>0, <1>1, <1>2, <2>1, <2>2 DEF EverybodyKnows
  <1>3. ASSUME SameHands, status \in Worked, NEW w, text' = w,
               \A a \in Roster : OnTask(a) => w \in told'[a]
        PROVE  EverybodyKnows'
    BY <1>3 DEF EverybodyKnows, OnTask
  <1>4. ASSUME NEW w \in Wordings, Reword(w) PROVE EverybodyKnows'
    <2>1. SameHands /\ text' = w /\ status \in Draft
      BY <1>4 DEF Reword, Revise
    <2>2. CASE w = text
      <3>1. \A a \in heirs : a \in heirs' \/ text \in told'[a]
        BY <1>0, <1>4, <2>2, TellTells DEF Reword
      <3> QED BY <1>2, <2>1, <2>2, <3>1
    <2>3. CASE w # text
      <3>1. \A a \in Roster : a \in WereAsked => w \in told'[a]
        BY <1>0, <1>4, <2>3, TellTells DEF Reword
      <3>2. \A a \in Roster : ~OnTask(a)' /\ (a \in WereAsked' => a \in WereAsked)
        BY <1>0, <2>1 DEF AnswersFitTheStatus, OnTask, WereAsked
      <3> QED BY <2>1, <3>1, <3>2 DEF EverybodyKnows
    <2> QED BY <2>2, <2>3
  <1>5. ASSUME NEW w \in Wordings, Amend(w) PROVE EverybodyKnows'
    <2>1. SameHands /\ text' = w /\ status \in Worked
      BY <1>5 DEF Amend, Amendable, vars, Worked
    <2>2. \A a \in Roster : OnTask(a) => w \in told'[a]
      BY <1>5, AmendTells
    <2> QED BY <1>3, <2>1, <2>2
  <1>6. ASSUME NEW accept \in BOOLEAN, DecideScope(accept) PROVE EverybodyKnows'
    <2>1. PICK w : w = text'
      OBVIOUS
    <2>2. SameHands /\ status \in Worked
      BY <1>6 DEF DecideScope, vars, WordingInv, ScopeIsOfWork
    <2>3. \A a \in Roster : OnTask(a) /\ a # Coordinator => w \in told'[a]
      <3>1. \A a \in Roster : OnTask(a) /\ a # Coordinator =>
                /\ a \in ScopeAudience \cup {Coordinator}
                /\ a \in ScopeAudience \ {Coordinator}
        BY DEF ScopeAudience, OnTheTask
      <3>2. \/ Tell(ScopeAudience \cup {Coordinator}, w)
            \/ Tell(ScopeAudience \ {Coordinator}, w)
        BY <1>6, <2>1 DEF DecideScope
      <3> QED BY <1>0, <3>1, <3>2, TellTells
    <2>4. CASE accept
      <3>1. Tell(ScopeAudience \cup {Coordinator}, w)
        BY <1>6, <2>1, <2>4 DEF DecideScope
      <3>2. Coordinator \in Roster
        BY DEF Roster
      <3>3. w \in told'[Coordinator]
        BY <1>0, <3>1, <3>2, TellTells
      <3> QED BY <1>3, <2>1, <2>2, <2>3, <3>3
    <2>5. CASE ~accept
      <3>1. text' = text /\ \E group : Tell(group, text)
        BY <1>6, <2>5 DEF DecideScope
      <3>2. \A a \in heirs : a \in heirs' \/ text \in told'[a]
        BY <1>0, <3>1, TellTells
      <3> QED BY <1>2, <2>2, <3>1, <3>2
    <2> QED BY <2>4, <2>5
  <1>7. ASSUME NEW a \in Participants, Respond(a), UNCHANGED terms
        PROVE  EverybodyKnows'
    BY <1>0, <1>7, AnswersLeaveKnowing
  <1>8. ASSUME \/ Discard \/ DeliveryStep \/ UNCHANGED vars
               \/ \E a \in Participants : ReviseCommitment(a)
               \/ \E giver, receiver \in Roster :
                     \/ ProposeHandoff(giver, receiver)
                     \/ DeclineHandoff(giver, receiver),
               text' = text, heirs' = heirs
        PROVE  EverybodyKnows'
    BY <1>2, <1>8 DEF Discard, DeliveryStep, WorkMove, vars, ReviseCommitment,
       ProposeHandoff, DeclineHandoff, Worked
  <1>9. ASSUME Unworded PROVE EverybodyKnows'
    BY <1>7, <1>8, <1>9 DEF Unworded, terms
  <1>10. ASSUME NEW s, NEW t, Merge(s, t) PROVE EverybodyKnows'
    BY <1>8, <1>10 DEF Merge, terms
  <1>11. ASSUME UNCHANGED vars, text' = text, heirs' = heirs
         PROVE  EverybodyKnows'
    BY <1>8, <1>11
  <1> HIDE DEF SameHands
  <1>12. EverybodyKnows'
    BY <1>4, <1>5, <1>6, <1>9, <1>10, <1>11, SendOutTells, TakeOverLeavesKnowing
    DEF TermsNext, Materialize, AddItem, Proposed, Ignore, ProposeScope, terms
  <1> QED BY <1>1, <1>12 DEF WordingInv

LEMMA WordingHolds == TermsSpec => []WordingInv
  <1>1. TermsInit => WordingInv
    <2> SUFFICES ASSUME TermsInit PROVE WordingInv
      OBVIOUS
    <2>1. TermsTypeOK /\ NoticesTold /\ ScopeIsOfWork
      BY DEF TermsInit, TermsTypeOK, NoticesTold, ScopeIsOfWork
    <2>2. TypeOK /\ Init
      BY InitTyped DEF TermsInit
    <2>3. \A d \in Definitions, a \in Roster : response[d][a] = "NONE"
      BY <2>2 DEF Init
    <2>4. \A a \in Roster : ~OnTask(a) /\ a \notin WereAsked
      BY <2>2, <2>3 DEF OnTask, WereAsked, TypeOK
    <2> QED BY <2>1, <2>4 DEF WordingInv, EverybodyKnows
  <1>2. RoundInv /\ WordingInv /\ [TermsNext]_<<vars, around, terms>> => WordingInv'
    BY WordingKept
  <1> QED BY <1>1, <1>2, TermsRoundsHold, PTL DEF TermsSpec

\* Whoever works on a task, is asked to, or has returned it and waits for
\* another wording, has been sent the wording in force, except who took a part
\* over since it was put in force (dispatch_action, revise_action_proposal,
\* amend_task_description, decide_scope_change, respond_to_handoff).
THEOREM WordingsAreKnown == TermsSpec => []TermsAreTold
  <1>1. WordingInv => TermsAreTold
    BY DEF WordingInv, EverybodyKnows, TermsAreTold, Worked
  <1> QED BY <1>1, WordingHolds, PTL
=============================================================================
