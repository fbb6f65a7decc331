---------------------------- MODULE TaskDispatch ----------------------------
(***************************************************************************)
(* One ActionItem from draft to tracked work, and the hands it passes      *)
(* through: service.py's revise_action_proposal, dispatch_action,          *)
(* respond_to_assignment, ignore_action, merge_action,                     *)
(* revise_personal_commitment, propose_handoff and respond_to_handoff.     *)
(*                                                                         *)
(* Each of these opens one BEGIN IMMEDIATE transaction, so each is one     *)
(* action; a command that raises rolls back and is no step at all.  Once   *)
(* the task is tracked its status is moved by the delivery and release     *)
(* commands, which DeliveryStep stands for: this module needs only the     *)
(* statuses they leave behind, because an offered handoff survives them.   *)
(***************************************************************************)
EXTENDS Naturals, Sequences, FiniteSets, TaskStatus

CONSTANTS
    Participants,     \* actors with role PARTICIPANT or ACTION_OWNER
    Coordinator,      \* the episode's COORDINATOR
    NoActor,          \* NULL in an actor column
    MaxDefinitions,   \* bound on definition_version
    MaxRevisions      \* bound on commitment revision_no

ASSUME ActorsAssumption == NoActor \notin Participants \cup {Coordinator}
ASSUME BoundsAssumption == /\ MaxDefinitions \in Nat \ {0}
                           /\ MaxRevisions \in Nat \ {0}

\* episode_participants: the coordinator is on the roster and need not be a
\* PARTICIPANT.
Roster == Participants \cup {Coordinator}
Definitions == 1 .. MaxDefinitions

VARIABLES
    status,           \* action_items.status
    teamTime,         \* team_required_by_sim_time IS NOT NULL
    owner,            \* owner_actor_id
    definition,       \* definition_version
    role,             \* action_item_assignments.assignment_role
    response,         \* action_item_assignments.response_status
    collaborators,    \* proposal_metadata.collaborator_actor_ids
    commitments,      \* commitment_revisions, indexed by revision_no
    active,           \* active_commitment_revision_id, 0 for NULL
    offers            \* the PENDING assignment_handoffs row of each giver

vars == <<status, teamTime, owner, definition, role, response,
          collaborators, commitments, active, offers>>

Draft == {"PENDING_CONFIRMATION", "NEEDS_REVISION"}
Statuses == Draft \cup Worked \cup {"PENDING_ASSIGNMENT", "REJECTED"}
Roles == {"OWNER", "COLLABORATOR"}
Responses == {"PENDING", "ACCEPTED", "RETURNED", "SUPERSEDED"}

NoOffer == [to |-> NoActor, role |-> "NONE", definition |-> 0]
Offers == {NoOffer} \cup [to : Roster, role : Roles, definition : Definitions]
Commitments == [owner : Roster, state : {"ACTIVE", "SUPERSEDED"}]

TypeOK ==
    /\ status \in Statuses
    /\ teamTime \in BOOLEAN
    /\ owner \in Roster \cup {NoActor}
    /\ definition \in Definitions
    /\ role \in [Definitions -> [Roster -> Roles \cup {"NONE"}]]
    /\ response \in [Definitions -> [Roster -> Responses \cup {"NONE"}]]
    /\ \A d \in Definitions, a \in Roster :
           role[d][a] = "NONE" <=> response[d][a] = "NONE"
    /\ collaborators \subseteq Roster
    /\ commitments \in Seq(Commitments)
    /\ active \in Nat
    /\ offers \in [Roster -> Offers]

-----------------------------------------------------------------------------
Accepted(a) == response[definition][a] = "ACCEPTED"
OnTask(a) == response[definition][a] \in {"PENDING", "ACCEPTED"}
HoldsRow(a, r) == Accepted(a) /\ role[definition][a] = r

Init ==
    /\ status = "PENDING_CONFIRMATION"
    /\ teamTime \in BOOLEAN
    /\ owner = NoActor
    /\ definition = 1
    /\ role = [d \in Definitions |-> [a \in Roster |-> "NONE"]]
    /\ response = [d \in Definitions |-> [a \in Roster |-> "NONE"]]
    /\ collaborators = {}
    /\ commitments = <<>>
    /\ active = 0
    /\ offers = [a \in Roster |-> NoOffer]

\* revise_action_proposal: the coordinator rewrites a draft or returned task;
\* of what it writes only the team time matters here, and it is never cleared.
Revise ==
    /\ owner = NoActor
    /\ status \in Draft
    /\ teamTime' \in {teamTime, TRUE}
    /\ UNCHANGED <<status, owner, definition, role, response, collaborators,
                   commitments, active, offers>>

\* ignore_action, and merge_action seen from the source item: either way an
\* unclaimed proposal leaves the flow for good.
Discard ==
    /\ owner = NoActor
    /\ status = "PENDING_CONFIRMATION"
    /\ status' = "REJECTED"
    /\ UNCHANGED <<teamTime, owner, definition, role, response, collaborators,
                   commitments, active, offers>>

\* dispatch_action: one PENDING row per recipient under the version in force,
\* or under the next version when the last one was returned.
Dispatch(o, helpers) ==
    LET v == IF status = "NEEDS_REVISION" THEN definition + 1 ELSE definition
    IN  /\ o \notin helpers
        /\ owner = NoActor
        /\ status \in Draft
        /\ teamTime
        /\ v \in Definitions
        /\ \A a \in {o} \cup helpers : response[v][a] = "NONE"
        /\ status' = "PENDING_ASSIGNMENT"
        /\ definition' = v
        /\ collaborators' = helpers
        /\ role' = [role EXCEPT ![v] =
                       [a \in Roster |-> IF a = o THEN "OWNER"
                                         ELSE IF a \in helpers
                                              THEN "COLLABORATOR"
                                              ELSE role[v][a]]]
        /\ response' = [response EXCEPT ![v] =
                           [a \in Roster |-> IF a \in {o} \cup helpers
                                             THEN "PENDING"
                                             ELSE response[v][a]]]
        /\ UNCHANGED <<teamTime, owner, commitments, active, offers>>

\* Mutation: a return that leaves the other rows of the round alone.
ReturnedOnly(a) == [response[definition] EXCEPT ![a] = "RETURNED"]

\* The rows of the current version once a returned it: everybody else who had
\* not finished is superseded.
Voided(a) ==
    [b \in Roster |-> IF b = a THEN "RETURNED"
                      ELSE IF OnTask(b) THEN "SUPERSEDED"
                      ELSE response[definition][b]]

\* respond_to_assignment, RETURN_FOR_REVISION: one return voids the round.
Return(a) ==
    /\ status = "PENDING_ASSIGNMENT"
    /\ response[definition][a] = "PENDING"
    /\ response' = [response EXCEPT ![definition] = Voided(a)]
    /\ status' = "NEEDS_REVISION"
    /\ owner' = NoActor
    /\ active' = 0
    /\ UNCHANGED <<teamTime, definition, role, collaborators, commitments,
                   offers>>

\* respond_to_assignment, ACCEPT while somebody else has still to answer.
AcceptAndWait(a) ==
    /\ status = "PENDING_ASSIGNMENT"
    /\ response[definition][a] = "PENDING"
    /\ \E b \in Roster \ {a} : response[definition][b] = "PENDING"
    /\ response' = [response EXCEPT ![definition][a] = "ACCEPTED"]
    /\ UNCHANGED <<status, teamTime, owner, definition, role, collaborators,
                   commitments, active, offers>>

\* Mutation: the owner's answer alone activates the task.
OwnerHasAnswered(a) == role[definition][a] = "OWNER"

EverybodyElseAccepted(a) ==
    \A b \in Roster \ {a} : response[definition][b] \in {"NONE", "ACCEPTED"}

\* respond_to_assignment, the last ACCEPT: the one OWNER row names the owner
\* and the first commitment.  The unique index one_active_commitment refuses
\* a second ACTIVE row.
AcceptAndActivate(a) ==
    /\ status = "PENDING_ASSIGNMENT"
    /\ response[definition][a] = "PENDING"
    /\ EverybodyElseAccepted(a)
    /\ response' = [response EXCEPT ![definition][a] = "ACCEPTED"]
    /\ teamTime
    /\ \A n \in DOMAIN commitments : commitments[n].state # "ACTIVE"
    /\ Len(commitments) < MaxRevisions
    /\ \E o \in Roster :
          /\ {b \in Roster : role[definition][b] = "OWNER"} = {o}
          /\ owner' = o
          /\ commitments' = Append(commitments,
                                   [owner |-> o, state |-> "ACTIVE"])
    /\ active' = Len(commitments) + 1
    /\ status' = "TRACKING"
    /\ UNCHANGED <<teamTime, definition, role, collaborators, offers>>

\* Mutation: the revision in force is not superseded.
KeptCommitments(a) ==
    Append(commitments, [owner |-> a, state |-> "ACTIVE"])

RevisedCommitments(a) ==
    Append([commitments EXCEPT ![active].state = "SUPERSEDED"],
           [owner |-> a, state |-> "ACTIVE"])

\* revise_personal_commitment: only the owner, only the ACTIVE revision, and
\* the new revision_no is the old one plus one under UNIQUE(revision_no).
ReviseCommitment(a) ==
    /\ owner = a
    /\ status \in {"TRACKING", "PENDING_ACCEPTANCE"}
    /\ active \in DOMAIN commitments
    /\ commitments[active].state = "ACTIVE"
    /\ active = Len(commitments)
    /\ active < MaxRevisions
    /\ commitments' = RevisedCommitments(a)
    /\ active' = active + 1
    /\ UNCHANGED <<status, teamTime, owner, definition, role, response,
                   collaborators, offers>>

-----------------------------------------------------------------------------
\* Mutation: anybody on the roster may offer the part.
AnybodyMayOffer(giver) == giver \in Roster

MayOffer(giver) == Accepted(giver)

\* propose_handoff: an accepted contributor offers their part to somebody on
\* the roster who is not on the task; nothing moves yet.
ProposeHandoff(giver, receiver) ==
    /\ status = "TRACKING"
    /\ MayOffer(giver)
    /\ receiver # giver
    /\ ~OnTask(receiver)
    /\ offers[giver] = NoOffer
    /\ offers' = [offers EXCEPT ![giver] =
                     [to |-> receiver, role |-> role[definition][giver],
                      definition |-> definition]]
    /\ UNCHANGED <<status, teamTime, owner, definition, role, response,
                   collaborators, commitments, active>>

\* Mutation: the receiver's row is neither revived nor inserted.
LostRow(giver, receiver) ==
    [response[definition] EXCEPT ![giver] = "SUPERSEDED"]

\* The giver's ACCEPTED row is superseded, then the receiver's row is revived
\* or inserted ACCEPTED.
HandedRow(giver, receiver) ==
    [response[definition] EXCEPT
        ![giver] = IF @ = "ACCEPTED" THEN "SUPERSEDED" ELSE @,
        ![receiver] = "ACCEPTED"]

\* Mutation: owner_actor_id is left behind.
OwnerStays(giver, receiver) == owner

OwnerAfter(giver, receiver) ==
    IF offers[giver].role = "OWNER" THEN receiver ELSE owner

CollaboratorsAfter(giver, receiver) ==
    IF offers[giver].role = "OWNER"
    THEN collaborators \ {receiver}
    ELSE (collaborators \ {giver}) \cup {receiver}

\* Mutation: the handoff row stays PENDING.
StillOpen(giver) == offers

Answered(giver) == [offers EXCEPT ![giver] = NoOffer]

\* respond_to_handoff, accept: the receiver takes the role written on the
\* offer.  The web route asks for a participant; the service looks neither at
\* the task's status nor at what either of the two holds by now.
AcceptHandoff(giver, receiver) ==
    /\ receiver \in Participants
    /\ offers[giver].to = receiver
    /\ offers[giver].definition = definition
    /\ response' = [response EXCEPT ![definition] = HandedRow(giver, receiver)]
    /\ role' = [role EXCEPT ![definition][receiver] = offers[giver].role]
    /\ owner' = OwnerAfter(giver, receiver)
    /\ collaborators' = CollaboratorsAfter(giver, receiver)
    /\ offers' = Answered(giver)
    /\ UNCHANGED <<status, teamTime, definition, commitments, active>>

\* respond_to_handoff, decline.
DeclineHandoff(giver, receiver) ==
    /\ receiver \in Participants
    /\ offers[giver].to = receiver
    /\ offers[giver].definition = definition
    /\ offers' = Answered(giver)
    /\ UNCHANGED <<status, teamTime, owner, definition, role, response,
                   collaborators, commitments, active>>

\* What submit_artifact, decide_contribution, review_artifact, aggregate,
\* _supersede_pending_final, _invalidate_downstream_inputs and
\* _complete_delivery do to the status.
DeliveryStep ==
    /\ WorkMove(status, status')
    /\ UNCHANGED <<teamTime, owner, definition, role, response, collaborators,
                   commitments, active, offers>>

Respond(a) == Return(a) \/ AcceptAndWait(a) \/ AcceptAndActivate(a)

Handoff(giver, receiver) ==
    \/ ProposeHandoff(giver, receiver)
    \/ AcceptHandoff(giver, receiver)
    \/ DeclineHandoff(giver, receiver)

Next ==
    \/ Revise
    \/ Discard
    \/ \E o \in Participants, helpers \in SUBSET Participants :
          Dispatch(o, helpers)
    \/ \E a \in Participants : Respond(a) \/ ReviseCommitment(a)
    \/ \E giver, receiver \in Roster : Handoff(giver, receiver)
    \/ DeliveryStep

Spec == Init /\ [][Next]_vars

-----------------------------------------------------------------------------
\* Only the owner holds or offers the OWNER part: whatever handoffs were
\* proposed and answered, in whatever order, no second person ever has an
\* accepted OWNER row or an OWNER offer outstanding (propose_handoff,
\* respond_to_handoff).
OwnerPartIsTheOwners ==
    status \in Worked =>
        \A a \in Roster :
            HoldsRow(a, "OWNER") \/ offers[a].role = "OWNER" => owner = a

\* The answers fit the status: nobody waits or is counted on before a round is
\* open or after it was returned, and nobody still waits once the work began
\* (dispatch_action, respond_to_assignment).
AnswersFitTheStatus ==
    /\ status \in Draft \cup {"REJECTED"} => \A a \in Roster : ~OnTask(a)
    /\ status \in Worked =>
           \A a \in Roster : response[definition][a] # "PENDING"

\* A round that was returned is over: no row of an earlier definition waits
\* for an answer or still counts as accepted (dispatch_action,
\* respond_to_assignment).
EarlierRoundsAreClosed ==
    \A d \in Definitions, a \in Roster :
        response[d][a] \in {"PENDING", "ACCEPTED"} => d = definition

\* One commitment is ACTIVE exactly while the task is in work, it is the
\* latest, and the task points at it, so that neither a return nor a
\* revision leaves a promise nobody follows (respond_to_assignment,
\* revise_personal_commitment).
OneLiveCommitment ==
    /\ active = IF status \in Worked THEN Len(commitments) ELSE 0
    /\ status \in Worked => Len(commitments) > 0
    /\ \A n \in DOMAIN commitments :
           commitments[n].state = "ACTIVE" <=> n = active

\* An offer stands on a part its giver still holds in the version in force:
\* proposing does not put the work down (propose_handoff).
OffersAreHeld ==
    \A a \in Roster : offers[a] # NoOffer =>
        /\ status \in Worked
        /\ Accepted(a)
        /\ offers[a].definition = definition
        /\ offers[a].to # a

\* Once a task is in work nobody stops being on it unless the person they
\* offered their part to is on it afterwards (respond_to_handoff).
PartsOnlyMoveByHandover ==
    [][\A a \in Roster :
          status \in Worked /\ Accepted(a) /\ ~Accepted(a)' =>
              \E b \in Roster : offers[a].to = b /\ Accepted(b)']_vars

\* The dispatch of a task keeps the promise of WorkAgreement.
Phase == CASE status \in Draft -> "draft"
           [] status = "PENDING_ASSIGNMENT" -> "asking"
           [] status = "REJECTED" -> "dropped"
           [] OTHER -> "bound"

Agreement == INSTANCE WorkAgreement WITH
    People <- Roster,
    phase <- Phase,
    asked <- {a \in Roster : OnTask(a)},
    agreed <- {a \in Roster : Accepted(a)}

ImplementsAgreement == Agreement!AgreementSpec
=============================================================================
