---------------------------- MODULE QuestionVote ----------------------------
(***************************************************************************)
(* Collecting questions, voting on them and deciding: one decision task    *)
(* that waits for the accepted results of collection tasks, service.py's   *)
(* confirm_question_vote_structure, revoke_question_vote_structure,        *)
(* prepare_question_ballot_draft, open_question_ballot,                    *)
(* submit_question_vote, collaboration_progress and                        *)
(* _invalidate_downstream_inputs, with as much of dispatch, handoff,       *)
(* delivery and review of the decision task as they touch.                 *)
(*                                                                         *)
(* Votes come from the web and from the Feishu cards, which are different  *)
(* processes, each in one transaction.  A draft is computed, for as long   *)
(* as a model takes, between a look at the inputs and the transaction that *)
(* stores it, and so are the attachments of a submission read.             *)
(*                                                                         *)
(* The console offers to declare a structure on a task without one, but    *)
(* the service takes a second declaration, from a page loaded before the   *)
(* first, as long as no row of it is there already: rows are unique by     *)
(* task, person and kind.  The final owner of each has a BALLOT row then.  *)
(*                                                                         *)
(* What an option says is not modelled: an option is its id, and ids are   *)
(* ordered as their strings are.  Who collaborates on the task is not      *)
(* either: anybody may.                                                    *)
(***************************************************************************)
EXTENDS Naturals, FiniteSets

CONSTANTS
    People,          \* the participants
    NoOne,           \* stands for NULL
    Collections,     \* the tasks that may be collected from
    Options,         \* option ids, a set of numbers
    SelectionCount,  \* how many options the decision keeps
    MaxScore,        \* the best score; the code has 5
    Choices,         \* the sets of tasks that a declaration may name
    MaxVersions,     \* bound on the results accepted for a collection
    MaxResults       \* bound on the results accepted for all of them

ASSUME VoteAssumption ==
    /\ NoOne \notin People
    /\ Options \subseteq Nat
    /\ IsFiniteSet(People) /\ IsFiniteSet(Options)
    /\ {SelectionCount, MaxScore} \subseteq Nat \ {0}
    /\ Choices \subseteq (SUBSET Collections) \ {{}}
    /\ {MaxVersions, MaxResults} \subseteq Nat

VARIABLES
    status,      \* action_items.status of the decision task
    published,   \* published_sim_time is set
    owner,       \* owner_actor_id
    candidate,   \* the version in review
    valid,       \* current_valid_version_id
    finalOwner,  \* required_owner_actor_id of the structure, NoOne for none
    latest,      \* per collection, how many results were accepted
    current,     \* per collection, its accepted version in force, 0 for none
    depends,     \* the action_item_dependencies rows of the decision task
    bound,       \* per collection, bound_upstream_version_id, 0 for NULL
    ballots,     \* the BALLOT rows, by the final owner they are for
    votes,       \* the VOTE rows, by voter
    drafting,    \* the draft being computed
    submitting   \* the submission whose attachments are being read

task == <<status, published, owner, candidate, valid, finalOwner>>
results == <<latest, current>>
inputs == <<depends, bound, ballots, votes>>
hands == <<drafting, submitting>>
vars == <<task, results, inputs, hands>>

Statuses == {"DRAFT", "PENDING_ASSIGNMENT", "NEEDS_REVISION",
             "TRACKING", "PENDING_ACCEPTANCE", "ACCEPTED"}
Worked == {"TRACKING", "PENDING_ACCEPTANCE", "ACCEPTED"}

Versions == [Collections -> 0 .. MaxVersions]
Nothing == [c \in Collections |-> 0]

\* over is what a result rests on: the inputs in force when the check of the
\* owner's submission was passed, Nothing for what passed no check.
Result == [there : BOOLEAN, over : Versions]
NoResult == [there |-> FALSE, over |-> Nothing]

\* over is upstream_version_ids, of a draft as of an opened ballot.
Blank == [open |-> FALSE, over |-> Nothing, options |-> {}]
Ballot == [open : BOOLEAN, over : Versions, options : SUBSET Options]

Scores(options) == [options -> 1 .. MaxScore]
Absent == [cast |-> FALSE, scores |-> <<>>]
VoteRow == {Absent} \cup
           [cast : {TRUE}, scores : UNION {[o -> 1 .. MaxScore] :
                                           o \in SUBSET Options}]

InHand == [by : People \cup {NoOne}, over : Versions]
NoHand == [by |-> NoOne, over |-> Nothing]

TypeOK ==
    /\ status \in Statuses
    /\ published \in BOOLEAN
    /\ {owner, finalOwner} \subseteq People \cup {NoOne}
    /\ {candidate, valid} \subseteq Result
    /\ {latest, current, bound} \subseteq Versions
    /\ depends \subseteq Collections
    /\ DOMAIN ballots \subseteq People /\ ballots \in [DOMAIN ballots -> Ballot]
    /\ DOMAIN votes \subseteq People /\ votes \in [DOMAIN votes -> VoteRow]
    /\ {drafting, submitting} \subseteq InHand

Init ==
    /\ status = "DRAFT"
    /\ published = FALSE
    /\ owner = NoOne /\ finalOwner = NoOne
    /\ candidate = NoResult /\ valid = NoResult
    /\ latest = Nothing /\ current = Nothing
    /\ depends = {} /\ bound = Nothing
    /\ ballots = [p \in {} |-> Blank]
    /\ votes = [p \in {} |-> Absent]
    /\ drafting = NoHand /\ submitting = NoHand

-----------------------------------------------------------------------------
(* collaboration_progress                                                  *)

Satisfied(c) == current[c] # 0
Stale(c) == bound[c] # 0 /\ current[c] # 0 /\ bound[c] # current[c]
DependenciesReady == \A c \in depends : Satisfied(c) /\ ~Stale(c)
InForce == [c \in Collections |-> IF c \in depends THEN current[c] ELSE 0]

Owners == DOMAIN ballots
Opened == {p \in Owners : ballots[p].open}

Voters == DOMAIN votes
HaveVoted == {v \in Voters : votes[v].cast}

\* Only the scores of options that are on the ballot count.
ScoredBy(o) == {v \in HaveVoted : o \in DOMAIN votes[v].scores}
Count(o) == Cardinality(ScoredBy(o))

\* The sum of its scores: the points it was given, counted one by one.
Points(o) == {p \in ScoredBy(o) \X (1 .. MaxScore) : p[2] <= votes[p[1]].scores[o]}
Total(o) == Cardinality(Points(o))

\* ranked.sort: by total, by average, by id.
Leads(o, q) ==
    \/ Total(o) > Total(q)
    \/ /\ Total(o) = Total(q)
       /\ \/ Total(o) * Count(q) > Total(q) * Count(o)
          \/ Total(o) * Count(q) = Total(q) * Count(o) /\ (o < q)

\* What the ballot of p selects.
Selected(p) ==
    {o \in ballots[p].options :
        Cardinality({q \in ballots[p].options : Leads(q, o)}) < SelectionCount}

\* Mutation: a majority is enough.
SomeHaveVoted == Opened # {} /\ DependenciesReady /\ HaveVoted # {}

FinalSubmissionReady ==
    DependenciesReady /\ Opened # {} /\ HaveVoted = Voters

-----------------------------------------------------------------------------
(* The structure.                                                          *)

\* A dependency that is there already is kept; a row that is there already
\* fails the whole command.
ConfirmStructure(collections, final, voters) ==
    /\ status = "DRAFT" /\ owner = NoOne /\ ~published
    /\ final \notin Owners /\ voters \cap Voters = {}
    /\ finalOwner' = final
    /\ depends' = depends \cup collections
    /\ ballots' = [p \in Owners \cup {final} |->
                      IF p = final THEN Blank ELSE ballots[p]]
    /\ votes' = [v \in Voters \cup voters |->
                    IF v \in voters THEN Absent ELSE votes[v]]
    /\ UNCHANGED <<status, published, owner, candidate, valid, results, bound,
                   hands>>

RevokeStructure ==
    /\ finalOwner # NoOne
    /\ ~published /\ owner = NoOne
    /\ Opened = {} /\ HaveVoted = {}
    /\ finalOwner' = NoOne
    /\ depends' = {}
    /\ bound' = Nothing
    /\ ballots' = [p \in {} |-> Blank]
    /\ votes' = [p \in {} |-> Absent]
    /\ UNCHANGED <<status, published, owner, candidate, valid, results, hands>>

-----------------------------------------------------------------------------
(* The decision task is dispatched, accepted or returned, and handed on.   *)

\* dispatch_action, to the final owner confirmed last.
Dispatch ==
    /\ finalOwner # NoOne
    /\ status \in {"DRAFT", "NEEDS_REVISION"}
    /\ status' = "PENDING_ASSIGNMENT"
    /\ published' = TRUE
    /\ UNCHANGED <<owner, candidate, valid, finalOwner, results, inputs, hands>>

Return ==
    /\ status = "PENDING_ASSIGNMENT"
    /\ status' = "NEEDS_REVISION"
    /\ UNCHANGED <<published, owner, candidate, valid, finalOwner, results,
                   inputs, hands>>

\* respond_to_assignment: what is accepted by now is bound.
Activate ==
    /\ status = "PENDING_ASSIGNMENT"
    /\ status' = "TRACKING"
    /\ owner' = finalOwner
    /\ bound' = [c \in Collections |->
                    IF c \in depends /\ Satisfied(c) THEN current[c]
                    ELSE bound[c]]
    /\ UNCHANGED <<published, candidate, valid, finalOwner, results, depends,
                   ballots, votes, hands>>

\* respond_to_handoff.  The BALLOT rows stay with the confirmed final owners.
HandOn(p) ==
    /\ status \in Worked
    /\ p # owner
    /\ owner' = p
    /\ UNCHANGED <<status, published, candidate, valid, finalOwner, results,
                   inputs, hands>>

-----------------------------------------------------------------------------
(* The ballot.                                                             *)

\* prepare_question_ballot_draft, what it reads before it computes.
BeginDraft(p) ==
    /\ drafting = NoHand
    /\ owner = p /\ p \in Owners
    /\ DependenciesReady
    /\ ~ballots[p].open
    /\ drafting' = [by |-> p, over |-> InForce]
    /\ UNCHANGED <<task, results, inputs, submitting>>

\* Mutation: what was read is trusted.
DraftStillOpen == DependenciesReady /\ ~ballots[drafting.by].open

DraftStillFits ==
    DependenciesReady /\ InForce = drafting.over /\ ~ballots[drafting.by].open

\* The transaction of prepare_question_ballot_draft looks again, and binds.
StoreDraft ==
    /\ drafting # NoHand
    /\ DraftStillFits
    /\ ballots' = [ballots EXCEPT ![drafting.by] =
                      [Blank EXCEPT !.over = drafting.over]]
    /\ bound' = InForce
    /\ drafting' = NoHand
    /\ UNCHANGED <<task, results, depends, votes, submitting>>

\* The model failed, or the inputs changed meanwhile.
DraftFails ==
    /\ drafting # NoHand
    /\ drafting' = NoHand
    /\ UNCHANGED <<task, results, inputs, submitting>>

\* Mutation: an opened ballot may be opened again.
MayReopen(p) == owner = p /\ p \in Owners /\ DependenciesReady

MayOpen(p) ==
    /\ owner = p
    /\ p \in Owners
    /\ DependenciesReady
    /\ ~ballots[p].open

\* open_question_ballot: no draft is needed, and nothing is bound.  Whatever
\* was voted on the ballot of another final owner is voted on again, and a
\* submission in hand is no longer one of a complete vote (SubmitUnchecked).
OpenBallot(p, options) ==
    /\ MayOpen(p)
    /\ Cardinality(options) >= 2
    /\ Cardinality(options) > SelectionCount
    /\ ballots' = [ballots EXCEPT ![p] =
                      [open |-> TRUE, over |-> InForce, options |-> options]]
    /\ votes' = [v \in Voters |-> Absent]
    /\ submitting' = NoHand
    /\ UNCHANGED <<task, results, depends, bound, drafting>>

\* Mutation: a card of an earlier ballot is counted.
SomeOptionsAreScored(p, scores) == DOMAIN scores \cap ballots[p].options # {}

EveryOptionHasAScore(p, scores) == DOMAIN scores = ballots[p].options

MayVote(v, p) == p \in Opened /\ ~votes[v].cast

\* submit_question_vote, with the card or the page the voter has before them,
\* held against one of the ballots that are open.
SubmitVote(v, p, scores) ==
    /\ MayVote(v, p)
    /\ EveryOptionHasAScore(p, scores)
    /\ votes' = [votes EXCEPT ![v] = [cast |-> TRUE, scores |-> scores]]
    /\ UNCHANGED <<task, results, depends, bound, ballots, hands>>

-----------------------------------------------------------------------------
(* The result of the decision task, and those it rests on.                 *)

\* submit_artifact by the owner, before it reads the attachments.
BeginSubmission ==
    /\ submitting = NoHand
    /\ owner # NoOne
    /\ FinalSubmissionReady
    /\ submitting' = [by |-> owner, over |-> InForce]
    /\ UNCHANGED <<task, results, inputs, drafting>>

\* The transaction of submit_artifact, if it is still theirs to submit.
\* Whether everything is still complete is not asked again.
StoreSubmission ==
    /\ submitting # NoHand
    /\ submitting.by = owner
    /\ status \in {"TRACKING", "ACCEPTED"} /\ ~candidate.there
    /\ status' = "PENDING_ACCEPTANCE"
    /\ candidate' = [there |-> TRUE, over |-> submitting.over]
    /\ submitting' = NoHand
    /\ UNCHANGED <<published, owner, valid, finalOwner, results, inputs, drafting>>

\* It is refused, or is a contribution and no candidate.
SubmissionEnds ==
    /\ submitting # NoHand
    /\ submitting' = NoHand
    /\ UNCHANGED <<task, results, inputs, drafting>>

\* A version becomes the candidate that passed no check, or whose check no
\* longer means anything: decide_contribution PROMOTE, of what a collaborator
\* has handed in; submit_artifact by somebody who was a collaborator when it
\* looked and is the owner when it stores; and by an owner whose votes were
\* voided in between.
SubmitUnchecked ==
    /\ status \in {"TRACKING", "ACCEPTED"} /\ ~candidate.there
    /\ status' = "PENDING_ACCEPTANCE"
    /\ candidate' = [there |-> TRUE, over |-> Nothing]
    /\ UNCHANGED <<published, owner, valid, finalOwner, results, inputs, hands>>

ReviewFinal(approve) ==
    /\ status = "PENDING_ACCEPTANCE"
    /\ candidate' = NoResult
    /\ valid' = IF approve THEN candidate ELSE valid
    /\ status' = IF valid'.there THEN "ACCEPTED" ELSE "TRACKING"
    /\ UNCHANGED <<published, owner, finalOwner, results, inputs, hands>>

VotesReset == [v \in Voters |-> Absent]

BoundToAnother(c) == c \in depends /\ bound[c] # 0 /\ bound[c] # current'[c]

Accepted == {r \in Collections \X (1 .. MaxVersions) : r[2] <= latest[r[1]]}

\* review_artifact accepts a version of a collection task, and
\* _invalidate_downstream_inputs reopens what was bound to another.
AcceptCollection(c) ==
    /\ latest[c] < MaxVersions /\ Cardinality(Accepted) < MaxResults
    /\ latest' = [latest EXCEPT ![c] = @ + 1]
    /\ current' = [current EXCEPT ![c] = latest'[c]]
    /\ IF BoundToAnother(c)
       THEN /\ bound' = [bound EXCEPT ![c] = current'[c]]
            /\ ballots' = [p \in Owners |-> Blank]
            /\ votes' = VotesReset
            /\ submitting' = NoHand
            /\ IF owner # NoOne
               THEN /\ candidate' = NoResult /\ valid' = NoResult
                    /\ status' = "TRACKING"
               ELSE UNCHANGED <<candidate, valid, status>>
       ELSE UNCHANGED <<bound, ballots, votes, submitting, candidate, valid, status>>
    /\ UNCHANGED <<published, owner, finalOwner, depends, drafting>>

\* A collection that is itself a decision loses its result when one of its own
\* inputs is replaced, and what rests on it is told nothing:
\* _invalidate_downstream_inputs goes one step down and no further.
VoidCollection(c) ==
    /\ current[c] # 0
    /\ current' = [current EXCEPT ![c] = 0]
    /\ UNCHANGED <<task, latest, inputs, hands>>

-----------------------------------------------------------------------------
Declare ==
    \/ \E collections \in Choices, final \in People,
          voters \in (SUBSET People) \ {{}} :
           ConfirmStructure(collections, final, voters)
    \/ RevokeStructure

Hand == Dispatch \/ Return \/ Activate \/ \E p \in People : HandOn(p)

Balloting ==
    \/ \E p \in People :
          \/ BeginDraft(p)
          \/ \E options \in SUBSET Options : OpenBallot(p, options)
    \/ StoreDraft \/ DraftFails

Voting ==
    \E v \in Voters, p \in Owners, o \in SUBSET Options :
        \E s \in Scores(o) : SubmitVote(v, p, s)

Deciding ==
    \/ BeginSubmission \/ StoreSubmission \/ SubmissionEnds
    \/ SubmitUnchecked
    \/ \E approve \in BOOLEAN : ReviewFinal(approve)

Collecting == \E c \in Collections : AcceptCollection(c) \/ VoidCollection(c)

Next == Declare \/ Hand \/ Balloting \/ Voting \/ Deciding \/ Collecting

Spec == Init /\ [][Next]_vars

-----------------------------------------------------------------------------
\* The last accepted result of each input, which is the one in force unless it
\* has been withdrawn.
LastAccepted == [c \in Collections |-> IF c \in depends THEN latest[c] ELSE 0]

DeclaredOnce == Cardinality(Owners) <= 1

\* Once a task that was declared once is bound to all it collects from,
\* nothing it holds rests on anything older than the last accepted results: no
\* draft, no open ballot, no version in review and no accepted one, whoever
\* computed them, however long, and also when an input was withdrawn in
\* between.  What a submission or a promotion brings in past the check rests
\* on no ballot and is not meant (prepare_question_ballot_draft,
\* _invalidate_downstream_inputs).
BoundWorkIsCurrent ==
    (DeclaredOnce /\ \A c \in depends : bound[c] # 0) =>
        {ballots[p].over : p \in Owners} \cup {candidate.over, valid.over}
            \subseteq {Nothing, LastAccepted}

\* When the final may be submitted and one ballot is open, everybody a
\* structure ever named a voter has scored every option that is on it, and the
\* decision keeps as many as it should, none of them behind one that it drops
\* (collaboration_progress).  With the ballots of two final owners open, votes
\* cast on one are counted for the other.
DecisionIsComplete ==
    \A p \in Owners : FinalSubmissionReady /\ Opened = {p} =>
        /\ \A o \in ballots[p].options : ScoredBy(o) = Voters
        /\ Cardinality(Selected(p)) = SelectionCount
        /\ \A o \in Selected(p), q \in ballots[p].options \ Selected(p) :
               Total(o) >= Total(q)

\* A vote that was cast is only lost with the results it was cast on, or to a
\* ballot of another confirmed final owner, who was handed the task
\* (submit_question_vote, open_question_ballot, _invalidate_downstream_inputs).
CastVotesStand ==
    [][\A v \in HaveVoted :
          votes'[v] # votes[v] =>
              latest' # latest \/ \E p \in Owners \ Opened : owner = p /\ p \in Opened']_vars

\* The vote keeps the promise of CollectiveDecision.
Promise == INSTANCE CollectiveDecision WITH
    Electors <- People,
    electorate <- Voters,
    open <- Opened # {},
    cast <- HaveVoted,
    delivered <- candidate.over # Nothing \/ valid.over # Nothing

ImplementsDecision == Promise!DecisionSpec
=============================================================================
