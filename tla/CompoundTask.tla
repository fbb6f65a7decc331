---------------------------- MODULE CompoundTask ----------------------------
(***************************************************************************)
(* A compound task: everybody fills something in, the owner merges it,     *)
(* everybody scores what was merged, the owner writes it up; or, when the  *)
(* meeting asked for a submission, the first two only.  compound_tasks.py  *)
(* has the stages and compound_store.py the commands: submit_input,        *)
(* skip_member, finish_owner_stage and revoke, with what project shows.    *)
(*                                                                         *)
(* The commands come from the one thread of the web server, so that the    *)
(* stage a command loaded before its transaction is the stage it finds in  *)
(* it.  What people write is not modelled, except how many options the     *)
(* owner puts up and who scored which of them; a command repeated with its *)
(* message id is answered from its receipt and is no step.                 *)
(***************************************************************************)
EXTENDS Naturals, FiniteSets

CONSTANTS
    People,          \* the participants of the meeting
    SelectionCount,  \* selection_count
    MaxOptions,      \* bound on the options put up to vote
    MaxScore         \* the best score; the code has 5

ASSUME CompoundAssumption ==
    /\ IsFiniteSet(People)
    /\ {SelectionCount, MaxOptions, MaxScore} \subseteq Nat \ {0}

VARIABLES
    kind,       \* VOTE or SUBMIT
    owner,      \* owner_actor_id
    members,    \* member_actor_ids
    stage,
    answers,    \* compound_task_inputs, by stage and actor
    skips,      \* compound_task_skips: who was passed over, by stage
    told        \* the COMPOUND_TURN rows of the outbox: by stage, for whom

shape == <<kind, owner, members>>
vars == <<shape, stage, answers, skips, told>>

Kinds == {"VOTE", "SUBMIT"}
Stages == {"COLLECTING", "MERGING", "VOTING", "FINALIZING", "DONE", "REVOKED"}
Finished == {"DONE", "REVOKED"}
Rounds == {"COLLECTING", "VOTING"}

RoleAt(s) == CASE s \in Rounds -> "EVERYONE"
               [] s \in {"MERGING", "FINALIZING"} -> "OWNER"
               [] s \in Finished -> "NOBODY"

NextStage(k, s) == CASE s = "COLLECTING" -> "MERGING"
                     [] s = "MERGING" -> IF k = "VOTE" THEN "VOTING" ELSE "DONE"
                     [] s = "VOTING" -> "FINALIZING"
                     [] s = "FINALIZING" -> "DONE"

MayAct(p) == CASE RoleAt(stage) = "OWNER" -> p = owner
               [] RoleAt(stage) = "EVERYONE" -> p \in members
               [] OTHER -> FALSE

\* An answer is the options it puts up or the scores it gives, by option.
Missing == [given |-> FALSE, options |-> 0, scores |-> <<>>]
Scores(options) == [options -> 1 .. MaxScore]
Answer == {Missing} \cup
          [given : {TRUE}, options : 0 .. MaxOptions,
           scores : UNION {[o -> 1 .. MaxScore] :
                              o \in SUBSET (0 .. MaxOptions - 1)}]

TypeOK ==
    /\ kind \in Kinds
    /\ members \subseteq People /\ owner \in members
    /\ stage \in Stages
    /\ answers \in [Stages \ Finished -> [members -> Answer]]
    /\ skips \in [Rounds -> SUBSET (members \ {owner})]
    /\ told \in [Stages \ Finished -> SUBSET members]

Answered(s) == {p \in members : answers[s][p].given}
Nothing == [s \in Stages \ Finished |-> {}]

\* create_compound_task.
Init ==
    /\ kind \in Kinds
    /\ members \in {group \in SUBSET People : Cardinality(group) >= 2}
    /\ owner \in members
    /\ stage = "COLLECTING"
    /\ answers = [s \in Stages \ Finished |-> [p \in members |-> Missing]]
    /\ skips = [s \in Rounds |-> {}]
    /\ told = [Nothing EXCEPT !["COLLECTING"] = members]

-----------------------------------------------------------------------------
\* Mutation: most is enough.
Quorum(answered, skipped) ==
    2 * Cardinality(answered \cup skipped) > Cardinality(members)

\* Mutation: a skip is not counted.
AllAnswered(answered, skipped) == members \subseteq answered

\* is_complete.
IsComplete(answered, skipped) == members \subseteq answered \cup skipped

Recipients(s) == CASE RoleAt(s) = "EVERYONE" -> members
                   [] RoleAt(s) = "OWNER" -> {owner}
                   [] OTHER -> {}

\* _enter and _notify; a second notice for a stage would be refused.
Enter(s) ==
    /\ stage' = s
    /\ IF RoleAt(s) = "NOBODY"
       THEN told' = told
       ELSE /\ told[s] = {}
            /\ told' = [told EXCEPT ![s] = Recipients(s)]

Settle(s, answered, skipped) ==
    IF IsComplete(answered, skipped) THEN Enter(NextStage(kind, s))
                                     ELSE UNCHANGED <<stage, told>>

NoLongerSkipped(s, p) == skips[s] \ {p}

\* Mutation: who was passed over may still deliver, whatever the stage.
StillOwes(s, p) == p \in members \ Answered(s) /\ stage \notin Finished

MayAnswer(s, p) == s = stage /\ MayAct(p)

Answers(s) ==
    [given : {TRUE}, options : {0},
     scores : IF s = "COLLECTING" THEN {<<>>}
              ELSE UNION {Scores(o) :
                             o \in (SUBSET (0 .. MaxOptions - 1)) \ {{}}}]

\* submit_input at the stage it loaded.  Which of the options are scored is
\* not looked at.
SubmitInput(s, p, answer) ==
    /\ MayAnswer(s, p)
    /\ answers' = [answers EXCEPT ![s][p] = answer]
    /\ skips' = [skips EXCEPT ![s] = NoLongerSkipped(s, p)]
    /\ Settle(s, Answered(s) \cup {p}, NoLongerSkipped(s, p))
    /\ UNCHANGED shape

MaySkip(p) ==
    /\ stage \in Rounds
    /\ p \in members \ {owner}
    /\ p \notin Answered(stage) \cup skips[stage]

\* skip_member.
SkipMember(p) ==
    /\ MaySkip(p)
    /\ skips' = [skips EXCEPT ![stage] = @ \cup {p}]
    /\ Settle(stage, Answered(stage), skips[stage] \cup {p})
    /\ UNCHANGED <<shape, answers>>

\* More options than will be kept.
MayFinish(options) ==
    /\ RoleAt(stage) = "OWNER"
    /\ IF stage = "MERGING" /\ kind = "VOTE" THEN options > SelectionCount
                                             ELSE options = 0

\* finish_owner_stage.
FinishOwnerStage(options) ==
    /\ MayFinish(options)
    /\ answers' = [answers EXCEPT ![stage][owner] =
                      [Missing EXCEPT !.given = TRUE, !.options = options]]
    /\ Enter(NextStage(kind, stage))
    /\ UNCHANGED <<shape, skips>>

Revoke ==
    /\ stage \notin Finished
    /\ Enter("REVOKED")
    /\ UNCHANGED <<shape, answers, skips>>

Next ==
    \/ \E p \in People :
          \/ \E s \in Rounds : \E a \in Answers(s) : SubmitInput(s, p, a)
          \/ SkipMember(p)
    \/ \E options \in 0 .. MaxOptions : FinishOwnerStage(options)
    \/ Revoke

Spec == Init /\ [][Next]_vars

-----------------------------------------------------------------------------
(* What project shows: the ranking, and whose turn it is.                  *)

PutUp == {o \in 0 .. MaxOptions - 1 : o < answers["MERGING"][owner].options}
ScoredBy(o) ==
    {p \in Answered("VOTING") : o \in DOMAIN answers["VOTING"][p].scores}

\* The sum of its scores: the points it was given, counted one by one.
Points(o) ==
    {p \in ScoredBy(o) \X (1 .. MaxScore) :
        p[2] <= answers["VOTING"][p[1]].scores[o]}
Total(o) == Cardinality(Points(o))

\* Mutation: an option that is written earlier is kept.
ComesFirst(o, q) == o < q

Leads(o, q) == Total(o) > Total(q) \/ (Total(o) = Total(q) /\ o < q)

\* _tally.
Selected == {o \in PutUp :
                Cardinality({q \in PutUp : Leads(q, o)}) < SelectionCount}
TallyComplete == Cardinality(Answered("VOTING")) >= Cardinality(members)

MyTurn(p) ==
    MayAct(p) /\ (~answers[stage][p].given \/ RoleAt(stage) = "OWNER")

-----------------------------------------------------------------------------
Gone == CASE stage = "COLLECTING" -> {}
          [] stage \in {"MERGING", "VOTING"} -> {"COLLECTING"}
          [] stage \in {"FINALIZING", "DONE"} ->
                 IF kind = "VOTE" THEN Rounds ELSE {"COLLECTING"}
          [] stage = "REVOKED" -> {}

\* The stages in which nothing may be answered any more.
Over == CASE stage = "COLLECTING" -> {}
          [] stage = "MERGING" -> {"COLLECTING"}
          [] stage = "VOTING" -> {"COLLECTING", "MERGING"}
          [] stage = "FINALIZING" -> {"COLLECTING", "MERGING", "VOTING"}
          [] stage \in Finished -> Stages \ Finished

VoteIsOver == stage \in {"FINALIZING", "DONE"} /\ kind = "VOTE"

\* A round is left with everybody accounted for: each member has answered in
\* it or was passed over by name, never both, and the page says that a vote
\* is complete just when nobody was (submit_input, skip_member, is_complete).
EveryoneIsAccountedFor ==
    /\ \A s \in Gone : Answered(s) \cup skips[s] = members
    /\ \A s \in Rounds : Answered(s) \cap skips[s] = {}
    /\ "VOTING" \in Gone => (TallyComplete <=> skips["VOTING"] = {})

\* Once a vote is over it has an outcome: as many options as were asked for
\* are kept, and none of them is behind one that is dropped, however few have
\* scored and whichever options they scored (_tally, finish_owner_stage).
OutcomeStands ==
    VoteIsOver =>
        /\ Cardinality(Selected) = SelectionCount
        /\ \A o \in Selected, q \in PutUp \ Selected : Total(o) >= Total(q)

\* A stage that is over stays as it was left: no later command changes an
\* answer, a score, an option that was put up or who was passed over, and so
\* the options that a vote has kept are kept for good, whoever answers late,
\* is skipped late or revokes the task (submit_input, skip_member,
\* finish_owner_stage, revoke, _tally).
RoundsStayClosed ==
    [][/\ \A s \in Over : answers'[s] = answers[s]
       /\ \A s \in Over \cap Rounds : skips'[s] = skips[s]
       /\ VoteIsOver => PutUp' = PutUp /\ Selected' = Selected]_vars

\* As long as the task is not finished its owner can bring it nearer its end
\* alone, by an answer they owe, a skip or their own stage: nobody's absence
\* stops it, and a skip is never left without effect (skip_member).
OwnerIsNeverStuck ==
    stage \notin Finished =>
        \/ \E p \in members \ {owner} : ENABLED SkipMember(p)
        \/ /\ MyTurn(owner)
           /\ \E s \in Rounds : \E a \in Answers(s) :
                  ENABLED SubmitInput(s, owner, a)
        \/ \E o \in 0 .. MaxOptions : ENABLED FinishOwnerStage(o)
=============================================================================
