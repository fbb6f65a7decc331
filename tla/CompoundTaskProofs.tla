------------------------- MODULE CompoundTaskProofs -------------------------
(***************************************************************************)
(* Proofs about CompoundTask, for any group of participants and any        *)
(* bounds: types, who is accounted for when a round is left, and that a    *)
(* round that is over stays as it is.                                      *)
(***************************************************************************)
EXTENDS CompoundTask, FiniteSetTheorems, TLAPS

USE DEF Kinds, Stages, Finished, Rounds

-----------------------------------------------------------------------------
(* Types.                                                                  *)

LEMMA BlankIsAnAnswer == Missing \in Answer
  BY DEF Answer

\* What is written at an owner's stage is an answer.
LEMMA OwnersAnswer ==
  ASSUME NEW options \in 0 .. MaxOptions
  PROVE  [Missing EXCEPT !.given = TRUE, !.options = options] \in Answer
  <1>1. <<>> \in [{} -> 1 .. MaxScore]
    OBVIOUS
  <1>2. <<>> \in UNION {[o -> 1 .. MaxScore] : o \in SUBSET (0 .. MaxOptions - 1)}
    BY <1>1
  <1> QED BY <1>2 DEF Answer, Missing

LEMMA MembersAnswer ==
  ASSUME NEW s \in Rounds, NEW a \in Answers(s)
  PROVE  a \in Answer /\ a.given
  <1> DEFINE Sheets == UNION {[o -> 1 .. MaxScore] :
                                 o \in SUBSET (0 .. MaxOptions - 1)}
  <1>1. <<>> \in Sheets
    <2>1. <<>> \in [{} -> 1 .. MaxScore]
      OBVIOUS
    <2> QED BY <2>1
  <1>2. PICK sheet \in Sheets :
               a = [given |-> TRUE, options |-> 0, scores |-> sheet]
    BY <1>1 DEF Answers, Scores
  <1>3. 0 \in 0 .. MaxOptions
    BY CompoundAssumption
  <1> HIDE DEF Sheets
  <1>4. a \in [given : {TRUE}, options : 0 .. MaxOptions, scores : Sheets]
    BY <1>2, <1>3
  <1> QED BY <1>2, <1>4 DEF Answer, Sheets

LEMMA InitTyped == Init => TypeOK
  BY BlankIsAnAnswer DEF Init, TypeOK, Nothing

\* Entering a stage that follows another.
LEMMA EnterTyped ==
  ASSUME TypeOK, NEW s \in Stages, Enter(s)
  PROVE  stage' \in Stages /\ told' \in [Stages \ Finished -> SUBSET members]
  BY DEF TypeOK, Enter, RoleAt, Recipients

LEMMA SettleTyped ==
  ASSUME TypeOK, NEW s \in Rounds, NEW answered, NEW skipped,
         stage = s, Settle(s, answered, skipped)
  PROVE  stage' \in Stages /\ told' \in [Stages \ Finished -> SUBSET members]
  <1>1. CASE IsComplete(answered, skipped)
    <2>1. NextStage(kind, s) \in Stages
      BY DEF NextStage
    <2> QED BY <1>1, <2>1, EnterTyped DEF Settle
  <1>2. CASE ~IsComplete(answered, skipped)
    BY <1>2 DEF Settle, TypeOK
  <1> QED BY <1>1, <1>2

LEMMA TypeKept == TypeOK /\ [Next]_vars => TypeOK'
  <1> SUFFICES ASSUME TypeOK, [Next]_vars PROVE TypeOK'
    OBVIOUS
  <1>1. ASSUME NEW s \in Rounds, NEW p \in People, NEW a \in Answers(s),
               SubmitInput(s, p, a)
        PROVE  TypeOK'
    <2>1. s = stage /\ p \in members /\ UNCHANGED shape
      BY <1>1 DEF SubmitInput, MayAnswer, MayAct, RoleAt
    <2>2. answers' \in [Stages \ Finished -> [members -> Answer]]
      BY <1>1, <2>1, MembersAnswer DEF TypeOK, SubmitInput
    <2>3. skips' \in [Rounds -> SUBSET (members \ {owner})]
      BY <1>1 DEF TypeOK, SubmitInput, NoLongerSkipped
    <2>4. stage' \in Stages /\ told' \in [Stages \ Finished -> SUBSET members]
      BY <1>1, <2>1, SettleTyped DEF SubmitInput
    <2> QED BY <2>1, <2>2, <2>3, <2>4 DEF TypeOK, shape
  <1>2. ASSUME NEW p \in People, SkipMember(p) PROVE TypeOK'
    <2>1. skips' \in [Rounds -> SUBSET (members \ {owner})]
      BY <1>2 DEF TypeOK, SkipMember, MaySkip
    <2>2. stage' \in Stages /\ told' \in [Stages \ Finished -> SUBSET members]
      BY <1>2, SettleTyped DEF SkipMember, MaySkip
    <2> QED BY <1>2, <2>1, <2>2 DEF TypeOK, SkipMember, shape
  <1>3. ASSUME NEW options \in 0 .. MaxOptions, FinishOwnerStage(options)
        PROVE  TypeOK'
    <2>1. stage \in {"MERGING", "FINALIZING"}
      BY <1>3 DEF FinishOwnerStage, MayFinish, RoleAt, TypeOK
    <2>2. answers' \in [Stages \ Finished -> [members -> Answer]]
      BY <1>3, <2>1, OwnersAnswer DEF TypeOK, FinishOwnerStage
    <2>3. NextStage(kind, stage) \in Stages
      BY <2>1 DEF NextStage
    <2>4. stage' \in Stages /\ told' \in [Stages \ Finished -> SUBSET members]
      BY <1>3, <2>3, EnterTyped DEF FinishOwnerStage, MayFinish
    <2> QED BY <1>3, <2>2, <2>4 DEF TypeOK, FinishOwnerStage, shape
  <1>4. CASE Revoke
    BY <1>4, EnterTyped DEF TypeOK, Revoke, shape
  <1>5. CASE UNCHANGED vars
    BY <1>5 DEF TypeOK, vars, shape
  <1> QED BY <1>1, <1>2, <1>3, <1>4, <1>5 DEF Next

\* Every variable keeps its type: nobody outside the group answers, and the
\* owner is never passed over.
THEOREM TypesHold == Spec => []TypeOK
  BY InitTyped, TypeKept, PTL DEF Spec

-----------------------------------------------------------------------------
(* Rounds.  A round is left only when everybody has answered it or was     *)
(* passed over, nobody is both, and after that nothing writes to it.       *)

RoundsAreFull == \A s \in Gone : Answered(s) \cup skips[s] = members
NobodyCountsTwice == \A s \in Rounds : Answered(s) \cap skips[s] = {}
RoundsInv == TypeOK /\ RoundsAreFull /\ NobodyCountsTwice

LEMMA InitRounds == Init => RoundsInv
  BY InitTyped
  DEF Init, RoundsInv, RoundsAreFull, NobodyCountsTwice, Gone, Answered, Missing

\* The round that is being worked on is not over.
LEMMA CurrentIsNotGone ==
  TypeOK => Gone \subseteq Rounds /\ stage \notin Gone
  BY DEF TypeOK, Gone

\* An answer adds whoever gave it to their round, and to no other.
LEMMA AnsweredAfterSubmit ==
  ASSUME TypeOK, NEW s \in Rounds, NEW p \in People, NEW a \in Answers(s),
         SubmitInput(s, p, a)
  PROVE  /\ s = stage
         /\ p \in members
         /\ Answered(s)' = Answered(s) \cup {p}
         /\ skips'[s] = skips[s] \ {p}
         /\ \A r \in Rounds \ {s} :
               Answered(r)' = Answered(r) /\ skips'[r] = skips[r]
  <1>1. s = stage /\ p \in members
    BY DEF SubmitInput, MayAnswer, MayAct, RoleAt
  <1>2. /\ answers' = [answers EXCEPT ![s][p] = a]
        /\ skips' = [skips EXCEPT ![s] = skips[s] \ {p}]
        /\ members' = members
    BY DEF SubmitInput, NoLongerSkipped, shape
  <1>3. a.given
    BY MembersAnswer
  <1>4. /\ answers'[s] = [answers[s] EXCEPT ![p] = a]
        /\ \A r \in Rounds \ {s} : answers'[r] = answers[r]
    BY <1>2 DEF TypeOK
  <1>5. Answered(s)' = Answered(s) \cup {p}
    BY <1>1, <1>2, <1>3, <1>4 DEF Answered, TypeOK
  <1> QED BY <1>1, <1>2, <1>4, <1>5 DEF Answered, TypeOK

\* Where a settled round leaves the task.
LEMMA SettleLeaves ==
  ASSUME TypeOK, stage \in Rounds, kind' = kind, NEW answered, NEW skipped,
         Settle(stage, answered, skipped)
  PROVE  \/ Gone' = Gone
         \/ Gone' = Gone \cup {stage} /\ members \subseteq answered \cup skipped
  BY DEF TypeOK, Settle, Enter, IsComplete, NextStage, Gone

LEMMA RoundsKept == RoundsInv /\ [Next]_vars => RoundsInv'
  <1> SUFFICES ASSUME RoundsInv, [Next]_vars
               PROVE  RoundsAreFull' /\ NobodyCountsTwice'
    BY TypeKept DEF RoundsInv
  <1>0. TypeOK /\ Gone \subseteq Rounds /\ stage \notin Gone
    BY CurrentIsNotGone DEF RoundsInv
  <1>1. ASSUME NEW s \in Rounds, NEW p \in People, NEW a \in Answers(s),
               SubmitInput(s, p, a)
        PROVE  RoundsAreFull' /\ NobodyCountsTwice'
    <2>1. /\ s = stage /\ p \in members /\ members' = members
          /\ Answered(s)' = Answered(s) \cup {p}
          /\ skips'[s] = skips[s] \ {p}
          /\ \A r \in Rounds \ {s} :
                Answered(r)' = Answered(r) /\ skips'[r] = skips[r]
      BY <1>0, <1>1, AnsweredAfterSubmit DEF SubmitInput, shape
    <2>2. \/ Gone' = Gone
          \/ /\ Gone' = Gone \cup {s}
             /\ members \subseteq (Answered(s) \cup {p}) \cup (skips[s] \ {p})
      BY <1>0, <1>1, <2>1, SettleLeaves
      DEF SubmitInput, NoLongerSkipped, shape
    <2>3. Answered(s)' \subseteq members /\ skips'[s] \subseteq members
      BY <1>0, <2>1 DEF Answered, TypeOK
    <2>4. RoundsAreFull'
      BY <1>0, <2>1, <2>2, <2>3 DEF RoundsInv, RoundsAreFull
    <2>5. NobodyCountsTwice'
      BY <2>1 DEF RoundsInv, NobodyCountsTwice
    <2> QED BY <2>4, <2>5
  <1>2. ASSUME NEW p \in People, SkipMember(p)
        PROVE  RoundsAreFull' /\ NobodyCountsTwice'
    <2>0. PICK s \in Rounds : s = stage
      BY <1>2 DEF SkipMember, MaySkip
    <2>1. /\ p \in members /\ p \notin Answered(s)
          /\ members' = members /\ kind' = kind
          /\ \A r \in Rounds : Answered(r)' = Answered(r)
          /\ skips'[s] = skips[s] \cup {p}
          /\ \A r \in Rounds \ {s} : skips'[r] = skips[r]
      BY <1>0, <1>2, <2>0 DEF SkipMember, MaySkip, shape, Answered, TypeOK
    <2>2. \/ Gone' = Gone
          \/ /\ Gone' = Gone \cup {s}
             /\ members \subseteq Answered(s) \cup (skips[s] \cup {p})
      BY <1>0, <1>2, <2>0, <2>1, SettleLeaves DEF SkipMember, MaySkip
    <2>3. Answered(s) \subseteq members /\ skips'[s] \subseteq members
      BY <1>0, <2>1 DEF Answered, TypeOK
    <2>4. RoundsAreFull'
      <3>1. \A r \in Gone : (Answered(r) \cup skips[r])' = members
        BY <1>0, <2>0, <2>1 DEF RoundsInv, RoundsAreFull
      <3>2. Gone' # Gone => (Answered(s) \cup skips[s])' = members
        BY <2>1, <2>2, <2>3
      <3> QED BY <2>1, <2>2, <3>1, <3>2 DEF RoundsAreFull
    <2>5. NobodyCountsTwice'
      BY <2>1 DEF RoundsInv, NobodyCountsTwice
    <2> QED BY <2>4, <2>5
  <1>3. ASSUME NEW options \in 0 .. MaxOptions, FinishOwnerStage(options)
        PROVE  RoundsAreFull' /\ NobodyCountsTwice'
    <2>1. /\ stage \in {"MERGING", "FINALIZING"}
          /\ members' = members /\ kind' = kind /\ skips' = skips
          /\ \A r \in Rounds : answers'[r] = answers[r]
          /\ stage' = NextStage(kind, stage)
      BY <1>0, <1>3 DEF FinishOwnerStage, MayFinish, RoleAt, Enter, shape, TypeOK
    <2>2. \A r \in Rounds : Answered(r)' = Answered(r)
      BY <2>1 DEF Answered
    <2>3. Gone' = Gone
      BY <1>0, <2>1 DEF Gone, NextStage, TypeOK
    <2> QED
      BY <1>0, <2>1, <2>2, <2>3
      DEF RoundsInv, RoundsAreFull, NobodyCountsTwice
  <1>4. CASE Revoke
    <2>1. Gone' = {}
      BY <1>4 DEF Revoke, Enter, Gone
    <2> QED
      BY <1>4, <2>1
      DEF Revoke, shape, Answered, RoundsInv, RoundsAreFull, NobodyCountsTwice
  <1>5. CASE UNCHANGED vars
    BY <1>5
    DEF vars, shape, Gone, Answered, RoundsInv, RoundsAreFull, NobodyCountsTwice
  <1> QED BY <1>1, <1>2, <1>3, <1>4, <1>5 DEF Next

LEMMA RoundsAlways == Spec => []RoundsInv
  BY InitRounds, RoundsKept, PTL DEF Spec

\* The page counts the votes and compares with the size of the group: that
\* is the same as asking whether anybody was passed over.
LEMMA TallyCountsMembers ==
  ASSUME RoundsInv, "VOTING" \in Gone
  PROVE  TallyComplete <=> skips["VOTING"] = {}
  <1> DEFINE voted == Answered("VOTING")
  <1>1. /\ IsFiniteSet(members) /\ voted \in SUBSET members
    BY FS_Subset, CompoundAssumption DEF RoundsInv, TypeOK, Answered
  <1>2. /\ voted \cup skips["VOTING"] = members
        /\ voted \cap skips["VOTING"] = {}
    BY DEF RoundsInv, RoundsAreFull, NobodyCountsTwice
  <1>3. /\ Cardinality(members) \in Nat /\ Cardinality(voted) \in Nat
        /\ Cardinality(voted) <= Cardinality(members)
        /\ Cardinality(members) = Cardinality(voted) => members = voted
    BY <1>1, FS_Subset, FS_CardinalityType
  <1>4. TallyComplete <=> voted = members
    BY <1>3 DEF TallyComplete
  <1> QED BY <1>2, <1>4

\* Whoever was asked in a round that was left has answered or was passed
\* over, and a vote is complete just when nobody was, for any group
\* (submit_input, skip_member, is_complete, project).
THEOREM NobodyIsOverlooked == Spec => []EveryoneIsAccountedFor
  <1>1. RoundsInv => EveryoneIsAccountedFor
    BY TallyCountsMembers
    DEF EveryoneIsAccountedFor, RoundsInv, RoundsAreFull, NobodyCountsTwice
  <1> QED BY RoundsAlways, <1>1, PTL

LEMMA CurrentIsNotOver ==
  TypeOK => Over \subseteq Stages \ Finished /\ stage \notin Over
  BY DEF TypeOK, Over, Stages, Finished

\* What is read of the answers to a vote does not change while they do not.
LEMMA OutcomeIsRead ==
  ASSUME answers'["MERGING"] = answers["MERGING"],
         answers'["VOTING"] = answers["VOTING"], UNCHANGED <<members, owner>>
  PROVE  PutUp' = PutUp /\ Selected' = Selected
  <1>1. PutUp' = PutUp
    BY DEF PutUp
  <1>2. Answered("VOTING")' = Answered("VOTING")
    BY DEF Answered
  <1>3. \A o : Total(o)' = Total(o)
    <2> TAKE o
    <2>1. ScoredBy(o)' = ScoredBy(o)
      BY <1>2 DEF ScoredBy
    <2>2. Points(o)' = Points(o)
      BY <2>1 DEF Points
    <2> QED BY <2>2 DEF Total
  <1>4. \A o, q : Leads(o, q)' <=> Leads(o, q)
    BY <1>3 DEF Leads
  <1>5. \A o : {q \in PutUp : Leads(q, o)}' = {q \in PutUp : Leads(q, o)}
    BY <1>1, <1>4
  <1>6. Selected' = Selected
    BY <1>1, <1>5 DEF Selected
  <1> QED BY <1>1, <1>6

\* No command writes an answer, an option or a skip of a stage that is over,
\* whoever sends it, and the outcome of a vote is read from nothing else
\* (submit_input, skip_member, finish_owner_stage, revoke, _tally).
THEOREM ClosedRoundsAreFinal == Spec => RoundsStayClosed
  <1> DEFINE Kept == /\ \A s \in Over : answers'[s] = answers[s]
                     /\ \A s \in Over \cap Rounds : skips'[s] = skips[s]
                     /\ VoteIsOver => PutUp' = PutUp /\ Selected' = Selected
  <1>1. RoundsInv /\ [Next]_vars => Kept \/ UNCHANGED vars
    <2> SUFFICES ASSUME RoundsInv, Next PROVE Kept
      BY DEF vars
    <2>0. TypeOK /\ Over \subseteq Stages \ Finished /\ stage \notin Over
      BY CurrentIsNotOver DEF RoundsInv
    <2>a. ASSUME \A s \in Over : answers'[s] = answers[s],
                 \A s \in Over \cap Rounds : skips'[s] = skips[s],
                 UNCHANGED shape
          PROVE  Kept
      <3>1. VoteIsOver => {"MERGING", "VOTING"} \subseteq Over
        BY DEF VoteIsOver, Over, Stages, Finished
      <3> QED BY <2>a, <3>1, OutcomeIsRead DEF shape
    <2> HIDE DEF Kept
    <2>1. ASSUME NEW s \in Rounds, NEW p \in People, NEW a \in Answers(s),
                 SubmitInput(s, p, a)
          PROVE  Kept
      <3>1. s = stage /\ UNCHANGED shape
        BY <2>1 DEF SubmitInput, MayAnswer
      <3>2. /\ answers' = [answers EXCEPT ![s][p] = a]
            /\ skips' = [skips EXCEPT ![s] = NoLongerSkipped(s, p)]
        BY <2>1 DEF SubmitInput
      <3> QED BY <2>0, <2>a, <3>1, <3>2 DEF TypeOK
    <2>2. ASSUME NEW p \in People, SkipMember(p) PROVE Kept
      BY <2>0, <2>a, <2>2 DEF SkipMember, MaySkip, TypeOK
    <2>3. ASSUME NEW options \in 0 .. MaxOptions, FinishOwnerStage(options)
          PROVE  Kept
      BY <2>0, <2>a, <2>3 DEF FinishOwnerStage, MayFinish, TypeOK
    <2>4. CASE Revoke
      BY <2>a, <2>4 DEF Revoke
    <2> QED BY <2>1, <2>2, <2>3, <2>4 DEF Next
  <1> QED BY RoundsAlways, <1>1, PTL DEF Spec, RoundsStayClosed

-----------------------------------------------------------------------------
(* Notices.  A second notice for a stage would be refused and would take   *)
(* the answer that led there back with it; there never is one.             *)

\* The stages still to come, whatever the kind.
Ahead(s) == CASE s = "COLLECTING" -> {"MERGING", "VOTING", "FINALIZING"}
              [] s = "MERGING" -> {"VOTING", "FINALIZING"}
              [] s = "VOTING" -> {"FINALIZING"}
              [] OTHER -> {}

\* Those whose turn it is have been told, and nobody has of a later stage.
TurnsAreAnnounced ==
    /\ stage \notin Finished => told[stage] = Recipients(stage)
    /\ \A s \in Ahead(stage) : told[s] = {}

LEMMA InitAnnounced == Init => TurnsAreAnnounced
  BY DEF Init, TurnsAreAnnounced, Ahead, Nothing, Recipients, RoleAt

\* Entering the stage that follows announces it and none of those after it.
LEMMA EnterAnnounces ==
  ASSUME TypeOK, TurnsAreAnnounced, UNCHANGED shape, stage \notin Finished,
         Enter(NextStage(kind, stage)) \/ Enter("REVOKED")
  PROVE  TurnsAreAnnounced'
  <1>0. PICK s \in Stages : s = stage'
    BY DEF TypeOK, Enter, NextStage
  <1>1. /\ s \in Stages
        /\ Ahead(s) \subseteq Ahead(stage)
        /\ s \notin Finished => s \in Ahead(stage) /\ s \notin Ahead(s)
    BY <1>0 DEF TypeOK, Enter, NextStage, Ahead
  <1>2. IF s \in Finished THEN told' = told
                          ELSE told' = [told EXCEPT ![s] = Recipients(s)]
    BY <1>0, <1>1 DEF Enter, RoleAt
  <1>3. s \notin Finished => Recipients(s)' = Recipients(s)
    BY DEF shape, Recipients
  <1>4. \A r \in Ahead(s) : told'[r] = {}
    <2>1. Ahead(stage) \subseteq Stages \ Finished
      BY DEF Ahead
    <2> QED BY <1>1, <1>2, <2>1 DEF TypeOK, TurnsAreAnnounced
  <1>5. s \notin Finished => told'[s] = Recipients(s)
    BY <1>1, <1>2 DEF TypeOK
  <1>6. s \notin Finished => told'[s] = Recipients(s)'
    BY <1>3, <1>5
  <1> QED BY <1>0, <1>4, <1>6 DEF TurnsAreAnnounced

LEMMA AnnouncedKept ==
  TypeOK /\ TurnsAreAnnounced /\ [Next]_vars => TurnsAreAnnounced'
  <1> SUFFICES ASSUME TypeOK, TurnsAreAnnounced, [Next]_vars
               PROVE  TurnsAreAnnounced'
    OBVIOUS
  <1>1. ASSUME UNCHANGED <<shape, stage, told>> PROVE TurnsAreAnnounced'
    BY <1>1 DEF shape, TurnsAreAnnounced, Recipients
  <1>2. ASSUME NEW s \in Rounds, NEW p \in People, NEW a \in Answers(s),
               SubmitInput(s, p, a)
        PROVE  TurnsAreAnnounced'
    BY <1>1, <1>2, EnterAnnounces DEF SubmitInput, MayAnswer, Settle
  <1>3. ASSUME NEW p \in People, SkipMember(p) PROVE TurnsAreAnnounced'
    BY <1>1, <1>3, EnterAnnounces DEF SkipMember, MaySkip, Settle
  <1>4. ASSUME NEW options \in 0 .. MaxOptions, FinishOwnerStage(options)
        PROVE  TurnsAreAnnounced'
    <2>1. stage \notin Finished
      BY <1>4 DEF FinishOwnerStage, MayFinish, RoleAt
    <2> QED BY <1>4, <2>1, EnterAnnounces DEF FinishOwnerStage, MayFinish
  <1>5. CASE Revoke
    BY <1>5, EnterAnnounces DEF Revoke
  <1>6. CASE UNCHANGED vars
    BY <1>1, <1>6 DEF vars
  <1> QED BY <1>2, <1>3, <1>4, <1>5, <1>6 DEF Next

\* Those whose turn it is are told of it, once: the one notice a stage may
\* have is never taken when the stage is entered (_enter, _notify).
THEOREM EveryTurnIsTold == Spec => []TurnsAreAnnounced
  <1>1. Spec => [](TypeOK /\ TurnsAreAnnounced)
    <2>1. Init => TypeOK /\ TurnsAreAnnounced
      BY InitTyped, InitAnnounced
    <2>2. TypeOK /\ TurnsAreAnnounced /\ [Next]_vars
              => (TypeOK /\ TurnsAreAnnounced)'
      BY TypeKept, AnnouncedKept
    <2> QED BY <2>1, <2>2, PTL DEF Spec
  <1> QED BY <1>1, PTL

-----------------------------------------------------------------------------
(* The owner's part.  As long as the task is not finished the owner has a  *)
(* command whose conditions hold.                                          *)

\* A round that is open waits for somebody, and a vote that is still to come
\* has nobody's answer or skip in it.
SomebodyIsAwaited ==
    /\ stage \in Rounds => ~IsComplete(Answered(stage), skips[stage])
    /\ stage \in {"COLLECTING", "MERGING"} =>
           Answered("VOTING") = {} /\ skips["VOTING"] = {}

AwaitInv == TypeOK /\ TurnsAreAnnounced /\ SomebodyIsAwaited

LEMMA InitAwaited == Init => AwaitInv
  <1> SUFFICES ASSUME Init PROVE SomebodyIsAwaited
    BY InitTyped, InitAnnounced DEF AwaitInv
  <1>1. \A s \in Rounds : Answered(s) = {} /\ skips[s] = {}
    BY DEF Init, Answered, Missing
  <1>2. owner \in members
    BY DEF Init
  <1> QED BY <1>1, <1>2 DEF SomebodyIsAwaited, IsComplete

\* A round that is settled is left or still waits for somebody.
LEMMA SettleAwaits ==
  ASSUME AwaitInv, UNCHANGED shape, NEW s \in Rounds, s = stage,
         NEW answered, NEW skipped, Settle(s, answered, skipped),
         Answered(s)' = answered, skips'[s] = skipped,
         \A r \in Rounds \ {s} : Answered(r)' = Answered(r) /\ skips'[r] = skips[r]
  PROVE  SomebodyIsAwaited'
  <1>1. CASE IsComplete(answered, skipped)
    <2>1. stage' = NextStage(kind, s)
      BY <1>1 DEF Settle, Enter
    <2>2. stage' \notin Rounds
      BY <2>1 DEF NextStage
    <2>3. stage' \in {"COLLECTING", "MERGING"} => s = "COLLECTING"
      BY <2>1 DEF NextStage
    <2> QED BY <2>2, <2>3 DEF AwaitInv, SomebodyIsAwaited
  <1>2. CASE ~IsComplete(answered, skipped)
    <2>1. stage' = s
      BY <1>2 DEF Settle
    <2>2. ~IsComplete(Answered(s), skips[s])'
      BY <1>2 DEF IsComplete, shape
    <2>3. (stage \in Rounds => ~IsComplete(Answered(stage), skips[stage]))'
      BY <2>1, <2>2
    <2>4. stage' \in {"COLLECTING", "MERGING"} =>
              Answered("VOTING")' = {} /\ skips'["VOTING"] = {}
      BY <2>1 DEF AwaitInv, SomebodyIsAwaited
    <2> QED BY <2>3, <2>4 DEF SomebodyIsAwaited
  <1> QED BY <1>1, <1>2

LEMMA AwaitKept == AwaitInv /\ [Next]_vars => AwaitInv'
  <1> SUFFICES ASSUME AwaitInv, [Next]_vars PROVE SomebodyIsAwaited'
    BY TypeKept, AnnouncedKept DEF AwaitInv
  <1>0. TypeOK
    BY DEF AwaitInv
  <1>1. ASSUME NEW s \in Rounds, NEW p \in People, NEW a \in Answers(s),
               SubmitInput(s, p, a)
        PROVE  SomebodyIsAwaited'
    <2>1. /\ s = stage
          /\ Answered(s)' = Answered(s) \cup {p}
          /\ skips'[s] = skips[s] \ {p}
          /\ \A r \in Rounds \ {s} :
                Answered(r)' = Answered(r) /\ skips'[r] = skips[r]
      BY <1>0, <1>1, AnsweredAfterSubmit
    <2>2. /\ UNCHANGED shape
          /\ Settle(s, Answered(s) \cup {p}, skips[s] \ {p})
      BY <1>1 DEF SubmitInput, NoLongerSkipped
    <2> QED BY <2>1, <2>2, SettleAwaits
  <1>2. ASSUME NEW p \in People, SkipMember(p) PROVE SomebodyIsAwaited'
    <2>0. PICK s \in Rounds : s = stage
      BY <1>2 DEF SkipMember, MaySkip
    <2>1. /\ UNCHANGED shape
          /\ Settle(s, Answered(s), skips[s] \cup {p})
          /\ skips' = [skips EXCEPT ![s] = @ \cup {p}]
          /\ \A r \in Rounds : Answered(r)' = Answered(r)
      BY <1>2, <2>0 DEF SkipMember, shape, Answered
    <2>2. /\ skips'[s] = skips[s] \cup {p}
          /\ \A r \in Rounds \ {s} : skips'[r] = skips[r]
      BY <1>0, <2>1 DEF TypeOK
    <2> QED BY <2>0, <2>1, <2>2, SettleAwaits
  <1>3. ASSUME NEW options \in 0 .. MaxOptions, FinishOwnerStage(options)
        PROVE  SomebodyIsAwaited'
    <2>1. /\ stage \in {"MERGING", "FINALIZING"}
          /\ UNCHANGED <<shape, skips>>
          /\ stage' = NextStage(kind, stage)
          /\ answers'["VOTING"] = answers["VOTING"]
      BY <1>0, <1>3
      DEF FinishOwnerStage, MayFinish, RoleAt, Enter, TypeOK
    <2>2. /\ stage' \notin {"COLLECTING", "MERGING"}
          /\ stage' \in Rounds => stage = "MERGING" /\ stage' = "VOTING"
      BY <2>1 DEF NextStage
    <2>3. Answered("VOTING")' = Answered("VOTING")
      BY <2>1 DEF Answered, shape
    <2>4. ASSUME stage' \in Rounds
          PROVE  ~IsComplete(Answered("VOTING"), skips["VOTING"])'
      <3>1. Answered("VOTING")' = {} /\ skips'["VOTING"] = {}
        BY <2>1, <2>2, <2>3, <2>4 DEF AwaitInv, SomebodyIsAwaited
      <3>2. owner \in members /\ members' = members
        BY <1>0, <2>1 DEF TypeOK, shape
      <3> QED BY <3>1, <3>2 DEF IsComplete
    <2> QED BY <2>2, <2>4 DEF SomebodyIsAwaited
  <1>4. CASE Revoke
    BY <1>4 DEF Revoke, Enter, SomebodyIsAwaited
  <1>5. CASE UNCHANGED vars
    BY <1>5
    DEF vars, shape, AwaitInv, SomebodyIsAwaited, IsComplete, Answered
  <1> QED BY <1>1, <1>2, <1>3, <1>4, <1>5 DEF Next

\* The stage that a command of the owner leads to can still be announced.
NextCanBeTold ==
    LET s == NextStage(kind, stage) IN RoleAt(s) = "NOBODY" \/ told[s] = {}

\* OwnerIsNeverStuck with the conditions of the three commands written out.
OwnerHasAMove ==
    stage \notin Finished =>
        /\ NextCanBeTold
        /\ \/ \E p \in members : MaySkip(p)
           \/ MyTurn(owner) /\ MayAnswer(stage, owner) /\ Answers(stage) # {}
           \/ \E o \in 0 .. MaxOptions : MayFinish(o)

\* Nobody's absence stops a task: while it is not finished, its owner has
\* somebody to pass over, an answer of their own to give or their stage to
\* end, and the stage that follows can be entered, for any group.  That the
\* owner may put up more options than are kept is the code's; here it takes
\* a bound that lets them (skip_member, submit_input, finish_owner_stage).
THEOREM OwnerAlwaysHasAMove ==
  ASSUME SelectionCount < MaxOptions
  PROVE  Spec => []OwnerHasAMove
  <1>1. AwaitInv => OwnerHasAMove
    <2> SUFFICES ASSUME AwaitInv, stage \notin Finished
                 PROVE  /\ NextCanBeTold
                        /\ \/ \E p \in members : MaySkip(p)
                           \/ /\ MyTurn(owner) /\ MayAnswer(stage, owner)
                              /\ Answers(stage) # {}
                           \/ \E o \in 0 .. MaxOptions : MayFinish(o)
      BY DEF OwnerHasAMove
    <2>0. TypeOK
      BY DEF AwaitInv
    <2>1. NextCanBeTold
      <3>1. NextStage(kind, stage) \in Ahead(stage) \cup {"DONE"}
        BY <2>0 DEF NextStage, Ahead, TypeOK
      <3> QED BY <3>1 DEF AwaitInv, TurnsAreAnnounced, NextCanBeTold, RoleAt
    <2>2. CASE stage \in Rounds
      <3>1. PICK p \in members : p \notin Answered(stage) \cup skips[stage]
        BY <2>2 DEF AwaitInv, SomebodyIsAwaited, IsComplete
      <3>2. ASSUME p # owner PROVE MaySkip(p)
        BY <2>2, <3>1, <3>2 DEF MaySkip
      <3>3. ASSUME p = owner
            PROVE  MyTurn(owner) /\ MayAnswer(stage, owner) /\ Answers(stage) # {}
        <4>1. MyTurn(owner) /\ MayAnswer(stage, owner)
          <5>1. RoleAt(stage) = "EVERYONE"
            BY <2>2 DEF RoleAt
          <5>2. MayAct(owner)
            BY <2>0, <5>1 DEF MayAct, TypeOK
          <5>3. ~answers[stage][owner].given
            BY <3>1, <3>3 DEF Answered
          <5> QED BY <5>2, <5>3 DEF MyTurn, MayAnswer
        <4>2. Answers(stage) # {}
          <5> DEFINE Sheets == IF stage = "COLLECTING" THEN {<<>>}
                               ELSE UNION {Scores(o) :
                                      o \in (SUBSET (0 .. MaxOptions - 1)) \ {{}}}
          <5>1. Answers(stage) = [given : {TRUE}, options : {0}, scores : Sheets]
            BY DEF Answers
          <5>2. Sheets # {}
            <6>1. [o \in {0} |-> 1] \in Scores({0})
              BY CompoundAssumption DEF Scores
            <6>2. {0} \in (SUBSET (0 .. MaxOptions - 1)) \ {{}}
              BY CompoundAssumption
            <6> QED BY <6>1, <6>2
          <5> HIDE DEF Sheets
          <5>3. PICK sheet \in Sheets : TRUE
            BY <5>2
          <5>4. [given |-> TRUE, options |-> 0, scores |-> sheet] \in Answers(stage)
            BY <5>1, <5>3
          <5> QED BY <5>4
        <4> QED BY <4>1, <4>2
      <3> QED BY <2>1, <3>1, <3>2, <3>3
    <2>3. CASE stage \notin Rounds
      <3>1. RoleAt(stage) = "OWNER"
        BY <2>0, <2>3 DEF RoleAt, TypeOK
      <3>2. SelectionCount + 1 \in 0 .. MaxOptions /\ 0 \in 0 .. MaxOptions
            /\ SelectionCount + 1 > SelectionCount
        BY CompoundAssumption
      <3>3. MayFinish(SelectionCount + 1) \/ MayFinish(0)
        BY <3>1, <3>2 DEF MayFinish
      <3> QED BY <2>1, <3>2, <3>3
    <2> QED BY <2>2, <2>3
  <1>2. Spec => []AwaitInv
    BY InitAwaited, AwaitKept, PTL DEF Spec
  <1> QED BY <1>1, <1>2, PTL

-----------------------------------------------------------------------------
(* Rankings of a finite set.                                               *)

\* As for the vote on a question: when below gives what comes before each member in a strict total order,
\* exactly n members have fewer than n before them, and those are the first.
LEMMA FirstOfARanking ==
  ASSUME NEW S, IsFiniteSet(S), NEW below \in [S -> SUBSET S],
         \A o \in S : o \notin below[o],
         \A o, q \in S : o # q => o \in below[q] \/ q \in below[o],
         \A o, q \in S : q \in below[o] => below[q] \subseteq below[o],
         NEW n \in Nat, n <= Cardinality(S)
  PROVE  /\ Cardinality({o \in S : Cardinality(below[o]) < n}) = n
         /\ \A o, q \in S : q \in below[o] =>
                Cardinality(below[q]) < Cardinality(below[o])
  <1> DEFINE N == Cardinality(S)
             rank == [o \in S |-> Cardinality(below[o])]
  <1>1. N \in Nat
    BY FS_CardinalityType
  <1>2. ASSUME NEW o \in S
        PROVE  /\ IsFiniteSet(below[o]) /\ Cardinality(below[o]) \in Nat
               /\ Cardinality(below[o]) \in 0 .. N - 1
    <2>1. IsFiniteSet(S \ {o}) /\ Cardinality(S \ {o}) = N - 1
      BY FS_RemoveElement
    <2>2. below[o] \in SUBSET (S \ {o})
      OBVIOUS
    <2>3. IsFiniteSet(below[o]) /\ Cardinality(below[o]) <= N - 1
      BY <2>1, <2>2, FS_Subset
    <2>4. Cardinality(below[o]) \in Nat
      BY <2>3, FS_CardinalityType
    <2> QED BY <1>1, <2>3, <2>4
  <1>3. ASSUME NEW o \in S, NEW q \in S, q \in below[o]
        PROVE  Cardinality(below[q]) < Cardinality(below[o])
    <2>1. below[q] \in SUBSET below[o] /\ below[q] # below[o]
      BY <1>3
    <2>2. /\ Cardinality(below[q]) <= Cardinality(below[o])
          /\ Cardinality(below[o]) # Cardinality(below[q])
      BY <1>2, <2>1, FS_Subset
    <2> QED BY <1>2, <2>2
  <1>4. rank \in Injection(S, 0 .. N - 1)
    <2>1. rank \in [S -> 0 .. N - 1]
      BY <1>2
    <2>2. ASSUME NEW o \in S, NEW q \in S, rank[o] = rank[q] PROVE o = q
      <3> SUFFICES ASSUME o # q PROVE FALSE
        OBVIOUS
      <3>1. o \in below[q] \/ q \in below[o]
        OBVIOUS
      <3> QED BY <1>2, <1>3, <2>2, <3>1
    <2> QED BY <2>1, <2>2 DEF Injection, IsInjective
  <1>5. rank \in Surjection(S, 0 .. N - 1)
    <2>1. IsFiniteSet(0 .. N - 1) /\ Cardinality(0 .. N - 1) = N
      <3>1. N - 1 \in Int /\ 0 \in Int
        BY <1>1
      <3> HIDE DEF N
      <3> QED BY <1>1, <3>1, FS_Interval
    <2> HIDE DEF rank
    <2> QED BY <1>4, <2>1, FS_Injection
  <1>6. Cardinality({o \in S : Cardinality(below[o]) < n}) = n
    <2> DEFINE T == {o \in S : Cardinality(below[o]) < n}
               r == [o \in T |-> Cardinality(below[o])]
    <2>1. T \in SUBSET S
      OBVIOUS
    <2>2. IsFiniteSet(T)
      BY <2>1, FS_Subset
    <2>3. r \in [T -> 0 .. n - 1]
      BY <1>2
    <2>4. IsInjective(r)
      BY <1>4 DEF IsInjective, Injection
    <2>5. ASSUME NEW k \in 0 .. n - 1 PROVE \E o \in T : r[o] = k
      <3>1. k \in 0 .. N - 1
        BY <1>1
      <3>2. PICK o \in S : rank[o] = k
        BY <1>5, <3>1 DEF Surjection
      <3> QED BY <3>2
    <2> HIDE DEF T, r
    <2>6. r \in Bijection(T, 0 .. n - 1)
      BY <2>3, <2>4, <2>5 DEF Bijection, Injection, Surjection
    <2>7. Cardinality(0 .. n - 1) = Cardinality(T)
      BY <2>2, <2>6, FS_Bijection DEF ExistsBijection
    <2>8. Cardinality(0 .. n - 1) = n
      BY FS_Interval
    <2> QED BY <2>7, <2>8 DEF T
  <1> QED BY <1>3, <1>6

-----------------------------------------------------------------------------
(* The outcome of the vote.                                                *)

\* The vote is held over more options than will be kept, and nothing that
\* comes after the merge writes to them.
OptionsAreEnough ==
    stage \in {"VOTING", "FINALIZING", "DONE"} /\ kind = "VOTE" =>
        answers["MERGING"][owner].options > SelectionCount

OutcomeInv == TypeOK /\ OptionsAreEnough

LEMMA InitOutcome == Init => OutcomeInv
  BY InitTyped DEF Init, OutcomeInv, OptionsAreEnough

LEMMA OutcomeKept == OutcomeInv /\ [Next]_vars => OutcomeInv'
  <1> SUFFICES ASSUME OutcomeInv, [Next]_vars PROVE OptionsAreEnough'
    BY TypeKept DEF OutcomeInv
  <1>0. TypeOK
    BY DEF OutcomeInv
  <1>1. ASSUME UNCHANGED shape, answers'["MERGING"] = answers["MERGING"],
               stage = "MERGING" => stage' \in {"MERGING", "REVOKED"},
               stage = "COLLECTING" => stage' \in {"COLLECTING", "MERGING", "REVOKED"},
               stage \in Finished => stage' = stage
        PROVE  OptionsAreEnough'
    BY <1>0, <1>1 DEF OutcomeInv, OptionsAreEnough, shape, TypeOK
  <1>2. ASSUME stage \in Rounds, NEW answered, NEW skipped,
               Settle(stage, answered, skipped)
        PROVE  stage = "COLLECTING" => stage' \in {"COLLECTING", "MERGING", "REVOKED"}
    BY <1>2 DEF Settle, Enter, NextStage
  <1>3. ASSUME NEW s \in Rounds, NEW p \in People, NEW a \in Answers(s),
               SubmitInput(s, p, a)
        PROVE  OptionsAreEnough'
    <2>1. answers'["MERGING"] = answers["MERGING"] /\ s = stage /\ UNCHANGED shape
      BY <1>0, <1>3 DEF SubmitInput, MayAnswer, TypeOK
    <2> QED BY <1>1, <1>2, <1>3, <2>1 DEF SubmitInput
  <1>4. ASSUME NEW p \in People, SkipMember(p) PROVE OptionsAreEnough'
    BY <1>1, <1>2, <1>4 DEF SkipMember, MaySkip
  <1>5. ASSUME NEW options \in 0 .. MaxOptions, FinishOwnerStage(options)
        PROVE  OptionsAreEnough'
    <2>1. CASE stage = "MERGING" /\ kind = "VOTE"
      <3>1. options > SelectionCount /\ UNCHANGED shape
            /\ answers' = [answers EXCEPT !["MERGING"][owner] =
                              [Missing EXCEPT !.given = TRUE, !.options = options]]
        BY <1>5, <2>1 DEF FinishOwnerStage, MayFinish
      <3>2. answers'["MERGING"][owner].options = options
        BY <1>0, <3>1 DEF TypeOK, Missing
      <3> QED BY <3>1, <3>2 DEF OptionsAreEnough, shape
    <2>2. CASE stage = "MERGING" /\ kind # "VOTE"
      BY <1>5, <2>2 DEF FinishOwnerStage, MayFinish, OptionsAreEnough, shape
    <2>3. CASE stage = "FINALIZING"
      <3>1. answers'["MERGING"] = answers["MERGING"] /\ UNCHANGED shape
        BY <1>0, <1>5, <2>3 DEF FinishOwnerStage, MayFinish, TypeOK
      <3> QED BY <1>1, <2>3, <3>1
    <2>4. stage \in {"MERGING", "FINALIZING"}
      BY <1>0, <1>5 DEF FinishOwnerStage, MayFinish, RoleAt, TypeOK
    <2> QED BY <2>1, <2>2, <2>3, <2>4
  <1>6. CASE Revoke
    BY <1>6 DEF Revoke, Enter, OptionsAreEnough
  <1>7. CASE UNCHANGED vars
    BY <1>7 DEF vars, shape, OutcomeInv, OptionsAreEnough
  <1> QED BY <1>3, <1>4, <1>5, <1>6, <1>7 DEF Next

LEMMA OutcomeAlways == Spec => []OutcomeInv
  BY InitOutcome, OutcomeKept, PTL DEF Spec

LEMMA LeadsIsTotal ==
  ASSUME TypeOK
  PROVE  /\ \A o \in Nat : Total(o) \in Nat /\ ~Leads(o, o)
         /\ \A o, q \in Nat : o # q => Leads(o, q) \/ Leads(q, o)
         /\ \A o, q, r \in Nat : Leads(o, q) /\ Leads(q, r) => Leads(o, r)
         /\ \A o, q \in Nat : Total(o) > Total(q) => Leads(o, q)
  <1>1. ASSUME NEW o \in Nat PROVE Total(o) \in Nat
    <2>1. IsFiniteSet(ScoredBy(o))
      <3>1. ScoredBy(o) \in SUBSET People
        BY DEF ScoredBy, Answered, TypeOK
      <3> QED BY <3>1, FS_Subset, CompoundAssumption
    <2>2. IsFiniteSet(1 .. MaxScore)
      <3>1. 1 \in Int /\ MaxScore \in Int
        BY CompoundAssumption
      <3> QED BY <3>1, FS_Interval
    <2>3. IsFiniteSet(ScoredBy(o) \X (1 .. MaxScore))
      BY <2>1, <2>2, FS_Product
    <2>4. Points(o) \in SUBSET (ScoredBy(o) \X (1 .. MaxScore))
      BY DEF Points
    <2>5. IsFiniteSet(Points(o))
      BY <2>3, <2>4, FS_Subset
    <2> QED BY <2>5, FS_CardinalityType DEF Total
  <1> QED BY <1>1 DEF Leads

LEMMA OutcomeIsThere == OutcomeInv => OutcomeStands
  <1> SUFFICES ASSUME OutcomeInv, stage \in {"FINALIZING", "DONE"}, kind = "VOTE"
               PROVE  /\ Cardinality(Selected) = SelectionCount
                      /\ \A o \in Selected, q \in PutUp \ Selected :
                             Total(o) >= Total(q)
    BY DEF OutcomeStands, VoteIsOver
  <1> DEFINE below == [o \in PutUp |-> {q \in PutUp : Leads(q, o)}]
             options == answers["MERGING"][owner].options
  <1>1. /\ options \in 0 .. MaxOptions /\ options > SelectionCount
        /\ SelectionCount \in Nat /\ MaxOptions \in Nat
    <2>1. answers["MERGING"][owner] \in Answer
      BY DEF OutcomeInv, TypeOK
    <2>2. MaxOptions \in Nat /\ SelectionCount \in Nat
      BY CompoundAssumption
    <2>3. options \in 0 .. MaxOptions
      <3> DEFINE Sheets == UNION {[o -> 1 .. MaxScore] :
                                     o \in SUBSET (0 .. MaxOptions - 1)}
      <3>1. \A a \in Answer :
                \/ a = Missing
                \/ a \in [given : {TRUE}, options : 0 .. MaxOptions, scores : Sheets]
        BY DEF Answer
      <3> HIDE DEF Sheets
      <3>2. Missing.options = 0 /\ 0 \in 0 .. MaxOptions
        BY <2>2 DEF Missing
      <3> QED BY <2>1, <3>1, <3>2
    <2> QED BY <2>2, <2>3 DEF OutcomeInv, OptionsAreEnough
  <1>2. /\ PutUp = 0 .. options - 1 /\ PutUp \subseteq Nat
        /\ IsFiniteSet(PutUp) /\ Cardinality(PutUp) = options
    <2>1. PutUp = 0 .. options - 1
      BY <1>1 DEF PutUp
    <2>2. 0 \in Int /\ options - 1 \in Int /\ options \in Nat
      BY <1>1
    <2> HIDE DEF options
    <2> QED BY <1>1, <2>1, <2>2, FS_Interval
  <1> HIDE DEF options
  <1>3. /\ \A o \in PutUp : Total(o) \in Nat
        /\ \A o \in PutUp : ~Leads(o, o)
        /\ \A o, q \in PutUp : o # q => Leads(o, q) \/ Leads(q, o)
        /\ \A o, q, r \in PutUp : Leads(o, q) /\ Leads(q, r) => Leads(o, r)
        /\ \A o, q \in PutUp : Total(o) > Total(q) => Leads(o, q)
    BY <1>2, LeadsIsTotal DEF OutcomeInv
  <1>4. /\ below \in [PutUp -> SUBSET PutUp]
        /\ \A o \in PutUp : o \notin below[o]
        /\ \A o, q \in PutUp : o # q => o \in below[q] \/ q \in below[o]
        /\ \A o, q \in PutUp : q \in below[o] => below[q] \subseteq below[o]
    BY <1>3
  <1>5. Selected = {o \in PutUp : Cardinality(below[o]) < SelectionCount}
    BY DEF Selected
  <1>6. \A o, q \in PutUp : q \in below[o] <=> Leads(q, o)
    OBVIOUS
  <1>7. \A o \in PutUp : Cardinality(below[o]) \in Nat
    <2> SUFFICES ASSUME NEW o \in PutUp PROVE Cardinality(below[o]) \in Nat
      OBVIOUS
    <2>1. below[o] \in SUBSET PutUp
      OBVIOUS
    <2> HIDE DEF below
    <2> QED BY <1>2, <2>1, FS_Subset, FS_CardinalityType
  <1> HIDE DEF below
  <1>8. /\ Cardinality({o \in PutUp : Cardinality(below[o]) < SelectionCount})
               = SelectionCount
        /\ \A o, q \in PutUp : q \in below[o] =>
               Cardinality(below[q]) < Cardinality(below[o])
    <2>1. SelectionCount <= Cardinality(PutUp)
      <3>1. SelectionCount < options /\ options \in Nat
        BY <1>1
      <3> QED BY <1>1, <1>2, <3>1
    <2>2. IsFiniteSet(PutUp) /\ SelectionCount \in Nat
      BY <1>1, <1>2
    <2> QED BY <1>4, <2>1, <2>2, FirstOfARanking
  <1>9. ASSUME NEW o \in Selected, NEW q \in PutUp \ Selected
        PROVE  Total(o) >= Total(q)
    <2> SUFFICES ASSUME Total(q) > Total(o) PROVE FALSE
      BY <1>3, <1>5
    <2>1. o \in PutUp /\ Cardinality(below[o]) < SelectionCount
      BY <1>5
    <2>2. q \in below[o]
      BY <1>3, <1>6, <2>1
    <2>3. Cardinality(below[q]) < SelectionCount
      BY <1>1, <1>7, <1>8, <2>1, <2>2
    <2> QED BY <1>5, <2>3
  <1> QED BY <1>5, <1>8, <1>9

\* Once a vote is over exactly as many options are kept as were asked for,
\* and none that was kept has fewer points than one that was dropped, for
\* any group, number of options and scale (finish_owner_stage, _tally).
THEOREM OutcomesStand == Spec => []OutcomeStands
  BY OutcomeAlways, OutcomeIsThere, PTL
=============================================================================
