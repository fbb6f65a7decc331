------------------------- MODULE QuestionVoteProofs -------------------------
(***************************************************************************)
(* Proofs about QuestionVote, for any participants, collections, options,  *)
(* scores and number of accepted results.                                  *)
(***************************************************************************)
EXTENDS QuestionVote, FiniteSetTheorems, TLAPS

-----------------------------------------------------------------------------
(* Rankings of a finite set.                                               *)

\* When below gives what comes before each member in a strict total order,
\* exactly n members have fewer than n before them, and those are the first.
LEMMA FirstOfARanking ==
  ASSUME NEW S, IsFiniteSet(S), NEW below \in [S -> SUBSET S],
         \A o \in S : o \notin below[o],
         \A o, q \in S : o # q => o \in below[q] \/ q \in below[o],
         \A o, q \in S : q \in below[o] => below[q] \subseteq below[o],
         NEW n \in Nat, n <= Cardinality(S)
  PROVE  /\ Cardinality({o \in S : Cardinality(below[o]) < n}) = n
         /\ \A o, q \in S : q \in below[o] =>
                Cardinality(below[q]) < Cardinality(below[o])
  <1> DEFINE N == Cardinality(S)
             rank == [o \in S |-> Cardinality(below[o])]
  <1>1. N \in Nat
    BY FS_CardinalityType
  <1>2. ASSUME NEW o \in S
        PROVE  /\ IsFiniteSet(below[o]) /\ Cardinality(below[o]) \in Nat
               /\ Cardinality(below[o]) \in 0 .. N - 1
    <2>1. IsFiniteSet(S \ {o}) /\ Cardinality(S \ {o}) = N - 1
      BY FS_RemoveElement
    <2>2. below[o] \in SUBSET (S \ {o})
      OBVIOUS
    <2>3. IsFiniteSet(below[o]) /\ Cardinality(below[o]) <= N - 1
      BY <2>1, <2>2, FS_Subset
    <2>4. Cardinality(below[o]) \in Nat
      BY <2>3, FS_CardinalityType
    <2> QED BY <1>1, <2>3, <2>4
  <1>3. ASSUME NEW o \in S, NEW q \in S, q \in below[o]
        PROVE  Cardinality(below[q]) < Cardinality(below[o])
    <2>1. below[q] \in SUBSET below[o] /\ below[q] # below[o]
      BY <1>3
    <2>2. /\ Cardinality(below[q]) <= Cardinality(below[o])
          /\ Cardinality(below[o]) # Cardinality(below[q])
      BY <1>2, <2>1, FS_Subset
    <2> QED BY <1>2, <2>2
  <1>4. rank \in Injection(S, 0 .. N - 1)
    <2>1. rank \in [S -> 0 .. N - 1]
      BY <1>2
    <2>2. ASSUME NEW o \in S, NEW q \in S, rank[o] = rank[q] PROVE o = q
      <3> SUFFICES ASSUME o # q PROVE FALSE
        OBVIOUS
      <3>1. o \in below[q] \/ q \in below[o]
        OBVIOUS
      <3> QED BY <1>2, <1>3, <2>2, <3>1
    <2> QED BY <2>1, <2>2 DEF Injection, IsInjective
  <1>5. rank \in Surjection(S, 0 .. N - 1)
    <2>1. IsFiniteSet(0 .. N - 1) /\ Cardinality(0 .. N - 1) = N
      <3>1. N - 1 \in Int /\ 0 \in Int
        BY <1>1
      <3> HIDE DEF N
      <3> QED BY <1>1, <3>1, FS_Interval
    <2> HIDE DEF rank
    <2> QED BY <1>4, <2>1, FS_Injection
  <1>6. Cardinality({o \in S : Cardinality(below[o]) < n}) = n
    <2> DEFINE T == {o \in S : Cardinality(below[o]) < n}
               r == [o \in T |-> Cardinality(below[o])]
    <2>1. T \in SUBSET S
      OBVIOUS
    <2>2. IsFiniteSet(T)
      BY <2>1, FS_Subset
    <2>3. r \in [T -> 0 .. n - 1]
      BY <1>2
    <2>4. IsInjective(r)
      BY <1>4 DEF IsInjective, Injection
    <2>5. ASSUME NEW k \in 0 .. n - 1 PROVE \E o \in T : r[o] = k
      <3>1. k \in 0 .. N - 1
        BY <1>1
      <3>2. PICK o \in S : rank[o] = k
        BY <1>5, <3>1 DEF Surjection
      <3> QED BY <3>2
    <2> HIDE DEF T, r
    <2>6. r \in Bijection(T, 0 .. n - 1)
      BY <2>3, <2>4, <2>5 DEF Bijection, Injection, Surjection
    <2>7. Cardinality(0 .. n - 1) = Cardinality(T)
      BY <2>2, <2>6, FS_Bijection DEF ExistsBijection
    <2>8. Cardinality(0 .. n - 1) = n
      BY FS_Interval
    <2> QED BY <2>7, <2>8 DEF T
  <1> QED BY <1>3, <1>6

-----------------------------------------------------------------------------
(* Types.                                                                  *)

LEMMA ConstantFacts ==
  /\ NoOne \notin People /\ Options \subseteq Nat
  /\ Choices \subseteq (SUBSET Collections) \ {{}}
  /\ SelectionCount \in Nat \ {0} /\ MaxScore \in Nat \ {0} /\ MaxVersions \in Nat
  /\ IsFiniteSet(People) /\ IsFiniteSet(Options)
  BY VoteAssumption

LEMMA NothingIsAVersion == Nothing \in Versions
  BY ConstantFacts DEF Nothing, Versions

LEMMA NullsTyped ==
  /\ Absent \in VoteRow /\ Blank \in Ballot
  /\ NoResult \in Result /\ NoHand \in InHand
  BY NothingIsAVersion DEF VoteRow, Blank, Ballot, NoResult, Result, NoHand, InHand

LEMMA InForceTyped == ASSUME TypeOK PROVE InForce \in Versions
  BY ConstantFacts DEF TypeOK, InForce, Versions

LEMMA InitTyped == Init => TypeOK
  <1> SUFFICES ASSUME Init PROVE TypeOK
    OBVIOUS
  <1>1. /\ DOMAIN ballots = {} /\ ballots \in [DOMAIN ballots -> Ballot]
        /\ DOMAIN votes = {} /\ votes \in [DOMAIN votes -> VoteRow]
    BY DEF Init
  <1> QED
    BY <1>1, NothingIsAVersion, NullsTyped DEF Init, TypeOK, Statuses

LEMMA DeclareTyped == ASSUME TypeOK, Declare PROVE TypeOK'
  <1>1. ASSUME NEW collections \in Choices, NEW final \in People,
               NEW voters \in (SUBSET People) \ {{}},
               ConfirmStructure(collections, final, voters)
        PROVE  TypeOK'
    <2>1. /\ DOMAIN ballots' = Owners \cup {final}
          /\ ballots' \in [DOMAIN ballots' -> Ballot]
      BY <1>1, NullsTyped DEF ConfirmStructure, TypeOK, Owners
    <2>2. /\ DOMAIN votes' = Voters \cup voters
          /\ votes' \in [DOMAIN votes' -> VoteRow]
      BY <1>1, NullsTyped DEF ConfirmStructure, TypeOK, Voters
    <2>3. depends' \subseteq Collections /\ finalOwner' \in People
      BY <1>1, ConstantFacts DEF ConfirmStructure, TypeOK
    <2>4. UNCHANGED <<status, published, owner, candidate, valid, latest, current,
                      bound, drafting, submitting>>
      BY <1>1 DEF ConfirmStructure, results, hands
    <2> QED
      BY <2>1, <2>2, <2>3, <2>4 DEF TypeOK, Owners, Voters
  <1>2. CASE RevokeStructure
    <2>1. /\ DOMAIN ballots' = {} /\ ballots' \in [DOMAIN ballots' -> Ballot]
          /\ DOMAIN votes' = {} /\ votes' \in [DOMAIN votes' -> VoteRow]
      BY <1>2 DEF RevokeStructure
    <2> QED
      BY <1>2, <2>1, NothingIsAVersion DEF RevokeStructure, TypeOK, results, hands
  <1> QED BY <1>1, <1>2 DEF Declare

LEMMA HandTyped == ASSUME TypeOK, Hand PROVE TypeOK'
  <1> USE DEF results, inputs, hands
  <1>1. CASE Dispatch
    BY <1>1 DEF Dispatch, TypeOK, Statuses
  <1>2. CASE Return
    BY <1>2 DEF Return, TypeOK, Statuses
  <1>3. CASE Activate
    <2>1. bound' \in Versions
      BY <1>3, ConstantFacts DEF Activate, TypeOK, Versions
    <2> QED BY <1>3, <2>1 DEF Activate, TypeOK, Statuses
  <1>4. ASSUME NEW p \in People, HandOn(p) PROVE TypeOK'
    BY <1>4 DEF HandOn, TypeOK
  <1> QED BY <1>1, <1>2, <1>3, <1>4 DEF Hand

LEMMA BallotingTyped == ASSUME TypeOK, Balloting PROVE TypeOK'
  <1> USE DEF task, results, inputs, hands
  <1>1. ASSUME NEW p \in People, BeginDraft(p) PROVE TypeOK'
    <2>1. drafting' \in InHand
      BY <1>1, InForceTyped DEF BeginDraft, InHand
    <2> QED BY <1>1, <2>1 DEF BeginDraft, TypeOK
  <1>2. ASSUME NEW p \in People, NEW options \in SUBSET Options,
               OpenBallot(p, options)
        PROVE  TypeOK'
    <2>1. /\ DOMAIN ballots' = DOMAIN ballots
          /\ ballots' \in [DOMAIN ballots -> Ballot]
      BY <1>2, InForceTyped DEF OpenBallot, Ballot, TypeOK
    <2>2. /\ DOMAIN votes' = DOMAIN votes
          /\ votes' \in [DOMAIN votes -> VoteRow]
      BY <1>2, NullsTyped DEF OpenBallot, Voters
    <2>3. submitting' \in InHand
      BY <1>2, NullsTyped DEF OpenBallot
    <2> QED BY <1>2, <2>1, <2>2, <2>3 DEF OpenBallot, TypeOK
  <1>3. CASE StoreDraft
    <2>1. [Blank EXCEPT !.over = drafting.over] \in Ballot
      <3>1. drafting.over \in Versions
        BY DEF TypeOK, InHand
      <3> QED BY <3>1, NullsTyped DEF Ballot
    <2>2. /\ DOMAIN ballots' = DOMAIN ballots
          /\ ballots' \in [DOMAIN ballots -> Ballot]
      BY <1>3, <2>1 DEF StoreDraft, TypeOK
    <2>3. bound' \in Versions /\ drafting' \in InHand
      BY <1>3, InForceTyped, NullsTyped DEF StoreDraft
    <2> QED BY <1>3, <2>2, <2>3 DEF StoreDraft, TypeOK
  <1>4. CASE DraftFails
    BY <1>4, NullsTyped DEF DraftFails, TypeOK
  <1> QED BY <1>1, <1>2, <1>3, <1>4 DEF Balloting

LEMMA VotingTyped ==
  ASSUME TypeOK, NEW v \in Voters, NEW p \in Owners, NEW o \in SUBSET Options,
         NEW s \in Scores(o), SubmitVote(v, p, s)
  PROVE  TypeOK'
  <1> USE DEF task, results, inputs, hands
  <1>1. s \in UNION {[q -> 1 .. MaxScore] : q \in SUBSET Options}
    BY DEF Scores
  <1>2. [cast |-> TRUE, scores |-> s] \in VoteRow
    BY <1>1 DEF VoteRow
  <1>3. DOMAIN votes' = DOMAIN votes /\ votes' \in [DOMAIN votes -> VoteRow]
    BY <1>2 DEF SubmitVote, TypeOK, Voters
  <1> QED BY <1>3 DEF SubmitVote, TypeOK

LEMMA DecidingTyped == ASSUME TypeOK, Deciding PROVE TypeOK'
  <1> USE DEF task, results, inputs, hands
  <1>1. CASE BeginSubmission
    <2>1. submitting' \in InHand
      BY <1>1, InForceTyped DEF BeginSubmission, InHand, TypeOK
    <2> QED BY <1>1, <2>1 DEF BeginSubmission, TypeOK
  <1>2. CASE StoreSubmission
    <2>1. candidate' \in Result /\ submitting' \in InHand
      BY <1>2, NullsTyped DEF StoreSubmission, Result, TypeOK, InHand
    <2> QED BY <1>2, <2>1 DEF StoreSubmission, TypeOK, Statuses
  <1>3. CASE SubmissionEnds
    BY <1>3, NullsTyped DEF SubmissionEnds, TypeOK
  <1>4. CASE SubmitUnchecked
    <2>1. candidate' \in Result
      BY <1>4, NothingIsAVersion DEF SubmitUnchecked, Result
    <2> QED BY <1>4, <2>1 DEF SubmitUnchecked, TypeOK, Statuses
  <1>5. ASSUME NEW approve \in BOOLEAN, ReviewFinal(approve) PROVE TypeOK'
    BY <1>5, NullsTyped DEF ReviewFinal, TypeOK, Statuses
  <1> QED BY <1>1, <1>2, <1>3, <1>4, <1>5 DEF Deciding

LEMMA AcceptTyped ==
  ASSUME TypeOK, NEW c \in Collections, AcceptCollection(c)
  PROVE  TypeOK'
  <1>1. latest' \in Versions /\ current' \in Versions
    <2>1. latest[c] + 1 \in 0 .. MaxVersions
      BY ConstantFacts DEF AcceptCollection, TypeOK, Versions
    <2>2. latest' \in Versions /\ latest'[c] = latest[c] + 1
      BY <2>1 DEF AcceptCollection, TypeOK, Versions
    <2> QED BY <2>1, <2>2 DEF AcceptCollection, TypeOK, Versions
  <1>2. CASE BoundToAnother(c)
    <2>1. bound' \in Versions
      BY <1>1, <1>2 DEF AcceptCollection, TypeOK, Versions
    <2>2. /\ DOMAIN ballots' = DOMAIN ballots
          /\ ballots' \in [DOMAIN ballots -> Ballot]
      BY <1>2, NullsTyped DEF AcceptCollection, Owners
    <2>3. DOMAIN votes' = DOMAIN votes /\ votes' \in [DOMAIN votes -> VoteRow]
      BY <1>2, NullsTyped DEF AcceptCollection, VotesReset, Voters
    <2>4. /\ status' \in Statuses /\ candidate' \in Result /\ valid' \in Result
          /\ submitting' \in InHand
      BY <1>2, NullsTyped DEF AcceptCollection, TypeOK, Statuses
    <2> QED BY <1>1, <2>1, <2>2, <2>3, <2>4 DEF AcceptCollection, TypeOK
  <1>3. CASE ~BoundToAnother(c)
    BY <1>1, <1>3 DEF AcceptCollection, TypeOK
  <1> QED BY <1>2, <1>3

LEMMA VoidTyped ==
  ASSUME TypeOK, NEW c \in Collections, VoidCollection(c)
  PROVE  TypeOK'
  <1>1. current' \in Versions
    BY ConstantFacts DEF VoidCollection, TypeOK, Versions
  <1> QED BY <1>1 DEF VoidCollection, TypeOK, task, inputs, hands

-----------------------------------------------------------------------------
(* The inductive invariant.                                                *)

\* What is in force was accepted last, and what is bound is bound to that.
BindingsAreCurrent ==
    \A c \in Collections :
        /\ current[c] \in {0, latest[c]}
        /\ bound[c] # 0 => c \in depends /\ bound[c] = latest[c]

\* A task that has a structure has somebody to vote and something to collect
\* from, and it has one from the time it is dispatched.
StructureHolds ==
    /\ ~published => status = "DRAFT"
    /\ finalOwner = NoOne => ~published
    /\ finalOwner # NoOne => Voters # {} /\ depends # {}
    /\ drafting # NoHand => drafting.by \in Owners

\* Nothing has begun before the task has an owner.
StagesHold ==
    /\ owner = NoOne <=> status \notin Worked
    /\ owner = NoOne => /\ \A p \in Owners : ballots[p] = Blank
                        /\ candidate = NoResult /\ valid = NoResult
                        /\ bound = Nothing
                        /\ drafting = NoHand /\ submitting = NoHand

\* Without a ballot there is no vote and no result that rests on one.
ClosedIsEmpty ==
    Opened = {} => /\ candidate.over = Nothing /\ valid.over = Nothing
                   /\ submitting = NoHand /\ HaveVoted = {}

\* An open ballot leaves something to decide, and the only one is voted on as
\* a whole.
VotesCoverBallot ==
    \A p \in Opened :
        /\ Cardinality(ballots[p].options) > SelectionCount
        /\ Opened = {p} =>
               \A v \in HaveVoted : DOMAIN votes[v].scores = ballots[p].options

AllBound == DeclaredOnce /\ \A c \in depends : bound[c] # 0

\* A submission in hand is one of a complete vote on the results in force.
SubmissionHolds ==
    submitting # NoHand =>
        /\ HaveVoted = Voters
        /\ submitting.over # Nothing
        /\ AllBound => submitting.over = LastAccepted

VoteInv ==
    /\ TypeOK /\ BindingsAreCurrent /\ StructureHolds /\ StagesHold
    /\ ClosedIsEmpty /\ VotesCoverBallot /\ SubmissionHolds /\ BoundWorkIsCurrent

USE DEF Worked

\* Nothing is open, cast or delivered before the task is activated.
LEMMA UnownedIsUntouched ==
  ASSUME VoteInv, owner = NoOne
  PROVE  /\ Opened = {} /\ HaveVoted = {} /\ \A p \in Owners : ballots[p] = Blank
         /\ candidate = NoResult /\ valid = NoResult /\ bound = Nothing
         /\ drafting = NoHand /\ submitting = NoHand
  <1>1. Opened = {}
    BY DEF VoteInv, StagesHold, Blank, Opened
  <1> QED BY <1>1 DEF VoteInv, StagesHold, ClosedIsEmpty

LEMMA OwnedHasStructure ==
  ASSUME VoteInv, owner # NoOne
  PROVE  Voters # {} /\ depends # {} /\ published /\ finalOwner # NoOne
  BY DEF VoteInv, StagesHold, StructureHolds, TypeOK

\* Of a task declared once only one ballot can be open.
LEMMA OneOwner ==
  ASSUME TypeOK, DeclaredOnce, NEW p \in Owners
  PROVE  Owners = {p}
  <1>1. IsFiniteSet(Owners)
    <2>1. Owners \in SUBSET People
      BY DEF TypeOK, Owners
    <2> QED BY <2>1, FS_Subset, ConstantFacts
  <1>2. Cardinality(Owners) \in Nat /\ Cardinality(Owners) # 0
    BY <1>1, FS_CardinalityType, FS_EmptySet
  <1>3. Cardinality(Owners) = 1
    BY <1>2 DEF DeclaredOnce
  <1> QED BY <1>1, <1>3, FS_Singleton

\* What may be drawn from is what was accepted last, of every input.
LEMMA ReadyIsLatest ==
  ASSUME VoteInv, DependenciesReady
  PROVE  /\ InForce = LastAccepted
         /\ owner # NoOne => InForce # Nothing
  <1>1. \A c \in depends : c \in Collections /\ current[c] # 0
    BY DEF VoteInv, TypeOK, DependenciesReady, Satisfied
  <1>2. InForce = LastAccepted
    BY <1>1 DEF InForce, LastAccepted, VoteInv, BindingsAreCurrent
  <1>3. ASSUME owner # NoOne PROVE InForce # Nothing
    <2>1. PICK c \in depends : TRUE
      BY <1>3, OwnedHasStructure
    <2>2. c \in Collections /\ InForce[c] # 0
      BY <1>1, <2>1 DEF InForce
    <2> QED BY <2>2 DEF Nothing
  <1> QED BY <1>2, <1>3

LEMMA NobodyHasVoted ==
  ASSUME NEW S, votes' = [v \in S |-> Absent]
  PROVE  HaveVoted' = {} /\ Voters' = S
  BY DEF HaveVoted, Voters, Absent

LEMMA InitInv == Init => VoteInv
  <1> SUFFICES ASSUME Init PROVE VoteInv
    OBVIOUS
  <1>1. Owners = {} /\ Voters = {} /\ Opened = {} /\ HaveVoted = {}
    BY DEF Init, Owners, Voters, Opened, HaveVoted
  <1>2. BindingsAreCurrent /\ StructureHolds /\ StagesHold
    BY <1>1 DEF Init, BindingsAreCurrent, StructureHolds, StagesHold, Nothing
  <1>3. ClosedIsEmpty /\ VotesCoverBallot /\ SubmissionHolds
    BY <1>1 DEF Init, ClosedIsEmpty, VotesCoverBallot, SubmissionHolds, NoResult
  <1>4. BoundWorkIsCurrent
    BY <1>1 DEF Init, BoundWorkIsCurrent, NoResult
  <1> QED BY <1>2, <1>3, <1>4, InitTyped DEF VoteInv

\* What the state is before the task has an owner.
Untouched ==
    /\ owner = NoOne /\ bound = Nothing
    /\ candidate = NoResult /\ valid = NoResult
    /\ drafting = NoHand /\ submitting = NoHand
    /\ HaveVoted = {} /\ \A p \in Owners : ballots[p] = Blank

LEMMA DeclareLeavesUntouched == ASSUME VoteInv, Declare PROVE Untouched'
  <1>1. ASSUME NEW collections \in Choices, NEW final \in People,
               NEW voters \in (SUBSET People) \ {{}},
               ConfirmStructure(collections, final, voters)
        PROVE  Untouched'
    <2>1. owner = NoOne
      BY <1>1 DEF ConfirmStructure
    <2>2. /\ owner' = NoOne /\ bound' = Nothing
          /\ candidate' = NoResult /\ valid' = NoResult
          /\ drafting' = NoHand /\ submitting' = NoHand
      BY <1>1, <2>1, UnownedIsUntouched DEF ConfirmStructure, hands
    <2>3. \A v \in Voters' : ~votes'[v].cast
      BY <1>1, <2>1, UnownedIsUntouched
      DEF ConfirmStructure, Voters, HaveVoted, Absent
    <2>4. \A p \in Owners' : ballots'[p] = Blank
      BY <1>1, <2>1, UnownedIsUntouched DEF ConfirmStructure, Owners
    <2> QED BY <2>2, <2>3, <2>4 DEF Untouched, HaveVoted
  <1>2. CASE RevokeStructure
    <2>1. owner = NoOne
      BY <1>2 DEF RevokeStructure
    <2>2. HaveVoted' = {} /\ Owners' = {}
      BY <1>2, NobodyHasVoted DEF RevokeStructure, Owners
    <2> QED
      BY <1>2, <2>1, <2>2, UnownedIsUntouched DEF RevokeStructure, Untouched, hands
  <1> QED BY <1>1, <1>2 DEF Declare

LEMMA DeclareKept == ASSUME VoteInv, Declare PROVE VoteInv'
  <1>0. TypeOK'
    BY DeclareTyped DEF VoteInv
  <1>1. Untouched'
    BY DeclareLeavesUntouched
  <1>2. UNCHANGED <<owner, status, published, latest, current>> /\ ~published
    BY DEF Declare, ConfirmStructure, RevokeStructure, results
  <1>3. Opened' = {}
    BY <1>1 DEF Untouched, Opened, Blank
  <1>4. BindingsAreCurrent'
    BY <1>1, <1>2 DEF VoteInv, BindingsAreCurrent, Untouched, Nothing
  <1>5. finalOwner' # NoOne => Voters' # {} /\ depends' # {}
    <2>1. ASSUME NEW collections \in Choices, NEW final \in People,
                 NEW voters \in (SUBSET People) \ {{}},
                 ConfirmStructure(collections, final, voters)
          PROVE  Voters' # {} /\ depends' # {}
      BY <2>1, ConstantFacts DEF ConfirmStructure, Voters
    <2> QED BY <2>1 DEF Declare, RevokeStructure
  <1>6. StructureHolds' /\ StagesHold'
    BY <1>1, <1>2, <1>5
    DEF VoteInv, StructureHolds, StagesHold, Untouched
  <1>7. ClosedIsEmpty' /\ VotesCoverBallot' /\ SubmissionHolds'
    BY <1>1, <1>3
    DEF ClosedIsEmpty, VotesCoverBallot, SubmissionHolds, Untouched, NoResult
  <1>8. BoundWorkIsCurrent'
    BY <1>1 DEF BoundWorkIsCurrent, Untouched, NoResult, Blank
  <1> QED BY <1>0, <1>4, <1>6, <1>7, <1>8 DEF VoteInv

\* What a step leaves as it was when it leaves rows, bindings and results alone.
LEMMA RowsKept ==
  ASSUME VoteInv, UNCHANGED <<results, inputs, candidate, valid>>,
         submitting' \in {submitting, NoHand}
  PROVE  /\ BindingsAreCurrent' /\ ClosedIsEmpty' /\ VotesCoverBallot'
         /\ SubmissionHolds' /\ BoundWorkIsCurrent'
         /\ Owners' = Owners /\ Opened' = Opened
         /\ Voters' = Voters /\ HaveVoted' = HaveVoted
  <1> USE DEF results, inputs
  <1>1. /\ Owners' = Owners /\ Opened' = Opened
        /\ Voters' = Voters /\ HaveVoted' = HaveVoted
    BY DEF Owners, Opened, Voters, HaveVoted
  <1>2. LastAccepted' = LastAccepted /\ (AllBound' <=> AllBound)
    BY <1>1 DEF LastAccepted, AllBound, DeclaredOnce
  <1>3. BindingsAreCurrent'
    BY DEF VoteInv, BindingsAreCurrent
  <1>4. ClosedIsEmpty' /\ VotesCoverBallot' /\ SubmissionHolds'
    BY <1>1, <1>2 DEF VoteInv, ClosedIsEmpty, VotesCoverBallot, SubmissionHolds
  <1>5. BoundWorkIsCurrent'
    BY <1>1, <1>2 DEF VoteInv, BoundWorkIsCurrent, AllBound
  <1> QED BY <1>1, <1>3, <1>4, <1>5

LEMMA HandKept == ASSUME VoteInv, Hand PROVE VoteInv'
  <1> USE DEF results, inputs, hands
  <1>0. TypeOK'
    BY HandTyped DEF VoteInv
  <1>1. UNCHANGED <<candidate, valid, finalOwner, results, depends, ballots, votes,
                    hands>>
    BY DEF Hand, Dispatch, Return, Activate, HandOn
  <1>2. CASE Activate
    <2>1. owner = NoOne
      BY <1>2 DEF VoteInv, StagesHold, Activate
    <2>2. finalOwner # NoOne /\ published
      BY <1>2 DEF VoteInv, StructureHolds, Activate, TypeOK
    <2>3. owner' # NoOne
      BY <1>2, <2>2 DEF Activate
    <2>4. BindingsAreCurrent'
      BY <1>1, <1>2, <2>1, UnownedIsUntouched
      DEF VoteInv, BindingsAreCurrent, Activate, Satisfied, Nothing
    <2>5. /\ Opened' = Opened /\ HaveVoted' = HaveVoted
          /\ Owners' = Owners /\ Voters' = Voters
      BY <1>1 DEF Opened, HaveVoted, Owners, Voters
    <2>6. StructureHolds' /\ StagesHold'
      BY <1>1, <1>2, <2>2, <2>3, <2>5
      DEF VoteInv, StructureHolds, StagesHold, Activate
    <2>7. ClosedIsEmpty' /\ VotesCoverBallot' /\ SubmissionHolds'
      BY <1>1, <2>1, <2>5, UnownedIsUntouched
      DEF VoteInv, ClosedIsEmpty, VotesCoverBallot, SubmissionHolds
    <2>8. BoundWorkIsCurrent'
      BY <1>1, <2>1, <2>5, UnownedIsUntouched
      DEF BoundWorkIsCurrent, NoResult, Blank
    <2> QED BY <1>0, <2>4, <2>6, <2>7, <2>8 DEF VoteInv
  <1>3. CASE ~Activate
    <2>1. bound' = bound
      BY <1>3 DEF Hand, Dispatch, Return, HandOn
    <2>2. /\ BindingsAreCurrent' /\ ClosedIsEmpty' /\ VotesCoverBallot'
          /\ SubmissionHolds' /\ BoundWorkIsCurrent'
          /\ Owners' = Owners /\ Voters' = Voters
      BY <1>1, <2>1, RowsKept
    <2>3. StructureHolds' /\ StagesHold'
      BY <1>1, <1>3, <2>1, <2>2, ConstantFacts
      DEF VoteInv, StructureHolds, StagesHold, Hand, Dispatch, Return, HandOn
    <2> QED BY <1>0, <2>2, <2>3 DEF VoteInv
  <1> QED BY <1>2, <1>3

\* A step that leaves the task, the bindings and the rows alone.
LEMMA IdleStepKept ==
  ASSUME VoteInv, TypeOK', UNCHANGED <<task, results, inputs>>,
         submitting' \in {submitting, NoHand},
         drafting' # NoHand => drafting'.by \in Owners,
         owner = NoOne => drafting' = NoHand /\ submitting' = NoHand
  PROVE  VoteInv'
  <1> USE DEF task, results, inputs
  <1>1. /\ BindingsAreCurrent' /\ ClosedIsEmpty' /\ VotesCoverBallot'
        /\ SubmissionHolds' /\ BoundWorkIsCurrent'
        /\ Owners' = Owners /\ Voters' = Voters
    BY RowsKept
  <1>2. StructureHolds' /\ StagesHold'
    BY <1>1 DEF VoteInv, StructureHolds, StagesHold
  <1> QED BY <1>1, <1>2 DEF VoteInv

LEMMA BallotingKept == ASSUME VoteInv, Balloting PROVE VoteInv'
  <1> USE DEF task, results, inputs
  <1>0. TypeOK /\ TypeOK'
    BY BallotingTyped DEF VoteInv
  <1>1. ASSUME NEW p \in People, BeginDraft(p) PROVE VoteInv'
    BY <1>0, <1>1, IdleStepKept, ConstantFacts DEF BeginDraft
  <1>2. CASE DraftFails
    BY <1>0, <1>2, IdleStepKept DEF DraftFails, VoteInv, StagesHold
  <1>3. ASSUME NEW p \in People, NEW options \in SUBSET Options,
               OpenBallot(p, options)
        PROVE  VoteInv'
    <2> DEFINE row == [open |-> TRUE, over |-> InForce, options |-> options]
    <2>1. /\ p \in Owners /\ p \notin Opened /\ owner = p /\ owner # NoOne
          /\ ballots' = [ballots EXCEPT ![p] = row]
          /\ Cardinality(options) > SelectionCount
          /\ DependenciesReady /\ submitting' = NoHand
          /\ UNCHANGED <<task, results, depends, bound, drafting>>
      BY <1>3, ConstantFacts DEF OpenBallot, MayOpen, Opened
    <2>2. HaveVoted' = {} /\ Voters' = Voters
      BY <1>3, NobodyHasVoted DEF OpenBallot
    <2>3. /\ Owners' = Owners /\ ballots'[p] = row
          /\ \A q \in Owners \ {p} : ballots'[q] = ballots[q]
          /\ Opened' = Opened \cup {p}
      BY <2>1 DEF Owners, Opened
    <2>4. BindingsAreCurrent' /\ StructureHolds' /\ StagesHold'
      BY <2>1, <2>2, <2>3
      DEF VoteInv, BindingsAreCurrent, StructureHolds, StagesHold
    <2>5. ClosedIsEmpty' /\ VotesCoverBallot' /\ SubmissionHolds'
      BY <2>1, <2>2, <2>3
      DEF VoteInv, ClosedIsEmpty, VotesCoverBallot, SubmissionHolds, Opened
    <2>6. BoundWorkIsCurrent'
      <3> SUFFICES ASSUME AllBound'
                   PROVE  {ballots'[q].over : q \in Owners'} \cup
                          {candidate'.over, valid'.over}
                              \subseteq {Nothing, LastAccepted'}
        BY DEF BoundWorkIsCurrent, AllBound
      <3>1. DeclaredOnce /\ LastAccepted' = LastAccepted
        BY <2>1, <2>3 DEF AllBound, DeclaredOnce, LastAccepted
      <3>2. Owners = {p}
        BY <1>0, <2>1, <3>1, OneOwner
      <3>3. Opened = {}
        BY <2>1, <3>2 DEF Opened
      <3>4. candidate'.over = Nothing /\ valid'.over = Nothing
        BY <2>1, <3>3 DEF VoteInv, ClosedIsEmpty
      <3>5. ballots'[p].over = LastAccepted
        BY <2>1, <2>3, ReadyIsLatest
      <3> QED BY <2>3, <3>1, <3>2, <3>4, <3>5
    <2> QED BY <1>0, <2>4, <2>5, <2>6 DEF VoteInv
  <1>4. CASE StoreDraft
    <2> DEFINE p == drafting.by
    <2>1. /\ ballots' = [ballots EXCEPT ![p] = [Blank EXCEPT !.over = InForce]]
          /\ bound' = InForce /\ drafting # NoHand /\ drafting' = NoHand
          /\ DependenciesReady /\ ~ballots[p].open
          /\ UNCHANGED <<task, results, depends, votes, submitting>>
      BY <1>4 DEF StoreDraft, DraftStillFits
    <2>2. p \in Owners /\ p \notin Opened /\ owner # NoOne
      BY <2>1 DEF VoteInv, StructureHolds, StagesHold, Opened
    <2>3. /\ Owners' = Owners
          /\ ballots'[p] = [open |-> FALSE, over |-> InForce, options |-> {}]
          /\ \A q \in Owners \ {p} : ballots'[q] = ballots[q]
      BY <2>1, <2>2 DEF Owners, Blank
    <2>4. Opened' = Opened /\ Voters' = Voters /\ HaveVoted' = HaveVoted
      BY <2>1, <2>2, <2>3 DEF Opened, Voters, HaveVoted
    <2>5. BindingsAreCurrent'
      BY <1>0, <2>1, ReadyIsLatest
      DEF VoteInv, BindingsAreCurrent, InForce, LastAccepted
    <2>6. StructureHolds' /\ StagesHold'
      BY <2>1, <2>2, <2>3, <2>4 DEF VoteInv, StructureHolds, StagesHold
    <2>7. DeclaredOnce => Opened = {}
      BY <1>0, <2>2, OneOwner DEF Opened
    <2>8. ClosedIsEmpty' /\ VotesCoverBallot'
      BY <2>1, <2>2, <2>3, <2>4
      DEF VoteInv, ClosedIsEmpty, VotesCoverBallot, Opened
    <2>9. SubmissionHolds'
      <3>1. DeclaredOnce' => submitting' = NoHand
        BY <2>1, <2>3, <2>7 DEF DeclaredOnce, VoteInv, ClosedIsEmpty
      <3> QED BY <2>1, <2>4, <3>1 DEF VoteInv, SubmissionHolds, AllBound
    <2>10. BoundWorkIsCurrent'
      <3> SUFFICES ASSUME DeclaredOnce'
                   PROVE  {ballots'[q].over : q \in Owners'} \cup
                          {candidate'.over, valid'.over}
                              \subseteq {Nothing, LastAccepted'}
        BY DEF BoundWorkIsCurrent
      <3>1. DeclaredOnce /\ LastAccepted' = LastAccepted
        BY <2>1, <2>3 DEF DeclaredOnce, LastAccepted
      <3>2. Owners = {p}
        BY <1>0, <2>2, <3>1, OneOwner
      <3>3. candidate'.over = Nothing /\ valid'.over = Nothing
        BY <2>1, <2>7, <3>1 DEF VoteInv, ClosedIsEmpty
      <3>4. ballots'[p].over = LastAccepted
        BY <2>1, <2>3, ReadyIsLatest
      <3> QED BY <2>3, <3>1, <3>2, <3>3, <3>4
    <2> QED BY <1>0, <2>5, <2>6, <2>8, <2>9, <2>10 DEF VoteInv
  <1> QED BY <1>1, <1>2, <1>3, <1>4 DEF Balloting

\* A vote is added to those there are.
LEMMA VoteAdded ==
  ASSUME TypeOK, NEW v \in Voters, NEW p \in Owners, NEW scores,
         SubmitVote(v, p, scores)
  PROVE  /\ Voters' = Voters /\ HaveVoted' = HaveVoted \cup {v}
         /\ v \notin HaveVoted /\ votes'[v].scores = scores
         /\ \A u \in Voters \ {v} : votes'[u] = votes[u]
  <1>1. votes' = [votes EXCEPT ![v] = [cast |-> TRUE, scores |-> scores]]
    BY DEF SubmitVote
  <1>2. /\ Voters' = Voters
        /\ votes'[v].cast = TRUE /\ votes'[v].scores = scores
        /\ \A u \in Voters \ {v} : votes'[u] = votes[u]
    BY <1>1 DEF TypeOK, Voters
  <1>3. v \notin HaveVoted
    BY DEF SubmitVote, MayVote, HaveVoted
  <1> QED BY <1>2, <1>3 DEF HaveVoted

LEMMA VotingKept ==
  ASSUME VoteInv, NEW v \in Voters, NEW p \in Owners, NEW o \in SUBSET Options,
         NEW s \in Scores(o), SubmitVote(v, p, s)
  PROVE  VoteInv'
  <1> USE DEF task, results, hands
  <1>0. TypeOK /\ TypeOK'
    BY VotingTyped DEF VoteInv
  <1>1. /\ UNCHANGED <<task, results, depends, bound, ballots, hands>>
        /\ p \in Opened /\ DOMAIN s = ballots[p].options
    BY DEF SubmitVote, MayVote, EveryOptionHasAScore
  <1>2. /\ Owners' = Owners /\ Opened' = Opened /\ Voters' = Voters
        /\ HaveVoted' = HaveVoted \cup {v} /\ v \notin HaveVoted
    BY <1>0, <1>1, VoteAdded DEF Owners, Opened
  <1>3. submitting = NoHand
    BY <1>2 DEF VoteInv, SubmissionHolds
  <1>4. VotesCoverBallot'
    <2>1. ASSUME Opened' = {p}, NEW u \in HaveVoted'
          PROVE  DOMAIN votes'[u].scores = ballots[p].options
      <3>1. CASE u = v
        BY <1>0, <1>1, <3>1, VoteAdded
      <3>2. CASE u # v
        <4>1. u \in HaveVoted /\ u \in Voters
          BY <1>2, <2>1, <3>2 DEF HaveVoted
        <4>2. votes'[u] = votes[u]
          BY <1>0, <3>2, <4>1, VoteAdded
        <4> QED BY <1>1, <1>2, <2>1, <4>1, <4>2 DEF VoteInv, VotesCoverBallot
      <3> QED BY <3>1, <3>2
    <2>2. \A q \in Opened : Opened = {q} => q = p
      BY <1>1
    <2> QED BY <1>1, <1>2, <2>1, <2>2 DEF VoteInv, VotesCoverBallot
  <1>5. BindingsAreCurrent' /\ BoundWorkIsCurrent'
    BY <1>1, <1>2
    DEF VoteInv, BindingsAreCurrent, BoundWorkIsCurrent, DeclaredOnce, LastAccepted
  <1>6. StructureHolds' /\ StagesHold' /\ ClosedIsEmpty' /\ SubmissionHolds'
    BY <1>1, <1>2, <1>3
    DEF VoteInv, StructureHolds, StagesHold, ClosedIsEmpty, SubmissionHolds
  <1> QED BY <1>0, <1>4, <1>5, <1>6 DEF VoteInv

LEMMA DecidingKept == ASSUME VoteInv, Deciding PROVE VoteInv'
  <1> USE DEF task, results, inputs, hands
  <1>0. TypeOK'
    BY DecidingTyped DEF VoteInv
  <1>1. CASE SubmissionEnds
    BY <1>0, <1>1, IdleStepKept DEF SubmissionEnds, VoteInv, StagesHold, StructureHolds
  <1>2. CASE BeginSubmission
    <2>1. /\ HaveVoted = Voters /\ Opened # {} /\ DependenciesReady /\ owner # NoOne
          /\ submitting' = [by |-> owner, over |-> InForce]
          /\ UNCHANGED <<task, results, inputs, drafting>>
      BY <1>2 DEF BeginSubmission, FinalSubmissionReady
    <2>2. /\ Owners' = Owners /\ Opened' = Opened /\ Voters' = Voters
          /\ HaveVoted' = HaveVoted /\ LastAccepted' = LastAccepted
      BY <2>1 DEF Owners, Opened, Voters, HaveVoted, LastAccepted
    <2>3. SubmissionHolds'
      BY <2>1, <2>2, ReadyIsLatest DEF SubmissionHolds
    <2>4. BindingsAreCurrent' /\ BoundWorkIsCurrent'
      BY <2>1, <2>2
      DEF VoteInv, BindingsAreCurrent, BoundWorkIsCurrent, DeclaredOnce
    <2>5. StructureHolds' /\ StagesHold' /\ ClosedIsEmpty' /\ VotesCoverBallot'
      BY <2>1, <2>2
      DEF VoteInv, StructureHolds, StagesHold, ClosedIsEmpty, VotesCoverBallot
    <2> QED BY <1>0, <2>3, <2>4, <2>5 DEF VoteInv
  <1>3. CASE StoreSubmission \/ SubmitUnchecked \/
             \E approve \in BOOLEAN : ReviewFinal(approve)
    <2>1. /\ UNCHANGED <<published, owner, finalOwner, results, inputs, drafting>>
          /\ submitting' \in {submitting, NoHand}
          /\ status \in Worked /\ status' \in Worked
      BY <1>3 DEF StoreSubmission, SubmitUnchecked, ReviewFinal
    <2>2. {candidate'.over, valid'.over} \subseteq
              {Nothing, candidate.over, valid.over} \cup
              (IF submitting = NoHand THEN {} ELSE {submitting.over})
      BY <1>3 DEF StoreSubmission, SubmitUnchecked, ReviewFinal, NoResult
    <2>3. /\ Owners' = Owners /\ Opened' = Opened /\ Voters' = Voters
          /\ HaveVoted' = HaveVoted /\ LastAccepted' = LastAccepted
          /\ (AllBound' <=> AllBound)
      BY <2>1
      DEF Owners, Opened, Voters, HaveVoted, LastAccepted, AllBound, DeclaredOnce
    <2>4. BindingsAreCurrent' /\ StructureHolds' /\ StagesHold'
      BY <2>1, <2>3 DEF VoteInv, BindingsAreCurrent, StructureHolds, StagesHold
    <2>5. ClosedIsEmpty' /\ VotesCoverBallot' /\ SubmissionHolds'
      BY <2>1, <2>2, <2>3
      DEF VoteInv, ClosedIsEmpty, VotesCoverBallot, SubmissionHolds
    <2>6. BoundWorkIsCurrent'
      BY <2>1, <2>2, <2>3
      DEF VoteInv, BoundWorkIsCurrent, SubmissionHolds, AllBound
    <2> QED BY <1>0, <2>4, <2>5, <2>6 DEF VoteInv
  <1> QED BY <1>1, <1>2, <1>3 DEF Deciding

LEMMA AcceptKept ==
  ASSUME VoteInv, NEW c \in Collections, AcceptCollection(c)
  PROVE  VoteInv'
  <1>0. TypeOK /\ TypeOK'
    BY AcceptTyped DEF VoteInv
  <1>1. /\ UNCHANGED <<published, owner, finalOwner, depends, drafting>>
        /\ latest'[c] = latest[c] + 1 /\ current'[c] = latest'[c]
        /\ latest'[c] # latest[c] /\ latest'[c] # 0
        /\ \A d \in Collections : d # c =>
               latest'[d] = latest[d] /\ current'[d] = current[d]
    <2>1. latest[c] \in Nat /\ {latest, current} \subseteq Versions
      BY <1>0, ConstantFacts DEF TypeOK, Versions
    <2> QED BY <2>1 DEF AcceptCollection, Versions
  <1>2. CASE BoundToAnother(c)
    <2>1. bound[c] # 0 /\ owner # NoOne
      BY <1>2, UnownedIsUntouched DEF BoundToAnother, Nothing
    <2>2. /\ bound' = [bound EXCEPT ![c] = current'[c]]
          /\ candidate' = NoResult /\ valid' = NoResult
          /\ status' = "TRACKING" /\ submitting' = NoHand
      BY <1>2, <2>1 DEF AcceptCollection
    <2>3. HaveVoted' = {} /\ Voters' = Voters
      BY <1>2, NobodyHasVoted DEF AcceptCollection, VotesReset
    <2>4. /\ Owners' = Owners /\ \A p \in Owners : ballots'[p] = Blank
          /\ Opened' = {}
      BY <1>2 DEF AcceptCollection, Owners, Opened, Blank
    <2>5. BindingsAreCurrent'
      BY <1>0, <1>1, <1>2, <2>2
      DEF VoteInv, BindingsAreCurrent, BoundToAnother, TypeOK, Versions
    <2>6. BoundWorkIsCurrent'
      BY <2>2, <2>4 DEF BoundWorkIsCurrent, Blank, NoResult
    <2>7. StructureHolds' /\ StagesHold'
      BY <1>1, <2>1, <2>2, <2>3, <2>4, OwnedHasStructure
      DEF VoteInv, StructureHolds, StagesHold
    <2>8. ClosedIsEmpty' /\ VotesCoverBallot' /\ SubmissionHolds'
      BY <2>2, <2>3, <2>4
      DEF ClosedIsEmpty, VotesCoverBallot, SubmissionHolds, NoResult
    <2> QED BY <1>0, <2>5, <2>6, <2>7, <2>8 DEF VoteInv
  <1>3. CASE ~BoundToAnother(c)
    <2>1. UNCHANGED <<bound, ballots, votes, submitting, candidate, valid, status>>
      BY <1>3 DEF AcceptCollection
    <2>2. c \in depends => bound[c] = 0
      BY <1>1, <1>3 DEF BoundToAnother, VoteInv, BindingsAreCurrent
    <2>3. bound[c] = 0
      BY <2>2 DEF VoteInv, BindingsAreCurrent
    <2>4. BindingsAreCurrent'
      BY <1>1, <2>1, <2>3 DEF VoteInv, BindingsAreCurrent
    <2>5. /\ Owners' = Owners /\ Opened' = Opened /\ Voters' = Voters
          /\ HaveVoted' = HaveVoted
      BY <2>1 DEF Owners, Opened, Voters, HaveVoted
    <2>6. AllBound' => AllBound /\ LastAccepted' = LastAccepted
      BY <1>1, <2>1, <2>2, <2>5 DEF AllBound, DeclaredOnce, LastAccepted
    <2>7. BoundWorkIsCurrent' /\ SubmissionHolds'
      BY <2>1, <2>5, <2>6 DEF VoteInv, BoundWorkIsCurrent, SubmissionHolds, AllBound
    <2>8. StructureHolds' /\ StagesHold' /\ ClosedIsEmpty' /\ VotesCoverBallot'
      BY <1>1, <2>1, <2>5
      DEF VoteInv, StructureHolds, StagesHold, ClosedIsEmpty, VotesCoverBallot
    <2> QED BY <1>0, <2>4, <2>7, <2>8 DEF VoteInv
  <1> QED BY <1>2, <1>3

LEMMA VoidKept ==
  ASSUME VoteInv, NEW c \in Collections, VoidCollection(c)
  PROVE  VoteInv'
  <1> USE DEF task, inputs, hands
  <1>0. TypeOK /\ TypeOK'
    BY VoidTyped DEF VoteInv
  <1>1. /\ UNCHANGED <<task, latest, inputs, hands>>
        /\ \A d \in Collections : current'[d] \in {0, current[d]}
    BY <1>0 DEF VoidCollection, TypeOK, Versions
  <1>2. BindingsAreCurrent'
    BY <1>1 DEF VoteInv, BindingsAreCurrent
  <1>3. /\ Owners' = Owners /\ Opened' = Opened /\ Voters' = Voters
        /\ HaveVoted' = HaveVoted /\ LastAccepted' = LastAccepted
        /\ (AllBound' <=> AllBound)
    BY <1>1
    DEF Owners, Opened, Voters, HaveVoted, LastAccepted, AllBound, DeclaredOnce
  <1>4. StructureHolds' /\ StagesHold' /\ ClosedIsEmpty' /\ VotesCoverBallot'
    BY <1>1, <1>3
    DEF VoteInv, StructureHolds, StagesHold, ClosedIsEmpty, VotesCoverBallot
  <1>5. SubmissionHolds' /\ BoundWorkIsCurrent'
    BY <1>1, <1>3 DEF VoteInv, SubmissionHolds, BoundWorkIsCurrent, AllBound
  <1> QED BY <1>0, <1>2, <1>4, <1>5 DEF VoteInv

LEMMA InvKept == VoteInv /\ [Next]_vars => VoteInv'
  <1> SUFFICES ASSUME VoteInv, [Next]_vars PROVE VoteInv'
    OBVIOUS
  <1>1. CASE UNCHANGED vars
    <2>1. TypeOK'
      BY <1>1 DEF VoteInv, TypeOK, vars, task, results, inputs, hands
    <2> QED
      BY <1>1, <2>1, IdleStepKept
      DEF vars, VoteInv, StagesHold, StructureHolds, hands
  <1>2. CASE Voting
    BY <1>2, VotingKept DEF Voting
  <1> QED
    BY <1>1, <1>2, DeclareKept, HandKept, BallotingKept, DecidingKept, AcceptKept,
       VoidKept
    DEF Next, Collecting

LEMMA VoteAlways == Spec => []VoteInv
  BY InitInv, InvKept, PTL DEF Spec

-----------------------------------------------------------------------------
(* What follows.                                                           *)

\* Every row has its type, for any participants, collections and options, and
\* whatever the scores (submit_question_vote, open_question_ballot).
THEOREM TypesHold == Spec => []TypeOK
  <1>1. VoteInv => TypeOK
    BY DEF VoteInv
  <1> QED BY VoteAlways, <1>1, PTL

\* Nothing that a bound task holds rests on anything older than what was
\* accepted last, also while an input is withdrawn
\* (prepare_question_ballot_draft, _invalidate_downstream_inputs).
THEOREM NothingIsOutdated == Spec => []BoundWorkIsCurrent
  <1>1. VoteInv => BoundWorkIsCurrent
    BY DEF VoteInv
  <1> QED BY VoteAlways, <1>1, PTL

\* Another final owner, who was handed the task, opens a ballot of their own.
AnotherOpens == \E p \in Owners \ Opened : owner = p /\ p \in Opened'

LEMMA CastVotesKept ==
  ASSUME VoteInv, [Next]_vars, NEW v \in HaveVoted, votes'[v] # votes[v]
  PROVE  latest' # latest \/ AnotherOpens
  <1> USE DEF task, results, inputs, hands
  <1>0. TypeOK
    BY DEF VoteInv
  <1>1. ASSUME NEW collections \in Choices, NEW final \in People,
               NEW voters \in (SUBSET People) \ {{}},
               ConfirmStructure(collections, final, voters)
        PROVE  FALSE
    BY <1>1, UnownedIsUntouched DEF ConfirmStructure
  <1>2. CASE RevokeStructure
    BY <1>2 DEF RevokeStructure
  <1>3. ASSUME NEW p \in People, NEW options \in SUBSET Options,
               OpenBallot(p, options)
        PROVE  AnotherOpens
    <2>1. /\ p \in Owners \ Opened /\ owner = p
          /\ ballots' = [ballots EXCEPT ![p] =
                           [open |-> TRUE, over |-> InForce, options |-> options]]
      BY <1>3 DEF OpenBallot, MayOpen, Opened
    <2>2. p \in Opened'
      BY <2>1 DEF Opened, Owners
    <2> QED BY <2>1, <2>2 DEF AnotherOpens
  <1>4. ASSUME NEW u \in Voters, NEW p \in Owners, NEW scores,
               SubmitVote(u, p, scores)
        PROVE  FALSE
    <2>1. u # v
      BY <1>0, <1>4, VoteAdded
    <2> QED BY <1>0, <1>4, <2>1, VoteAdded DEF HaveVoted
  <1>5. ASSUME NEW c \in Collections, AcceptCollection(c) PROVE latest' # latest
    <2>1. latest \in [Collections -> 0 .. MaxVersions] /\ latest[c] \in Nat
      BY <1>0, ConstantFacts DEF TypeOK, Versions
    <2> QED BY <1>5, <2>1 DEF AcceptCollection
  <1>6. \/ Hand \/ StoreDraft \/ DraftFails \/ Deciding
        \/ (\E p \in People : BeginDraft(p))
        \/ (\E c \in Collections : VoidCollection(c)) \/ UNCHANGED vars
        => UNCHANGED votes
    BY DEF Hand, Dispatch, Return, Activate, HandOn, StoreDraft, DraftFails,
           Deciding, BeginSubmission, StoreSubmission, SubmissionEnds,
           SubmitUnchecked, ReviewFinal, BeginDraft, VoidCollection, vars
  <1> QED
    BY <1>1, <1>2, <1>3, <1>4, <1>5, <1>6
    DEF Next, Declare, Balloting, Voting, Collecting

\* A vote that was cast is lost only with the results it was cast on, or to
\* the ballot of another confirmed final owner
\* (submit_question_vote, open_question_ballot, _invalidate_downstream_inputs).
THEOREM VotesAreLostOnlyWithTheirGround == Spec => CastVotesStand
  <1>1. VoteInv /\ [Next]_vars =>
            (\A v \in HaveVoted :
                votes'[v] # votes[v] => latest' # latest \/ AnotherOpens)
    BY CastVotesKept
  <1> QED BY VoteAlways, <1>1, PTL DEF Spec, CastVotesStand, AnotherOpens

\* Options are ranked by points, then by average, then by id: a total order,
\* although averages are compared by cross multiplication.
LEMMA LeadsIsTotal ==
  ASSUME TypeOK, NEW S \in SUBSET Options
  PROVE  /\ \A o \in S : Total(o) \in Nat /\ ~Leads(o, o)
         /\ \A o, q \in S : o # q => Leads(o, q) \/ Leads(q, o)
         /\ \A o, q, r \in S : Leads(o, q) /\ Leads(q, r) => Leads(o, r)
         /\ \A o, q \in S : Total(o) > Total(q) => Leads(o, q)
  <1>1. ASSUME NEW o \in S PROVE Total(o) \in Nat /\ Count(o) \in Nat
    <2>1. IsFiniteSet(Voters)
      <3>1. Voters \in SUBSET People
        BY DEF TypeOK, Voters
      <3> QED BY <3>1, FS_Subset, ConstantFacts
    <2>2. ScoredBy(o) \in SUBSET Voters
      BY DEF ScoredBy, HaveVoted
    <2>3. IsFiniteSet(ScoredBy(o)) /\ Count(o) \in Nat
      BY <2>1, <2>2, FS_Subset, FS_CardinalityType DEF Count
    <2>4. IsFiniteSet(1 .. MaxScore)
      BY ConstantFacts, FS_Interval
    <2>5. IsFiniteSet(ScoredBy(o) \X (1 .. MaxScore))
      BY <2>3, <2>4, FS_Product
    <2>6. Points(o) \in SUBSET (ScoredBy(o) \X (1 .. MaxScore))
      BY DEF Points
    <2>7. IsFiniteSet(Points(o))
      BY <2>5, <2>6, FS_Subset
    <2> QED BY <2>3, <2>7, FS_CardinalityType DEF Total
  <1> DEFINE Key(o) == Total(o) * Count(o)
  <1>2. \A o \in S : Key(o) \in Nat
    BY <1>1
  <1>3. ASSUME NEW o \in S, NEW q \in S
        PROVE  Leads(o, q) <=>
                  \/ Total(o) > Total(q)
                  \/ /\ Total(o) = Total(q)
                     /\ Key(q) > Key(o) \/ (Key(q) = Key(o) /\ o < q)
    <2>1. CASE Total(o) = Total(q)
      <3>1. Total(o) * Count(q) = Key(q) /\ Total(q) * Count(o) = Key(o)
        BY <2>1
      <3> QED BY <1>1, <2>1, <3>1 DEF Leads
    <2>2. CASE Total(o) # Total(q)
      BY <2>2 DEF Leads
    <2> QED BY <2>1, <2>2
  <1> HIDE DEF Key
  <1>4. \A o \in S : o \in Nat
    BY ConstantFacts
  <1>5. \A o \in S : ~Leads(o, o)
    BY <1>1, <1>2, <1>3, <1>4
  <1>6. \A o, q \in S : o # q => Leads(o, q) \/ Leads(q, o)
    BY <1>1, <1>2, <1>3, <1>4
  <1>7. ASSUME NEW o \in S, NEW q \in S, NEW r \in S, Leads(o, q), Leads(q, r)
        PROVE  Leads(o, r)
    BY <1>1, <1>2, <1>3, <1>4, <1>7
  <1>8. \A o, q \in S : Total(o) > Total(q) => Leads(o, q)
    BY <1>3
  <1> QED BY <1>1, <1>5, <1>6, <1>7, <1>8

LEMMA DecisionComplete == VoteInv => DecisionIsComplete
  <1> SUFFICES ASSUME VoteInv, NEW p \in Owners, FinalSubmissionReady, Opened = {p}
               PROVE  /\ \A o \in ballots[p].options : ScoredBy(o) = Voters
                      /\ Cardinality(Selected(p)) = SelectionCount
                      /\ \A o \in Selected(p), q \in ballots[p].options \ Selected(p) :
                             Total(o) >= Total(q)
    BY DEF DecisionIsComplete
  <1> DEFINE S == ballots[p].options
             below == [o \in S |-> {q \in S : Leads(q, o)}]
  <1>1. p \in Opened /\ HaveVoted = Voters
    BY DEF FinalSubmissionReady
  <1>2. \A o \in S : ScoredBy(o) = Voters
    BY <1>1 DEF VoteInv, VotesCoverBallot, ScoredBy
  <1>3. S \in SUBSET Options /\ IsFiniteSet(S)
    <2>1. S \in SUBSET Options
      BY DEF VoteInv, TypeOK, Ballot, Owners
    <2> QED BY <2>1, FS_Subset, ConstantFacts
  <1>4. SelectionCount \in Nat /\ SelectionCount <= Cardinality(S)
    <2>1. Cardinality(S) > SelectionCount
      BY <1>1 DEF VoteInv, VotesCoverBallot
    <2> QED BY <1>3, <2>1, FS_CardinalityType, ConstantFacts
  <1>5. TypeOK
    BY DEF VoteInv
  <1>6. /\ \A o \in S : Total(o) \in Nat
        /\ \A o \in S : ~Leads(o, o)
        /\ \A o, q \in S : o # q => Leads(o, q) \/ Leads(q, o)
        /\ \A o, q, r \in S : Leads(o, q) /\ Leads(q, r) => Leads(o, r)
        /\ \A o, q \in S : Total(o) > Total(q) => Leads(o, q)
    BY <1>3, <1>5, LeadsIsTotal
  <1>7. /\ below \in [S -> SUBSET S]
        /\ \A o \in S : o \notin below[o]
        /\ \A o, q \in S : o # q => o \in below[q] \/ q \in below[o]
        /\ \A o, q \in S : q \in below[o] => below[q] \subseteq below[o]
    BY <1>6
  <1>8. Selected(p) = {o \in S : Cardinality(below[o]) < SelectionCount}
    BY DEF Selected
  <1>9. \A o, q \in S : q \in below[o] <=> Leads(q, o)
    OBVIOUS
  <1>10. \A o \in S : Cardinality(below[o]) \in Nat
    <2> SUFFICES ASSUME NEW o \in S PROVE Cardinality(below[o]) \in Nat
      OBVIOUS
    <2>1. below[o] \in SUBSET S
      OBVIOUS
    <2> HIDE DEF below
    <2> QED BY <1>3, <2>1, FS_Subset, FS_CardinalityType
  <1> HIDE DEF below
  <1>11. /\ Cardinality({o \in S : Cardinality(below[o]) < SelectionCount}) = SelectionCount
         /\ \A o, q \in S : q \in below[o] =>
                Cardinality(below[q]) < Cardinality(below[o])
    BY <1>3, <1>4, <1>7, FirstOfARanking
  <1>12. ASSUME NEW o \in Selected(p), NEW q \in S \ Selected(p)
         PROVE  Total(o) >= Total(q)
    <2> SUFFICES ASSUME Total(q) > Total(o) PROVE FALSE
      BY <1>6, <1>8
    <2>1. o \in S /\ Cardinality(below[o]) < SelectionCount
      BY <1>8
    <2>2. q \in below[o]
      BY <1>6, <1>9, <2>1
    <2>3. Cardinality(below[q]) < SelectionCount
      BY <1>4, <1>10, <1>11, <2>1, <2>2
    <2> QED BY <1>8, <2>3
  <1> QED BY <1>2, <1>8, <1>11, <1>12

\* When the final may be submitted on the one ballot that is open, everybody
\* asked has scored every option, and exactly as many are kept as should be,
\* the best of them: for any number of voters, options and scores
\* (collaboration_progress).
THEOREM DecisionsAreComplete == Spec => []DecisionIsComplete
  BY VoteAlways, DecisionComplete, PTL

-----------------------------------------------------------------------------
(* The refinement: every step of the vote is one of CollectiveDecision, or *)
(* leaves its state alone.                                                 *)

Delivered == candidate.over # Nothing \/ valid.over # Nothing

\* What of the state the decision sees.
LEMMA SeenIsUnchanged ==
  ASSUME Voters' = Voters, (Opened # {})' <=> (Opened # {}),
         HaveVoted' = HaveVoted, Delivered' <=> Delivered
  PROVE  UNCHANGED Promise!decision
  BY DEF Delivered, Promise!decision

LEMMA InitMaps == Init => Promise!DecisionInit
  BY DEF Init, Promise!DecisionInit, NoResult, HaveVoted, Voters, Opened, Owners

LEMMA DeclareMaps ==
  ASSUME VoteInv, Declare
  PROVE  \E group \in SUBSET People : Promise!Summon(group)
  <1>1. owner = NoOne
    BY DEF Declare, ConfirmStructure, RevokeStructure
  <1>2. Opened = {} /\ HaveVoted = {} /\ candidate = NoResult /\ valid = NoResult
    BY <1>1, UnownedIsUntouched
  <1>3. Opened' = {} /\ HaveVoted' = {} /\ candidate' = NoResult /\ valid' = NoResult
    BY DeclareLeavesUntouched DEF Untouched, Opened, Blank
  <1>4. Voters' \in SUBSET People
    BY DeclareTyped DEF VoteInv, TypeOK, Voters
  <1> QED BY <1>2, <1>3, <1>4 DEF Promise!Summon

LEMMA OpenMaps ==
  ASSUME VoteInv, NEW p \in People, NEW options \in SUBSET Options,
         OpenBallot(p, options)
  PROVE  Promise!Open \/ Promise!OpenAnother
  <1>1. owner # NoOne /\ p \in Owners
    BY ConstantFacts DEF OpenBallot, MayOpen
  <1>2. Voters' = Voters /\ Voters # {} /\ HaveVoted' = {}
    BY <1>1, OwnedHasStructure, NobodyHasVoted DEF OpenBallot
  <1>3. Opened' # {}
    BY <1>1 DEF OpenBallot, Opened, Owners
  <1>4. UNCHANGED <<candidate, valid>>
    BY DEF OpenBallot, task
  <1>5. CASE Opened = {}
    <2>1. HaveVoted = {}
      BY <1>5 DEF VoteInv, ClosedIsEmpty
    <2> QED BY <1>2, <1>3, <1>4, <1>5, <2>1 DEF Promise!Open
  <1>6. CASE Opened # {}
    BY <1>2, <1>3, <1>4, <1>6 DEF Promise!OpenAnother
  <1> QED BY <1>5, <1>6

LEMMA DecidingMaps ==
  ASSUME VoteInv, Deciding
  PROVE  Promise!Deliver \/ Promise!Refuse \/ UNCHANGED Promise!decision
  <1>1. Opened' = Opened /\ Voters' = Voters /\ HaveVoted' = HaveVoted
    BY DEF Deciding, BeginSubmission, StoreSubmission, SubmissionEnds,
           SubmitUnchecked, ReviewFinal, inputs, Opened, Owners, Voters, HaveVoted
  <1>2. CASE StoreSubmission
    <2>1. /\ HaveVoted = Voters /\ submitting.over # Nothing /\ submitting # NoHand
          /\ candidate'.over = submitting.over
      BY <1>2 DEF StoreSubmission, VoteInv, SubmissionHolds
    <2>2. Opened # {}
      BY <2>1 DEF VoteInv, ClosedIsEmpty
    <2> QED BY <1>1, <2>1, <2>2 DEF Promise!Deliver
  <1>3. CASE BeginSubmission \/ SubmissionEnds
    <2>1. UNCHANGED <<candidate, valid>>
      BY <1>3 DEF BeginSubmission, SubmissionEnds, task
    <2> QED BY <1>1, <2>1, SeenIsUnchanged DEF Delivered
  <1>4. CASE SubmitUnchecked \/ \E approve \in BOOLEAN : ReviewFinal(approve)
    <2>1. Delivered' => Delivered
      BY <1>4 DEF SubmitUnchecked, ReviewFinal, Delivered, NoResult
    <2>2. CASE Delivered'
      BY <1>1, <2>1, <2>2, SeenIsUnchanged
    <2>3. CASE ~Delivered'
      BY <1>1, <2>3 DEF Delivered, Promise!Refuse
    <2> QED BY <2>2, <2>3
  <1> QED BY <1>2, <1>3, <1>4 DEF Deciding

LEMMA AcceptMaps ==
  ASSUME VoteInv, NEW c \in Collections, AcceptCollection(c)
  PROVE  Promise!Void \/ UNCHANGED Promise!decision
  <1>1. CASE BoundToAnother(c)
    <2>1. owner # NoOne
      BY <1>1, UnownedIsUntouched DEF BoundToAnother, Nothing
    <2>2. Opened' = {} /\ candidate' = NoResult /\ valid' = NoResult
      BY <1>1, <2>1 DEF AcceptCollection, Opened, Owners, Blank
    <2>3. HaveVoted' = {} /\ Voters' = Voters
      BY <1>1, NobodyHasVoted DEF AcceptCollection, VotesReset
    <2> QED BY <2>2, <2>3 DEF Promise!Void, NoResult
  <1>2. CASE ~BoundToAnother(c)
    <2>1. UNCHANGED <<ballots, votes, candidate, valid>>
      BY <1>2 DEF AcceptCollection
    <2> QED
      BY <2>1, SeenIsUnchanged DEF Delivered, Opened, Owners, Voters, HaveVoted
  <1> QED BY <1>1, <1>2

LEMMA StepMaps ==
  ASSUME VoteInv, [Next]_vars
  PROVE  [Promise!DecisionNext]_(Promise!decision)
  <1>1. CASE Declare
    BY <1>1, DeclareMaps DEF Promise!DecisionNext
  <1>2. ASSUME NEW p \in People, NEW options \in SUBSET Options,
               OpenBallot(p, options)
        PROVE  Promise!DecisionNext
    BY <1>2, OpenMaps DEF Promise!DecisionNext
  <1>3. ASSUME NEW v \in Voters, NEW p \in Owners, NEW scores,
               SubmitVote(v, p, scores)
        PROVE  Promise!DecisionNext
    <2>1. v \in People
      BY DEF VoteInv, TypeOK, Voters
    <2>2. Opened' = Opened /\ Opened # {} /\ UNCHANGED <<candidate, valid>>
      BY <1>3 DEF SubmitVote, MayVote, task, Opened, Owners
    <2>3. Promise!Cast(v)
      BY <1>3, <2>2, VoteAdded DEF VoteInv, Promise!Cast
    <2> QED BY <2>1, <2>3 DEF Promise!DecisionNext
  <1>4. CASE Deciding
    BY <1>4, DecidingMaps DEF Promise!DecisionNext
  <1>5. ASSUME NEW c \in Collections, AcceptCollection(c)
        PROVE  Promise!DecisionNext \/ UNCHANGED Promise!decision
    BY <1>5, AcceptMaps DEF Promise!DecisionNext
  <1>6. CASE \/ Hand \/ DraftFails \/ (\E p \in People : BeginDraft(p))
             \/ (\E c \in Collections : VoidCollection(c)) \/ UNCHANGED vars
    <2>1. UNCHANGED <<candidate, valid, ballots, votes>>
      BY <1>6
      DEF Hand, Dispatch, Return, Activate, HandOn, DraftFails, BeginDraft,
          VoidCollection, vars, task, inputs
    <2> QED
      BY <2>1, SeenIsUnchanged DEF Delivered, Opened, Owners, Voters, HaveVoted
  <1>7. CASE StoreDraft
    <2>1. /\ UNCHANGED <<candidate, valid, votes>> /\ Owners' = Owners
          /\ \A p \in Owners : ballots'[p].open = ballots[p].open
      BY <1>7 DEF StoreDraft, DraftStillFits, VoteInv, TypeOK, Ballot, Owners, Blank,
                  task
    <2>2. Opened' = Opened
      BY <2>1 DEF Opened
    <2> QED BY <2>1, <2>2, SeenIsUnchanged DEF Delivered, Voters, HaveVoted
  <1> QED
    BY <1>1, <1>2, <1>3, <1>4, <1>5, <1>6, <1>7
    DEF Next, Balloting, Voting, Collecting

\* The vote keeps the promise of CollectiveDecision: a result that rests on it
\* only on a ballot all have voted on, nobody twice, and all goes together when
\* what the ballot was drawn from changes (submit_question_vote,
\* collaboration_progress, _invalidate_downstream_inputs).
THEOREM VoteImplementsDecision == Spec => ImplementsDecision
  <1>1. VoteInv /\ [Next]_vars => [Promise!DecisionNext]_(Promise!decision)
    BY StepMaps
  <1> QED
    BY InitMaps, VoteAlways, <1>1, PTL
    DEF Spec, ImplementsDecision, Promise!DecisionSpec

-----------------------------------------------------------------------------
(* The status.  A decision task is dispatched, delivered and handed over   *)
(* like any other.                                                         *)

Board == INSTANCE TaskStatus

\* Once in work the decision task goes only the ways that its dispatch and
\* hand-over allow for, the reopening of a decision whose inputs were
\* replaced included (submit_artifact, review_artifact,
\* _invalidate_downstream_inputs).
THEOREM StatusMovesAsExpected ==
  Spec => [][(status \in Worked /\ status' # status)
                => Board!WorkMove(status, status')]_vars
  <1> DEFINE Expected == status \in Worked /\ status' # status
                            => Board!WorkMove(status, status')
  <1>1. VoteInv /\ [Next]_vars => Expected \/ UNCHANGED vars
    <2> SUFFICES ASSUME VoteInv, Next, status \in Worked, status' # status
                 PROVE  Board!WorkMove(status, status')
      BY DEF vars
    <2>0. owner # NoOne /\ Worked = {"TRACKING", "PENDING_ACCEPTANCE", "ACCEPTED"}
      BY DEF VoteInv, StagesHold
    <2>1. CASE Declare
      BY <2>1 DEF Declare, ConfirmStructure, RevokeStructure
    <2>2. CASE Hand
      BY <2>0, <2>2 DEF Hand, Dispatch, Return, Activate, HandOn
    <2>3. CASE Balloting \/ Voting
      BY <2>3
      DEF Balloting, Voting, BeginDraft, OpenBallot, StoreDraft, DraftFails,
          SubmitVote, task
    <2>4. CASE Deciding
      BY <2>0, <2>4
      DEF Deciding, BeginSubmission, StoreSubmission, SubmissionEnds,
          SubmitUnchecked, ReviewFinal, Board!WorkMove, Board!Worked,
          Board!Submittable, task
    <2>5. ASSUME NEW c \in Collections, AcceptCollection(c) \/ VoidCollection(c)
          PROVE  Board!WorkMove(status, status')
      <3>1. status' = "TRACKING"
        BY <2>5 DEF AcceptCollection, VoidCollection, task
      <3> QED BY <2>0, <3>1 DEF Board!WorkMove, Board!Worked, Board!Submittable
    <2> QED BY <2>1, <2>2, <2>3, <2>4, <2>5 DEF Next, Collecting
  <1> QED BY VoteAlways, <1>1, PTL DEF Spec
=============================================================================
