------------------------- MODULE CollectiveDecision -------------------------
(***************************************************************************)
(* What a question vote promises: a result that rests on the vote is       *)
(* delivered only on a ballot that everybody asked has voted on, nobody    *)
(* votes twice on one ballot, and when what the ballot was drawn from      *)
(* changes, ballot, votes and result go together.  QuestionVote implements *)
(* this.                                                                   *)
(***************************************************************************)
EXTENDS FiniteSets

CONSTANT Electors

VARIABLES
    electorate,  \* who is asked to vote
    open,        \* there is a ballot to vote on
    cast,        \* who has voted on it
    delivered    \* a result that rests on it is in review or in force

decision == <<electorate, open, cast, delivered>>

DecisionTypeOK ==
    /\ electorate \subseteq Electors
    /\ cast \subseteq electorate
    /\ open \in BOOLEAN /\ delivered \in BOOLEAN
    /\ ~open => cast = {} /\ ~delivered

DecisionInit ==
    /\ electorate = {}
    /\ open = FALSE
    /\ cast = {}
    /\ delivered = FALSE

Summon(group) ==
    /\ ~open
    /\ electorate' = group
    /\ UNCHANGED <<open, cast, delivered>>

Open ==
    /\ ~open
    /\ electorate # {}
    /\ open' = TRUE
    /\ UNCHANGED <<electorate, cast, delivered>>

Cast(e) ==
    /\ open
    /\ e \in electorate \ cast
    /\ cast' = cast \cup {e}
    /\ UNCHANGED <<electorate, open, delivered>>

Deliver ==
    /\ open
    /\ cast = electorate
    /\ delivered' = TRUE
    /\ UNCHANGED <<electorate, open, cast>>

\* Somebody else entitled to a ballot opens theirs: everybody votes again, and
\* what was delivered stays.
OpenAnother ==
    /\ open
    /\ cast' = {}
    /\ UNCHANGED <<electorate, open, delivered>>

Refuse ==
    /\ delivered' = FALSE
    /\ UNCHANGED <<electorate, open, cast>>

\* What the ballot was drawn from changed.
Void ==
    /\ open' = FALSE
    /\ cast' = {}
    /\ delivered' = FALSE
    /\ electorate' = electorate

DecisionNext ==
    \/ \E group \in SUBSET Electors : Summon(group)
    \/ Open \/ OpenAnother
    \/ \E e \in Electors : Cast(e)
    \/ Deliver \/ Refuse \/ Void

DecisionSpec == DecisionInit /\ [][DecisionNext]_decision
=============================================================================
