--------------------------- MODULE WorkAgreement ---------------------------
(***************************************************************************)
(* What the dispatch of a task promises the people it names: nobody is     *)
(* bound to a piece of work they did not agree to, one refusal lets        *)
(* everybody go, and somebody who is bound leaves only by handing their    *)
(* part to a person who takes it.  TaskDispatch implements this.           *)
(***************************************************************************)
EXTENDS FiniteSets

CONSTANT People

VARIABLES
    phase,    \* "draft", "asking", "bound" or "dropped"
    asked,    \* who the current round names
    agreed    \* who has agreed to it

agreement == <<phase, asked, agreed>>

AgreementTypeOK ==
    /\ phase \in {"draft", "asking", "bound", "dropped"}
    /\ asked \subseteq People
    /\ agreed \subseteq asked

AgreementInit == phase = "draft" /\ asked = {} /\ agreed = {}

Ask(group) ==
    /\ phase = "draft"
    /\ group # {}
    /\ phase' = "asking"
    /\ asked' = group
    /\ agreed' = {}

Agree(p) ==
    /\ phase = "asking"
    /\ p \in asked \ agreed
    /\ agreed' = agreed \cup {p}
    /\ asked' = asked
    /\ phase' = IF agreed' = asked THEN "bound" ELSE "asking"

Refuse(p) ==
    /\ phase = "asking"
    /\ p \in asked \ agreed
    /\ phase' = "draft"
    /\ asked' = {}
    /\ agreed' = {}

Drop ==
    /\ phase = "draft"
    /\ phase' = "dropped"
    /\ UNCHANGED <<asked, agreed>>

\* The receiver may already be bound by another part, and then holds both.
HandOver(p, q) ==
    /\ phase = "bound"
    /\ p \in agreed
    /\ q # p
    /\ agreed' = (agreed \ {p}) \cup {q}
    /\ asked' = agreed'
    /\ phase' = phase

AgreementNext ==
    \/ \E group \in SUBSET People : Ask(group)
    \/ \E p \in People : Agree(p) \/ Refuse(p)
    \/ Drop
    \/ \E p, q \in People : HandOver(p, q)

AgreementSpec == AgreementInit /\ [][AgreementNext]_agreement
=============================================================================
