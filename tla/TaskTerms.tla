----------------------------- MODULE TaskTerms -----------------------------
(***************************************************************************)
(* What a task asks for, from the proposals it is made of to the wording   *)
(* people work by: service.py's materialize_review_hint, add_action_item,  *)
(* merge_action and ignore_action on the proposals beside it, and its own  *)
(* revise_action_proposal, amend_task_description, propose_scope_change    *)
(* and decide_scope_change, on top of TaskDispatch, which says who is on   *)
(* the task while its terms change.                                        *)
(*                                                                         *)
(* A wording stands for the title, the description and the work            *)
(* requirements together.  told is what a person has been sent, which is a *)
(* dispatch card or the notice of a change, and what they have put in      *)
(* force themselves, of which they get no notice; that a notice arrives is *)
(* OutboxDispatch's concern.  Who takes a part over is sent no wording:    *)
(* the offer names the title, the reason, the part and the date, and the   *)
(* answer goes to the giver and the coordinator.                           *)
(***************************************************************************)
EXTENDS TaskDispatch

CONSTANTS
    It,          \* the action_item that is followed
    Hints,       \* review_hints, each named as the task it would become
    Additions,   \* tasks the coordinator may add by hand
    Wordings,    \* what a task may ask for
    NoWording    \* no scope change is PENDING

ASSUME TermsAssumption ==
    /\ It \notin Hints \cup Additions
    /\ NoWording \notin Wordings

VARIABLES
    others,    \* the status of the other action_items, "NONE" before it is one
    merged,    \* merged_sources: the pairs <<source, target>>
    text,      \* title and deliverable
    scope,     \* the PENDING scope_change_requests row: the proposed wording
    told,      \* the wordings each person was sent or put in force
    heirs,     \* who took their part over and was sent no wording since
               \* (history)
    notices    \* the effect ids of the amendment notices

terms == <<text, scope, told, heirs, notices>>
around == <<others, merged>>

Proposals == {It} \cup Hints \cup Additions

TermsTypeOK ==
    /\ others \in [Hints \cup Additions ->
                      {"NONE", "PENDING_CONFIRMATION", "REJECTED"}]
    /\ merged \subseteq Proposals \X Proposals
    /\ text \in Wordings
    /\ scope \in Wordings \cup {NoWording}
    /\ told \in [Roster -> SUBSET Wordings]
    /\ heirs \subseteq Roster
    /\ notices \subseteq (SUBSET Roster) \X Wordings

\* A meeting proposes the followed task; a hint waits for somebody to make it
\* one.
TermsInit ==
    /\ Init
    /\ others = [o \in Hints \cup Additions |-> "NONE"]
    /\ merged = {}
    /\ text \in Wordings
    /\ scope = NoWording
    /\ told = [a \in Roster |-> {}]
    /\ heirs = {}
    /\ notices = {}

-----------------------------------------------------------------------------
(* The proposals.                                                          *)

StatusOf(p) == IF p = It THEN status ELSE others[p]

Proposed(o) ==
    /\ others[o] = "NONE"
    /\ others' = [others EXCEPT ![o] = "PENDING_CONFIRMATION"]
    /\ UNCHANGED <<vars, merged, terms>>

\* materialize_review_hint: an OPEN hint becomes a task once.
Materialize(h) == h \in Hints /\ Proposed(h)

\* add_action_item
AddItem(o) == o \in Additions /\ Proposed(o)

\* ignore_action on one of the others
Ignore(o) ==
    /\ others[o] = "PENDING_CONFIRMATION"
    /\ others' = [others EXCEPT ![o] = "REJECTED"]
    /\ UNCHANGED <<vars, merged, terms>>

\* Mutation: what a merge goes into may itself have been merged away.
AnyMergeable(p) == StatusOf(p) \in {"PENDING_CONFIRMATION", "REJECTED"}

\* Unclaimed and unpublished: a dispatch, which publishes, leaves this status
\* for good.
Mergeable(p) == StatusOf(p) = "PENDING_CONFIRMATION"

\* merge_action: the source's evidence goes into the target's, the source
\* leaves the flow, and the target asks for what it asked for.
Merge(s, t) ==
    /\ s # t
    /\ Mergeable(s) /\ Mergeable(t)
    /\ merged' = merged \cup {<<s, t>>}
    /\ IF s = It THEN Discard /\ UNCHANGED others
       ELSE /\ others' = [others EXCEPT ![s] = "REJECTED"]
            /\ UNCHANGED vars
    /\ UNCHANGED terms

-----------------------------------------------------------------------------
(* The wording.                                                            *)

Tell(group, w) ==
    /\ told' = [a \in Roster |->
                   IF a \in group THEN told[a] \cup {w} ELSE told[a]]
    /\ heirs' = heirs \ group

\* Whoever had a part in a round that was returned.
WereAsked ==
    {a \in Roster : \E d \in Definitions :
                       response[d][a] \in {"RETURNED", "SUPERSEDED"}}

\* revise_action_proposal, which says so to those who returned the task if
\* anything has changed.
Reword(w) ==
    /\ Revise
    /\ text' = w
    /\ Tell(IF w = text THEN {} ELSE WereAsked \cup {Coordinator}, w)
    /\ UNCHANGED <<around, scope, notices>>

\* A dispatch sends a card to everybody it names.
SendOut(o, helpers) ==
    /\ Dispatch(o, helpers)
    /\ Tell({o} \cup helpers, text)
    /\ UNCHANGED <<around, text, scope, notices>>

\* respond_to_handoff, accept: the receiver is sent nothing.
TakeOver(giver, receiver) ==
    /\ AcceptHandoff(giver, receiver)
    /\ heirs' = (heirs \ {giver}) \cup {receiver}
    /\ UNCHANGED <<around, text, scope, told, notices>>

\* The rest of TaskDispatch asks for nothing else.
Unworded ==
    /\ \/ Discard
       \/ \E a \in Participants : Respond(a) \/ ReviseCommitment(a)
       \/ \E giver, receiver \in Roster :
             \/ ProposeHandoff(giver, receiver)
             \/ DeclineHandoff(giver, receiver)
       \/ DeliveryStep
    /\ UNCHANGED <<around, terms>>

\* AMENDABLE_STATUSES; nothing sets BLOCKED.
Amendable == status \in {"TRACKING", "PENDING_ACCEPTANCE"}

OnTheTask == {a \in Roster : OnTask(a)}

\* amend_task_description: the owner rewords the task, and everybody else on
\* it and the coordinator are told.  The effect id of the notice is made of
\* the recipients and the new wording, and no effect is sent twice.
Amend(w) ==
    LET audience == (OnTheTask \cup {Coordinator}) \ {owner}
        notice == <<audience, w>>
    IN  /\ Amendable
        /\ w # text
        /\ text' = w
        /\ told' = [a \in Roster |->
                       IF a = owner \/ (a \in audience /\ notice \notin notices)
                       THEN told[a] \cup {w} ELSE told[a]]
        /\ heirs' = {}
        /\ notices' = notices \cup {notice}
        /\ UNCHANGED <<vars, around, scope>>

\* propose_scope_change, by anybody on the task, one at a time; nothing
\* changes until the coordinator has answered.
ProposeScope(a, w) ==
    /\ Amendable
    /\ Accepted(a)
    /\ scope = NoWording
    /\ w # text
    /\ scope' = w
    /\ UNCHANGED <<vars, around, text, told, heirs, notices>>

\* Mutation: only the owner is told what the coordinator has decided.
OwnerOnly == {owner}

\* Everybody on the task when the coordinator answers.
ScopeAudience == OnTheTask

\* decide_scope_change looks neither at the status nor at the wording the
\* change was proposed against.
DecideScope(accept) ==
    /\ scope # NoWording
    /\ text' = IF accept THEN scope ELSE text
    /\ Tell(IF accept THEN ScopeAudience \cup {Coordinator}
            ELSE ScopeAudience \ {Coordinator}, text')
    /\ scope' = NoWording
    /\ UNCHANGED <<vars, around, notices>>

-----------------------------------------------------------------------------
TermsNext ==
    \/ \E o \in Hints \cup Additions : Materialize(o) \/ AddItem(o) \/ Ignore(o)
    \/ \E s, t \in Proposals : Merge(s, t)
    \/ \E o \in Participants, helpers \in SUBSET Participants :
          SendOut(o, helpers)
    \/ \E giver, receiver \in Roster : TakeOver(giver, receiver)
    \/ Unworded
    \/ \E w \in Wordings :
          Reword(w) \/ Amend(w) \/ \E a \in Participants : ProposeScope(a, w)
    \/ \E accept \in BOOLEAN : DecideScope(accept)

TermsSpec == TermsInit /\ [][TermsNext]_<<vars, around, terms>>

-----------------------------------------------------------------------------
\* service.py:2442, "Whoever else is working on the task is told", and :2353:
\* whoever works on a task, is asked to, or has returned it and waits for
\* another wording, has been sent the wording in force, whoever changed it and
\* however the parts have changed hands in between; the one exception is who
\* took a part over after that wording was put in force, for as long as it is
\* neither changed nor upheld (dispatch_action, revise_action_proposal,
\* amend_task_description, decide_scope_change, respond_to_handoff).
TermsAreTold ==
    \A a \in Roster :
        OnTask(a) \/ (status = "NEEDS_REVISION" /\ a \in WereAsked)
            => text \in told[a] \/ a \in heirs

\* service.py:3340, only unpublished, unclaimed proposals may be merged: no
\* chain of merges closes on itself, so what was merged away is still part of
\* a proposal that was not.
MergesLeadSomewhere ==
    \A S \in (SUBSET Proposals) \ {{}} :
        \E s \in S : \A t \in S : <<s, t>> \notin merged
=============================================================================
