-------------------------- MODULE DocumentRelease --------------------------
(***************************************************************************)
(* What a coordinator is promised of the documents of a meeting: one at a  *)
(* time is put to them, a newer one takes the place of what waits, what    *)
(* people are told of and what goes out was agreed to, and neither an      *)
(* agreement nor a release is taken back.  Who organizes a document, who   *)
(* sends it and who stops half way is left to FinalRelease, which          *)
(* implements this.                                                        *)
(***************************************************************************)
CONSTANTS Meetings, Documents

VARIABLES
    known,     \* the documents there have been
    waiting,   \* those of each meeting that wait for a decision
    agreed,    \* those that were approved
    told,      \* those whose release people have heard of
    out        \* those that are released

documents == <<known, waiting, agreed, told, out>>

DocInit ==
    /\ known = {}
    /\ waiting = [m \in Meetings |-> {}]
    /\ agreed = {} /\ told = {} /\ out = {}

\* A new document takes the place of the one that waits.
Propose(m, d) ==
    /\ d \notin known
    /\ known' = known \cup {d}
    /\ waiting' = [waiting EXCEPT ![m] = {d}]
    /\ UNCHANGED <<agreed, told, out>>

\* Refused, or overtaken by a newer result.
Withdraw(m) ==
    /\ waiting[m] # {}
    /\ waiting' = [waiting EXCEPT ![m] = {}]
    /\ UNCHANGED <<known, agreed, told, out>>

Agree(m, d) ==
    /\ waiting[m] = {d}
    /\ waiting' = [waiting EXCEPT ![m] = {}]
    /\ agreed' = agreed \cup {d}
    /\ UNCHANGED <<known, told, out>>

Tell(d) ==
    /\ d \in agreed
    /\ told' = told \cup {d}
    /\ UNCHANGED <<known, waiting, agreed, out>>

Release(d) ==
    /\ d \in told
    /\ out' = out \cup {d}
    /\ UNCHANGED <<known, waiting, agreed, told>>

DocNext ==
    \/ \E m \in Meetings :
          \/ Withdraw(m)
          \/ \E d \in Documents : Propose(m, d) \/ Agree(m, d)
    \/ \E d \in Documents : Tell(d) \/ Release(d)

DocSpec == DocInit /\ [][DocNext]_documents
=============================================================================
