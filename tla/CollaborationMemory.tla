------------------------ MODULE CollaborationMemory ------------------------
(***************************************************************************)
(* What one person lets colleagues know about how they work:               *)
(* service.py's generate_task_collaboration_artifacts,                     *)
(* declare_collaboration_memory, decide_collaboration_memory and           *)
(* build_collaboration_hint_context, with memory_lexicon.py and            *)
(* memory_nomination.py.                                                   *)
(*                                                                         *)
(* Accepting one of the person's results commits, and only then, in the    *)
(* same request, is the report written and with it private drafts about    *)
(* the topics the system observes.  The person answers drafts from a page  *)
(* that may be old, restates and withdraws; the topics the system cannot   *)
(* observe are declared.  Colleagues read the confirmed entries.  A        *)
(* message delivered twice is answered from its receipt and is no step,    *)
(* like confirming what is confirmed.                                      *)
(***************************************************************************)
EXTENDS Naturals, Sequences

CONSTANTS
    Observed,    \* topics the system proposes entries about
    Declared,    \* topics only the person can speak about
    Codes,       \* the values of a topic in the lexicon
    Counted,     \* the labels the counting rules can reach, one per topic
    Tasks,       \* the person's tasks whose results are accepted
    MaxEntries   \* bound on the entries written

Topics == Observed \cup Declared
Label == [topic : Topics, code : Codes]

Free == "free"
Stopped == "stopped"
Silence == "silence"

ASSUME MemoryAssumption ==
    /\ Observed \cap Declared = {}
    /\ Counted \subseteq [topic : Observed, code : Codes]
    /\ \A a, b \in Counted : a.topic = b.topic => a = b
    /\ MaxEntries \in Nat
    /\ Silence \notin Codes

VARIABLES
    entries,   \* collaboration_memories of the person, in the order written
    report,    \* collaboration_report_status of each task's accepted result
    console,   \* the task whose acceptance the console is serving, or not
    said       \* per topic, what the person last let stand

vars == <<entries, report, console, said>>

\* origin is who the entry came from, as the row says it.
Entry == [label : Label, origin : {"SYSTEM_OBSERVED", "SELF_DECLARED"},
          status : {"PRIVATE_DRAFT", "CONFIRMED", "REJECTED", "SUPERSEDED"}]

TypeOK ==
    /\ entries \in Seq(Entry) /\ Len(entries) <= MaxEntries
    /\ report \in [Tasks -> {"NONE", "PENDING", "READY", "FAILED"}]
    /\ console \in Tasks \cup {Free, Stopped}
    /\ said \in [Topics -> Codes \cup {Silence}]

Ids == DOMAIN entries
About(i) == entries[i].label.topic
Has(i, statuses) == entries[i].status \in statuses

\* What a colleague's hint says on a topic: every confirmed entry's code.
Shown(topic) ==
    {entries[i].label.code :
         i \in {j \in Ids : About(j) = topic /\ Has(j, {"CONFIRMED"})}}

Init ==
    /\ entries = <<>>
    /\ report = [t \in Tasks |-> "NONE"]
    /\ console = Free
    /\ said = [topic \in Topics |-> Silence]

-----------------------------------------------------------------------------
(* The report of an accepted result, and its drafts.                       *)

\* review_artifact: the verdict commits before anything is generated.
Accept(t) ==
    /\ console = Free
    /\ report[t] = "NONE"
    /\ report' = [report EXCEPT ![t] = "PENDING"]
    /\ console' = t
    /\ UNCHANGED <<entries, said>>

\* What the model is told holds already, and so may not nominate.
SettledLabels ==
    {entries[i].label : i \in {j \in Ids : ~Has(j, {"PRIVATE_DRAFT"})}}

\* The labels one task may give drafts of: what its facts add up to, and
\* at most one nomination on each topic they leave.
DraftLabels ==
    {found \in SUBSET [topic : Observed, code : Codes] :
        /\ \A a, b \in found : a.topic = b.topic => a = b
        /\ \A label \in found : label \notin Counted =>
               label \notin SettledLabels}

Draft(label) ==
    [label |-> label, origin |-> "SYSTEM_OBSERVED",
     status |-> "PRIVATE_DRAFT"]

\* The drafts of some labels, one of each, in any order.
DraftsOf(found, n) ==
    {[k \in 1 .. n |-> Draft(order[k])] :
        order \in {f \in [1 .. n -> found] :
                     /\ \A label \in found : \E k \in 1 .. n : f[k] = label
                     /\ \A j, k \in 1 .. n : f[j] = f[k] => j = k}}

\* generate_task_collaboration_artifacts: drafts and status in one
\* transaction; drafts go in whatever was answered on the topic before.
GenerateReport(t) ==
    /\ console = t
    /\ \E found \in DraftLabels, n \in 0 .. MaxEntries - Len(entries) :
           \E drafts \in DraftsOf(found, n) : entries' = entries \o drafts
    /\ report' = [report EXCEPT ![t] = "READY"]
    /\ console' = Free
    /\ UNCHANGED said

\* An error anywhere rolls the drafts back and is recorded; nothing retries.
ReportFails(t) ==
    /\ console = t
    /\ report' = [report EXCEPT ![t] = "FAILED"]
    /\ console' = Free
    /\ UNCHANGED <<entries, said>>

\* The server stops between two transactions and is started again.
ConsoleStops ==
    /\ console # Stopped
    /\ console' = Stopped
    /\ UNCHANGED <<entries, report, said>>

ConsoleStarts ==
    /\ console = Stopped
    /\ console' = Free
    /\ UNCHANGED <<entries, report, said>>

-----------------------------------------------------------------------------
(* What the person says.                                                   *)

Says(topic, what) == said' = [said EXCEPT ![topic] = what]

\* Mutation: what was confirmed before goes on being shown.
SupersedingDrafts(topic, statuses) ==
    [i \in Ids |->
        IF About(i) = topic /\ Has(i, statuses \ {"CONFIRMED"})
        THEN [entries[i] EXCEPT !.status = "SUPERSEDED"] ELSE entries[i]]

\* The entries with those of a topic in some statuses no longer in force.
Superseding(topic, statuses) ==
    [i \in Ids |->
        IF About(i) = topic /\ Has(i, statuses)
        THEN [entries[i] EXCEPT !.status = "SUPERSEDED"] ELSE entries[i]]

Written(label, origin) ==
    [label |-> label, origin |-> origin, status |-> "CONFIRMED"]

\* declare_collaboration_memory: no draft stage, what stood is superseded.
Declare(label) ==
    /\ console = Free
    /\ label.topic \in Declared
    /\ Len(entries) < MaxEntries
    /\ entries' = Append(Superseding(label.topic, {"CONFIRMED"}),
                         Written(label, "SELF_DECLARED"))
    /\ Says(label.topic, label.code)
    /\ UNCHANGED <<report, console>>

\* Mutation: what was declined may be confirmed from an old page.
ConfirmableEver(i) == Has(i, {"PRIVATE_DRAFT", "REJECTED"})

\* decide_collaboration_memory checks the entry's status in its transaction,
\* so a click on a page since overtaken is refused.
Confirmable(i) == Has(i, {"PRIVATE_DRAFT"})

Confirm(i) ==
    /\ console = Free
    /\ Confirmable(i)
    /\ entries' = [Superseding(About(i), {"CONFIRMED"}) EXCEPT
                       ![i].status = "CONFIRMED"]
    /\ Says(About(i), entries[i].label.code)
    /\ UNCHANGED <<report, console>>

\* REPLACE answers for every draft of the topic; the column default says the
\* new row was observed, whatever it replaces.
Replace(i, code) ==
    /\ console = Free
    /\ Has(i, {"PRIVATE_DRAFT", "CONFIRMED"})
    /\ Len(entries) < MaxEntries
    /\ entries' = Append(Superseding(About(i), {"PRIVATE_DRAFT", "CONFIRMED"}),
                         Written([topic |-> About(i), code |-> code],
                                 "SYSTEM_OBSERVED"))
    /\ Says(About(i), code)
    /\ UNCHANGED <<report, console>>

\* REJECT says nothing: what stands on the topic goes on standing.
Reject(i) ==
    /\ console = Free
    /\ Has(i, {"PRIVATE_DRAFT"})
    /\ entries' = [entries EXCEPT ![i].status = "REJECTED"]
    /\ UNCHANGED <<report, console, said>>

Withdraw(i) ==
    /\ console = Free
    /\ Has(i, {"CONFIRMED"})
    /\ entries' = [entries EXCEPT ![i].status = "SUPERSEDED"]
    /\ Says(About(i), Silence)
    /\ UNCHANGED <<report, console>>

Next ==
    \/ \E t \in Tasks : Accept(t) \/ GenerateReport(t) \/ ReportFails(t)
    \/ ConsoleStops \/ ConsoleStarts
    \/ \E label \in Label : Declare(label)
    \/ \E i \in Ids : \/ Confirm(i) \/ Reject(i) \/ Withdraw(i)
                      \/ \E code \in Codes : Replace(i, code)

Spec == Init /\ [][Next]_vars

-----------------------------------------------------------------------------
(* A colleague is shown what the person last let stand on a topic, and     *)
(* only that: never two modes of one topic, never a draft, nothing from    *)
(* before a withdrawal or a restatement, however drafts of later tasks,    *)
(* answers from old pages and restarts interleave (the rows                *)
(* build_collaboration_hint_context and the workbench read).               *)
ShownIsSaid ==
    \A topic \in Topics :
        /\ Shown(topic) = IF said[topic] = Silence THEN {} ELSE {said[topic]}
        /\ \A i, j \in Ids :
               /\ About(i) = topic /\ Has(i, {"CONFIRMED"})
               /\ About(j) = topic /\ Has(j, {"CONFIRMED"})
               => i = j

\* An entry that was declined, withdrawn or replaced keeps that answer; no
\* later report, restatement or click brings it back
\* (decide_collaboration_memory).
AnswersAreFinal ==
    [][\A i \in Ids : Has(i, {"REJECTED", "SUPERSEDED"}) =>
           entries'[i] = entries[i]]_vars
=============================================================================
