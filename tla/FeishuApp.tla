------------------------------ MODULE FeishuApp ------------------------------
(***************************************************************************)
(* The inbound half of Feishu (feishu_app.py): messages and card clicks    *)
(* are parked by the callbacks and worked off by one worker thread.  A     *)
(* message registers its sender (feishu_registration.py) or brings in a    *)
(* meeting (MeetingIntake); a click confirms a roster, undoes a            *)
(* registration, or goes through the router (meeting_router.py) and the    *)
(* bridge (feishu_commands.py) to the domain, which is here one task of    *)
(* the known meeting that everybody is asked to accept, and a ballot whose *)
(* scores are picked one click at a time and live on its card.             *)
(*                                                                         *)
(* A click is stored in feishu_inbound_actions before it is answered, the  *)
(* queue of the worker is in memory.  Feishu delivers an event once or     *)
(* several times; an event is its content here, so that a second delivery  *)
(* is the same element of Events.                                          *)
(***************************************************************************)
EXTENDS MeetingIntake, Sequences

CONSTANTS
    Lead,          \* coordinates the meeting that is known from the start
    NoName,        \* the actor of an account that is not bound
    NoAccount,     \* the account of a name nobody claimed
    LeadAccount,   \* the account they were bound to by command (feishu-bind)
    Claims,        \* the names that messages ask to be registered under
    Voters,        \* the accounts that have a card of the ballot
    Served,        \* how many meetings the process serves
    MaxRounds,     \* bound on the dispatches of the task
    MaxMessages,   \* bound on the messages people write
    MaxClicks,     \* bound on the clicks
    MaxMishaps     \* bound on stops of the process and errors of its worker

ASSUME AppAssumption ==
    /\ Claims \subseteq Names /\ Voters \subseteq Accounts
    /\ Lead \in Names /\ NoName \notin Names /\ NoAccount \notin Accounts
    /\ LeadAccount \in Accounts \cup {NoAccount}
    /\ {Served, MaxRounds} \subseteq Nat \ {0}
    /\ {MaxMessages, MaxClicks, MaxMishaps} \subseteq Nat

VARIABLES
    binding,     \* feishu_identity_bindings: the account of a name
    revocable,   \* the names a card with an undo button went out for
    round,       \* definition_version of the task
    waiting,     \* who has not answered this round
    handled,     \* inbound_receipts of the domain
    clicks,      \* feishu_inbound_actions
    queue,       \* _work
    doing,       \* the job the worker is in the middle of
    did,         \* how often a click changed something
    unsettled,   \* clicks nobody works on any more, still PENDING
    received,    \* how many messages were written
    mishaps

people == <<binding, revocable>>
task == <<round, waiting, handled>>
appVars == <<intakeVars, people, task, clicks, queue, doing, did, unsettled,
             received, mishaps>>

\* The buttons of the four cards, and the text of the two messages.
Buttons == [name : {"accept"}, round : 1 .. MaxRounds]
           \cup [name : {"REGISTRATION_REVOKE"}, actor : Names]
           \cup [name : {"INTAKE_ROSTER_CONFIRM"}, choice : {"spoke", "all"}]
Scores == [name : {"score"}]
Events == [by : Accounts, button : Buttons] \cup [by : Voters, button : Scores]
Texts == [asks : {"register"}, name : Claims] \cup [asks : {"import"}]

NoClick == [status |-> "NONE", actor |-> NoName]
Idle == [step |-> "IDLE"]
Jobs == [kind : {"ACK_MESSAGE"}, by : Accounts, text : Texts]
        \cup [kind : {"PROCESS_ACTION"}, event : Events]
        \cup [kind : {"EXTRACT", "SETTLE_INTAKE"}]

AppTypeOK ==
    /\ IntakeTypeOK
    /\ binding \in [Names -> Accounts \cup {NoAccount}]
    /\ revocable \subseteq Names
    /\ round \in 1 .. MaxRounds /\ waiting \subseteq Names
    /\ handled \subseteq Events
    /\ clicks \in [Events -> [status : {"NONE", "PENDING", "PROCESSED", "FAILED"},
                              actor : Names \cup {NoName}]]
    /\ queue \in Seq(Jobs)
    /\ doing \in {Idle} \cup [step : {"SETTLING", "IMPORTING"}]
                 \cup [step : {"ANSWERED"}, event : Events, error : BOOLEAN]
    /\ did \in [Events -> Nat]
    /\ unsettled \subseteq Events
    /\ received \in 0 .. MaxMessages /\ mishaps \in 0 .. MaxMishaps

AppInit ==
    /\ IntakeInit
    /\ binding = [n \in Names |-> IF n = Lead THEN LeadAccount ELSE NoAccount]
    /\ revocable = {}
    /\ round = 1 /\ waiting = Names /\ handled = {}
    /\ clicks = [e \in Events |-> NoClick]
    /\ queue = <<>> /\ doing = Idle
    /\ did = [e \in Events |-> 0]
    /\ unsettled = {} /\ received = 0 /\ mishaps = 0

NamesOf(account) == {n \in Names : binding[n] = account}

-----------------------------------------------------------------------------
(* The callbacks.                                                          *)

\* handle_message_receive: parked in memory only.
ReceiveMessage(account, text) ==
    /\ received < MaxMessages /\ received' = received + 1
    /\ queue' = Append(queue, [kind |-> "ACK_MESSAGE", by |-> account, text |-> text])
    /\ UNCHANGED <<intakeVars, people, task, clicks, doing, did, unsettled,
                   mishaps>>

\* A card that carries the button is out.
Offered(button) ==
    CASE button.name = "accept" -> button.round <= round
      [] button.name = "REGISTRATION_REVOKE" -> button.actor \in revocable
      [] button.name = "INTAKE_ROSTER_CONFIRM" -> intake # NoIntake
      [] button.name = "score" -> TRUE

Recorded(e) == clicks[e].status # "NONE"

ClicksSoFar == Cardinality({e \in Events : clicks[e].status # "NONE"})

\* record_inbound_action: the actor is looked up now, and an account with
\* two names is either of them.
Click(e) ==
    /\ Offered(e.button)
    /\ ~Recorded(e)
    /\ ClicksSoFar < MaxClicks
    /\ \E actor \in IF NamesOf(e.by) = {} THEN {NoName} ELSE NamesOf(e.by) :
          clicks' = [clicks EXCEPT ![e] = [status |-> "PENDING", actor |-> actor]]
    /\ queue' = Append(queue, [kind |-> "PROCESS_ACTION", event |-> e])
    /\ UNCHANGED <<intakeVars, people, task, doing, did, unsettled, received,
                   mishaps>>

-----------------------------------------------------------------------------
(* The worker, on the next job of its queue.                               *)

Due(kind) == doing = Idle /\ queue # <<>> /\ Head(queue).kind = kind

\* handle_message: a name is bound to whoever claims it first; the
\* coordinator, when bound, gets a card that undoes it.
Register(account, name) ==
    /\ IF binding[name] = NoAccount
       THEN /\ binding' = [binding EXCEPT ![name] = account]
            /\ revocable' =
                 IF binding'[Lead] \in Accounts \ {account}
                 THEN revocable \cup {name} ELSE revocable
       ELSE UNCHANGED people
    /\ queue' = Tail(queue)
    /\ UNCHANGED intakeVars

\* _start_intake: only somebody who is registered may bring in a meeting.
BringIn(account) ==
    /\ IF NamesOf(account) # {} /\ intake.status # "READY"
       THEN /\ \E name \in NamesOf(account) : StartIntake(account, name)
            /\ queue' = Append(Tail(queue), [kind |-> "EXTRACT"])
       ELSE /\ queue' = Tail(queue)
            /\ UNCHANGED intakeVars
    /\ UNCHANGED people

HandleMessage ==
    /\ Due("ACK_MESSAGE")
    /\ LET job == Head(queue)
       IN IF job.text.asks = "register" THEN Register(job.by, job.text.name)
                                        ELSE BringIn(job.by)
    /\ UNCHANGED <<task, clicks, doing, did, unsettled, received, mishaps>>

\* Registrar.revoke: by who coordinates a meeting the name is in, known or
\* imported.
MayRevoke(account, name) ==
    \/ binding[Lead] = account
    \/ name \in meeting /\ coordinator \in NamesOf(account)

\* MeetingRouter.handle: the card of an assignment carries its task in the
\* raw value, which is not where the router looks, and its effect has no
\* row; with one meeting that does not matter.
Routed(e) == Served = 1

\* respond_to_assignment, for the round the task is in now.
MayAnswer(e) == clicks[e].actor \in waiting

Answered(e, error) == [step |-> "ANSWERED", event |-> e, error |-> error]

\* What a click changes, and whether it is refused.
Accept(e) ==
    /\ IF e \in handled
       THEN /\ UNCHANGED <<task, did>>
            /\ doing' = Answered(e, FALSE)
       ELSE IF Routed(e) /\ MayAnswer(e)
       THEN /\ waiting' = waiting \ {clicks[e].actor}
            /\ handled' = handled \cup {e}
            /\ did' = [did EXCEPT ![e] = @ + 1]
            /\ doing' = Answered(e, FALSE)
            /\ UNCHANGED round
       ELSE /\ UNCHANGED <<task, did>>
            /\ doing' = Answered(e, TRUE)
    /\ queue' = Tail(queue)
    /\ UNCHANGED <<intakeVars, people>>

Revoke(e) ==
    /\ LET name == e.button.actor
       IN IF MayRevoke(e.by, name)
          THEN /\ binding' = [binding EXCEPT ![name] = NoAccount]
               /\ did' = [did EXCEPT ![e] =
                             @ + (IF binding[name] = NoAccount THEN 0 ELSE 1)]
               /\ doing' = Answered(e, FALSE)
          ELSE /\ UNCHANGED <<binding, did>>
               /\ doing' = Answered(e, TRUE)
    /\ queue' = Tail(queue)
    /\ UNCHANGED <<intakeVars, task, revocable>>

Confirm(e) ==
    /\ IF MayConfirm(e.by)
       THEN /\ ConfirmRoster(e.button.choice)
            /\ queue' = Append(Tail(queue), [kind |-> "SETTLE_INTAKE"])
            /\ did' = [did EXCEPT ![e] = @ + 1]
            /\ doing' = Answered(e, FALSE)
       ELSE /\ queue' = Tail(queue)
            /\ doing' = Answered(e, TRUE)
            /\ UNCHANGED <<intakeVars, did>>
    /\ UNCHANGED <<people, task>>

\* _handle_vote: a score is put on the card, when its sender is known.
Pick(e) ==
    /\ doing' = Answered(e, clicks[e].actor = NoName)
    /\ queue' = Tail(queue)
    /\ UNCHANGED <<intakeVars, people, task, did>>

\* _process_action as far as the command; a row dealt with is left alone.
ProcessAction ==
    /\ Due("PROCESS_ACTION")
    /\ LET e == Head(queue).event
       IN IF clicks[e].status # "PENDING"
          THEN /\ queue' = Tail(queue)
               /\ UNCHANGED <<intakeVars, people, task, doing, did>>
          ELSE CASE e.button.name = "accept" -> Accept(e)
                 [] e.button.name = "REGISTRATION_REVOKE" -> Revoke(e)
                 [] e.button.name = "INTAKE_ROSTER_CONFIRM" -> Confirm(e)
                 [] e.button.name = "score" -> Pick(e)
    /\ UNCHANGED <<clicks, unsettled, received, mishaps>>

\* Mutation: only what succeeded is written down.
MarkIfDone(status, error) == IF error THEN status ELSE "PROCESSED"

Mark(status, error) == IF error THEN "FAILED" ELSE "PROCESSED"

\* The answer to a pick: SCORING, unless it was refused.
Scoring(answer) == answer.event.button.name = "score" /\ ~answer.error

\* _process_action: the outcome is written on the row of the click; the
\* card of a pick is drawn again, and its row stays as it is.
FinishAction ==
    /\ doing.step = "ANSWERED"
    /\ IF Scoring(doing)
       THEN unsettled' = unsettled \cup {doing.event} /\ UNCHANGED clicks
       ELSE /\ clicks' = [clicks EXCEPT ![doing.event].status = Mark(@, doing.error)]
            /\ UNCHANGED unsettled
    /\ doing' = Idle
    /\ UNCHANGED <<intakeVars, people, task, queue, did, received, mishaps>>

\* drain_once swallows an error of the card or of the row, and goes on.
FinishRaises ==
    /\ doing.step = "ANSWERED"
    /\ mishaps < MaxMishaps /\ mishaps' = mishaps + 1
    /\ unsettled' = unsettled \cup {doing.event}
    /\ doing' = Idle
    /\ UNCHANGED <<intakeVars, people, task, clicks, queue, did, received>>

\* The same before the job has done anything.
JobRaises ==
    /\ doing = Idle /\ queue # <<>>
    /\ mishaps < MaxMishaps /\ mishaps' = mishaps + 1
    /\ unsettled' = unsettled \cup
           {job.event : job \in {j \in {Head(queue)} : j.kind = "PROCESS_ACTION"}}
    /\ queue' = Tail(queue)
    /\ UNCHANGED <<intakeVars, people, task, clicks, doing, did, received>>

\* _run_extraction.
RunExtraction ==
    /\ Due("EXTRACT")
    /\ queue' = Tail(queue)
    /\ \E found \in BOOLEAN :
          /\ Extract(found)
          /\ doing' = IF found THEN [step |-> "SETTLING"] ELSE Idle
    /\ UNCHANGED <<people, task, clicks, did, unsettled, received, mishaps>>

TakeSettle ==
    /\ Due("SETTLE_INTAKE")
    /\ queue' = Tail(queue)
    /\ doing' = [step |-> "SETTLING"]
    /\ UNCHANGED <<intakeVars, people, task, clicks, did, unsettled, received,
                   mishaps>>

\* _settle_intake: whichever half came second imports.
SettleIntake ==
    /\ doing.step = "SETTLING"
    /\ \/ ClaimImport /\ doing' = [step |-> "IMPORTING"]
       \/ ~BothHalvesDone /\ doing' = Idle /\ UNCHANGED intakeVars
    /\ UNCHANGED <<people, task, clicks, queue, did, unsettled, received,
                   mishaps>>

Import ==
    /\ doing.step = "IMPORTING"
    /\ ImportStep
    /\ doing' = IF importing' = NotImporting THEN Idle ELSE doing
    /\ UNCHANGED <<people, task, clicks, queue, did, unsettled, received,
                   mishaps>>

Work ==
    \/ HandleMessage \/ ProcessAction \/ FinishAction
    \/ RunExtraction \/ TakeSettle \/ SettleIntake \/ Import

Worker == Work \/ FinishRaises \/ JobRaises

-----------------------------------------------------------------------------
\* The task is taken back, revised and dispatched again.
Redispatch ==
    /\ round < MaxRounds /\ round' = round + 1
    /\ waiting' = Names
    /\ UNCHANGED <<intakeVars, people, handled, clicks, queue, doing, did,
                   unsettled, received, mishaps>>

\* What a stop and a start take and leave.
Restarted ==
    /\ mishaps < MaxMishaps /\ mishaps' = mishaps + 1
    /\ doing' = Idle
    /\ importing' = NotImporting
    /\ unsettled' = unsettled \cup {e \in Events : clicks[e].status = "PENDING"}
    /\ UNCHANGED <<intake, cached, meeting, coordinator, source, people, task,
                   clicks, did, received>>

\* Mutation: the start queues a click that is PENDING.
StopAndReadBack ==
    /\ Restarted
    /\ \/ queue' = <<>>
       \/ \E e \in Events :
             /\ clicks[e].status = "PENDING"
             /\ queue' = <<[kind |-> "PROCESS_ACTION", event |-> e]>>

\* The process stops and is started again: the queue is gone, and nothing
\* reads the PENDING rows back.
Stop == Restarted /\ queue' = <<>>

AppNext ==
    \/ \E account \in Accounts, text \in Texts : ReceiveMessage(account, text)
    \/ \E e \in Events : Click(e)
    \/ Worker
    \/ Redispatch
    \/ Stop

AppSpec == AppInit /\ [][AppNext]_appVars

\* The worker loop takes its jobs as long as the process runs, and they do not
\* all end in errors.
AppFairSpec == AppSpec /\ WF_appVars(Work)

-----------------------------------------------------------------------------
\* A click changes something once at most, and nothing when its card says
\* that it failed, however often Feishu delivers it and wherever the worker
\* stopped (record_inbound_action, _process_action).
AClickDecidesOnce ==
    \A e \in Events :
        did[e] <= (IF clicks[e].status \in {"NONE", "FAILED"} THEN 0 ELSE 1)

\* Every click that was taken in is worked off and its outcome written down,
\* but for those whose row stays PENDING for ever: the process stopped with
\* the click in its memory, an error ended the job on its way (drain_once),
\* or it picked a score (_process_action).
Open == {e \in Events : clicks[e].status = "PENDING"} \ unsettled
ClicksAreWorkedOff == Open # {} ~> Open = {}

-----------------------------------------------------------------------------
(* What the comments say and the code does not keep.                       *)

Answers(e) == doing = Idle /\ doing' \in {Answered(e, FALSE), Answered(e, TRUE)}

\* "A click already carries enough to say which meeting it is for"
\* (meeting_router.py 8): with an answer that is awaited it is not refused.
AwaitedAnswersAreTaken ==
    [][\A e \in Events :
          Answers(e) /\ e.button.name = "accept" /\ MayAnswer(e)
          => doing' = Answered(e, FALSE)]_appVars
=============================================================================
