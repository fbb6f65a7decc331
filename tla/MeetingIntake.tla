---------------------------- MODULE MeetingIntake ----------------------------
(***************************************************************************)
(* One link to the minutes of a meeting, from a chat message to a meeting  *)
(* that is served: the row of meeting_intakes (feishu_intake_flow.py), the *)
(* meeting it imports (meeting.py) and the arguments it is brought back    *)
(* with at every start (episode_registry.py).                              *)
(*                                                                         *)
(* The transcript is one text: what it says, and the pages that show it,   *)
(* are not modelled.  A meeting is its roster.  All steps are taken by the *)
(* worker thread of FeishuApp, which may be stopped between any two of     *)
(* them; the rows survive, what it was importing does not.                 *)
(***************************************************************************)
EXTENDS Naturals, FiniteSets

CONSTANTS
    Names,       \* everybody the organisation knows
    Accounts,    \* Feishu open_ids
    Speakers,    \* who speaks in the transcript
    InChat       \* the members of the chat the link was sent to

ASSUME IntakeAssumption == InChat \subseteq Names

VARIABLES
    intake,      \* the row of meeting_intakes
    cached,      \* an extraction of the transcript is on disk
    meeting,     \* the roster of the imported episode
    coordinator, \* its COORDINATOR row
    source,      \* the roster in episode_sources
    importing    \* the step of _import the worker is at, and the roster it took

intakeVars == <<intake, cached, meeting, coordinator, source, importing>>

NoRoster == {}
Nobody == "nobody"
NotImporting == [step |-> "NO", roster |-> NoRoster]
NoIntake == [status |-> "NONE", by |-> Nobody, convener |-> Nobody,
             chosen |-> NoRoster, extracted |-> FALSE]

IntakeTypeOK ==
    /\ \/ intake = NoIntake
       \/ intake \in [status : {"AWAITING_ROSTER", "IMPORTING", "READY", "FAILED"},
                      by : Accounts, convener : Names, chosen : SUBSET Names,
                      extracted : BOOLEAN]
    /\ cached \in BOOLEAN
    /\ {meeting, source} \subseteq SUBSET Names
    /\ coordinator \in Names \cup {Nobody}
    /\ importing \in [step : {"NO", "LOAD", "REGISTER", "READY"},
                      roster : SUBSET Names]

IntakeInit ==
    /\ intake = NoIntake
    /\ cached \in BOOLEAN
    /\ meeting = NoRoster /\ source = NoRoster /\ coordinator = Nobody
    /\ importing = NotImporting

-----------------------------------------------------------------------------
\* start: any earlier attempt at this link is forgotten.
StartIntake(account, name) ==
    /\ intake.status # "READY"
    /\ intake' = [status |-> "AWAITING_ROSTER", by |-> account,
                  convener |-> name, chosen |-> NoRoster, extracted |-> FALSE]
    /\ UNCHANGED <<cached, meeting, coordinator, source, importing>>

\* run_extraction, from the cache or by the model.
Extract(found) ==
    /\ cached => found
    /\ cached' = found
    /\ intake' = IF found THEN [intake EXCEPT !.extracted = TRUE]
                          ELSE [intake EXCEPT !.status = "FAILED"]
    /\ UNCHANGED <<meeting, coordinator, source, importing>>

\* propose_roster.  A speaker who is not in the chat is never added.
Spoke == Speakers \cap InChat
Silent == InChat \ Speakers

\* The people a choice stands for; who convened the meeting is in it.
Chosen(choice) ==
    Spoke \cup (IF choice = "all" THEN Silent ELSE {}) \cup {intake.convener}

MayConfirm(account) == intake # NoIntake /\ intake.by = account

\* confirm_roster, whatever has become of the intake since its card was sent.
ConfirmRoster(choice) ==
    /\ intake' = [intake EXCEPT !.chosen = Chosen(choice)]
    /\ UNCHANGED <<cached, meeting, coordinator, source, importing>>

BothHalvesDone ==
    /\ intake.status = "AWAITING_ROSTER"
    /\ intake.chosen # NoRoster /\ intake.extracted

\* finish_if_ready: the conditional update that claims the import.
ClaimImport ==
    /\ BothHalvesDone
    /\ intake' = [intake EXCEPT !.status = "IMPORTING"]
    /\ importing' = [step |-> "LOAD", roster |-> intake.chosen]
    /\ UNCHANGED <<cached, meeting, coordinator, source>>

\* Mutation: a meeting that exists is taken as it is.
AnyRoster(roster) == meeting # NoRoster

SameRoster(roster) == meeting = roster

Loaded == importing' = [importing EXCEPT !.step = "REGISTER"]

\* load_meeting_service: nobody imported this transcript before.  Who
\* convened it coordinates it from now on, whoever sends its link again.
CreateMeeting ==
    /\ importing.step = "LOAD" /\ meeting = NoRoster
    /\ meeting' = importing.roster /\ coordinator' = intake.convener
    /\ Loaded
    /\ UNCHANGED <<intake, cached, source>>

\* It attaches to the meeting that exists, when the roster is the same.
AttachMeeting ==
    /\ importing.step = "LOAD" /\ meeting # NoRoster
    /\ SameRoster(importing.roster)
    /\ Loaded
    /\ UNCHANGED <<intake, cached, meeting, coordinator, source>>

\* It refuses another roster, and the intake has failed.
RefuseRoster ==
    /\ importing.step = "LOAD" /\ meeting # NoRoster
    /\ ~SameRoster(importing.roster)
    /\ importing' = NotImporting
    /\ intake' = [intake EXCEPT !.status = "FAILED"]
    /\ UNCHANGED <<cached, meeting, coordinator, source>>

\* register; the slug is assigned once and kept.
RegisterSource ==
    /\ importing.step = "REGISTER"
    /\ source' = importing.roster
    /\ importing' = [importing EXCEPT !.step = "READY"]
    /\ UNCHANGED <<intake, cached, meeting, coordinator>>

MarkReady ==
    /\ importing.step = "READY"
    /\ intake' = [intake EXCEPT !.status = "READY"]
    /\ importing' = NotImporting
    /\ UNCHANGED <<cached, meeting, coordinator, source>>

ImportStep ==
    \/ CreateMeeting \/ AttachMeeting \/ RefuseRoster
    \/ RegisterSource \/ MarkReady

-----------------------------------------------------------------------------
\* A registered meeting is brought back as it was imported: with the roster
\* it has, whatever stops, second links and second choices came between the
\* import and its registration; and one that was announced is registered
\* (finish_if_ready, load_meeting_service, register).
MeetingsComeBack ==
    /\ source # NoRoster => source = meeting
    /\ intake.status = "READY" => source # NoRoster
=============================================================================
