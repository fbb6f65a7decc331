--------------------------- MODULE OutboxDispatch ---------------------------
(***************************************************************************)
(* How a recorded effect reaches people: the rows of the outbox, drained   *)
(* by dispatch_all (service.py) from the Feishu loop of cli.py and from    *)
(* the web console, with a Feishu adapter (feishu_im.py) that sends one    *)
(* message per recipient and remembers an effect by its receipt; and the   *)
(* assignment cards, which have no row and are projected anew at every     *)
(* tick of the loop (feishu_notifier.py).                                  *)
(*                                                                         *)
(* The loop and the console are two threads of one process, so that they   *)
(* stop together; the agent worker is a process of its own, whose start    *)
(* takes back every claimed row.  What FinalRelease says of the release of *)
(* a final when its row is delivered is not repeated here.  The provider   *)
(* is external: it accepts a uuid once.                                    *)
(***************************************************************************)
EXTENDS Naturals, FiniteSets

CONSTANTS
    Rows,          \* effects with a row in the outbox
    Cards,         \* assignment cards: effects of the notifier
    People,
    To,            \* recipient_actor_ids of each effect
    MaxFaults      \* bound on crashes, refused sends and worker starts

ASSUME OutboxAssumption ==
    /\ Rows \cap Cards = {}
    /\ To \in [Rows \cup Cards -> (SUBSET People) \ {{}}]
    /\ \A c \in Cards : Cardinality(To[c]) = 1
    /\ MaxFaults \in Nat

Loop == "loop"
Console == "workbench_dispatcher"
Threads == {Loop, Console}
Gone == "earlier_session"
NoOne == "no_session"
Effects == Rows \cup Cards
NoEffect == "no_effect"

VARIABLES
    status,      \* outbox_entries.status
    claimedBy,   \* outbox_entries.claimed_by_session
    awaiting,    \* the assignments nobody has answered yet
    bound,       \* the people with a row in feishu_identity_bindings
    receipts,    \* feishu_im_messages: the effects with a receipt
    accepted,    \* the uuids the provider accepted
    copies,      \* how many messages a recipient got for an effect
    at,          \* where each thread is
    effect,      \* the effect it is sending
    left,        \* the recipients it has not sent to yet
    todo,        \* the cards left of the tick of the loop
    refused,     \* rows whose last send raised in the session that holds them
    faults

thread == <<at, effect, left, todo>>
outside == <<receipts, accepted, copies>>
vars == <<status, claimedBy, awaiting, bound, outside, thread, refused, faults>>

Places == {"OFF", "STARTING", "IDLE", "NOTIFYING", "DISPATCHING", "SENDING",
           "ACCEPTED"}

TypeOK ==
    /\ status \in [Rows -> {"NONE", "PENDING", "CLAIMED", "DELIVERED"}]
    /\ claimedBy \in [Rows -> Threads \cup {Gone, NoOne}]
    /\ \A r \in Rows : status[r] = "CLAIMED" <=> claimedBy[r] # NoOne
    /\ awaiting \subseteq Cards /\ bound \subseteq People
    /\ receipts \subseteq Effects
    /\ copies \in [Effects -> [People -> Nat]]
    /\ at \in [Threads -> Places]
    /\ effect \in [Threads -> Effects \cup {NoEffect}]
    /\ left \in [Threads -> SUBSET People]
    /\ todo \in SUBSET Cards
    /\ refused \subseteq Rows
    /\ faults \in 0 .. MaxFaults

Init ==
    /\ status = [r \in Rows |-> "NONE"]
    /\ claimedBy = [r \in Rows |-> NoOne]
    /\ awaiting = {} /\ receipts = {} /\ accepted = {} /\ refused = {}
    /\ bound \in SUBSET People
    /\ copies = [e \in Effects |-> [p \in People |-> 0]]
    /\ at = [t \in Threads |-> IF t = Loop THEN "STARTING" ELSE "IDLE"]
    /\ effect = [t \in Threads |-> NoEffect]
    /\ left = [t \in Threads |-> {}]
    /\ todo = {}
    /\ faults = 0

-----------------------------------------------------------------------------
(* What the domain and the people do meanwhile.                            *)

\* _create_outbox: one row per effect_id, whatever asks for it again.
Enqueue(r) ==
    /\ status[r] = "NONE"
    /\ status' = [status EXCEPT ![r] = "PENDING"]
    /\ UNCHANGED <<claimedBy, awaiting, bound, outside, thread, refused, faults>>

\* A dispatch adds a PENDING assignment; an answer or a revision ends it.
AssignmentsChange(c) ==
    /\ awaiting' = (IF c \in awaiting THEN awaiting \ {c} ELSE awaiting \cup {c})
    /\ UNCHANGED <<status, claimedBy, bound, outside, thread, refused, faults>>

\* bind_actor, unbind_actor.
BindingsChange(p) ==
    /\ bound' = (IF p \in bound THEN bound \ {p} ELSE bound \cup {p})
    /\ UNCHANGED <<status, claimedBy, awaiting, outside, thread, refused, faults>>

-----------------------------------------------------------------------------
(* Sessions.                                                               *)

Mine(t) == {r \in Rows : status[r] = "CLAIMED" /\ claimedBy[r] = t}

\* Mutation: a session takes back what an earlier one of its name held.
NotItsOwn(session) == Mine(session)

\* The rows recover_dispatcher takes back.
HeldByOthers(session) ==
    {r \in Rows : status[r] = "CLAIMED" /\ claimedBy[r] # session}

TakeBack(taken) ==
    /\ status' = [r \in Rows |-> IF r \in taken THEN "PENDING" ELSE status[r]]
    /\ claimedBy' = [r \in Rows |-> IF r \in taken THEN NoOne ELSE claimedBy[r]]
    /\ refused' = refused \ taken

\* The loop recovers once, then ticks.
RecoverDispatcher ==
    /\ at[Loop] = "STARTING"
    /\ TakeBack(HeldByOthers(Loop))
    /\ at' = [at EXCEPT ![Loop] = "IDLE"]
    /\ UNCHANGED <<awaiting, bound, outside, effect, left, todo, faults>>

\* The agent worker starts and recovers too, the rows of the live included.
WorkerRecovers ==
    /\ faults < MaxFaults /\ faults' = faults + 1
    /\ TakeBack(HeldByOthers("agent_worker"))
    /\ UNCHANGED <<awaiting, bound, outside, thread>>

\* Every loop has a session id of its own, the console always the same one.
Crash ==
    /\ faults < MaxFaults /\ faults' = faults + 1
    /\ at' = [t \in Threads |-> "OFF"]
    /\ effect' = [t \in Threads |-> NoEffect]
    /\ left' = [t \in Threads |-> {}]
    /\ todo' = {}
    /\ claimedBy' = [r \in Rows |-> IF r \in Mine(Loop) THEN Gone ELSE claimedBy[r]]
    /\ refused' = {}
    /\ UNCHANGED <<status, awaiting, bound, outside>>

Restart ==
    /\ at[Loop] = "OFF"
    /\ at' = [t \in Threads |-> IF t = Loop THEN "STARTING" ELSE "IDLE"]
    /\ UNCHANGED <<status, claimedBy, awaiting, bound, outside, effect, left,
                   todo, refused, faults>>

-----------------------------------------------------------------------------
(* FeishuIM.send, called by either thread.                                      *)

\* Mutation: a uuid of the attempt, not of the effect.
UuidOfAttempt(e, p, t) == <<e, p, t, faults>>

\* The idempotency key of one message of an effect.
Uuid(e, p, t) == <<e, p>>

\* send as far as its first network call: an effect with a receipt is not
\* sent again, and somebody without a binding stops it before anybody is.
Begin(t, e) ==
    /\ effect' = [effect EXCEPT ![t] = e]
    /\ IF e \in receipts
       THEN /\ at' = [at EXCEPT ![t] = "ACCEPTED"]
            /\ left' = [left EXCEPT ![t] = {}]
       ELSE /\ at' = [at EXCEPT ![t] = "SENDING"]
            /\ left' = [left EXCEPT ![t] = To[e]]

\* An exception ends the tick, or the request of the console.
Raise(t) ==
    /\ at' = [at EXCEPT ![t] = "IDLE"]
    /\ effect' = [effect EXCEPT ![t] = NoEffect]
    /\ left' = [left EXCEPT ![t] = {}]
    /\ todo' = (IF t = Loop THEN {} ELSE todo)

SendOne(t, p) ==
    /\ at[t] = "SENDING" /\ p \in left[t]
    /\ LET e == effect[t]
           uuid == Uuid(e, p, t)
       IN /\ accepted' = accepted \cup {uuid}
          /\ copies' = IF uuid \in accepted THEN copies
                       ELSE [copies EXCEPT ![e][p] = @ + 1]
    /\ left' = [left EXCEPT ![t] = @ \ {p}]
    /\ UNCHANGED <<status, claimedBy, awaiting, bound, receipts, at, effect,
                   todo, refused, faults>>

\* Mutation: a send that reached somebody is a send.
ReachedSomebody(t) == left[t] # To[effect[t]]

ReachedEverybody(t) == left[t] = {}

\* The receipt is written under the lock, unless another send was first.
WriteReceipt(t) ==
    /\ at[t] = "SENDING" /\ ReachedEverybody(t)
    /\ receipts' = receipts \cup {effect[t]}
    /\ at' = [at EXCEPT ![t] = "ACCEPTED"]
    /\ left' = [left EXCEPT ![t] = {}]
    /\ UNCHANGED <<status, claimedBy, awaiting, bound, accepted, copies, effect,
                   todo, refused, faults>>

\* The provider refuses a message.  The row of a row's effect stays claimed.
SendFails(t) ==
    /\ at[t] = "SENDING" /\ left[t] # {}
    /\ faults < MaxFaults /\ faults' = faults + 1
    /\ Raise(t)
    /\ refused' = refused \cup (Mine(t) \cap {effect[t]})
    /\ UNCHANGED <<status, claimedBy, awaiting, bound, outside>>

-----------------------------------------------------------------------------
(* notify_once, at the head of every tick of the loop.                     *)

StartTick ==
    /\ at[Loop] = "IDLE"
    /\ at' = [at EXCEPT ![Loop] = "NOTIFYING"]
    /\ todo' = awaiting
    /\ UNCHANGED <<status, claimedBy, awaiting, bound, outside, effect, left,
                   refused, faults>>

\* A card sent before is not sent again; one whose person is not bound waits
\* for a later tick.
NotifyOne(c) ==
    /\ at[Loop] = "NOTIFYING" /\ c \in todo
    /\ todo' = todo \ {c}
    /\ IF c \in receipts \/ ~(To[c] \subseteq bound)
       THEN UNCHANGED <<at, effect, left>>
       ELSE Begin(Loop, c)
    /\ UNCHANGED <<status, claimedBy, awaiting, bound, outside, refused, faults>>

CardAccepted ==
    /\ at[Loop] = "ACCEPTED" /\ effect[Loop] \in Cards
    /\ at' = [at EXCEPT ![Loop] = "NOTIFYING"]
    /\ effect' = [effect EXCEPT ![Loop] = NoEffect]
    /\ UNCHANGED <<status, claimedBy, awaiting, bound, outside, left, todo,
                   refused, faults>>

-----------------------------------------------------------------------------
(* dispatch_all, by the loop after its cards or by a request.              *)

StartDispatch(t) ==
    /\ IF t = Loop THEN at[t] = "NOTIFYING" /\ todo = {} ELSE at[t] = "IDLE"
    /\ at' = [at EXCEPT ![t] = "DISPATCHING"]
    /\ UNCHANGED <<status, claimedBy, awaiting, bound, outside, effect, left,
                   todo, refused, faults>>

\* A pending row is claimed by a conditional update and sent.
Claim(t, r) ==
    /\ at[t] = "DISPATCHING"
    /\ status[r] = "PENDING"
    /\ status' = [status EXCEPT ![r] = "CLAIMED"]
    /\ claimedBy' = [claimedBy EXCEPT ![r] = t]
    /\ IF r \in receipts \/ To[r] \subseteq bound
       THEN /\ Begin(t, r)
            /\ UNCHANGED <<todo, refused>>
       ELSE /\ Raise(t)
            /\ refused' = refused \cup {r}
    /\ UNCHANGED <<awaiting, bound, outside, faults>>

\* _complete_delivery, whoever holds the row by now.
CompleteDelivery(t) ==
    /\ at[t] = "ACCEPTED" /\ effect[t] \in Rows
    /\ status' = [status EXCEPT ![effect[t]] = "DELIVERED"]
    /\ claimedBy' = [claimedBy EXCEPT ![effect[t]] = NoOne]
    /\ refused' = refused \ {effect[t]}
    /\ at' = [at EXCEPT ![t] = "DISPATCHING"]
    /\ effect' = [effect EXCEPT ![t] = NoEffect]
    /\ UNCHANGED <<awaiting, bound, outside, left, todo, faults>>

NothingPending(t) ==
    /\ at[t] = "DISPATCHING"
    /\ \A r \in Rows : status[r] # "PENDING"
    /\ at' = [at EXCEPT ![t] = "IDLE"]
    /\ UNCHANGED <<status, claimedBy, awaiting, bound, outside, effect, left,
                   todo, refused, faults>>

-----------------------------------------------------------------------------
Step(t) ==
    \/ \E p \in People : SendOne(t, p)
    \/ WriteReceipt(t)
    \/ \E r \in Rows : Claim(t, r)
    \/ CompleteDelivery(t)
    \/ NothingPending(t)

LoopStep ==
    \/ RecoverDispatcher
    \/ StartTick
    \/ \E c \in Cards : NotifyOne(c)
    \/ CardAccepted
    \/ StartDispatch(Loop)
    \/ Step(Loop)

Next ==
    \/ \E r \in Rows : Enqueue(r)
    \/ \E c \in Cards : AssignmentsChange(c)
    \/ \E p \in People : BindingsChange(p)
    \/ LoopStep
    \/ StartDispatch(Console)
    \/ Step(Console)
    \/ \E t \in Threads : SendFails(t)
    \/ WorkerRecovers \/ Crash \/ Restart

Spec == Init /\ [][Next]_vars

\* The loop ticks for ever, a request that dispatches is worked off, and the
\* container is started again when it stops (restart: unless-stopped).
Fairness == WF_vars(LoopStep) /\ WF_vars(Step(Console)) /\ WF_vars(Restart)
FairSpec == Spec /\ Fairness

-----------------------------------------------------------------------------
\* No recipient gets the message of an effect twice, however many sessions
\* send it, take its row from one another or stop half way (send, cli.py 574:
\* "one send and one no-op, not two cards").
OneMessageEach ==
    \A e \in Effects, p \in People : copies[e][p] <= (IF p \in To[e] THEN 1 ELSE 0)

\* What has a receipt, and so every delivered row, reached each of its
\* recipients; a send that stopped between two of them left no receipt.
DeliveredReachedAll ==
    /\ \A e \in receipts : \A p \in To[e] : copies[e][p] >= 1
    /\ \A r \in Rows : status[r] = "DELIVERED" => r \in receipts

\* The rows and the cards together do what Notice promises of an effect: a
\* row is closed when it is delivered, a card when its receipt is written.
Promise == INSTANCE Notice
    WITH closed <- {r \in Rows : status[r] = "DELIVERED"} \cup (receipts \cap Cards)

ImplementsNotice == Promise!NoticeSpec

\* A recorded effect is delivered, or its send was refused in the session
\* that still holds its row: it is never forgotten by a stop, a second
\* dispatcher or a card that is stuck (recover_dispatcher, dispatch_loop).
NoRowIsForgotten ==
    \A r \in Rows :
        status[r] # "NONE" ~> (status[r] = "DELIVERED" \/ r \in refused)
=============================================================================
