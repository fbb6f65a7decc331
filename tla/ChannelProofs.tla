---------------------------- MODULE ChannelProofs ----------------------------
(***************************************************************************)
(* Proofs about both directions of the Feishu channel.                     *)
(*                                                                         *)
(* OutboxDispatch, what goes out: whatever the loop, the console and the   *)
(* worker do, and whoever stops when, a recipient gets the message of an   *)
(* effect once at most, and a row that is delivered reached everybody.     *)
(*                                                                         *)
(* FeishuApp, what comes in: a click changes something once at most, and a *)
(* meeting that was brought in comes back as it was imported.              *)
(***************************************************************************)
EXTENDS OutboxDispatch, FeishuApp, SequenceTheorems, TLAPS

USE DEF Effects, Threads, Loop, Console, Gone, NoOne, Places

-----------------------------------------------------------------------------
(* The inductive invariant.                                                *)

\* A recipient has one message just when the uuid of the effect and the
\* recipient was accepted, and nobody else has any.
UuidsAreCounted ==
    \A e \in Effects, p \in People :
        /\ copies[e][p] = IF <<e, p>> \in accepted THEN 1 ELSE 0
        /\ <<e, p>> \in accepted => p \in To[e]

\* A thread in the middle of a send has sent to everybody it has crossed
\* off, and one that was told "sent" has the receipt.
SendsInOrder ==
    \A t \in Threads :
        /\ at[t] = "SENDING" =>
               /\ effect[t] \in Effects
               /\ left[t] \subseteq To[effect[t]]
               /\ \A p \in To[effect[t]] \ left[t] :
                      <<effect[t], p>> \in accepted
        /\ at[t] = "ACCEPTED" => effect[t] \in receipts

ReceiptsReachedAll ==
    /\ \A e \in receipts : \A p \in To[e] : <<e, p>> \in accepted
    /\ \A r \in Rows : status[r] = "DELIVERED" => r \in receipts

OutboxInv == TypeOK /\ UuidsAreCounted /\ SendsInOrder /\ ReceiptsReachedAll

-----------------------------------------------------------------------------
(* Types.                                                                  *)

LEMMA InitTyped == Init => TypeOK
  <1> SUFFICES ASSUME Init PROVE TypeOK
    OBVIOUS
  <1>1. faults \in 0 .. MaxFaults
    BY OutboxAssumption DEF Init
  <1>2. copies \in [Effects -> [People -> Nat]]
    BY DEF Init
  <1>3. /\ at \in [Threads -> Places]
        /\ effect \in [Threads -> Effects \cup {NoEffect}]
        /\ left \in [Threads -> SUBSET People]
    BY DEF Init
  <1> QED BY <1>1, <1>2, <1>3 DEF Init, TypeOK

\* What a session takes back is pending again and held by nobody.
LEMMA TakeBackTyped ==
  ASSUME TypeOK, NEW session, TakeBack(HeldByOthers(session))
  PROVE  /\ status' \in [Rows -> {"NONE", "PENDING", "CLAIMED", "DELIVERED"}]
         /\ claimedBy' \in [Rows -> Threads \cup {Gone, NoOne}]
         /\ \A r \in Rows : status'[r] = "CLAIMED" <=> claimedBy'[r] # NoOne
         /\ refused' \subseteq Rows
  BY DEF TypeOK, TakeBack, HeldByOthers

\* What Begin does to a thread, for an effect there is.
LEMMA BeginTyped ==
  ASSUME TypeOK, NEW t \in Threads, NEW e \in Effects, Begin(t, e)
  PROVE  /\ at' \in [Threads -> Places]
         /\ effect' \in [Threads -> Effects \cup {NoEffect}]
         /\ left' \in [Threads -> SUBSET People]
  BY OutboxAssumption DEF TypeOK, Begin

LEMMA TypeKept == OutboxInv /\ [Next]_vars => TypeOK'
  <1> SUFFICES ASSUME TypeOK, SendsInOrder, [Next]_vars PROVE TypeOK'
    BY DEF OutboxInv
  <1> USE OutboxAssumption
  <1>1. ASSUME NEW r \in Rows, Enqueue(r) PROVE TypeOK'
    BY <1>1 DEF TypeOK, Enqueue, outside, thread
  <1>2. ASSUME NEW c \in Cards, AssignmentsChange(c) PROVE TypeOK'
    BY <1>2 DEF TypeOK, AssignmentsChange, outside, thread
  <1>3. ASSUME NEW p \in People, BindingsChange(p) PROVE TypeOK'
    BY <1>3 DEF TypeOK, BindingsChange, outside, thread
  <1>4. CASE RecoverDispatcher
    BY <1>4, TakeBackTyped DEF TypeOK, RecoverDispatcher, outside
  <1>5. CASE WorkerRecovers
    <2>1. faults' \in 0 .. MaxFaults
      BY <1>5 DEF TypeOK, WorkerRecovers
    <2> QED
      BY <1>5, <2>1, TakeBackTyped DEF TypeOK, WorkerRecovers, outside, thread
  <1>6. CASE Crash
    <2>1. faults' \in 0 .. MaxFaults
      BY <1>6 DEF TypeOK, Crash
    <2>2. /\ claimedBy' \in [Rows -> Threads \cup {Gone, NoOne}]
          /\ \A r \in Rows : status'[r] = "CLAIMED" <=> claimedBy'[r] # NoOne
      BY <1>6 DEF TypeOK, Crash, Mine
    <2> QED
      BY <1>6, <2>1, <2>2 DEF TypeOK, Crash, outside
  <1>7. CASE Restart
    BY <1>7 DEF TypeOK, Restart, outside
  <1>8. CASE StartTick
    BY <1>8 DEF TypeOK, StartTick, outside
  <1>9. ASSUME NEW c \in Cards, NotifyOne(c) PROVE TypeOK'
    <2>1. CASE c \in receipts \/ ~(To[c] \subseteq bound)
      BY <1>9, <2>1 DEF TypeOK, NotifyOne, outside
    <2>2. CASE ~(c \in receipts \/ ~(To[c] \subseteq bound))
      BY <1>9, <2>2, BeginTyped DEF TypeOK, NotifyOne, outside
    <2> QED BY <2>1, <2>2
  <1>10. CASE CardAccepted
    BY <1>10 DEF TypeOK, CardAccepted, outside
  <1>11. ASSUME NEW t \in Threads, StartDispatch(t) PROVE TypeOK'
    BY <1>11 DEF TypeOK, StartDispatch, outside
  <1>12. ASSUME NEW t \in Threads, NEW p \in People, SendOne(t, p) PROVE TypeOK'
    <2> DEFINE e == effect[t]
    <2>1. \/ copies' = copies
          \/ copies' = [copies EXCEPT ![e][p] = @ + 1]
      BY <1>12 DEF SendOne
    <2>2. copies' \in [Effects -> [People -> Nat]]
      <3> HIDE DEF e
      <3>1. CASE e \in Effects
        <4>1. /\ copies[e] \in [People -> Nat]
              /\ [copies[e] EXCEPT ![p] = @ + 1] \in [People -> Nat]
          BY <3>1 DEF TypeOK
        <4> QED BY <2>1, <4>1 DEF TypeOK
      <3>2. CASE e \notin Effects
        BY <2>1, <3>2 DEF TypeOK
      <3> QED BY <3>1, <3>2
    <2>3. left' \in [Threads -> SUBSET People]
      BY <1>12 DEF TypeOK, SendOne
    <2> QED
      BY <1>12, <2>2, <2>3 DEF TypeOK, SendOne
  <1>13. ASSUME NEW t \in Threads, WriteReceipt(t) PROVE TypeOK'
    <2>1. effect[t] \in Effects
      BY <1>13 DEF WriteReceipt, SendsInOrder
    <2> QED BY <1>13, <2>1 DEF TypeOK, WriteReceipt
  <1>14. ASSUME NEW t \in Threads, SendFails(t) PROVE TypeOK'
    <2>1. faults' \in 0 .. MaxFaults
      BY <1>14 DEF TypeOK, SendFails
    <2> QED BY <1>14, <2>1 DEF TypeOK, SendFails, Raise, Mine, outside
  <1>15. ASSUME NEW t \in Threads, NEW r \in Rows, Claim(t, r) PROVE TypeOK'
    <2>1. /\ status' \in [Rows -> {"NONE", "PENDING", "CLAIMED", "DELIVERED"}]
          /\ claimedBy' \in [Rows -> Threads \cup {Gone, NoOne}]
          /\ \A q \in Rows : status'[q] = "CLAIMED" <=> claimedBy'[q] # NoOne
      BY <1>15 DEF TypeOK, Claim
    <2>2. CASE r \in receipts \/ To[r] \subseteq bound
      BY <1>15, <2>1, <2>2, BeginTyped DEF TypeOK, Claim, outside
    <2>3. CASE ~(r \in receipts \/ To[r] \subseteq bound)
      BY <1>15, <2>1, <2>3 DEF TypeOK, Claim, Raise, outside
    <2> QED BY <2>2, <2>3
  <1>16. ASSUME NEW t \in Threads, CompleteDelivery(t) PROVE TypeOK'
    BY <1>16 DEF TypeOK, CompleteDelivery, outside
  <1>17. ASSUME NEW t \in Threads, NothingPending(t) PROVE TypeOK'
    BY <1>17 DEF TypeOK, NothingPending, outside
  <1>18. CASE UNCHANGED vars
    BY <1>18 DEF TypeOK, vars, outside, thread
  <1> QED
    BY <1>1, <1>2, <1>3, <1>4, <1>5, <1>6, <1>7, <1>8, <1>9, <1>10, <1>11,
       <1>12, <1>13, <1>14, <1>15, <1>16, <1>17, <1>18
    DEF Next, LoopStep, Step

-----------------------------------------------------------------------------
(* Messages.                                                               *)

LEMMA InitSends == Init => OutboxInv
  <1> SUFFICES ASSUME Init PROVE OutboxInv
    OBVIOUS
  <1>1. UuidsAreCounted
    BY DEF Init, UuidsAreCounted
  <1>2. SendsInOrder
    BY DEF Init, SendsInOrder
  <1>3. ReceiptsReachedAll
    BY DEF Init, ReceiptsReachedAll
  <1> QED BY <1>1, <1>2, <1>3, InitTyped DEF OutboxInv

\* Steps that send nothing, and in which no thread begins a send.
LEMMA QuietKept ==
  ASSUME OutboxInv, UNCHANGED outside,
         \A t \in Threads : at'[t] \in {"SENDING", "ACCEPTED"} =>
             at'[t] = at[t] /\ effect'[t] = effect[t] /\ left'[t] = left[t],
         \A r \in Rows : status'[r] = "DELIVERED" =>
             status[r] = "DELIVERED" \/ r \in receipts
  PROVE  UuidsAreCounted' /\ SendsInOrder' /\ ReceiptsReachedAll'
  <1>1. UuidsAreCounted'
    BY DEF OutboxInv, UuidsAreCounted, outside
  <1>2. SendsInOrder'
    BY DEF OutboxInv, SendsInOrder, outside
  <1>3. ReceiptsReachedAll'
    BY DEF OutboxInv, ReceiptsReachedAll, outside
  <1> QED BY <1>1, <1>2, <1>3

\* A thread that begins a send has crossed nobody off yet.
LEMMA BeginKept ==
  ASSUME OutboxInv, NEW t \in Threads, NEW e \in Effects, Begin(t, e),
         UNCHANGED outside,
         \A r \in Rows : status'[r] = "DELIVERED" => status[r] = "DELIVERED"
  PROVE  UuidsAreCounted' /\ SendsInOrder' /\ ReceiptsReachedAll'
  <1>1. UuidsAreCounted'
    BY DEF OutboxInv, UuidsAreCounted, outside
  <1>2. ASSUME NEW u \in Threads \ {t}
        PROVE  at'[u] = at[u] /\ effect'[u] = effect[u] /\ left'[u] = left[u]
    BY DEF OutboxInv, TypeOK, Begin
  <1>3. CASE e \in receipts
    <2>1. at'[t] = "ACCEPTED" /\ effect'[t] = e
      BY <1>3 DEF OutboxInv, TypeOK, Begin
    <2> QED BY <1>2, <1>3, <2>1, <1>1 DEF OutboxInv, SendsInOrder, ReceiptsReachedAll, outside
  <1>4. CASE e \notin receipts
    <2>1. at'[t] = "SENDING" /\ effect'[t] = e /\ left'[t] = To[e]
      BY <1>4 DEF OutboxInv, TypeOK, Begin
    <2> QED BY <1>2, <1>4, <2>1, <1>1 DEF OutboxInv, SendsInOrder, ReceiptsReachedAll, outside
  <1> QED BY <1>3, <1>4

LEMMA SendOneKept ==
  ASSUME OutboxInv, NEW t \in Threads, NEW p \in People, SendOne(t, p)
  PROVE  UuidsAreCounted' /\ SendsInOrder' /\ ReceiptsReachedAll'
  <1> DEFINE e == effect[t]
  <1>1. e \in Effects /\ p \in To[e] /\ p \in left[t]
    BY DEF SendOne, OutboxInv, SendsInOrder
  <1>2. /\ accepted' = accepted \cup {<<e, p>>}
        /\ copies' = IF <<e, p>> \in accepted THEN copies
                     ELSE [copies EXCEPT ![e][p] = @ + 1]
    BY DEF SendOne, Uuid
  <1>3. copies \in [Effects -> [People -> Nat]]
    BY DEF OutboxInv, TypeOK
  <1>4. UuidsAreCounted'
    <2> HIDE DEF e
    <2> SUFFICES ASSUME NEW f \in Effects, NEW q \in People
                 PROVE  /\ copies'[f][q] = IF <<f, q>> \in accepted' THEN 1 ELSE 0
                        /\ <<f, q>> \in accepted' => q \in To[f]
      BY DEF UuidsAreCounted
    <2>0. /\ copies[f][q] = IF <<f, q>> \in accepted THEN 1 ELSE 0
          /\ <<f, q>> \in accepted => q \in To[f]
      BY DEF OutboxInv, UuidsAreCounted
    <2>1. CASE <<f, q>> = <<e, p>>
      BY <1>1, <1>2, <1>3, <2>0, <2>1
    <2>2. CASE <<f, q>> # <<e, p>>
      BY <1>1, <1>2, <1>3, <2>0, <2>2
    <2> QED BY <2>1, <2>2
  <1>5. SendsInOrder'
    <2>1. /\ at' = at /\ effect' = effect /\ receipts' = receipts
          /\ left' = [left EXCEPT ![t] = @ \ {p}]
      BY DEF SendOne
    <2>2. left \in [Threads -> SUBSET People]
      BY DEF OutboxInv, TypeOK
    <2> QED BY <1>1, <1>2, <2>1, <2>2 DEF OutboxInv, SendsInOrder
  <1>6. ReceiptsReachedAll'
    BY <1>2 DEF SendOne, OutboxInv, ReceiptsReachedAll
  <1> QED BY <1>4, <1>5, <1>6

LEMMA WriteReceiptKept ==
  ASSUME OutboxInv, NEW t \in Threads, WriteReceipt(t)
  PROVE  UuidsAreCounted' /\ SendsInOrder' /\ ReceiptsReachedAll'
  <1>1. UuidsAreCounted'
    BY DEF WriteReceipt, OutboxInv, UuidsAreCounted
  <1>2. \A p \in To[effect[t]] : <<effect[t], p>> \in accepted
    BY DEF WriteReceipt, ReachedEverybody, OutboxInv, SendsInOrder
  <1>3. ReceiptsReachedAll'
    BY <1>2 DEF WriteReceipt, OutboxInv, ReceiptsReachedAll
  <1>4. SendsInOrder'
    BY DEF WriteReceipt, OutboxInv, TypeOK, SendsInOrder
  <1> QED BY <1>1, <1>3, <1>4

LEMMA SendsKept ==
  OutboxInv /\ [Next]_vars =>
      UuidsAreCounted' /\ SendsInOrder' /\ ReceiptsReachedAll'
  <1> DEFINE Kept == UuidsAreCounted' /\ SendsInOrder' /\ ReceiptsReachedAll'
  <1> SUFFICES ASSUME OutboxInv, [Next]_vars PROVE Kept
    OBVIOUS
  <1>0. TypeOK
    BY DEF OutboxInv
  <1> HIDE DEF Kept
  <1>1. ASSUME NEW r \in Rows, Enqueue(r) PROVE Kept
    BY <1>0, <1>1, QuietKept DEF Kept, TypeOK, Enqueue, thread
  <1>2. ASSUME NEW c \in Cards, AssignmentsChange(c) PROVE Kept
    BY <1>2, QuietKept DEF Kept, AssignmentsChange, thread
  <1>3. ASSUME NEW p \in People, BindingsChange(p) PROVE Kept
    BY <1>3, QuietKept DEF Kept, BindingsChange, thread
  <1>4. CASE RecoverDispatcher
    BY <1>0, <1>4, QuietKept DEF Kept, TypeOK, RecoverDispatcher, TakeBack
  <1>5. CASE WorkerRecovers
    BY <1>0, <1>5, QuietKept DEF Kept, TypeOK, WorkerRecovers, TakeBack, thread
  <1>6. CASE Crash
    BY <1>6, QuietKept DEF Kept, Crash
  <1>7. CASE Restart
    BY <1>0, <1>7, QuietKept DEF Kept, TypeOK, Restart
  <1>8. CASE StartTick
    BY <1>0, <1>8, QuietKept DEF Kept, TypeOK, StartTick
  <1>9. ASSUME NEW c \in Cards, NotifyOne(c) PROVE Kept
    <2>1. CASE c \in receipts \/ ~(To[c] \subseteq bound)
      BY <1>9, <2>1, QuietKept DEF Kept, NotifyOne
    <2>2. CASE ~(c \in receipts \/ ~(To[c] \subseteq bound))
      BY <1>9, <2>2, BeginKept DEF Kept, NotifyOne
    <2> QED BY <2>1, <2>2
  <1>10. CASE CardAccepted
    BY <1>0, <1>10, QuietKept DEF Kept, TypeOK, CardAccepted
  <1>11. ASSUME NEW t \in Threads, StartDispatch(t) PROVE Kept
    BY <1>0, <1>11, QuietKept DEF Kept, TypeOK, StartDispatch
  <1>12. ASSUME NEW t \in Threads, NEW p \in People, SendOne(t, p) PROVE Kept
    BY <1>12, SendOneKept DEF Kept
  <1>13. ASSUME NEW t \in Threads, WriteReceipt(t) PROVE Kept
    BY <1>13, WriteReceiptKept DEF Kept
  <1>14. ASSUME NEW t \in Threads, SendFails(t) PROVE Kept
    BY <1>0, <1>14, QuietKept DEF Kept, TypeOK, SendFails, Raise
  <1>15. ASSUME NEW t \in Threads, NEW r \in Rows, Claim(t, r) PROVE Kept
    <2>1. \A q \in Rows : status'[q] = "DELIVERED" => status[q] = "DELIVERED"
      BY <1>0, <1>15 DEF TypeOK, Claim
    <2>2. CASE r \in receipts \/ To[r] \subseteq bound
      BY <1>15, <2>1, <2>2, BeginKept DEF Kept, Claim
    <2>3. CASE ~(r \in receipts \/ To[r] \subseteq bound)
      BY <1>0, <1>15, <2>1, <2>3, QuietKept DEF Kept, TypeOK, Claim, Raise
    <2> QED BY <2>2, <2>3
  <1>16. ASSUME NEW t \in Threads, CompleteDelivery(t) PROVE Kept
    <2>1. effect[t] \in receipts
      BY <1>16 DEF CompleteDelivery, OutboxInv, SendsInOrder
    <2> QED
      BY <1>0, <1>16, <2>1, QuietKept DEF Kept, TypeOK, CompleteDelivery
  <1>17. ASSUME NEW t \in Threads, NothingPending(t) PROVE Kept
    BY <1>0, <1>17, QuietKept DEF Kept, TypeOK, NothingPending
  <1>18. CASE UNCHANGED vars
    BY <1>18, QuietKept DEF Kept, vars, thread
  <1> QED
    BY <1>1, <1>2, <1>3, <1>4, <1>5, <1>6, <1>7, <1>8, <1>9, <1>10, <1>11,
       <1>12, <1>13, <1>14, <1>15, <1>16, <1>17, <1>18
    DEF Next, LoopStep, Step

LEMMA OutboxAlways == Spec => []OutboxInv
  <1>1. OutboxInv /\ [Next]_vars => OutboxInv'
    BY TypeKept, SendsKept DEF OutboxInv
  <1> QED BY InitSends, <1>1, PTL DEF Spec

\* Every variable keeps its type: a receipt is of an effect there is, and a
\* row is held by a session just as long as it is claimed.
THEOREM TypesHold == Spec => []TypeOK
  <1>1. OutboxInv => TypeOK
    BY DEF OutboxInv
  <1> QED BY OutboxAlways, <1>1, PTL

\* Nobody gets the message of an effect twice, and nobody but its recipients
\* gets it, for any rows, cards, people and number of stops (send).
THEOREM NobodyIsToldTwice == Spec => []OneMessageEach
  <1>1. OutboxInv => OneMessageEach
    <2> SUFFICES ASSUME OutboxInv, NEW e \in Effects, NEW p \in People
                 PROVE  copies[e][p] <= (IF p \in To[e] THEN 1 ELSE 0)
      BY DEF OneMessageEach
    <2>1. /\ copies[e][p] = IF <<e, p>> \in accepted THEN 1 ELSE 0
          /\ <<e, p>> \in accepted => p \in To[e]
      BY DEF OutboxInv, UuidsAreCounted
    <2>2. CASE <<e, p>> \in accepted
      BY <2>1, <2>2
    <2>3. CASE <<e, p>> \notin accepted
      BY <2>1, <2>3
    <2> QED BY <2>2, <2>3
  <1> QED BY OutboxAlways, <1>1, PTL

\* A row that is delivered, and whatever has a receipt, reached everybody it
\* is for (send, _complete_delivery).
THEOREM ReceiptMeansReached == Spec => []DeliveredReachedAll
  <1>1. OutboxInv => DeliveredReachedAll
    <2> SUFFICES ASSUME OutboxInv PROVE DeliveredReachedAll
      OBVIOUS
    <2>1. ASSUME NEW e \in receipts, NEW p \in To[e] PROVE copies[e][p] >= 1
      <3>1. e \in Effects /\ p \in People
        BY OutboxAssumption DEF OutboxInv, TypeOK
      <3>2. <<e, p>> \in accepted
        BY DEF OutboxInv, ReceiptsReachedAll
      <3>3. copies[e][p] = 1
        BY <3>1, <3>2 DEF OutboxInv, UuidsAreCounted
      <3> QED BY <3>3
    <2> QED BY <2>1 DEF OutboxInv, ReceiptsReachedAll, DeliveredReachedAll
  <1> QED BY OutboxAlways, <1>1, PTL

-----------------------------------------------------------------------------
(* The rows and the cards implement the notice.                            *)

Closed == {r \in Rows : status[r] = "DELIVERED"} \cup (receipts \cap Cards)

NoticeStep == [Promise!NoticeNext]_(Promise!notice)

\* Steps that send nothing and close nothing.
LEMMA QuietNotice ==
  ASSUME copies' = copies, receipts' = receipts,
         \A r \in Rows : status'[r] = "DELIVERED" <=> status[r] = "DELIVERED"
  PROVE  NoticeStep
  BY DEF NoticeStep, Promise!notice

\* A message that the provider accepts is the recipient's first.
LEMMA SendOneTells ==
  ASSUME OutboxInv, NEW t \in Threads, NEW p \in People, SendOne(t, p)
  PROVE  NoticeStep
  <1> DEFINE e == effect[t]
  <1>1. e \in Effects /\ p \in To[e]
    BY DEF SendOne, OutboxInv, SendsInOrder
  <1>2. UNCHANGED <<status, receipts>>
    BY DEF SendOne
  <1>3. copies' = IF <<e, p>> \in accepted THEN copies
                  ELSE [copies EXCEPT ![e][p] = @ + 1]
    BY DEF SendOne, Uuid
  <1>4. CASE <<e, p>> \in accepted
    BY <1>2, <1>3, <1>4, QuietNotice
  <1>5. CASE <<e, p>> \notin accepted
    <2> HIDE DEF e
    <2>1. copies[e][p] = 0
      BY <1>1, <1>5 DEF OutboxInv, UuidsAreCounted
    <2>2. copies' = [copies EXCEPT ![e][p] = 1]
      BY <1>1, <1>3, <1>5, <2>1
    <2>3. Promise!Tell(e, p)
      BY <1>1, <1>2, <2>1, <2>2 DEF Promise!Tell
    <2> QED BY <1>1, <2>3 DEF NoticeStep, Promise!NoticeNext
  <1> QED BY <1>4, <1>5

\* What was told to everybody it is for can be closed.
LEMMA ToldAllAllowsClose ==
  ASSUME OutboxInv, NEW e \in Effects, e \notin Closed,
         \A p \in To[e] : <<e, p>> \in accepted,
         copies' = copies, Closed' = Closed \cup {e}
  PROVE  NoticeStep
  <1>1. \A p \in To[e] : copies[e][p] = 1
    BY OutboxAssumption DEF OutboxInv, UuidsAreCounted
  <1>2. Promise!Close(e)
    BY <1>1 DEF Promise!Close, Closed
  <1> QED BY <1>2 DEF NoticeStep, Promise!NoticeNext

\* A receipt closes a card; a row waits for its delivery to be recorded.
LEMMA ReceiptCloses ==
  ASSUME OutboxInv, NEW t \in Threads, WriteReceipt(t)
  PROVE  NoticeStep
  <1> DEFINE e == effect[t]
  <1>1. /\ receipts' = receipts \cup {e} /\ UNCHANGED <<status, copies>>
        /\ e \in Effects
    BY DEF WriteReceipt, OutboxInv, SendsInOrder
  <1>2. \A p \in To[e] : <<e, p>> \in accepted
    BY DEF WriteReceipt, ReachedEverybody, OutboxInv, SendsInOrder
  <1> HIDE DEF e
  <1>3. CASE e \notin Cards \/ e \in receipts
    <2>1. Closed' = Closed
      BY <1>1, <1>3 DEF Closed
    <2> QED BY <1>1, <2>1 DEF NoticeStep, Promise!notice, Closed
  <1>4. CASE e \in Cards /\ e \notin receipts
    <2>1. Closed' = Closed \cup {e} /\ e \notin Closed
      BY <1>1, <1>4, OutboxAssumption DEF Closed
    <2> QED BY <1>1, <1>2, <2>1, ToldAllAllowsClose
  <1> QED BY <1>3, <1>4

\* A delivery that was recorded before is recorded again without a change.
LEMMA DeliveryCloses ==
  ASSUME OutboxInv, NEW t \in Threads, CompleteDelivery(t)
  PROVE  NoticeStep
  <1> DEFINE e == effect[t]
  <1>1. e \in receipts /\ e \in Rows /\ UNCHANGED <<receipts, copies>>
    BY DEF CompleteDelivery, OutboxInv, SendsInOrder, outside
  <1>2. /\ status' = [status EXCEPT ![e] = "DELIVERED"]
        /\ status \in [Rows -> {"NONE", "PENDING", "CLAIMED", "DELIVERED"}]
    BY DEF CompleteDelivery, OutboxInv, TypeOK
  <1> HIDE DEF e
  <1>3. Closed' = Closed \cup {e}
    BY <1>1, <1>2 DEF Closed
  <1>4. CASE e \in Closed
    <2>1. Closed' = Closed
      BY <1>3, <1>4
    <2> QED BY <1>1, <2>1 DEF NoticeStep, Promise!notice, Closed
  <1>5. CASE e \notin Closed
    <2>1. e \in Effects /\ \A p \in To[e] : <<e, p>> \in accepted
      BY <1>1 DEF OutboxInv, ReceiptsReachedAll
    <2> QED BY <1>1, <1>3, <1>5, <2>1, ToldAllAllowsClose
  <1> QED BY <1>4, <1>5

LEMMA StepsOfNotice == OutboxInv /\ [Next]_vars => NoticeStep
  <1> SUFFICES ASSUME OutboxInv, [Next]_vars PROVE NoticeStep
    OBVIOUS
  <1>0. TypeOK
    BY DEF OutboxInv
  <1>1. ASSUME NEW r \in Rows, Enqueue(r) PROVE NoticeStep
    BY <1>0, <1>1, QuietNotice DEF TypeOK, Enqueue, outside
  <1>2. ASSUME NEW c \in Cards, AssignmentsChange(c) PROVE NoticeStep
    BY <1>2, QuietNotice DEF AssignmentsChange, outside
  <1>3. ASSUME NEW p \in People, BindingsChange(p) PROVE NoticeStep
    BY <1>3, QuietNotice DEF BindingsChange, outside
  <1>4. CASE RecoverDispatcher
    BY <1>0, <1>4, QuietNotice DEF TypeOK, RecoverDispatcher, TakeBack, HeldByOthers, outside
  <1>5. CASE WorkerRecovers
    BY <1>0, <1>5, QuietNotice DEF TypeOK, WorkerRecovers, TakeBack, HeldByOthers, outside
  <1>6. CASE Crash
    BY <1>6, QuietNotice DEF Crash, outside
  <1>7. CASE Restart
    BY <1>7, QuietNotice DEF Restart, outside
  <1>8. CASE StartTick
    BY <1>8, QuietNotice DEF StartTick, outside
  <1>9. ASSUME NEW c \in Cards, NotifyOne(c) PROVE NoticeStep
    BY <1>9, QuietNotice DEF NotifyOne, outside
  <1>10. CASE CardAccepted
    BY <1>10, QuietNotice DEF CardAccepted, outside
  <1>11. ASSUME NEW t \in Threads, StartDispatch(t) PROVE NoticeStep
    BY <1>11, QuietNotice DEF StartDispatch, outside
  <1>12. ASSUME NEW t \in Threads, NEW p \in People, SendOne(t, p) PROVE NoticeStep
    BY <1>12, SendOneTells
  <1>13. ASSUME NEW t \in Threads, WriteReceipt(t) PROVE NoticeStep
    BY <1>13, ReceiptCloses
  <1>14. ASSUME NEW t \in Threads, SendFails(t) PROVE NoticeStep
    BY <1>14, QuietNotice DEF SendFails, outside
  <1>15. ASSUME NEW t \in Threads, NEW r \in Rows, Claim(t, r) PROVE NoticeStep
    BY <1>0, <1>15, QuietNotice DEF TypeOK, Claim, outside
  <1>16. ASSUME NEW t \in Threads, CompleteDelivery(t) PROVE NoticeStep
    BY <1>16, DeliveryCloses
  <1>17. ASSUME NEW t \in Threads, NothingPending(t) PROVE NoticeStep
    BY <1>17, QuietNotice DEF NothingPending, outside
  <1>18. CASE UNCHANGED vars
    BY <1>18, QuietNotice DEF vars, outside
  <1> QED
    BY <1>1, <1>2, <1>3, <1>4, <1>5, <1>6, <1>7, <1>8, <1>9, <1>10, <1>11,
       <1>12, <1>13, <1>14, <1>15, <1>16, <1>17, <1>18
    DEF Next, LoopStep, Step

\* The outbox and the notifier implement the notice: each recipient is told
\* once, nobody else is, and what is delivered was told to all and stays so,
\* whoever takes a row from whom and wherever a thread stops.
THEOREM ChannelKeepsItsPromise == Spec => ImplementsNotice
  <1>1. Init => Promise!NoticeInit
    <2> SUFFICES ASSUME Init PROVE Promise!NoticeInit
      OBVIOUS
    <2>1. {r \in Rows : status[r] = "DELIVERED"} \cup (receipts \cap Cards) = {}
      BY DEF Init
    <2> QED BY <2>1 DEF Init, Promise!NoticeInit
  <1>2. OutboxInv /\ [Next]_vars => [Promise!NoticeNext]_(Promise!notice)
    BY StepsOfNotice DEF NoticeStep
  <1> QED
    BY OutboxAlways, <1>1, <1>2, PTL
    DEF Spec, ImplementsNotice, Promise!NoticeSpec

-----------------------------------------------------------------------------
(* What comes in.  Jobs in a queue.                                        *)

In(q, job) == \E k \in 1 .. Len(q) : q[k] = job
Twice(q, job) == \E k, l \in 1 .. Len(q) : k # l /\ q[k] = job /\ q[l] = job

LEMMA EmptyQueue == \A job : ~In(<<>>, job) /\ ~Twice(<<>>, job)
  BY DEF In, Twice

\* The worker takes the first job.
LEMMA TailJobs ==
  ASSUME NEW S, NEW q \in Seq(S), q # <<>>
  PROVE  /\ Tail(q) \in Seq(S) /\ Head(q) \in S /\ In(q, Head(q))
         /\ \A job : /\ In(Tail(q), job) => In(q, job)
                     /\ Twice(Tail(q), job) => Twice(q, job)
                     /\ Head(q) = job /\ ~Twice(q, job) => ~In(Tail(q), job)
  <1>1. /\ Tail(q) \in Seq(S) /\ Head(q) \in S /\ Len(Tail(q)) = Len(q) - 1
        /\ Len(q) \in Nat \ {0} /\ Head(q) = q[1]
    BY EmptySeq, HeadTailProperties
  <1>2. \A k \in 1 .. Len(q) - 1 : Tail(q)[k] = q[k + 1]
    BY <1>1, HeadTailProperties
  <1>3. In(q, Head(q))
    BY <1>1 DEF In
  <1>4. ASSUME NEW job, In(Tail(q), job)
        PROVE  \E k \in 2 .. Len(q) : q[k] = job
    <2>1. PICK k \in 1 .. Len(q) - 1 : Tail(q)[k] = job
      BY <1>1, <1>4 DEF In
    <2>2. k + 1 \in 2 .. Len(q) /\ q[k + 1] = job
      BY <1>1, <1>2, <2>1
    <2> QED BY <2>2
  <1>5. \A job : In(Tail(q), job) => In(q, job)
    BY <1>1, <1>4 DEF In
  <1>6. ASSUME NEW job, Twice(Tail(q), job) PROVE Twice(q, job)
    <2>1. PICK k, l \in 1 .. Len(q) - 1 :
              k # l /\ Tail(q)[k] = job /\ Tail(q)[l] = job
      BY <1>1, <1>6 DEF Twice
    <2>2. /\ k + 1 \in 1 .. Len(q) /\ l + 1 \in 1 .. Len(q) /\ k + 1 # l + 1
          /\ q[k + 1] = job /\ q[l + 1] = job
      BY <1>1, <1>2, <2>1
    <2> QED BY <2>2 DEF Twice
  <1>7. ASSUME NEW job, Head(q) = job, ~Twice(q, job), In(Tail(q), job)
        PROVE  FALSE
    <2>1. PICK k \in 2 .. Len(q) : q[k] = job
      BY <1>4, <1>7
    <2>2. 1 \in 1 .. Len(q) /\ k \in 1 .. Len(q) /\ k # 1 /\ q[1] = job
      BY <1>1, <1>7, <2>1
    <2> QED BY <1>7, <2>1, <2>2 DEF Twice
  <1> QED BY <1>1, <1>3, <1>5, <1>6, <1>7

\* A job is put at the end.
LEMMA AppendJobs ==
  ASSUME NEW S, NEW q \in Seq(S), NEW new \in S
  PROVE  /\ Append(q, new) \in Seq(S)
         /\ \A job : /\ In(Append(q, new), job) <=> In(q, job) \/ new = job
                     /\ Twice(Append(q, new), job) =>
                            Twice(q, job) \/ (new = job /\ In(q, job))
  <1>1. /\ Append(q, new) \in Seq(S) /\ Len(q) \in Nat
        /\ Len(Append(q, new)) = Len(q) + 1
        /\ \A k \in 1 .. Len(q) : Append(q, new)[k] = q[k]
        /\ Append(q, new)[Len(q) + 1] = new
    BY AppendProperties
  <1>2. PICK longer : longer = Append(q, new)
    OBVIOUS
  <1>3. ASSUME NEW job, NEW k \in 1 .. Len(longer), longer[k] = job
        PROVE  \/ k \in 1 .. Len(q) /\ q[k] = job
               \/ k = Len(q) + 1 /\ new = job
    BY <1>1, <1>2, <1>3
  <1>4. ASSUME NEW job PROVE In(longer, job) <=> In(q, job) \/ new = job
    <2>1. ASSUME In(longer, job) PROVE In(q, job) \/ new = job
      BY <1>3, <2>1 DEF In
    <2>2. ASSUME In(q, job) PROVE In(longer, job)
      BY <1>1, <1>2, <2>2 DEF In
    <2>3. ASSUME new = job PROVE In(longer, job)
      BY <1>1, <1>2, <2>3 DEF In
    <2> QED BY <2>1, <2>2, <2>3
  <1>5. ASSUME NEW job, Twice(longer, job)
        PROVE  Twice(q, job) \/ (new = job /\ In(q, job))
    <2>1. PICK k, l \in 1 .. Len(longer) : k # l /\ longer[k] = job /\ longer[l] = job
      BY <1>5 DEF Twice
    <2>2. /\ (k \in 1 .. Len(q) /\ q[k] = job) \/ (k = Len(q) + 1 /\ new = job)
          /\ (l \in 1 .. Len(q) /\ q[l] = job) \/ (l = Len(q) + 1 /\ new = job)
      BY <1>3, <2>1
    <2> QED BY <2>1, <2>2 DEF Twice, In
  <1> QED BY <1>1, <1>2, <1>4, <1>5

-----------------------------------------------------------------------------
(* The inductive invariant of what comes in.                               *)

Extraction == [kind |-> "EXTRACT"]
Job(e) == [kind |-> "PROCESS_ACTION", event |-> e]
Begun == intake # NoIntake

\* What is being imported has a roster, which the meeting has taken over by
\* the time it is registered, and the source by the time it is announced.
ImportsInOrder ==
    /\ In(queue, Extraction) => Begun
    /\ importing.step # "NO" => Begun /\ importing.roster # NoRoster
    /\ importing.step \in {"REGISTER", "READY"} => importing.roster = meeting
    /\ importing.step = "READY" => source = meeting

\* A click that waits has changed nothing and waits once.
WaitsOnce(e) ==
    /\ ~Twice(queue, Job(e))
    /\ In(queue, Job(e)) => clicks[e].status = "PENDING" /\ did[e] = 0

\* The click whose outcome is still to be written waits no more, and has
\* changed nothing if it was refused.
AnswerToWrite(e, refusal) ==
    /\ clicks[e].status = "PENDING" /\ ~In(queue, Job(e))
    /\ refusal => did[e] = 0

AnswersInOrder ==
    doing.step = "ANSWERED" => AnswerToWrite(doing.event, doing.error)

AppInv ==
    /\ AppTypeOK
    /\ ImportsInOrder /\ MeetingsComeBack
    /\ AnswersInOrder /\ \A e \in Events : WaitsOnce(e)
    /\ AClickDecidesOnce

-----------------------------------------------------------------------------
(* Types of what comes in.                                                 *)

IntakeRows == [status : {"AWAITING_ROSTER", "IMPORTING", "READY", "FAILED"},
               by : Accounts, convener : Names, chosen : SUBSET Names,
               extracted : BOOLEAN]
Doings == {Idle} \cup [step : {"SETTLING", "IMPORTING"}]
          \cup [step : {"ANSWERED"}, event : Events, error : BOOLEAN]

LEMMA JobsTyped ==
  /\ Extraction \in Jobs /\ [kind |-> "SETTLE_INTAKE"] \in Jobs
  /\ \A e \in Events : Job(e) \in Jobs
  /\ \A account \in Accounts, text \in Texts :
        [kind |-> "ACK_MESSAGE", by |-> account, text |-> text] \in Jobs
  BY DEF Jobs, Extraction, Job

LEMMA JobFacts ==
  ASSUME NEW job \in Jobs
  PROVE  /\ job.kind = "PROCESS_ACTION" => job.event \in Events /\ job = Job(job.event)
         /\ job.kind = "EXTRACT" => job = Extraction
         /\ job.kind = "ACK_MESSAGE" => job.by \in Accounts /\ job.text \in Texts
  BY DEF Jobs, Job, Extraction

\* Jobs of different clicks, and of different kinds, differ.
LEMMA JobsDiffer ==
  /\ \A e : Job(e) # Extraction /\ Job(e) # [kind |-> "SETTLE_INTAKE"]
  /\ \A e, account, text :
        Job(e) # [kind |-> "ACK_MESSAGE", by |-> account, text |-> text]
  /\ \A e, f : Job(e) = Job(f) => e = f
  /\ Extraction # [kind |-> "SETTLE_INTAKE"]
  /\ \A account, text :
        Extraction # [kind |-> "ACK_MESSAGE", by |-> account, text |-> text]
  <1>1. \A e : Job(e).kind = "PROCESS_ACTION" /\ Job(e).event = e
    BY DEF Job
  <1> QED BY <1>1 DEF Extraction

LEMMA DoingFacts ==
  ASSUME doing \in Doings
  PROVE  doing.step = "ANSWERED" => doing.event \in Events /\ doing.error \in BOOLEAN
  BY DEF Doings, Idle

LEMMA AnsweredTyped ==
  ASSUME NEW e \in Events, NEW error \in BOOLEAN
  PROVE  Answered(e, error) \in Doings
  BY DEF Answered, Doings

LEMMA BegunTyped ==
  /\ AppTypeOK /\ Begun => intake \in IntakeRows
  /\ \A row \in IntakeRows : row # NoIntake
  BY DEF AppTypeOK, IntakeTypeOK, IntakeRows, NoIntake, Begun

\* The variables of the intake keep their types when its row does.
LEMMA IntakeTyped ==
  ASSUME AppTypeOK, intake' = NoIntake \/ intake' \in IntakeRows,
         cached' \in BOOLEAN, meeting' \in SUBSET Names, source' \in SUBSET Names,
         coordinator' \in Names \cup {Nobody},
         importing' \in [step : {"NO", "LOAD", "REGISTER", "READY"},
                         roster : SUBSET Names]
  PROVE  IntakeTypeOK'
  BY DEF IntakeTypeOK, IntakeRows

LEMMA IntakeStays == AppTypeOK /\ UNCHANGED intakeVars => IntakeTypeOK'
  BY DEF AppTypeOK, IntakeTypeOK, intakeVars

LEMMA AppInitTyped == AppInit => AppTypeOK
  <1> SUFFICES ASSUME AppInit PROVE AppTypeOK
    OBVIOUS
  <1>1. /\ Lead \in Names /\ LeadAccount \in Accounts \cup {NoAccount}
        /\ MaxRounds \in Nat \ {0} /\ MaxMessages \in Nat /\ MaxMishaps \in Nat
    BY AppAssumption
  <1>2. IntakeTypeOK
    BY DEF AppInit, IntakeInit, IntakeTypeOK, NoRoster, NotImporting
  <1>3. binding \in [Names -> Accounts \cup {NoAccount}]
    BY <1>1 DEF AppInit
  <1>4. clicks \in [Events -> [status : {"NONE", "PENDING", "PROCESSED", "FAILED"},
                               actor : Names \cup {NoName}]]
    BY DEF AppInit, NoClick
  <1>5. queue \in Seq(Jobs)
    BY EmptySeq DEF AppInit
  <1>6. round \in 1 .. MaxRounds /\ received \in 0 .. MaxMessages
        /\ mishaps \in 0 .. MaxMishaps
    BY <1>1 DEF AppInit
  <1> QED BY <1>2, <1>3, <1>4, <1>5, <1>6 DEF AppInit, AppTypeOK

\* The worker's first job is one, and what it leaves are jobs.
LEMMA DueFacts ==
  ASSUME AppTypeOK, NEW kind, Due(kind)
  PROVE  /\ queue \in Seq(Jobs) /\ queue # <<>> /\ doing = Idle
         /\ Head(queue) \in Jobs /\ Head(queue).kind = kind
         /\ Tail(queue) \in Seq(Jobs)
  BY TailJobs DEF Due, AppTypeOK

LEMMA HandleMessageTyped ==
  ASSUME AppTypeOK, HandleMessage
  PROVE  AppTypeOK'
  <1>1. PICK account, text : account = Head(queue).by /\ text = Head(queue).text
    OBVIOUS
  <1>2. account \in Accounts /\ text \in Texts /\ Tail(queue) \in Seq(Jobs)
    BY <1>1, DueFacts, JobFacts DEF HandleMessage
  <1>3. IF text.asks = "register" THEN Register(account, text.name)
                                  ELSE BringIn(account)
    BY <1>1 DEF HandleMessage
  <1>4. UNCHANGED <<task, clicks, doing, did, unsettled, received, mishaps>>
    BY DEF HandleMessage
  <1>5. CASE Register(account, text.name)
    <2>1. binding' \in [Names -> Accounts \cup {NoAccount}]
      BY <1>2, <1>5 DEF Register, AppTypeOK, people
    <2>2. CASE text.asks = "register"
      <3>1. text.name \in Names
        BY <1>2, <2>2, AppAssumption DEF Texts
      <3>2. revocable' \subseteq Names
        BY <1>5, <3>1 DEF Register, AppTypeOK, people
      <3>3. queue' \in Seq(Jobs) /\ IntakeTypeOK'
        BY <1>2, <1>5, IntakeStays DEF Register
      <3> QED BY <1>4, <2>1, <3>2, <3>3 DEF AppTypeOK, task
    <2>3. CASE BringIn(account)
      <3>1. UNCHANGED people
        BY <2>3 DEF BringIn
      <3>2. queue' \in Seq(Jobs) /\ IntakeTypeOK'
        BY <1>2, <1>5, IntakeStays DEF Register
      <3> QED BY <1>4, <3>1, <3>2 DEF AppTypeOK, task, people
    <2> QED BY <1>3, <2>2, <2>3
  <1>6. CASE BringIn(account)
    <2>1. UNCHANGED people
      BY <1>6 DEF BringIn
    <2>2. CASE UNCHANGED intakeVars /\ queue' = Tail(queue)
      BY <1>2, <1>4, <2>1, <2>2, IntakeStays DEF AppTypeOK, task, people
    <2>3. ASSUME NEW name \in NamesOf(account), StartIntake(account, name),
                 queue' = Append(Tail(queue), Extraction)
          PROVE  AppTypeOK'
      <3>1. name \in Names
        BY DEF NamesOf
      <3>2. intake' \in IntakeRows
        BY <1>2, <2>3, <3>1 DEF StartIntake, IntakeRows, NoRoster
      <3>3. IntakeTypeOK'
        BY <2>3, <3>2 DEF StartIntake, AppTypeOK, IntakeTypeOK, IntakeRows
      <3>4. queue' \in Seq(Jobs)
        BY <1>2, <2>3, AppendJobs, JobsTyped
      <3> QED BY <1>4, <2>1, <3>3, <3>4 DEF AppTypeOK, task, people
    <2> QED BY <1>6, <2>2, <2>3 DEF BringIn, Extraction
  <1> QED BY <1>3, <1>5, <1>6

\* What a click becomes, and what it changes.
LEMMA ProcessTyped ==
  ASSUME AppTypeOK, ProcessAction
  PROVE  AppTypeOK'
  <1>1. PICK e : e = Head(queue).event
    OBVIOUS
  <1>2. e \in Events /\ Tail(queue) \in Seq(Jobs) /\ clicks[e].actor \in Names \cup {NoName}
    BY <1>1, DueFacts, JobFacts DEF ProcessAction, AppTypeOK
  <1>3. /\ Answered(e, TRUE) \in Doings /\ Answered(e, FALSE) \in Doings
        /\ \A n \in Nat : [did EXCEPT ![e] = n] \in [Events -> Nat]
        /\ did[e] \in Nat /\ did[e] + 1 \in Nat /\ doing \in Doings
        /\ did \in [Events -> Nat]
    <2>1. Answered(e, TRUE) \in Doings /\ Answered(e, FALSE) \in Doings
      BY <1>2, AnsweredTyped
    <2>2. did \in [Events -> Nat] /\ did[e] \in Nat /\ did[e] + 1 \in Nat
      BY <1>2 DEF AppTypeOK
    <2>3. \A n \in Nat : [did EXCEPT ![e] = n] \in [Events -> Nat]
      BY <2>2
    <2>4. doing \in Doings
      BY DEF AppTypeOK, Doings
    <2> QED BY <2>1, <2>2, <2>3, <2>4
  <1>4. UNCHANGED <<clicks, unsettled, received, mishaps>>
    BY DEF ProcessAction
  <1>5. CASE UNCHANGED <<intakeVars, people, task, doing, did>> /\ queue' = Tail(queue)
    BY <1>2, <1>4, <1>5, IntakeStays DEF AppTypeOK, people, task
  <1>6. CASE Accept(e)
    <2>1. /\ queue' \in Seq(Jobs) /\ UNCHANGED <<intakeVars, people>>
          /\ doing' \in Doings /\ did' \in [Events -> Nat]
          /\ round' = round /\ waiting' \subseteq Names /\ handled' \subseteq Events
      BY <1>2, <1>3, <1>6 DEF Accept, AppTypeOK, task
    <2> QED BY <1>4, <2>1, IntakeStays DEF AppTypeOK, people, Doings
  <1>7. CASE Revoke(e)
    <2>1. PICK name : name = e.button.actor
      OBVIOUS
    <2>2. /\ queue' \in Seq(Jobs) /\ UNCHANGED <<intakeVars, task, revocable>>
          /\ binding' \in [Names -> Accounts \cup {NoAccount}]
      BY <1>2, <1>7 DEF Revoke, AppTypeOK
    <2>3. doing' \in Doings
      BY <1>3, <1>7 DEF Revoke
    <2>4. did' \in [Events -> Nat]
      <3>1. PICK n \in {did[e], did[e] + 1} :
                n = did[e] + (IF binding[name] = NoAccount THEN 0 ELSE 1)
        BY <1>3
      <3>2. did' \in {did, [did EXCEPT ![e] = n]}
        BY <1>3, <1>7, <2>1, <3>1 DEF Revoke
      <3> QED BY <1>3, <3>1, <3>2
    <2> QED BY <1>4, <2>2, <2>3, <2>4, IntakeStays DEF AppTypeOK, task, Doings
  <1>8. CASE Confirm(e)
    <2>1. doing' \in Doings /\ did' \in [Events -> Nat] /\ UNCHANGED <<people, task>>
      BY <1>3, <1>8 DEF Confirm, AppTypeOK
    <2>2. queue' \in Seq(Jobs)
      <3>1. [kind |-> "SETTLE_INTAKE"] \in Jobs
        BY JobsTyped
      <3>2. Append(Tail(queue), [kind |-> "SETTLE_INTAKE"]) \in Seq(Jobs)
        BY <1>2, <3>1, AppendJobs
      <3> QED BY <1>2, <1>8, <3>2 DEF Confirm
    <2>3. IntakeTypeOK'
      <3>1. ASSUME intake \in IntakeRows, NEW choice
            PROVE  [intake EXCEPT !.chosen = Chosen(choice)] \in IntakeRows
        <4>1. Chosen(choice) \subseteq Names
          BY <3>1, IntakeAssumption DEF Chosen, Spoke, Silent, IntakeRows
        <4> QED BY <3>1, <4>1 DEF IntakeRows
      <3>2. CASE MayConfirm(e.by)
        <4>1. intake \in IntakeRows
          BY <3>2, BegunTyped DEF MayConfirm, Begun
        <4>2. /\ intake' \in IntakeRows
              /\ UNCHANGED <<cached, meeting, coordinator, source, importing>>
          BY <1>8, <3>1, <3>2, <4>1 DEF Confirm, ConfirmRoster
        <4> QED BY <4>2 DEF AppTypeOK, IntakeTypeOK, IntakeRows
      <3>3. CASE ~MayConfirm(e.by)
        BY <1>8, <3>3, IntakeStays DEF Confirm
      <3> QED BY <3>2, <3>3
    <2> QED BY <1>4, <2>1, <2>2, <2>3 DEF AppTypeOK, task, people, Doings
  <1>9. CASE Pick(e)
    <2>1. /\ queue' \in Seq(Jobs) /\ UNCHANGED <<intakeVars, people, task, did>>
          /\ doing' \in Doings
      BY <1>2, <1>9, AnsweredTyped DEF Pick
    <2> QED BY <1>4, <2>1, IntakeStays DEF AppTypeOK, people, task, Doings
  <1> QED BY <1>1, <1>2, <1>4, <1>5, <1>6, <1>7, <1>8, <1>9
      DEF ProcessAction, Events, Buttons, Scores

\* An extraction is of an intake, and so is an import.
LEMMA RunExtractionTyped ==
  ASSUME AppInv, RunExtraction
  PROVE  AppTypeOK'
  <1>1. AppTypeOK /\ Due("EXTRACT")
    BY DEF AppInv, RunExtraction
  <1>2. /\ queue \in Seq(Jobs) /\ queue # <<>> /\ Tail(queue) \in Seq(Jobs)
        /\ Head(queue) = Extraction
    BY <1>1, DueFacts, JobFacts
  <1>3. In(queue, Extraction)
    BY <1>2, TailJobs
  <1>4. intake \in IntakeRows
    BY <1>1, <1>3, BegunTyped DEF AppInv, ImportsInOrder
  <1>5. PICK found \in BOOLEAN :
            /\ Extract(found)
            /\ doing' = IF found THEN [step |-> "SETTLING"] ELSE Idle
    BY DEF RunExtraction
  <1>6. doing' \in Doings
    BY <1>5 DEF Doings
  <1>7. /\ intake' \in IntakeRows /\ cached' \in BOOLEAN
        /\ UNCHANGED <<meeting, coordinator, source, importing>>
    <2>1. [intake EXCEPT !.extracted = TRUE] \in IntakeRows
      BY <1>4 DEF IntakeRows
    <2>2. [intake EXCEPT !.status = "FAILED"] \in IntakeRows
      BY <1>4 DEF IntakeRows
    <2> QED BY <1>5, <2>1, <2>2 DEF Extract
  <1>8. IntakeTypeOK'
    BY <1>1, <1>7 DEF AppTypeOK, IntakeTypeOK, IntakeRows
  <1>9. /\ queue' = Tail(queue)
        /\ UNCHANGED <<people, task, clicks, did, unsettled, received, mishaps>>
    BY DEF RunExtraction
  <1> QED BY <1>1, <1>2, <1>6, <1>8, <1>9 DEF AppTypeOK, people, task, Doings

LEMMA ImportTyped ==
  ASSUME AppInv, ImportStep
  PROVE  IntakeTypeOK' /\ intake' \in IntakeRows
  <1>1. AppTypeOK /\ importing.step # "NO"
    BY DEF AppInv, ImportStep, CreateMeeting, AttachMeeting, RefuseRoster,
       RegisterSource, MarkReady
  <1>2. intake \in IntakeRows
    BY <1>1, BegunTyped DEF AppInv, ImportsInOrder
  <1>3. /\ importing \in [step : {"NO", "LOAD", "REGISTER", "READY"},
                          roster : SUBSET Names]
        /\ meeting \in SUBSET Names /\ source \in SUBSET Names /\ cached \in BOOLEAN
        /\ coordinator \in Names \cup {Nobody}
    BY <1>1 DEF AppTypeOK, IntakeTypeOK
  <1>4. /\ [intake EXCEPT !.status = "FAILED"] \in IntakeRows
        /\ [intake EXCEPT !.status = "READY"] \in IntakeRows
    BY <1>2 DEF IntakeRows
  <1>5. intake' \in IntakeRows /\ cached' \in BOOLEAN
    BY <1>2, <1>3, <1>4
    DEF ImportStep, CreateMeeting, AttachMeeting, RefuseRoster, RegisterSource,
        MarkReady, Loaded
  <1>6. meeting' \in SUBSET Names /\ source' \in SUBSET Names
        /\ coordinator' \in Names \cup {Nobody}
    <2>1. intake.convener \in Names
      BY <1>2 DEF IntakeRows
    <2> QED
      BY <1>3, <2>1
    DEF ImportStep, CreateMeeting, AttachMeeting, RefuseRoster, RegisterSource,
        MarkReady, Loaded
  <1>7. importing' \in [step : {"NO", "LOAD", "REGISTER", "READY"},
                        roster : SUBSET Names]
    BY <1>3
    DEF ImportStep, CreateMeeting, AttachMeeting, RefuseRoster, RegisterSource,
        MarkReady, Loaded, NotImporting, NoRoster
  <1> QED BY <1>1, <1>5, <1>6, <1>7, IntakeTyped

LEMMA AppTypeKept == AppInv /\ [AppNext]_appVars => AppTypeOK'
  <1> SUFFICES ASSUME AppInv, [AppNext]_appVars PROVE AppTypeOK'
    OBVIOUS
  <1>0. AppTypeOK /\ queue \in Seq(Jobs) /\ MaxMessages \in Nat /\ MaxRounds \in Nat
        /\ MaxMishaps \in Nat
    BY AppAssumption DEF AppInv, AppTypeOK
  <1>1. ASSUME NEW account \in Accounts, NEW text \in Texts,
               ReceiveMessage(account, text)
        PROVE  AppTypeOK'
    <2>1. PICK job : job = [kind |-> "ACK_MESSAGE", by |-> account, text |-> text]
      OBVIOUS
    <2>2. job \in Jobs
      BY <2>1, JobsTyped
    <2>3. queue' \in Seq(Jobs)
      BY <1>0, <1>1, <2>1, <2>2, AppendJobs DEF ReceiveMessage
    <2>4. received' \in 0 .. MaxMessages
      BY <1>0, <1>1 DEF ReceiveMessage, AppTypeOK
    <2>5. UNCHANGED <<intakeVars, people, task, clicks, doing, did, unsettled, mishaps>>
      BY <1>1 DEF ReceiveMessage
    <2> QED BY <1>0, <2>3, <2>4, <2>5, IntakeStays DEF AppTypeOK, people, task
  <1>2. ASSUME NEW e \in Events, Click(e) PROVE AppTypeOK'
    <2>1. PICK actor \in Names \cup {NoName} :
              clicks' = [clicks EXCEPT ![e] = [status |-> "PENDING", actor |-> actor]]
      BY <1>2 DEF Click, NamesOf
    <2>2. clicks' \in [Events -> [status : {"NONE", "PENDING", "PROCESSED", "FAILED"},
                                  actor : Names \cup {NoName}]]
      BY <1>0, <2>1 DEF AppTypeOK
    <2>3. queue' \in Seq(Jobs)
      BY <1>0, <1>2, AppendJobs, JobsTyped DEF Click, Job
    <2>4. UNCHANGED <<intakeVars, people, task, doing, did, unsettled, received, mishaps>>
      BY <1>2 DEF Click
    <2> QED BY <1>0, <2>2, <2>3, <2>4, IntakeStays DEF AppTypeOK, people, task
  <1>3. CASE HandleMessage
    BY <1>0, <1>3, HandleMessageTyped
  <1>4. CASE ProcessAction
    BY <1>0, <1>4, ProcessTyped
  <1>5. CASE FinishAction
    <2>1. PICK e : e = doing.event
      OBVIOUS
    <2>2. e \in Events
      BY <1>0, <1>5, <2>1, DoingFacts DEF FinishAction, AppTypeOK, Doings
    <2>3. /\ doing' = Idle
          /\ UNCHANGED <<intakeVars, people, task, queue, did, received, mishaps>>
      BY <1>5 DEF FinishAction
    <2>4. CASE Scoring(doing)
      <3>1. unsettled' = unsettled \cup {e} /\ clicks' = clicks
        BY <1>5, <2>1, <2>4 DEF FinishAction
      <3> QED BY <1>0, <2>2, <2>3, <3>1, IntakeStays DEF AppTypeOK, people, task
    <2>5. CASE ~Scoring(doing)
      <3>1. PICK outcome \in {"FAILED", "PROCESSED"} :
                clicks' = [clicks EXCEPT ![e].status = outcome]
        <4>1. clicks' = [clicks EXCEPT
                            ![e].status = Mark(clicks[e].status, doing.error)]
          BY <1>5, <2>1, <2>5 DEF FinishAction
        <4> QED BY <4>1 DEF Mark
      <3>2. clicks' \in [Events -> [status : {"NONE", "PENDING", "PROCESSED", "FAILED"},
                                    actor : Names \cup {NoName}]]
        BY <1>0, <2>2, <3>1 DEF AppTypeOK
      <3>3. unsettled' = unsettled
        BY <1>5, <2>5 DEF FinishAction
      <3> QED BY <1>0, <2>3, <3>2, <3>3, IntakeStays DEF AppTypeOK, people, task
    <2> QED BY <2>4, <2>5
  <1>13. CASE FinishRaises
    <2>1. doing.event \in Events
      BY <1>0, <1>13, DoingFacts DEF FinishRaises, AppTypeOK, Doings
    <2>2. unsettled' \subseteq Events /\ mishaps' \in 0 .. MaxMishaps
      BY <1>0, <1>13, <2>1 DEF FinishRaises, AppTypeOK
    <2>3. /\ doing' = Idle
          /\ UNCHANGED <<intakeVars, people, task, clicks, queue, did, received>>
      BY <1>13 DEF FinishRaises
    <2> QED BY <1>0, <2>2, <2>3, IntakeStays DEF AppTypeOK, people, task
  <1>14. CASE JobRaises
    <2>1. queue' \in Seq(Jobs)
      BY <1>0, <1>14, TailJobs DEF JobRaises
    <2>4. Head(queue) \in Jobs
      BY <1>0, <1>14 DEF JobRaises, AppTypeOK
    <2>5. Head(queue).kind = "PROCESS_ACTION" => Head(queue).event \in Events
      BY <2>4, JobFacts
    <2>6. unsettled' \subseteq Events
      BY <1>0, <1>14, <2>5 DEF JobRaises, AppTypeOK
    <2>2. unsettled' \subseteq Events /\ mishaps' \in 0 .. MaxMishaps
      BY <1>0, <1>14, <2>6 DEF JobRaises, AppTypeOK
    <2>3. UNCHANGED <<intakeVars, people, task, clicks, doing, did, received>>
      BY <1>14 DEF JobRaises
    <2> QED BY <1>0, <2>1, <2>2, <2>3, IntakeStays DEF AppTypeOK, people, task
  <1>6. CASE RunExtraction
    BY <1>6, RunExtractionTyped
  <1>7. CASE TakeSettle
    <2>1. queue' \in Seq(Jobs)
      BY <1>0, <1>7, DueFacts DEF TakeSettle
    <2> QED BY <1>0, <1>7, <2>1, IntakeStays DEF TakeSettle, AppTypeOK, people, task
  <1>8. CASE SettleIntake
    <2>1. IntakeTypeOK'
      <3>1. CASE UNCHANGED intakeVars
        BY <1>0, <3>1, IntakeStays
      <3>2. CASE ClaimImport
        <4>1. intake \in IntakeRows
          BY <1>0, <3>2, BegunTyped
          DEF ClaimImport, BothHalvesDone, NoIntake, Begun
        <4>2. [intake EXCEPT !.status = "IMPORTING"] \in IntakeRows
              /\ intake.chosen \in SUBSET Names
          BY <4>1 DEF IntakeRows
        <4> QED BY <1>0, <3>2, <4>2
            DEF ClaimImport, AppTypeOK, IntakeTypeOK, IntakeRows
      <3> QED BY <1>8, <3>1, <3>2 DEF SettleIntake
    <2>2. doing' \in Doings
      BY <1>8 DEF SettleIntake, Doings
    <2>3. UNCHANGED <<people, task, clicks, queue, did, unsettled, received, mishaps>>
      BY <1>8 DEF SettleIntake
    <2> QED BY <1>0, <2>1, <2>2, <2>3 DEF AppTypeOK, people, task, Doings
  <1>9. CASE Import
    <2>1. IntakeTypeOK'
      BY <1>9, ImportTyped DEF Import
    <2>2. doing' \in Doings
      BY <1>0, <1>9 DEF Import, AppTypeOK, Doings
    <2>3. UNCHANGED <<people, task, clicks, queue, did, unsettled, received, mishaps>>
      BY <1>9 DEF Import
    <2> QED BY <1>0, <2>1, <2>2, <2>3 DEF AppTypeOK, people, task, Doings
  <1>10. CASE Redispatch
    <2>1. round' \in 1 .. MaxRounds
      BY <1>0, <1>10 DEF Redispatch, AppTypeOK
    <2> QED BY <1>0, <1>10, <2>1, IntakeStays DEF Redispatch, AppTypeOK, people
  <1>11. CASE Stop
    <2>1. IntakeTypeOK'
      BY <1>0, <1>11 DEF Stop, Restarted, AppTypeOK, IntakeTypeOK, NotImporting, NoRoster
    <2>2. queue' \in Seq(Jobs)
      BY <1>11, EmptySeq DEF Stop
    <2>3. mishaps' \in 0 .. MaxMishaps
      BY <1>0, <1>11 DEF Stop, Restarted, AppTypeOK
    <2> QED BY <1>0, <1>11, <2>1, <2>2, <2>3 DEF Stop, Restarted, AppTypeOK, people, task
  <1>12. CASE UNCHANGED appVars
    BY <1>0, <1>12, IntakeStays DEF appVars, AppTypeOK, people, task
  <1> QED
    BY <1>1, <1>2, <1>3, <1>4, <1>5, <1>6, <1>7, <1>8, <1>9, <1>10, <1>11, <1>12,
       <1>13, <1>14
    DEF AppNext, Worker, Work

-----------------------------------------------------------------------------
(* Meetings come back.                                                     *)

\* Steps that leave the intake alone, and ask for no extraction.
LEMMA IntakeAlone ==
  ASSUME ImportsInOrder, MeetingsComeBack, UNCHANGED intakeVars,
         In(queue', Extraction) => In(queue, Extraction)
  PROVE  ImportsInOrder' /\ MeetingsComeBack'
  BY DEF intakeVars, ImportsInOrder, MeetingsComeBack, Begun

\* Steps that write the row of the intake and announce nothing.
LEMMA RowMoves ==
  ASSUME ImportsInOrder, MeetingsComeBack, intake' \in IntakeRows,
         intake'.status = "READY" => intake.status = "READY",
         UNCHANGED <<meeting, source, importing>>
  PROVE  ImportsInOrder' /\ MeetingsComeBack'
  <1>1. Begun'
    BY BegunTyped DEF Begun
  <1> QED BY <1>1 DEF ImportsInOrder, MeetingsComeBack

\* A roster that is registered is that of the meeting, whether this import
\* brought it in or found it.
LEMMA ImportKeeps ==
  ASSUME AppInv, ImportStep, queue' = queue
  PROVE  ImportsInOrder' /\ MeetingsComeBack'
  <1>1. ImportsInOrder /\ MeetingsComeBack /\ AppTypeOK
    BY DEF AppInv
  <1>2. intake' \in IntakeRows
    BY ImportTyped
  <1>3. Begun'
    BY <1>2, BegunTyped DEF Begun
  <1>4. importing \in [step : {"NO", "LOAD", "REGISTER", "READY"},
                       roster : SUBSET Names]
    BY <1>1 DEF AppTypeOK, IntakeTypeOK
  <1>5. intake \in IntakeRows
    BY <1>1, BegunTyped
    DEF ImportsInOrder, ImportStep, CreateMeeting, AttachMeeting, RefuseRoster,
        RegisterSource, MarkReady
  <1>6. CASE CreateMeeting
    BY <1>1, <1>3, <1>4, <1>6
    DEF CreateMeeting, Loaded, ImportsInOrder, MeetingsComeBack
  <1>7. CASE AttachMeeting
    BY <1>1, <1>3, <1>4, <1>7
    DEF AttachMeeting, SameRoster, Loaded, ImportsInOrder, MeetingsComeBack
  <1>8. CASE RefuseRoster
    <2>1. intake'.status # "READY"
      BY <1>5, <1>8 DEF RefuseRoster, IntakeRows
    <2> QED BY <1>1, <1>3, <1>8, <2>1
        DEF RefuseRoster, NotImporting, ImportsInOrder, MeetingsComeBack
  <1>9. CASE RegisterSource
    BY <1>1, <1>3, <1>4, <1>9 DEF RegisterSource, ImportsInOrder, MeetingsComeBack
  <1>10. CASE MarkReady
    <2>1. source # NoRoster
      BY <1>1, <1>10 DEF MarkReady, ImportsInOrder
    <2> QED BY <1>1, <1>3, <1>10, <2>1
        DEF MarkReady, NotImporting, ImportsInOrder, MeetingsComeBack
  <1> QED BY <1>6, <1>7, <1>8, <1>9, <1>10 DEF ImportStep

LEMMA ImportsKept ==
  AppInv /\ [AppNext]_appVars => ImportsInOrder' /\ MeetingsComeBack'
  <1> SUFFICES ASSUME AppInv, [AppNext]_appVars
               PROVE  ImportsInOrder' /\ MeetingsComeBack'
    OBVIOUS
  <1>0. /\ AppTypeOK /\ ImportsInOrder /\ MeetingsComeBack
        /\ queue \in Seq(Jobs)
    BY DEF AppInv, AppTypeOK
  <1>1. ASSUME NEW account \in Accounts, NEW text \in Texts,
               ReceiveMessage(account, text)
        PROVE  ImportsInOrder' /\ MeetingsComeBack'
    <2>1. PICK job : job = [kind |-> "ACK_MESSAGE", by |-> account, text |-> text]
      OBVIOUS
    <2>2. job \in Jobs /\ job # Extraction
      BY <2>1, JobsTyped, JobsDiffer
    <2>3. UNCHANGED intakeVars /\ queue' = Append(queue, job)
      BY <1>1, <2>1 DEF ReceiveMessage
    <2>4. In(queue', Extraction) => In(queue, Extraction)
      BY <1>0, <2>2, <2>3, AppendJobs
    <2> QED BY <1>0, <2>3, <2>4, IntakeAlone
  <1>2. ASSUME NEW e \in Events, Click(e)
        PROVE  ImportsInOrder' /\ MeetingsComeBack'
    <2>1. Job(e) \in Jobs /\ Job(e) # Extraction
      BY JobsTyped, JobsDiffer
    <2>2. UNCHANGED intakeVars /\ queue' = Append(queue, Job(e))
      BY <1>2 DEF Click, Job
    <2>3. In(queue', Extraction) => In(queue, Extraction)
      BY <1>0, <2>1, <2>2, AppendJobs
    <2> QED BY <1>0, <2>2, <2>3, IntakeAlone
  <1>3. ASSUME queue' = Tail(queue), queue # <<>>, UNCHANGED intakeVars
        PROVE  ImportsInOrder' /\ MeetingsComeBack'
    <2>1. In(queue', Extraction) => In(queue, Extraction)
      BY <1>0, <1>3, TailJobs
    <2> QED BY <1>0, <1>3, <2>1, IntakeAlone
  <1>4. CASE HandleMessage
    <2>1. PICK account, text : account = Head(queue).by /\ text = Head(queue).text
      OBVIOUS
    <2>2. queue # <<>> /\ account \in Accounts
      BY <1>0, <1>4, <2>1, DueFacts, JobFacts DEF HandleMessage
    <2>3. CASE Register(account, text.name)
      BY <1>3, <2>2, <2>3 DEF Register
    <2>4. CASE BringIn(account)
      <3>1. ASSUME NEW name \in NamesOf(account), StartIntake(account, name)
            PROVE  ImportsInOrder' /\ MeetingsComeBack'
        <4>1. name \in Names
          BY DEF NamesOf
        <4>2. intake' \in IntakeRows /\ intake'.status = "AWAITING_ROSTER"
          BY <2>2, <3>1, <4>1 DEF StartIntake, IntakeRows, NoRoster
        <4> QED BY <1>0, <3>1, <4>2, RowMoves DEF StartIntake
      <3> QED BY <1>3, <2>2, <2>4, <3>1 DEF BringIn
    <2> QED BY <1>4, <2>1, <2>3, <2>4 DEF HandleMessage
  <1>5. CASE ProcessAction
    <2>1. PICK e : e = Head(queue).event
      OBVIOUS
    <2>2. queue # <<>> /\ e \in Events
      BY <1>0, <1>5, <2>1, DueFacts, JobFacts DEF ProcessAction
    <2>3. CASE Confirm(e) /\ MayConfirm(e.by)
      <3>1. intake \in IntakeRows
        BY <1>0, <2>3, BegunTyped DEF MayConfirm, Begun
      <3>2. intake' = [intake EXCEPT !.chosen = Chosen(e.button.choice)]
            /\ UNCHANGED <<cached, meeting, coordinator, source, importing>>
        BY <2>3 DEF Confirm, ConfirmRoster
      <3>3. Chosen(e.button.choice) \in SUBSET Names
        BY <3>1, IntakeAssumption DEF Chosen, Spoke, Silent, IntakeRows
      <3>4. intake' \in IntakeRows /\ intake'.status = intake.status
        BY <3>1, <3>2, <3>3 DEF IntakeRows
      <3> QED BY <1>0, <3>2, <3>4, RowMoves
    <2>4. CASE ~(Confirm(e) /\ MayConfirm(e.by))
      <3>1. \/ UNCHANGED intakeVars /\ queue' = Tail(queue)
            \/ Accept(e) \/ Revoke(e) \/ Confirm(e) \/ Pick(e)
        BY <1>5, <2>1, <2>2 DEF ProcessAction, Events, Buttons, Scores
      <3>2. UNCHANGED intakeVars /\ queue' = Tail(queue)
        BY <2>4, <3>1 DEF Accept, Revoke, Confirm, Pick
      <3> QED BY <1>3, <2>2, <3>2
    <2> QED BY <2>3, <2>4
  <1>6. CASE FinishAction
    BY <1>0, <1>6, IntakeAlone DEF FinishAction
  <1>14. CASE FinishRaises
    BY <1>0, <1>14, IntakeAlone DEF FinishRaises
  <1>15. CASE JobRaises
    BY <1>3, <1>15 DEF JobRaises
  <1>7. CASE RunExtraction
    <2>1. /\ queue \in Seq(Jobs) /\ queue # <<>> /\ Head(queue) = Extraction
      BY <1>0, <1>7, DueFacts, JobFacts DEF RunExtraction
    <2>2. intake \in IntakeRows
      BY <1>0, <2>1, TailJobs, BegunTyped DEF ImportsInOrder
    <2>3. PICK found \in BOOLEAN : Extract(found)
      BY <1>7 DEF RunExtraction
    <2>4. /\ [intake EXCEPT !.extracted = TRUE] \in IntakeRows
          /\ [intake EXCEPT !.extracted = TRUE].status = intake.status
          /\ [intake EXCEPT !.status = "FAILED"] \in IntakeRows
          /\ [intake EXCEPT !.status = "FAILED"].status = "FAILED"
      BY <2>2 DEF IntakeRows
    <2>5. /\ intake' \in IntakeRows
          /\ intake'.status = "READY" => intake.status = "READY"
          /\ UNCHANGED <<meeting, source, importing>>
      BY <2>3, <2>4 DEF Extract
    <2> QED BY <1>0, <2>5, RowMoves
  <1>8. CASE TakeSettle
    BY <1>0, <1>3, <1>8, DueFacts DEF TakeSettle
  <1>9. CASE SettleIntake
    <2>1. CASE UNCHANGED intakeVars
      BY <1>0, <1>9, <2>1, IntakeAlone DEF SettleIntake
    <2>2. CASE ClaimImport
      <3>1. intake \in IntakeRows
        BY <1>0, <2>2, BegunTyped
        DEF ClaimImport, BothHalvesDone, NoIntake, Begun
      <3>2. /\ intake' \in IntakeRows /\ intake'.status = "IMPORTING"
            /\ importing'.step = "LOAD" /\ importing'.roster # NoRoster
            /\ UNCHANGED <<meeting, source>>
        BY <2>2, <3>1 DEF ClaimImport, BothHalvesDone, IntakeRows
      <3>3. Begun'
        BY <3>2, BegunTyped DEF Begun
      <3> QED BY <1>0, <3>2, <3>3 DEF ImportsInOrder, MeetingsComeBack
    <2> QED BY <1>9, <2>1, <2>2 DEF SettleIntake
  <1>10. CASE Import
    BY <1>10, ImportKeeps DEF Import
  <1>11. CASE Redispatch
    BY <1>0, <1>11, IntakeAlone DEF Redispatch
  <1>12. CASE Stop
    BY <1>0, <1>12, EmptyQueue
    DEF Stop, Restarted, NotImporting, ImportsInOrder, MeetingsComeBack
  <1>13. CASE UNCHANGED appVars
    BY <1>0, <1>13, IntakeAlone DEF appVars
  <1> QED
    BY <1>1, <1>2, <1>4, <1>5, <1>6, <1>7, <1>8, <1>9, <1>10, <1>11, <1>12, <1>13,
       <1>14, <1>15
    DEF AppNext, Worker, Work

-----------------------------------------------------------------------------
(* Clicks decide once.                                                     *)

Clicks == AClickDecidesOnce /\ AnswersInOrder /\ \A e \in Events : WaitsOnce(e)

\* Steps that leave the clicks alone, and queue none.
LEMMA ClicksAlone ==
  ASSUME Clicks, UNCHANGED <<clicks, did>>,
         doing' = doing \/ doing'.step # "ANSWERED",
         \A e \in Events : /\ In(queue', Job(e)) => In(queue, Job(e))
                           /\ Twice(queue', Job(e)) => Twice(queue, Job(e)),
         doing.step = "ANSWERED" => doing.event \in Events
  PROVE  Clicks'
  <1>1. AClickDecidesOnce'
    BY DEF Clicks, AClickDecidesOnce
  <1>2. \A e \in Events : WaitsOnce(e)'
    BY DEF Clicks, WaitsOnce
  <1>3. AnswersInOrder'
    BY DEF Clicks, AnswersInOrder, AnswerToWrite
  <1> QED BY <1>1, <1>2, <1>3 DEF Clicks

\* A new click waits, once.
LEMMA ClickCounts ==
  ASSUME AppInv, NEW e \in Events, Click(e)
  PROVE  Clicks'
  <1>1. /\ AppTypeOK /\ Clicks /\ queue \in Seq(Jobs) /\ did \in [Events -> Nat]
        /\ clicks \in [Events -> [status : {"NONE", "PENDING", "PROCESSED", "FAILED"},
                                  actor : Names \cup {NoName}]]
    BY DEF AppInv, Clicks, AppTypeOK
  <1>2. PICK actor \in Names \cup {NoName} :
            clicks' = [clicks EXCEPT ![e] = [status |-> "PENDING", actor |-> actor]]
    BY DEF Click, NamesOf
  <1>3. /\ UNCHANGED <<did, doing>> /\ queue' = Append(queue, Job(e))
        /\ clicks[e].status = "NONE"
    BY DEF Click, Job, Recorded
  <1>4. /\ clicks'[e].status = "PENDING"
        /\ \A f \in Events : f # e => clicks'[f] = clicks[f]
    BY <1>1, <1>2
  <1>5. did[e] = 0 /\ ~In(queue, Job(e)) /\ ~Twice(queue, Job(e))
    BY <1>1, <1>3 DEF Clicks, AClickDecidesOnce, WaitsOnce
  <1>6. \A f \in Events : /\ In(queue', Job(f)) <=> In(queue, Job(f)) \/ f = e
                          /\ Twice(queue', Job(f)) =>
                                 Twice(queue, Job(f)) \/ (f = e /\ In(queue, Job(f)))
    BY <1>1, <1>3, AppendJobs, JobsTyped, JobsDiffer
  <1>7. AClickDecidesOnce'
    BY <1>1, <1>3, <1>4, <1>5 DEF Clicks, AClickDecidesOnce
  <1>8. ASSUME NEW f \in Events PROVE WaitsOnce(f)'
    <2>1. CASE f = e
      BY <1>3, <1>4, <1>5, <1>6, <2>1 DEF WaitsOnce
    <2>2. CASE f # e
      BY <1>1, <1>3, <1>4, <1>6, <2>2 DEF WaitsOnce, Clicks
    <2> QED BY <2>1, <2>2
  <1>9. AnswersInOrder'
    <2>1. ASSUME doing.step = "ANSWERED"
          PROVE  AnswerToWrite(doing.event, doing.error)'
      <3>1. PICK f : f = doing.event
        OBVIOUS
      <3>2. f \in Events /\ AnswerToWrite(f, doing.error)
        BY <1>1, <2>1, <3>1, DoingFacts
        DEF Clicks, AnswersInOrder, AppTypeOK, Doings
      <3>3. f # e
        BY <1>3, <3>2 DEF AnswerToWrite
      <3> QED BY <1>3, <1>4, <1>6, <3>1, <3>2, <3>3 DEF AnswerToWrite
    <2> QED BY <1>3, <2>1 DEF AnswersInOrder
  <1> QED BY <1>7, <1>8, <1>9 DEF Clicks

\* The click at the head of the queue is answered: refused, or done once.
LEMMA AnswerCounts ==
  ASSUME AppInv, queue # <<>>, NEW e \in Events, Head(queue) = Job(e),
         clicks[e].status = "PENDING", clicks' = clicks,
         NEW error \in BOOLEAN, doing' = Answered(e, error),
         \A f \in Events : /\ In(queue', Job(f)) => In(Tail(queue), Job(f))
                           /\ Twice(queue', Job(f)) => Twice(Tail(queue), Job(f)),
         NEW n \in {0, 1}, did' = [did EXCEPT ![e] = did[e] + n], error => n = 0
  PROVE  Clicks'
  <1>1. /\ Clicks /\ queue \in Seq(Jobs) /\ did \in [Events -> Nat]
    BY DEF AppInv, Clicks, AppTypeOK
  <1>2. /\ In(queue, Job(e)) /\ ~In(Tail(queue), Job(e))
        /\ \A f \in Events : /\ In(Tail(queue), Job(f)) => In(queue, Job(f))
                             /\ Twice(Tail(queue), Job(f)) => Twice(queue, Job(f))
    BY <1>1, TailJobs DEF Clicks, WaitsOnce
  <1>3. did[e] = 0
    BY <1>1, <1>2 DEF Clicks, WaitsOnce
  <1>4. did'[e] = n /\ \A f \in Events : f # e => did'[f] = did[f]
    BY <1>1, <1>3
  <1>5. AClickDecidesOnce'
    BY <1>1, <1>4 DEF Clicks, AClickDecidesOnce
  <1>6. ASSUME NEW f \in Events PROVE WaitsOnce(f)'
    <2>1. CASE f = e
      BY <1>1, <1>2, <2>1 DEF WaitsOnce, Clicks
    <2>2. CASE f # e
      BY <1>1, <1>2, <1>4, <2>2 DEF WaitsOnce, Clicks
    <2> QED BY <2>1, <2>2
  <1>7. doing'.event = e /\ doing'.error = error
    BY DEF Answered
  <1>8. AnswersInOrder'
    BY <1>2, <1>4, <1>7 DEF AnswersInOrder, AnswerToWrite
  <1> QED BY <1>5, <1>6, <1>8 DEF Clicks

LEMMA ProcessCounts ==
  ASSUME AppInv, ProcessAction
  PROVE  Clicks'
  <1>1. /\ AppTypeOK /\ Clicks /\ queue \in Seq(Jobs) /\ did \in [Events -> Nat]
        /\ queue # <<>> /\ doing = Idle
    BY DueFacts DEF AppInv, Clicks, AppTypeOK, ProcessAction
  <1>2. PICK e : e = Head(queue).event
    OBVIOUS
  <1>3. e \in Events /\ Head(queue) = Job(e) /\ clicks' = clicks
    BY <1>1, <1>2, DueFacts, JobFacts DEF ProcessAction
  <1>4. /\ Tail(queue) \in Seq(Jobs)
        /\ \A f \in Events : /\ In(Tail(queue), Job(f)) => In(queue, Job(f))
                             /\ Twice(Tail(queue), Job(f)) => Twice(queue, Job(f))
    BY <1>1, TailJobs
  <1>5. CASE clicks[e].status # "PENDING"
    <2>1. queue' = Tail(queue) /\ UNCHANGED <<doing, did>>
      BY <1>2, <1>5 DEF ProcessAction
    <2>2. doing.step # "ANSWERED"
      BY <1>1 DEF Idle
    <2> QED BY <1>1, <1>3, <1>4, <2>1, <2>2, ClicksAlone
  <1>6. CASE clicks[e].status = "PENDING"
    <2>1. Accept(e) \/ Revoke(e) \/ Confirm(e) \/ Pick(e)
      BY <1>2, <1>3, <1>6 DEF ProcessAction, Events, Buttons, Scores
    <2>2. did[e] \in Nat /\ did = [did EXCEPT ![e] = did[e] + 0]
      BY <1>1, <1>3
    <2>3. \E error \in BOOLEAN, n \in {0, 1} :
              /\ doing' = Answered(e, error) /\ (error => n = 0)
              /\ did' = [did EXCEPT ![e] = did[e] + n]
      <3>1. CASE Accept(e)
        BY <2>2, <3>1 DEF Accept
      <3>2. CASE Revoke(e)
        <4>1. CASE did' = did
          BY <2>2, <3>2, <4>1 DEF Revoke
        <4>2. CASE did' # did
          <5>1. PICK n \in {0, 1} :
                    n = (IF binding[e.button.actor] = NoAccount THEN 0 ELSE 1)
            OBVIOUS
          <5>2. did' = [did EXCEPT ![e] = did[e] + n] /\ doing' = Answered(e, FALSE)
            BY <3>2, <4>2, <5>1 DEF Revoke
          <5> QED BY <5>2
        <4> QED BY <4>1, <4>2
      <3>3. CASE Confirm(e)
        BY <2>2, <3>3 DEF Confirm
      <3>4. CASE Pick(e)
        BY <2>2, <3>4 DEF Pick
      <3> QED BY <2>1, <3>1, <3>2, <3>3, <3>4
    <2>4. \A f \in Events : /\ In(queue', Job(f)) => In(Tail(queue), Job(f))
                            /\ Twice(queue', Job(f)) => Twice(Tail(queue), Job(f))
      <3>1. PICK settle : settle = [kind |-> "SETTLE_INTAKE"]
        OBVIOUS
      <3>2. settle \in Jobs /\ \A f : Job(f) # settle
        BY <3>1, JobsTyped, JobsDiffer
      <3>3. queue' = Tail(queue) \/ queue' = Append(Tail(queue), settle)
        BY <2>1, <3>1 DEF Accept, Revoke, Confirm, Pick
      <3>4. PICK rest \in Seq(Jobs) : rest = Tail(queue)
        BY <1>4
      <3>5. \A f \in Events :
                /\ In(Append(rest, settle), Job(f)) => In(rest, Job(f))
                /\ Twice(Append(rest, settle), Job(f)) => Twice(rest, Job(f))
        BY <3>2, AppendJobs
      <3> QED BY <3>3, <3>4, <3>5
    <2> QED BY <1>1, <1>3, <1>6, <2>3, <2>4, AnswerCounts
  <1> QED BY <1>5, <1>6

\* The outcome that is written is the one the click had.
LEMMA FinishCounts ==
  ASSUME AppInv, FinishAction, ~Scoring(doing)
  PROVE  Clicks'
  <1>1. /\ Clicks /\ did \in [Events -> Nat] /\ doing.step = "ANSWERED"
        /\ doing.event \in Events /\ doing.error \in BOOLEAN
        /\ clicks \in [Events -> [status : {"NONE", "PENDING", "PROCESSED", "FAILED"},
                                  actor : Names \cup {NoName}]]
    BY DoingFacts DEF AppInv, Clicks, AppTypeOK, Doings, FinishAction
  <1>2. PICK e, refusal : e = doing.event /\ refusal = doing.error
    OBVIOUS
  <1>3. PICK outcome : outcome = IF refusal THEN "FAILED" ELSE "PROCESSED"
    OBVIOUS
  <1>4. clicks' = [clicks EXCEPT ![e].status = outcome]
    BY <1>2, <1>3 DEF FinishAction, Mark
  <1>5. /\ clicks'[e].status = outcome /\ outcome # "NONE"
        /\ \A f \in Events : f # e => clicks'[f] = clicks[f]
    BY <1>1, <1>2, <1>3, <1>4
  <1>6. doing' = Idle /\ UNCHANGED <<queue, did>>
    BY DEF FinishAction
  <1>7. AnswerToWrite(e, refusal)
    BY <1>1, <1>2 DEF Clicks, AnswersInOrder
  <1>8. AClickDecidesOnce'
    <2>1. did[e] <= 1 /\ (refusal => did[e] = 0)
      BY <1>1, <1>2, <1>7 DEF Clicks, AClickDecidesOnce, AnswerToWrite
    <2>2. outcome = "FAILED" <=> refusal
      BY <1>1, <1>2, <1>3
    <2> QED BY <1>1, <1>2, <1>5, <1>6, <2>1, <2>2 DEF Clicks, AClickDecidesOnce
  <1>9. \A f \in Events : WaitsOnce(f)'
    BY <1>1, <1>5, <1>6, <1>7 DEF Clicks, WaitsOnce, AnswerToWrite
  <1>10. AnswersInOrder'
    BY <1>6 DEF AnswersInOrder, Idle
  <1> QED BY <1>8, <1>9, <1>10 DEF Clicks

LEMMA ClicksKept == AppInv /\ [AppNext]_appVars => Clicks'
  <1> SUFFICES ASSUME AppInv, [AppNext]_appVars PROVE Clicks'
    OBVIOUS
  <1>0. /\ AppTypeOK /\ Clicks /\ queue \in Seq(Jobs)
        /\ doing.step = "ANSWERED" => doing.event \in Events
    BY DoingFacts DEF AppInv, Clicks, AppTypeOK, Doings
  <1>1. ASSUME NEW job \in Jobs, \A e : job # Job(e), UNCHANGED <<clicks, did>>,
               doing' = doing \/ doing'.step # "ANSWERED",
               \/ queue' = Append(queue, job)
               \/ queue # <<>> /\ queue' = Tail(queue)
               \/ queue # <<>> /\ queue' = Append(Tail(queue), job)
        PROVE  Clicks'
    <2>1. ASSUME NEW q \in Seq(Jobs), NEW e \in Events
          PROVE  /\ In(Append(q, job), Job(e)) => In(q, Job(e))
                 /\ Twice(Append(q, job), Job(e)) => Twice(q, Job(e))
      BY <1>1, AppendJobs
    <2>2. queue # <<>> => /\ Tail(queue) \in Seq(Jobs)
                          /\ \A e \in Events :
                                /\ In(Tail(queue), Job(e)) => In(queue, Job(e))
                                /\ Twice(Tail(queue), Job(e)) => Twice(queue, Job(e))
      BY <1>0, TailJobs
    <2>3. ASSUME NEW e \in Events
          PROVE  /\ In(queue', Job(e)) => In(queue, Job(e))
                 /\ Twice(queue', Job(e)) => Twice(queue, Job(e))
      <3>1. CASE queue' = Append(queue, job)
        BY <1>0, <2>1, <3>1
      <3>2. CASE queue # <<>> /\ queue' = Tail(queue)
        BY <2>2, <3>2
      <3>3. CASE queue # <<>> /\ queue' = Append(Tail(queue), job)
        <4>1. PICK rest \in Seq(Jobs) : rest = Tail(queue)
          BY <2>2, <3>3
        <4>2. /\ In(rest, Job(e)) => In(queue, Job(e))
              /\ Twice(rest, Job(e)) => Twice(queue, Job(e))
          BY <2>2, <3>3, <4>1
        <4>3. queue' = Append(rest, job)
          BY <3>3, <4>1
        <4>4. /\ In(Append(rest, job), Job(e)) => In(rest, Job(e))
              /\ Twice(Append(rest, job), Job(e)) => Twice(rest, Job(e))
          BY <2>1, <1>1
        <4> QED BY <4>2, <4>3, <4>4
      <3> QED BY <1>1, <3>1, <3>2, <3>3
    <2> QED BY <1>0, <1>1, <2>3, ClicksAlone
  <1>2. Extraction \in Jobs /\ \A e : Extraction # Job(e)
    BY JobsTyped, JobsDiffer
  <1>3. ASSUME NEW account \in Accounts, NEW text \in Texts,
               ReceiveMessage(account, text)
        PROVE  Clicks'
    <2>1. PICK job : job = [kind |-> "ACK_MESSAGE", by |-> account, text |-> text]
      OBVIOUS
    <2>2. job \in Jobs /\ \A e : job # Job(e)
      BY <2>1, JobsTyped, JobsDiffer
    <2>3. UNCHANGED <<clicks, did, doing>> /\ queue' = Append(queue, job)
      BY <1>3, <2>1 DEF ReceiveMessage
    <2> QED BY <1>1, <2>2, <2>3
  <1>4. ASSUME NEW e \in Events, Click(e) PROVE Clicks'
    BY <1>4, ClickCounts
  <1>5. CASE HandleMessage
    <2>1. queue # <<>> /\ UNCHANGED <<clicks, did, doing>>
      BY <1>5 DEF HandleMessage, Due
    <2>2. queue' = Tail(queue) \/ queue' = Append(Tail(queue), Extraction)
      BY <1>5 DEF HandleMessage, Register, BringIn, Extraction
    <2> QED BY <1>1, <1>2, <2>1, <2>2
  <1>6. CASE ProcessAction
    BY <1>6, ProcessCounts
  <1>7. CASE FinishAction
    <2>1. CASE Scoring(doing)
      BY <1>0, <1>7, <2>1, ClicksAlone DEF FinishAction, Idle
    <2>2. CASE ~Scoring(doing)
      BY <1>7, <2>2, FinishCounts
    <2> QED BY <2>1, <2>2
  <1>15. CASE FinishRaises
    BY <1>0, <1>15, ClicksAlone DEF FinishRaises, Idle
  <1>16. CASE JobRaises
    BY <1>1, <1>2, <1>16 DEF JobRaises
  <1>8. CASE RunExtraction
    <2>1. queue # <<>> /\ queue' = Tail(queue) /\ UNCHANGED <<clicks, did>>
      BY <1>8 DEF RunExtraction, Due
    <2>2. doing'.step # "ANSWERED"
      BY <1>8 DEF RunExtraction, Idle
    <2> QED BY <1>1, <1>2, <2>1, <2>2
  <1>9. CASE TakeSettle
    <2>1. queue # <<>> /\ queue' = Tail(queue) /\ UNCHANGED <<clicks, did>>
          /\ doing'.step # "ANSWERED"
      BY <1>9 DEF TakeSettle, Due
    <2> QED BY <1>1, <1>2, <2>1
  <1>10. CASE SettleIntake
    BY <1>0, <1>10, ClicksAlone DEF SettleIntake, Idle
  <1>11. CASE Import
    BY <1>0, <1>11, ClicksAlone DEF Import, Idle
  <1>12. CASE Redispatch
    BY <1>0, <1>12, ClicksAlone DEF Redispatch
  <1>13. CASE Stop
    BY <1>0, <1>13, ClicksAlone, EmptyQueue DEF Stop, Restarted, Idle
  <1>14. CASE UNCHANGED appVars
    BY <1>0, <1>14, ClicksAlone DEF appVars
  <1> QED
    BY <1>3, <1>4, <1>5, <1>6, <1>7, <1>8, <1>9, <1>10, <1>11, <1>12, <1>13, <1>14,
       <1>15, <1>16
    DEF AppNext, Worker, Work

LEMMA AppAlways == AppSpec => []AppInv
  <1>1. AppInit => AppInv
    <2> SUFFICES ASSUME AppInit PROVE AppInv
      OBVIOUS
    <2>1. ImportsInOrder /\ MeetingsComeBack
      BY EmptyQueue
      DEF AppInit, IntakeInit, NotImporting, NoIntake, ImportsInOrder,
          MeetingsComeBack
    <2>2. AnswersInOrder /\ \A e \in Events : WaitsOnce(e)
      BY EmptyQueue DEF AppInit, Idle, AnswersInOrder, WaitsOnce
    <2>3. AClickDecidesOnce
      BY DEF AppInit, NoClick, AClickDecidesOnce
    <2> QED BY <2>1, <2>2, <2>3, AppInitTyped DEF AppInv
  <1>2. AppInv /\ [AppNext]_appVars => AppInv'
    BY AppTypeKept, ImportsKept, ClicksKept DEF AppInv, Clicks
  <1> QED BY <1>1, <1>2, PTL DEF AppSpec

\* Everything parked, queued, bound and imported keeps its type, for any
\* names, accounts, speakers and bounds.
THEOREM InboundTypesHold == AppSpec => []AppTypeOK
  <1>1. AppInv => AppTypeOK
    BY DEF AppInv
  <1> QED BY AppAlways, <1>1, PTL

\* record_inbound_action and _process_action: however many people click how
\* often on which cards, and wherever the process stops or a job fails,
\* no click changes something twice, and none that was refused anything.
THEOREM ClicksDecideOnce == AppSpec => []AClickDecidesOnce
  <1>1. AppInv => AClickDecidesOnce
    BY DEF AppInv
  <1> QED BY AppAlways, <1>1, PTL

\* finish_if_ready, load_meeting_service and register: whatever links and
\* choices come in between, what a start brings back has the roster of the
\* meeting, and what was announced is brought back.
THEOREM MeetingsAlwaysComeBack == AppSpec => []MeetingsComeBack
  <1>1. AppInv => MeetingsComeBack
    BY DEF AppInv
  <1> QED BY AppAlways, <1>1, PTL
=============================================================================
