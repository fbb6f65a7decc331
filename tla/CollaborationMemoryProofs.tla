--------------------- MODULE CollaborationMemoryProofs ---------------------
(***************************************************************************)
(* Proofs about CollaborationMemory, for any lexicon, any tasks and any    *)
(* number of entries.                                                      *)
(***************************************************************************)
EXTENDS CollaborationMemory, SequenceTheorems, TLAPS

LEMMA ConstantFacts ==
  /\ Observed \cap Declared = {} /\ Silence \notin Codes /\ MaxEntries \in Nat
  BY MemoryAssumption

-----------------------------------------------------------------------------
(* The inductive invariant.                                                *)

Confirmed(i) == Has(i, {"CONFIRMED"})

\* What is confirmed is what the person last let stand, ...
ConfirmedIsSaid ==
    \A i \in Ids : Confirmed(i) => said[About(i)] = entries[i].label.code

\* ... what they let stand is confirmed, ...
SaidIsConfirmed ==
    \A topic \in Topics : said[topic] # Silence =>
        \E i \in Ids : About(i) = topic /\ Confirmed(i)

\* ... and once only.
OneStands ==
    \A i, j \in Ids :
        Confirmed(i) /\ Confirmed(j) /\ About(i) = About(j) => i = j

MemoryInv == TypeOK /\ ConfirmedIsSaid /\ SaidIsConfirmed /\ OneStands

-----------------------------------------------------------------------------
(* Entries in their sequence.                                              *)

LEMMA EntryFacts ==
  ASSUME TypeOK
  PROVE  /\ Len(entries) \in Nat /\ Len(entries) <= MaxEntries
         /\ Ids = 1 .. Len(entries) /\ entries \in [Ids -> Entry]
         /\ \A i \in Ids : /\ entries[i] \in Entry /\ About(i) \in Topics
                           /\ entries[i].label.code \in Codes
  <1>1. /\ Len(entries) \in Nat /\ entries \in [1 .. Len(entries) -> Entry]
        /\ DOMAIN entries = 1 .. Len(entries)
    BY LenProperties DEF TypeOK
  <1>2. \A i \in Ids : entries[i] \in Entry
    BY <1>1 DEF Ids
  <1>3. \A e \in Entry : e.label \in Label /\ e.label.topic \in Topics
                         /\ e.label.code \in Codes
    BY DEF Entry, Label
  <1> QED BY <1>1, <1>2, <1>3 DEF TypeOK, Ids, About

\* As many entries, one for one.
LEMMA InPlace ==
  ASSUME TypeOK, NEW old \in [Ids -> Entry]
  PROVE  old \in Seq(Entry) /\ Len(old) = Len(entries)
  <1>1. /\ Len(entries) \in Nat /\ old \in [1 .. Len(entries) -> Entry]
        /\ DOMAIN old = 1 .. Len(entries)
    BY EntryFacts
  <1>2. old \in Seq(Entry)
    BY <1>1
  <1> QED BY <1>1, <1>2, LenProperties

\* Entries that each keep their place, with others after them.
LEMMA EntriesGrow ==
  ASSUME TypeOK, NEW old \in [Ids -> Entry], NEW new \in Seq(Entry),
         Len(entries) + Len(new) <= MaxEntries, entries' = old \o new
  PROVE  /\ entries' \in Seq(Entry) /\ Len(entries') <= MaxEntries
         /\ Ids \subseteq Ids' /\ \A i \in Ids : entries'[i] = old[i]
         /\ Ids' = 1 .. Len(entries) + Len(new)
         /\ \A i \in Ids' \ Ids : /\ i - Len(entries) \in 1 .. Len(new)
                                  /\ entries'[i] = new[i - Len(entries)]
  <1>1. /\ Ids = 1 .. Len(entries) /\ Len(entries) \in Nat /\ Len(new) \in Nat
    BY EntryFacts, LenProperties
  <1>2. old \in Seq(Entry) /\ Len(old) = Len(entries)
    BY InPlace
  <1>3. /\ entries' \in Seq(Entry) /\ Len(entries') = Len(entries) + Len(new)
        /\ \A i \in 1 .. Len(entries) + Len(new) :
               entries'[i] = IF i <= Len(entries) THEN old[i]
                             ELSE new[i - Len(entries)]
    <2>1. /\ old \o new \in Seq(Entry) /\ Len(old \o new) = Len(old) + Len(new)
          /\ \A i \in 1 .. Len(old) + Len(new) :
                 (old \o new)[i] = IF i <= Len(old) THEN old[i]
                                  ELSE new[i - Len(old)]
      BY <1>2, ConcatProperties
    <2> QED BY <1>2, <2>1
  <1>4. Ids' = 1 .. Len(entries) + Len(new)
    BY <1>3, LenProperties DEF Ids
  <1> QED BY <1>1, <1>3, <1>4

LEMMA OneIsAdded ==
  ASSUME TypeOK, NEW old \in [Ids -> Entry], NEW e \in Entry,
         Len(entries) < MaxEntries, entries' = Append(old, e)
  PROVE  /\ entries' \in Seq(Entry) /\ Len(entries') <= MaxEntries
         /\ \A i \in Ids : entries'[i] = old[i]
         /\ Ids' = Ids \cup {Len(entries) + 1} /\ Len(entries) + 1 \notin Ids
         /\ entries'[Len(entries) + 1] = e
  <1>1. Ids = 1 .. Len(entries) /\ Len(entries) \in Nat /\ MaxEntries \in Nat
    BY EntryFacts, ConstantFacts
  <1>2. old \in Seq(Entry) /\ Len(old) = Len(entries)
    BY InPlace
  <1>3. /\ entries' \in Seq(Entry) /\ Len(entries') = Len(entries) + 1
        /\ \A i \in 1 .. Len(entries) : entries'[i] = old[i]
        /\ entries'[Len(entries) + 1] = e
    BY <1>1, <1>2
  <1>4. Ids' = 1 .. Len(entries) + 1
    BY <1>3, LenProperties DEF Ids
  <1> QED BY <1>1, <1>3, <1>4

LEMMA NoneIsAdded ==
  ASSUME TypeOK, NEW new \in [Ids -> Entry], entries' = new
  PROVE  /\ entries' \in Seq(Entry) /\ Len(entries') <= MaxEntries /\ Ids' = Ids
  <1>1. entries' \in Seq(Entry) /\ Len(entries') = Len(entries)
    BY InPlace
  <1> QED BY <1>1 DEF TypeOK, Ids

\* What superseding does, to each entry.
LEMMA SupersedingFacts ==
  ASSUME TypeOK, NEW topic, NEW statuses
  PROVE  /\ Superseding(topic, statuses) \in [Ids -> Entry]
         /\ \A i \in Ids :
               /\ Superseding(topic, statuses)[i].label = entries[i].label
               /\ About(i) = topic /\ Has(i, statuses) =>
                      Superseding(topic, statuses)[i].status = "SUPERSEDED"
               /\ ~(About(i) = topic /\ Has(i, statuses)) =>
                      Superseding(topic, statuses)[i] = entries[i]
  <1> DEFINE new == Superseding(topic, statuses)
  <1>1. ASSUME NEW i \in Ids
        PROVE  /\ new[i] \in Entry /\ new[i].label = entries[i].label
               /\ About(i) = topic /\ Has(i, statuses) =>
                      new[i].status = "SUPERSEDED"
               /\ ~(About(i) = topic /\ Has(i, statuses)) =>
                      new[i] = entries[i]
    <2>1. entries[i] \in Entry
      BY EntryFacts
    <2>2. new[i] = IF About(i) = topic /\ Has(i, statuses)
                   THEN [entries[i] EXCEPT !.status = "SUPERSEDED"] ELSE entries[i]
      BY DEF Superseding
    <2> QED BY <2>1, <2>2 DEF Entry
  <1>2. new = [i \in Ids |-> new[i]]
    BY DEF Superseding
  <1> HIDE DEF new
  <1>3. new \in [Ids -> Entry]
    BY <1>1, <1>2
  <1> QED BY <1>1, <1>3 DEF new

-----------------------------------------------------------------------------
(* What each step leaves of the invariant.                                 *)

\* The server's own steps write drafts at most.
LEMMA ServerKept ==
  ASSUME MemoryInv,
         \/ \E t \in Tasks : Accept(t) \/ ReportFails(t)
         \/ ConsoleStops \/ ConsoleStarts \/ UNCHANGED vars
  PROVE  MemoryInv'
  <1>1. entries' = entries /\ said' = said /\ Ids' = Ids
    BY DEF Accept, ReportFails, ConsoleStops, ConsoleStarts, vars, Ids
  <1>2. TypeOK'
    BY DEF MemoryInv, TypeOK, Accept, ReportFails, ConsoleStops, ConsoleStarts, vars
  <1> QED
    BY <1>1, <1>2 DEF MemoryInv, ConfirmedIsSaid, SaidIsConfirmed, OneStands,
                      Confirmed, Has, About

LEMMA GenerateReportKept ==
  ASSUME MemoryInv, NEW t \in Tasks, GenerateReport(t)
  PROVE  MemoryInv'
  <1>0. TypeOK
    BY DEF MemoryInv
  <1>1. PICK found \in DraftLabels, n \in 0 .. MaxEntries - Len(entries) :
            \E drafts \in DraftsOf(found, n) : entries' = entries \o drafts
    BY DEF GenerateReport
  <1>2. PICK drafts \in DraftsOf(found, n) : entries' = entries \o drafts
    BY <1>1
  <1>3. PICK order \in [1 .. n -> found] : drafts = [k \in 1 .. n |-> Draft(order[k])]
    BY DEF DraftsOf
  <1>4. n \in Nat /\ Len(entries) + n <= MaxEntries
    BY <1>0, EntryFacts, ConstantFacts
  <1>5. /\ drafts \in [1 .. n -> Entry]
        /\ \A k \in 1 .. n : drafts[k].status = "PRIVATE_DRAFT"
    <2>1. \A k \in 1 .. n : order[k] \in Label
      BY DEF DraftLabels, Label, Topics
    <2>2. \A label \in Label : Draft(label) \in Entry
                               /\ Draft(label).status = "PRIVATE_DRAFT"
      BY DEF Draft, Entry
    <2> QED BY <1>3, <2>1, <2>2
  <1>6. drafts \in Seq(Entry) /\ Len(drafts) = n
    <2>1. drafts \in Seq(Entry) /\ DOMAIN drafts = 1 .. n
      BY <1>4, <1>5
    <2> QED BY <1>4, <2>1, LenProperties
  <1>7. entries \in [Ids -> Entry]
    BY <1>0, EntryFacts
  <1>8. /\ entries' \in Seq(Entry) /\ Len(entries') <= MaxEntries
        /\ Ids \subseteq Ids' /\ \A i \in Ids : entries'[i] = entries[i]
        /\ \A i \in Ids' \ Ids : entries'[i].status = "PRIVATE_DRAFT"
    <2>1. Len(entries) + Len(drafts) <= MaxEntries
      BY <1>4, <1>6
    <2>2. /\ entries' \in Seq(Entry) /\ Len(entries') <= MaxEntries
          /\ Ids \subseteq Ids' /\ \A i \in Ids : entries'[i] = entries[i]
          /\ \A i \in Ids' \ Ids : /\ i - Len(entries) \in 1 .. Len(drafts)
                                   /\ entries'[i] = drafts[i - Len(entries)]
      BY <1>0, <1>2, <1>6, <1>7, <2>1, EntriesGrow
    <2> QED BY <1>5, <1>6, <2>2
  <1>9. TypeOK'
    BY <1>0, <1>8 DEF GenerateReport, TypeOK
  <1>10. \A i \in Ids' : Confirmed(i)' => i \in Ids /\ Confirmed(i)
    BY <1>8 DEF Confirmed, Has
  <1>11. \A i \in Ids : About(i)' = About(i) /\ (Confirmed(i) => Confirmed(i)')
    BY <1>8 DEF About, Confirmed, Has
  <1>12. said' = said
    BY DEF GenerateReport
  <1> QED
    BY <1>8, <1>9, <1>10, <1>11, <1>12
    DEF MemoryInv, ConfirmedIsSaid, SaidIsConfirmed, OneStands

\* What the person lets stand takes the place of what stood: entry n is now
\* the one confirmed on its topic, and on the others nothing is different.
LEMMA SayingKept ==
  ASSUME MemoryInv, NEW topic \in Topics, NEW code \in Codes, NEW n \in Ids',
         TypeOK', Says(topic, code), Ids \subseteq Ids', \A i \in Ids' : i = n \/ i \in Ids,
         entries'[n].label = [topic |-> topic, code |-> code],
         entries'[n].status = "CONFIRMED",
         \A i \in Ids : i # n =>
             /\ entries'[i].label = entries[i].label
             /\ About(i) = topic => entries'[i].status # "CONFIRMED"
             /\ About(i) # topic => entries'[i] = entries[i],
         n \in Ids => About(n) = topic
  PROVE  MemoryInv'
  <1>1. said' \in [Topics -> Codes \cup {Silence}] /\ said'[topic] = code
        /\ \A other \in Topics : other # topic => said'[other] = said[other]
    BY DEF MemoryInv, TypeOK, Says
  <1>2. About(n)' = topic /\ Confirmed(n)' /\ entries'[n].label.code = code
    BY DEF About, Confirmed, Has
  <1>3. ASSUME NEW i \in Ids', i # n, Confirmed(i)'
        PROVE  /\ i \in Ids /\ Confirmed(i) /\ About(i) # topic
               /\ About(i)' = About(i) /\ About(i) \in Topics
               /\ entries'[i].label.code = entries[i].label.code
    BY <1>3, EntryFacts DEF MemoryInv, About, Confirmed, Has
  <1>4. ConfirmedIsSaid'
    <2> SUFFICES ASSUME NEW i \in Ids', Confirmed(i)'
                 PROVE  said'[About(i)'] = entries'[i].label.code
      BY DEF ConfirmedIsSaid
    <2>1. CASE i = n
      BY <1>1, <1>2, <2>1
    <2>2. CASE i # n
      BY <1>1, <1>3, <2>2 DEF MemoryInv, ConfirmedIsSaid
    <2> QED BY <2>1, <2>2
  <1>5. SaidIsConfirmed'
    <2> SUFFICES ASSUME NEW other \in Topics, said'[other] # Silence
                 PROVE  \E i \in Ids' : About(i)' = other /\ Confirmed(i)'
      BY DEF SaidIsConfirmed
    <2>1. CASE other = topic
      BY <1>2, <2>1
    <2>2. CASE other # topic
      <3>1. PICK i \in Ids : About(i) = other /\ Confirmed(i)
        BY <1>1, <2>2 DEF MemoryInv, SaidIsConfirmed
      <3>2. i # n /\ entries'[i] = entries[i]
        BY <2>2, <3>1
      <3> QED BY <3>1, <3>2 DEF About, Confirmed, Has
    <2> QED BY <2>1, <2>2
  <1>6. OneStands'
    <2> SUFFICES ASSUME NEW i \in Ids', NEW j \in Ids', Confirmed(i)', Confirmed(j)',
                        About(i)' = About(j)'
                 PROVE  i = j
      BY DEF OneStands
    <2> QED BY <1>2, <1>3 DEF MemoryInv, OneStands
  <1> QED BY <1>4, <1>5, <1>6 DEF MemoryInv

LEMMA DeclareKept ==
  ASSUME MemoryInv, NEW label \in Label, Declare(label)
  PROVE  MemoryInv'
  <1> DEFINE old == Superseding(label.topic, {"CONFIRMED"})
             e == Written(label, "SELF_DECLARED")
  <1>0. TypeOK
    BY DEF MemoryInv
  <1>1. /\ Len(entries) < MaxEntries /\ entries' = Append(old, e)
        /\ Says(label.topic, label.code) /\ UNCHANGED <<report, console>>
    BY DEF Declare
  <1>2. e \in Entry /\ e.label = label /\ e.status = "CONFIRMED"
    BY DEF Written, Entry
  <1>3. /\ label.topic \in Topics /\ label.code \in Codes
        /\ label = [topic |-> label.topic, code |-> label.code]
    BY DEF Label
  <1> HIDE DEF e
  <1>4. /\ old \in [Ids -> Entry]
        /\ \A i \in Ids :
              /\ old[i].label = entries[i].label
              /\ About(i) = label.topic => old[i].status # "CONFIRMED"
              /\ About(i) # label.topic => old[i] = entries[i]
    BY <1>0, SupersedingFacts DEF Has
  <1> HIDE DEF old
  <1> PICK n : n = Len(entries) + 1
    OBVIOUS
  <1>5. /\ entries' \in Seq(Entry) /\ Len(entries') <= MaxEntries
        /\ \A i \in Ids : entries'[i] = old[i]
        /\ Ids' = Ids \cup {n} /\ n \notin Ids /\ entries'[n] = e
    BY <1>0, <1>1, <1>2, <1>4, OneIsAdded
  <1>6. TypeOK'
    BY <1>0, <1>1, <1>3, <1>5 DEF TypeOK, Says
  <1>7. PICK topic \in Topics, code \in Codes :
            topic = label.topic /\ code = label.code
    BY <1>3
  <1>8. /\ n \in Ids' /\ Says(topic, code) /\ Ids \subseteq Ids'
        /\ \A i \in Ids' : i = n \/ i \in Ids
        /\ n \in Ids => About(n) = topic
    BY <1>1, <1>5, <1>7
  <1>9. /\ entries'[n].label = [topic |-> topic, code |-> code]
        /\ entries'[n].status = "CONFIRMED"
    BY <1>2, <1>3, <1>5, <1>7
  <1>10. \A i \in Ids : i # n =>
            /\ entries'[i].label = entries[i].label
            /\ About(i) = topic => entries'[i].status # "CONFIRMED"
            /\ About(i) # topic => entries'[i] = entries[i]
    BY <1>4, <1>5, <1>7
  <1> QED BY <1>6, <1>8, <1>9, <1>10, SayingKept

LEMMA ConfirmKept ==
  ASSUME MemoryInv, NEW i \in Ids, Confirm(i)
  PROVE  MemoryInv'
  <1>0. TypeOK
    BY DEF MemoryInv
  <1> DEFINE old == Superseding(About(i), {"CONFIRMED"})
  <1>1. PICK topic \in Topics, code \in Codes :
            topic = About(i) /\ code = entries[i].label.code
    BY <1>0, EntryFacts
  <1>2. /\ entries' = [old EXCEPT ![i].status = "CONFIRMED"]
        /\ Says(topic, code) /\ UNCHANGED <<report, console>>
        /\ entries[i].status = "PRIVATE_DRAFT"
    BY <1>1 DEF Confirm, Confirmable, Has
  <1>3. /\ old \in [Ids -> Entry] /\ old[i] = entries[i]
        /\ \A j \in Ids :
              /\ old[j].label = entries[j].label
              /\ About(j) = topic => old[j].status # "CONFIRMED"
              /\ About(j) # topic => old[j] = entries[j]
    BY <1>0, <1>1, <1>2, SupersedingFacts DEF Has
  <1> HIDE DEF old
  <1>4. PICK e : e = [entries[i] EXCEPT !.status = "CONFIRMED"]
    OBVIOUS
  <1>5. entries[i] \in Entry /\ entries[i].label \in Label
    BY <1>0, EntryFacts DEF Entry
  <1>6. /\ e \in Entry /\ e.status = "CONFIRMED" /\ e.label = entries[i].label
        /\ e.label = [topic |-> topic, code |-> code]
    <2>1. e \in Entry /\ e.status = "CONFIRMED" /\ e.label = entries[i].label
      BY <1>4, <1>5 DEF Entry
    <2> QED BY <1>1, <1>5, <2>1 DEF About, Label
  <1>7. entries' = [old EXCEPT ![i] = e]
    BY <1>2, <1>3, <1>4
  <1>8. /\ entries' \in [Ids -> Entry] /\ entries'[i] = e
        /\ \A j \in Ids : j # i => entries'[j] = old[j]
    BY <1>3, <1>6, <1>7
  <1>9. entries' \in Seq(Entry) /\ Len(entries') <= MaxEntries /\ Ids' = Ids
    BY <1>0, <1>8, NoneIsAdded
  <1>10. TypeOK'
    BY <1>0, <1>2, <1>9 DEF TypeOK, Says
  <1>11. /\ i \in Ids' /\ Says(topic, code) /\ Ids \subseteq Ids'
         /\ \A j \in Ids' : j = i \/ j \in Ids
         /\ i \in Ids => About(i) = topic
    BY <1>1, <1>2, <1>9
  <1>12. /\ entries'[i].label = [topic |-> topic, code |-> code]
         /\ entries'[i].status = "CONFIRMED"
    BY <1>6, <1>8
  <1>13. \A j \in Ids : j # i =>
            /\ entries'[j].label = entries[j].label
            /\ About(j) = topic => entries'[j].status # "CONFIRMED"
            /\ About(j) # topic => entries'[j] = entries[j]
    BY <1>3, <1>8
  <1> QED BY <1>10, <1>11, <1>12, <1>13, SayingKept

LEMMA ReplaceKept ==
  ASSUME MemoryInv, NEW i \in Ids, NEW code \in Codes, Replace(i, code)
  PROVE  MemoryInv'
  <1>0. TypeOK
    BY DEF MemoryInv
  <1>1. PICK topic \in Topics : topic = About(i)
    BY <1>0, EntryFacts
  <1> DEFINE old == Superseding(topic, {"PRIVATE_DRAFT", "CONFIRMED"})
  <1>2. PICK e : e = Written([topic |-> topic, code |-> code], "SYSTEM_OBSERVED")
    OBVIOUS
  <1>3. /\ Len(entries) < MaxEntries /\ entries' = Append(old, e)
        /\ Says(topic, code) /\ UNCHANGED <<report, console>>
    BY <1>1, <1>2 DEF Replace
  <1>4. /\ e \in Entry /\ e.label = [topic |-> topic, code |-> code]
        /\ e.status = "CONFIRMED"
    BY <1>2 DEF Written, Entry, Label
  <1>5. /\ old \in [Ids -> Entry]
        /\ \A j \in Ids :
              /\ old[j].label = entries[j].label
              /\ About(j) = topic => old[j].status # "CONFIRMED"
              /\ About(j) # topic => old[j] = entries[j]
    BY <1>0, SupersedingFacts DEF Has
  <1> HIDE DEF old
  <1> PICK n : n = Len(entries) + 1
    OBVIOUS
  <1>6. /\ entries' \in Seq(Entry) /\ Len(entries') <= MaxEntries
        /\ \A j \in Ids : entries'[j] = old[j]
        /\ Ids' = Ids \cup {n} /\ n \notin Ids /\ entries'[n] = e
    BY <1>0, <1>3, <1>4, <1>5, OneIsAdded
  <1>7. TypeOK'
    BY <1>0, <1>3, <1>6 DEF TypeOK, Says
  <1>8. /\ n \in Ids' /\ Says(topic, code) /\ Ids \subseteq Ids'
        /\ \A j \in Ids' : j = n \/ j \in Ids
        /\ n \in Ids => About(n) = topic
    BY <1>3, <1>6
  <1>9. /\ entries'[n].label = [topic |-> topic, code |-> code]
        /\ entries'[n].status = "CONFIRMED"
    BY <1>4, <1>6
  <1>10. \A j \in Ids : j # n =>
            /\ entries'[j].label = entries[j].label
            /\ About(j) = topic => entries'[j].status # "CONFIRMED"
            /\ About(j) # topic => entries'[j] = entries[j]
    BY <1>5, <1>6
  <1> QED BY <1>7, <1>8, <1>9, <1>10, SayingKept

\* An entry that is declined, or withdrawn, is no longer confirmed; withdrawn
\* is what stood on its topic.
LEMMA TakingBackKept ==
  ASSUME MemoryInv, NEW i \in Ids, Reject(i) \/ Withdraw(i)
  PROVE  MemoryInv'
  <1>0. TypeOK /\ ConfirmedIsSaid /\ SaidIsConfirmed /\ OneStands
    BY DEF MemoryInv
  <1>1. PICK status \in {"REJECTED", "SUPERSEDED"} :
            entries' = [entries EXCEPT ![i].status = status]
    BY DEF Reject, Withdraw
  <1>2. PICK e : e = [entries[i] EXCEPT !.status = status]
    OBVIOUS
  <1>3. e \in Entry /\ e.status # "CONFIRMED" /\ e.label = entries[i].label
    <2>1. entries[i] \in Entry
      BY <1>0, EntryFacts
    <2> QED BY <1>2, <2>1 DEF Entry
  <1>4. /\ entries' \in [Ids -> Entry] /\ entries'[i] = e
        /\ \A j \in Ids : j # i => entries'[j] = entries[j]
    <2>1. entries \in [Ids -> Entry] /\ entries' = [entries EXCEPT ![i] = e]
      BY <1>0, <1>1, <1>2, EntryFacts
    <2> QED BY <1>3, <2>1
  <1>5. entries' \in Seq(Entry) /\ Len(entries') <= MaxEntries /\ Ids' = Ids
    BY <1>0, <1>4, NoneIsAdded
  <1>6. TypeOK'
    BY <1>0, <1>5 DEF TypeOK, Reject, Withdraw, Says
  <1>7. \A j \in Ids : /\ About(j)' = About(j) /\ About(j) \in Topics
                       /\ entries'[j].label = entries[j].label
                       /\ Confirmed(j)' <=> Confirmed(j) /\ j # i
    <2>1. \A j \in Ids : About(j)' = About(j) /\ entries'[j].label = entries[j].label
      BY <1>3, <1>4 DEF About
    <2>2. \A j \in Ids : Confirmed(j)' <=> Confirmed(j) /\ j # i
      BY <1>3, <1>4 DEF Confirmed, Has
    <2> QED BY <1>0, <2>1, <2>2, EntryFacts
  <1>8. OneStands'
    BY <1>0, <1>5, <1>7 DEF OneStands
  <1>9. CASE Reject(i)
    <2>1. said' = said /\ ~Confirmed(i)
      BY <1>9 DEF Reject, Confirmed, Has
    <2>2. ConfirmedIsSaid'
      BY <1>0, <1>5, <1>7, <2>1 DEF ConfirmedIsSaid
    <2>3. SaidIsConfirmed'
      BY <1>0, <1>5, <1>7, <2>1 DEF SaidIsConfirmed
    <2> QED BY <1>6, <1>8, <2>2, <2>3 DEF MemoryInv
  <1>10. CASE Withdraw(i)
    <2>1. /\ said' \in [Topics -> Codes \cup {Silence}]
          /\ said'[About(i)] = Silence /\ Confirmed(i)
          /\ \A topic \in Topics : topic # About(i) => said'[topic] = said[topic]
      BY <1>0, <1>7, <1>10 DEF Withdraw, Says, TypeOK, Confirmed
    <2>2. \A j \in Ids : Confirmed(j) /\ j # i => About(j) # About(i)
      BY <1>0, <2>1 DEF OneStands
    <2>3. ConfirmedIsSaid'
      BY <1>0, <1>5, <1>7, <2>1, <2>2 DEF ConfirmedIsSaid
    <2>4. SaidIsConfirmed'
      BY <1>0, <1>5, <1>7, <2>1 DEF SaidIsConfirmed
    <2> QED BY <1>6, <1>8, <2>3, <2>4 DEF MemoryInv
  <1> QED BY <1>9, <1>10

LEMMA InitRemembers == Init => MemoryInv
  <1> SUFFICES ASSUME Init PROVE MemoryInv
    OBVIOUS
  <1>1. entries = <<>> /\ Len(entries) = 0 /\ entries \in Seq(Entry) /\ Ids = {}
    BY EmptySeq DEF Init, Ids
  <1>2. TypeOK
    <2>1. Len(entries) <= MaxEntries
      BY <1>1, ConstantFacts
    <2> QED BY <1>1, <2>1 DEF Init, TypeOK
  <1> QED BY <1>1, <1>2 DEF Init, MemoryInv, ConfirmedIsSaid, SaidIsConfirmed, OneStands

LEMMA InvKept == MemoryInv /\ [Next]_vars => MemoryInv'
  <1> SUFFICES ASSUME MemoryInv, [Next]_vars PROVE MemoryInv'
    OBVIOUS
  <1>1. CASE \/ \E t \in Tasks : Accept(t) \/ ReportFails(t)
             \/ ConsoleStops \/ ConsoleStarts \/ UNCHANGED vars
    BY <1>1, ServerKept
  <1>2. ASSUME NEW t \in Tasks, GenerateReport(t) PROVE MemoryInv'
    BY <1>2, GenerateReportKept
  <1>3. ASSUME NEW label \in Label, Declare(label) PROVE MemoryInv'
    BY <1>3, DeclareKept
  <1>4. ASSUME NEW i \in Ids,
               \/ Confirm(i) \/ Reject(i) \/ Withdraw(i)
               \/ \E code \in Codes : Replace(i, code)
        PROVE  MemoryInv'
    BY <1>4, ConfirmKept, TakingBackKept, ReplaceKept
  <1> QED BY <1>1, <1>2, <1>3, <1>4 DEF Next

LEMMA MemoryAlways == Spec => []MemoryInv
  BY InitRemembers, InvKept, PTL DEF Spec

-----------------------------------------------------------------------------
(* What the run checks of a person's entries, for every lexicon.           *)

\* The entries, the reports and what the person said keep their types.
THEOREM TypesHold == Spec => []TypeOK
  BY MemoryAlways, PTL DEF MemoryInv

LEMMA ShownFollows == MemoryInv => ShownIsSaid
  <1> SUFFICES ASSUME MemoryInv, NEW topic \in Topics
               PROVE  /\ Shown(topic) = IF said[topic] = Silence THEN {}
                                        ELSE {said[topic]}
                      /\ \A i, j \in Ids :
                            /\ About(i) = topic /\ Has(i, {"CONFIRMED"})
                            /\ About(j) = topic /\ Has(j, {"CONFIRMED"})
                            => i = j
    BY DEF ShownIsSaid
  <1>1. \A i, j \in Ids :
            /\ About(i) = topic /\ Has(i, {"CONFIRMED"})
            /\ About(j) = topic /\ Has(j, {"CONFIRMED"})
            => i = j
    BY DEF MemoryInv, OneStands, Confirmed
  <1>2. \A i \in Ids : About(i) = topic /\ Has(i, {"CONFIRMED"}) =>
            entries[i].label.code = said[topic] /\ said[topic] # Silence
    BY EntryFacts, ConstantFacts DEF MemoryInv, ConfirmedIsSaid, Confirmed
  <1>3. said[topic] # Silence =>
            \E i \in Ids : About(i) = topic /\ Has(i, {"CONFIRMED"})
    BY DEF MemoryInv, SaidIsConfirmed, Confirmed
  <1>4. CASE said[topic] = Silence
    BY <1>1, <1>2, <1>4 DEF Shown
  <1>5. CASE said[topic] # Silence
    <2>1. Shown(topic) = {said[topic]}
      BY <1>2, <1>3, <1>5 DEF Shown
    <2> QED BY <1>1, <1>5, <2>1
  <1> QED BY <1>4, <1>5

\* A colleague is shown what the person last let stand on a topic, and only
\* that, whatever drafts, old pages, restatements and restarts come between
\* (declare_collaboration_memory, decide_collaboration_memory,
\* build_collaboration_hint_context).
THEOREM ColleaguesSeeWhatStands == Spec => []ShownIsSaid
  BY MemoryAlways, ShownFollows, PTL

LEMMA AnsweredIsLeft ==
  ASSUME MemoryInv, [Next]_vars, NEW i \in Ids, Has(i, {"REJECTED", "SUPERSEDED"})
  PROVE  entries'[i] = entries[i]
  <1>0. /\ TypeOK /\ entries \in [Ids -> Entry]
        /\ Len(entries) \in Nat /\ Ids = 1 .. Len(entries)
    BY EntryFacts DEF MemoryInv
  <1>1. ~Has(i, {"PRIVATE_DRAFT", "CONFIRMED"}) /\ ~Has(i, {"CONFIRMED"})
        /\ ~Has(i, {"PRIVATE_DRAFT"})
    BY DEF Has
  <1>2. CASE \/ \E t \in Tasks : Accept(t) \/ ReportFails(t)
             \/ ConsoleStops \/ ConsoleStarts \/ UNCHANGED vars
    BY <1>2 DEF Accept, ReportFails, ConsoleStops, ConsoleStarts, vars
  <1>3. ASSUME NEW t \in Tasks, GenerateReport(t) PROVE entries'[i] = entries[i]
    <2>1. PICK found \in DraftLabels, n \in 0 .. MaxEntries - Len(entries) :
              \E drafts \in DraftsOf(found, n) : entries' = entries \o drafts
      BY <1>3 DEF GenerateReport
    <2>2. PICK drafts \in DraftsOf(found, n) : entries' = entries \o drafts
      BY <2>1
    <2>3. PICK order \in [1 .. n -> found] : drafts = [k \in 1 .. n |-> Draft(order[k])]
      BY DEF DraftsOf
    <2>4. drafts \in Seq(Entry)
      <3>1. \A k \in 1 .. n : Draft(order[k]) \in Entry
        <4>1. \A k \in 1 .. n : order[k] \in Label
          BY DEF DraftLabels, Label, Topics
        <4> QED BY <4>1 DEF Draft, Entry
      <3>2. n \in Nat
        BY <1>0, ConstantFacts
      <3> QED BY <2>3, <3>1, <3>2
    <2>5. entries \in Seq(Entry)
      BY <1>0 DEF TypeOK
    <2> QED BY <1>0, <2>2, <2>4, <2>5, ConcatProperties
  <1>4. ASSUME NEW topic, NEW statuses \in {{"CONFIRMED"}, {"PRIVATE_DRAFT", "CONFIRMED"}},
               NEW label, NEW origin,
               entries' = Append(Superseding(topic, statuses), Written(label, origin))
        PROVE  entries'[i] = entries[i]
    <2>0. PICK old : old = Superseding(topic, statuses)
      OBVIOUS
    <2>1. ~Has(i, statuses)
      BY <1>1
    <2>2. old \in [Ids -> Entry] /\ old[i] = entries[i]
      BY <1>0, <2>0, <2>1, SupersedingFacts
    <2>3. old \in Seq(Entry) /\ Len(old) = Len(entries)
      BY <1>0, <2>2, InPlace
    <2>4. entries' = Append(old, Written(label, origin))
      BY <1>4, <2>0
    <2> QED BY <1>0, <2>2, <2>3, <2>4
  <1>5. ASSUME NEW label \in Label, Declare(label) PROVE entries'[i] = entries[i]
    BY <1>4, <1>5 DEF Declare
  <1>6. ASSUME NEW j \in Ids, NEW code \in Codes, Replace(j, code)
        PROVE  entries'[i] = entries[i]
    BY <1>4, <1>6 DEF Replace
  <1>7. ASSUME NEW j \in Ids, Confirm(j) PROVE entries'[i] = entries[i]
    <2>1. j # i /\ entries' = [Superseding(About(j), {"CONFIRMED"}) EXCEPT
                                  ![j].status = "CONFIRMED"]
      BY <1>1, <1>7 DEF Confirm, Confirmable
    <2>2. /\ Superseding(About(j), {"CONFIRMED"}) \in [Ids -> Entry]
          /\ Superseding(About(j), {"CONFIRMED"})[i] = entries[i]
      BY <1>0, <1>1, SupersedingFacts
    <2> QED BY <2>1, <2>2
  <1>8. ASSUME NEW j \in Ids, Reject(j) \/ Withdraw(j) PROVE entries'[i] = entries[i]
    BY <1>0, <1>1, <1>8 DEF Reject, Withdraw
  <1> QED BY <1>2, <1>3, <1>5, <1>6, <1>7, <1>8 DEF Next

\* An entry that was declined, withdrawn or replaced keeps that answer,
\* whoever clicks what on a page of any age (decide_collaboration_memory,
\* declare_collaboration_memory, generate_task_collaboration_artifacts).
THEOREM AnswersStay == Spec => AnswersAreFinal
  <1>1. MemoryInv /\ [Next]_vars =>
            [\A i \in Ids : Has(i, {"REJECTED", "SUPERSEDED"}) =>
                 entries'[i] = entries[i]]_vars
    BY AnsweredIsLeft
  <1> QED BY MemoryAlways, <1>1, PTL DEF Spec, AnswersAreFinal
=============================================================================
