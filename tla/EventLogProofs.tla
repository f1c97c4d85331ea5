--------------------------- MODULE EventLogProofs ---------------------------
(***************************************************************************)
(* Proofs about EventLog for any number of clients, events and crashes and *)
(* whichever I/O operations fail.                                          *)
(***************************************************************************)
EXTENDS EventLog, WellFoundedInduction, TLAPS

\* The types of what the daemon and its file hold.
LogTypes ==
  /\ disk \in Seq(Line)
  /\ events \in Seq(Entry)
  /\ nextSeq \in Nat
  /\ published \in Nat

LogInv == LogTypes /\ SeqIsFresh

\* The sequence numbers of es ascend.
Ascending(es) == \A i, j \in DOMAIN es : i < j => es[i].seq < es[j].seq

\* The sequence numbers of es are below n.
Below(es, n) == \A i \in DOMAIN es : es[i].seq < n

\* Records of the two kinds.
LEMMA RecordTypes ==
  ASSUME NEW n \in Nat, NEW e \in Nat
  PROVE  /\ [seq |-> n, event |-> e] \in Entry
         /\ from_entry([seq |-> n, event |-> e]) \in Line
         /\ from_entry([seq |-> n, event |-> e]).seq = n
         /\ \A b \in BOOLEAN :
              /\ [from_entry([seq |-> n, event |-> e]) EXCEPT !.torn = b] \in Line
              /\ [from_entry([seq |-> n, event |-> e]) EXCEPT !.torn = b].seq = n
BY DEF Entry, Line, from_entry

\* The elements of a log are entries, those of the file are lines.
LEMMA Elements ==
  ASSUME NEW S, NEW es \in Seq(S)
  PROVE  DOMAIN es = 1 .. Len(es) /\ Len(es) \in Nat /\ \A i \in DOMAIN es : es[i] \in S
OBVIOUS

\* A function on an initial segment is a sequence.
LEMMA FiniteIsSeq ==
  ASSUME NEW S, NEW L \in Nat, NEW f \in [1 .. L -> S]
  PROVE  f \in Seq(S) /\ Len(f) = L /\ DOMAIN f = 1 .. L
OBVIOUS

\* Sequence numbers are natural numbers.
LEMMA SeqNumbers ==
  ASSUME LogTypes
  PROVE  /\ \A i \in DOMAIN events : events[i] \in Entry /\ events[i].seq \in Nat
         /\ \A i \in DOMAIN disk : disk[i] \in Line /\ disk[i].seq \in Nat
<1>1. /\ \A i \in DOMAIN events : events[i] \in Entry
      /\ \A i \in DOMAIN disk : disk[i] \in Line
  BY Elements DEF LogTypes
<1>2. (\A e \in Entry : e.seq \in Nat) /\ (\A l \in Line : l.seq \in Nat)
  BY DEF Entry, Line
<1> QED BY <1>1, <1>2

\* Appending a fresh number keeps the order.
LEMMA AppendAscends ==
  ASSUME NEW S, NEW es \in Seq(S), NEW n \in Nat, NEW e \in S, e.seq = n,
         \A i \in DOMAIN es : es[i].seq \in Nat,
         Ascending(es), Below(es, n)
  PROVE  Append(es, e) \in Seq(S) /\ Ascending(Append(es, e)) /\ Below(Append(es, e), n + 1)
<1>1. /\ Append(es, e) \in Seq(S)
      /\ Len(Append(es, e)) = Len(es) + 1
      /\ DOMAIN Append(es, e) = 1 .. (Len(es) + 1) /\ DOMAIN es = 1 .. Len(es)
      /\ \A i \in 1 .. Len(es) : Append(es, e)[i] = es[i]
      /\ Append(es, e)[Len(es) + 1] = e
      /\ Len(es) \in Nat
  OBVIOUS
<1>2. \A i \in DOMAIN Append(es, e) : i = Len(es) + 1 \/ i \in DOMAIN es
  BY <1>1
<1>3. Below(Append(es, e), n + 1)
  BY <1>1, <1>2 DEF Below
<1>4. Ascending(Append(es, e))
  BY <1>1, <1>2 DEF Ascending, Below
<1> QED BY <1>1, <1>3, <1>4

\* A part of an ascending log ascends.
LEMMA PartAscends ==
  ASSUME NEW S, NEW es \in Seq(S), NEW n, Ascending(es), Below(es, n),
         NEW a \in Nat \ {0}, NEW b \in Nat, b <= Len(es)
  PROVE  SubSeq(es, a, b) \in Seq(S) /\ Ascending(SubSeq(es, a, b)) /\ Below(SubSeq(es, a, b), n)
<1>1. /\ SubSeq(es, a, b) \in Seq(S)
      /\ DOMAIN SubSeq(es, a, b) \subseteq Nat \ {0}
      /\ \A i \in DOMAIN SubSeq(es, a, b) :
           /\ SubSeq(es, a, b)[i] = es[a + i - 1]
           /\ a + i - 1 \in DOMAIN es
  OBVIOUS
<1>2. Below(SubSeq(es, a, b), n)
  BY <1>1 DEF Below
<1>3. ASSUME NEW i \in DOMAIN SubSeq(es, a, b), NEW j \in DOMAIN SubSeq(es, a, b), i < j
      PROVE  SubSeq(es, a, b)[i].seq < SubSeq(es, a, b)[j].seq
  <2>1. a + i - 1 \in DOMAIN es /\ a + j - 1 \in DOMAIN es /\ a + i - 1 < a + j - 1
    BY <1>1, <1>3
  <2> QED BY <1>1, <2>1 DEF Ascending
<1> QED BY <1>1, <1>2, <1>3 DEF Ascending

\* The invariant in terms of the order of the two copies of the log.
LEMMA FreshMeans ==
  SeqIsFresh <=> /\ Ascending(events) /\ Ascending(disk)
                 /\ up => Below(events, nextSeq) /\ Below(disk, nextSeq)
BY DEF SeqIsFresh, Ascending, Below

\* Compaction drops no more than there is.
LEMMA RetainBounds ==
  ASSUME NEW es \in Seq(Entry), NEW old \in Nat
  PROVE  retain_from_index(es, old) \in 0 .. Len(es)
<1>1. Len(es) \in Nat
  OBVIOUS
<1> QED BY <1>1, MinEventsPositive DEF retain_from_index

\* An append, whether its sync or its compaction fails or not, keeps the log
\* in order.
LEMMA PushKeeps ==
  ASSUME LogInv, up, up' = up, nextSeq' = nextSeq + 1, published' = published + 1,
         NEW b \in BOOLEAN, NEW entry, entry = [seq |-> nextSeq, event |-> published + 1],
         \/ events' = Append(events, entry)
         \/ \E n \in 0 .. Len(Append(events, entry)) :
              events' = SubSeq(Append(events, entry), 1, n),
         disk' = Append(disk, [from_entry(entry) EXCEPT !.torn = b])
  PROVE  LogInv'
<1>1. /\ entry \in Entry /\ entry.seq = nextSeq
      /\ [from_entry(entry) EXCEPT !.torn = b] \in Line
      /\ [from_entry(entry) EXCEPT !.torn = b].seq = nextSeq
  <2>1. nextSeq \in Nat /\ published + 1 \in Nat
    BY DEF LogInv, LogTypes
  <2>2. entry.seq = nextSeq
    OBVIOUS
  <2> QED BY <2>1, <2>2, RecordTypes
<1>2. /\ Ascending(events) /\ Below(events, nextSeq)
      /\ Ascending(disk) /\ Below(disk, nextSeq)
  BY FreshMeans DEF LogInv
<1>3. /\ \A i \in DOMAIN events : events[i].seq \in Nat
      /\ \A i \in DOMAIN disk : disk[i].seq \in Nat
  BY SeqNumbers DEF LogInv
<1>4. /\ Append(events, entry) \in Seq(Entry) /\ Ascending(Append(events, entry))
      /\ Below(Append(events, entry), nextSeq + 1)
  BY <1>1, <1>2, <1>3, AppendAscends DEF LogInv, LogTypes
<1>5. disk' \in Seq(Line) /\ Ascending(disk') /\ Below(disk', nextSeq + 1)
  BY <1>1, <1>2, <1>3, AppendAscends DEF LogInv, LogTypes
<1>6. events' \in Seq(Entry) /\ Ascending(events') /\ Below(events', nextSeq + 1)
  <2>1. CASE events' = Append(events, entry)
    BY <1>4, <2>1
  <2>2. CASE events' # Append(events, entry)
    <3>1. PICK n \in 0 .. Len(Append(events, entry)) :
            events' = SubSeq(Append(events, entry), 1, n)
      BY <2>2
    <3> DEFINE pushed == Append(events, entry)
    <3>2. /\ pushed \in Seq(Entry) /\ Ascending(pushed) /\ Below(pushed, nextSeq + 1)
          /\ events' = SubSeq(pushed, 1, n) /\ n \in 0 .. Len(pushed)
      BY <1>4, <3>1
    <3> HIDE DEF pushed
    <3>3. n \in Nat /\ n <= Len(pushed)
      BY <3>2, Elements
    <3>4. /\ SubSeq(pushed, 1, n) \in Seq(Entry) /\ Ascending(SubSeq(pushed, 1, n))
          /\ Below(SubSeq(pushed, 1, n), nextSeq + 1)
      BY <3>2, <3>3, PartAscends
    <3> QED BY <3>2, <3>4
  <2> QED BY <2>1, <2>2
<1>7. LogTypes'
  BY <1>5, <1>6 DEF LogInv, LogTypes
<1>8. SeqIsFresh'
  <2>1. Ascending(events)' /\ Ascending(disk)'
    BY <1>5, <1>6 DEF Ascending
  <2>2. Below(events, nextSeq)' /\ Below(disk, nextSeq)'
    BY <1>5, <1>6 DEF Below
  <2> QED BY <2>1, <2>2 DEF SeqIsFresh, Ascending, Below
<1> QED BY <1>7, <1>8 DEF LogInv

\* Every step of Next keeps the log in order.
LEMMA LogStep == LogInv /\ [Next]_vars => LogInv'
<1> SUFFICES ASSUME LogInv, [Next]_vars PROVE LogInv'
  OBVIOUS
<1>1. CASE open
  <2>1. /\ up' = TRUE /\ UNCHANGED <<disk, published>>
        /\ events' = [i \in DOMAIN disk |-> into_entry(disk[i])]
        /\ nextSeq' = seq_after(disk)
    BY <1>1 DEF open
  <2>2. /\ disk \in Seq(Line) /\ DOMAIN disk = 1 .. Len(disk) /\ Len(disk) \in Nat
        /\ \A i \in DOMAIN disk : disk[i] \in Line /\ disk[i].seq \in Nat
    BY SeqNumbers, Elements DEF LogInv, LogTypes
  <2>3. /\ events' \in Seq(Entry) /\ DOMAIN events' = DOMAIN disk
        /\ \A i \in DOMAIN disk : events'[i].seq = disk[i].seq
    <3>1. \A i \in DOMAIN disk : into_entry(disk[i]) \in Entry
                                 /\ into_entry(disk[i]).seq = disk[i].seq
      BY <2>2 DEF into_entry, Entry, Line
    <3>2. events' \in [1 .. Len(disk) -> Entry]
      BY <2>1, <2>2, <3>1
    <3> QED BY <2>1, <2>2, <3>1, <3>2
  <2>4. nextSeq' \in Nat /\ \A i \in DOMAIN disk : disk[i].seq < nextSeq'
    <3>1. CASE disk = <<>>
      BY <2>1, <2>2, <3>1 DEF seq_after
    <3>2. CASE disk # <<>>
      <4>1. Len(disk) \in DOMAIN disk /\ nextSeq' = disk[Len(disk)].seq + 1
        BY <2>1, <2>2, <3>2 DEF seq_after
      <4>2. \A i \in DOMAIN disk : i = Len(disk) \/ disk[i].seq < disk[Len(disk)].seq
        BY <2>2, <4>1 DEF LogInv, SeqIsFresh
      <4> QED BY <2>2, <4>1, <4>2
    <3> QED BY <3>1, <3>2
  <2>5. LogTypes'
    BY <2>1, <2>3, <2>4 DEF LogInv, LogTypes
  <2>6. SeqIsFresh'
    BY <2>1, <2>3, <2>4 DEF LogInv, SeqIsFresh
  <2> QED BY <2>5, <2>6 DEF LogInv
<1>2. ASSUME NEW old \in Nat, append(old) PROVE LogInv'
  <2> DEFINE entry == [seq |-> nextSeq, event |-> published + 1]
             pushed == Append(events, entry)
             n == retain_from_index(pushed, old)
  <2>1. up /\ up' = up /\ nextSeq' = nextSeq + 1 /\ published' = published + 1
    BY <1>2 DEF append
  <2>2. CASE n > 0
    <3>1. /\ entry \in Entry /\ entry.seq = nextSeq
      BY RecordTypes DEF LogInv, LogTypes
    <3>2. /\ Ascending(events) /\ Below(events, nextSeq)
          /\ \A i \in DOMAIN events : events[i].seq \in Nat
      BY <2>1, FreshMeans, SeqNumbers DEF LogInv
    <3>3. pushed \in Seq(Entry) /\ Ascending(pushed) /\ Below(pushed, nextSeq + 1)
      BY <3>1, <3>2, AppendAscends DEF LogInv, LogTypes
    <3>4. compact(pushed, n)
      BY <1>2, <2>2 DEF append
    <3>5. n \in 0 .. Len(pushed) /\ Len(pushed) \in Nat
      <4>1. Len(pushed) \in Nat
        BY <3>3, Elements
      <4> HIDE DEF pushed
      <4> QED BY <1>2, <3>3, <4>1, RetainBounds
    <3> DEFINE retained == SubSeq(pushed, n + 1, Len(pushed))
    <3> HIDE DEF pushed, n
    <3>6. retained \in Seq(Entry) /\ Ascending(retained) /\ Below(retained, nextSeq + 1)
      BY <3>3, <3>5, PartAscends
    <3>7. events' = retained /\ disk' = [i \in DOMAIN retained |-> from_entry(retained[i])]
      BY <3>4 DEF compact
    <3> HIDE DEF retained
    <3>8. \A i \in DOMAIN retained : from_entry(retained[i]) \in Line
                                     /\ from_entry(retained[i]).seq = retained[i].seq
      <4>1. \A i \in DOMAIN retained : retained[i] \in Entry
        BY <3>6, Elements
      <4>2. \A e \in Entry : from_entry(e) \in Line /\ from_entry(e).seq = e.seq
        BY DEF from_entry, Entry, Line
      <4> QED BY <4>1, <4>2
    <3>9. disk' \in Seq(Line)
      <4>1. disk' \in [1 .. Len(retained) -> Line] /\ Len(retained) \in Nat
        BY <3>6, <3>7, <3>8
      <4> QED BY <4>1
    <3>10. LogTypes'
      BY <2>1, <3>6, <3>7, <3>9 DEF LogInv, LogTypes
    <3>11. SeqIsFresh'
      BY <2>1, <3>6, <3>7, <3>8 DEF SeqIsFresh, Ascending, Below
    <3> QED BY <3>10, <3>11 DEF LogInv
  <2>3. CASE ~(n > 0)
    <3>1. events' = pushed /\ disk' = Append(disk, [from_entry(entry) EXCEPT
                                                     !.torn = (tail = "partial")])
      BY <1>2, <2>3 DEF append
    <3> QED BY <2>1, <3>1, PushKeeps
  <2> QED BY <2>2, <2>3
<1>3. CASE append_sync_fails
  BY <1>3, PushKeeps DEF append_sync_fails
<1>4. ASSUME NEW old \in Nat, append_compact_fails(old) PROVE LogInv'
  <2> DEFINE entry == [seq |-> nextSeq, event |-> published + 1]
             pushed == Append(events, entry)
             n == retain_from_index(pushed, old)
  <2>1. /\ up /\ up' = up /\ nextSeq' = nextSeq + 1 /\ published' = published + 1
        /\ events' = SubSeq(pushed, 1, n)
        /\ disk' = Append(disk, [from_entry(entry) EXCEPT !.torn = (tail = "partial")])
    BY <1>4 DEF append_compact_fails
  <2>2. pushed \in Seq(Entry)
    BY RecordTypes DEF LogInv, LogTypes
  <2>3. n \in 0 .. Len(pushed)
    BY <2>2, RetainBounds
  <2> QED BY <2>1, <2>3, PushKeeps
<1>5. CASE append_write_fails
  <2>1. /\ up /\ nextSeq' = nextSeq + 1
        /\ UNCHANGED <<up, disk, events, published>>
    BY <1>5 DEF append_write_fails
  <2>2. /\ nextSeq \in Nat
        /\ \A i \in DOMAIN events : events[i].seq \in Nat
        /\ \A i \in DOMAIN disk : disk[i].seq \in Nat
    BY SeqNumbers DEF LogInv, LogTypes
  <2>3. LogTypes'
    BY <2>1 DEF LogInv, LogTypes
  <2>4. SeqIsFresh'
    BY <2>1, <2>2 DEF LogInv, SeqIsFresh
  <2> QED BY <2>3, <2>4 DEF LogInv
<1>6. CASE crash
  BY <1>6 DEF crash, LogInv, LogTypes, SeqIsFresh
<1>7. CASE UNCHANGED <<up, disk, events, nextSeq, published>>
  BY <1>7 DEF LogInv, LogTypes, SeqIsFresh
<1>8. CASE notify_waiters \/ (\E c \in Client : Reading(c)) \/ UNCHANGED vars
  <2>1. UNCHANGED <<up, disk, events, nextSeq, published>>
    BY <1>8 DEF notify_waiters, Reading, events_since, register, second_check, notified,
                wait_elapsed, wait_for_disconnect, daemonVars, vars
  <2> QED BY <1>7, <2>1
<1> QED
  <2>1. \A old \in 0 .. Len(events) + 1 : old \in Nat
    BY DEF LogInv, LogTypes
  <2> QED BY <1>1, <1>2, <1>3, <1>4, <1>5, <1>6, <1>8, <2>1 DEF Next, Writing

\* No sequence number is ever given to two events and the numbers of the file and
\* of the memory ascend, for any number of events, clients and crashes, whichever
\* writes, syncs and compactions fail.
THEOREM SequenceNumbersAreFresh == Spec => []SeqIsFresh
<1>1. Init => LogInv
  BY DEF Init, LogInv, LogTypes, SeqIsFresh
<1>2. LogInv /\ [Next]_vars => LogInv'
  BY LogStep
<1>3. LogInv => SeqIsFresh
  BY DEF LogInv
<1> QED BY <1>1, <1>2, <1>3, PTL DEF Spec
-----------------------------------------------------------------------------
(* Type correctness.  A reader's cursor is a number because sequence       *)
(* numbers start at 1 and because a read finds its place in the log.       *)

\* Every set of natural numbers that is not empty has a least element.
LEMMA LeastNumber ==
  ASSUME NEW T, T \subseteq Nat, T # {}
  PROVE  \E x \in T : \A y \in T : x <= y
<1> DEFINE R == {ss \in Nat \X Nat : ss[1] < ss[2]}
<1>1. IsWellFoundedOn(R, Nat)
  BY NatLessThanWellFounded DEF OpToRel
<1> HIDE DEF R
<1>2. PICK x \in T : \A y \in T : ~ (<<y, x>> \in R)
  BY <1>1, WFMin
<1>3. \A y \in T : ~(y < x)
  BY <1>2 DEF R
<1> QED BY <1>3

\* A read finds its place: the entries up to the cursor are a prefix.
LEMMA ReadFindsPlace ==
  ASSUME NEW since \in Nat, events \in Seq(Entry), Ascending(events)
  PROVE  /\ read_up_to(since) \in 0 .. Len(events)
         /\ \A i \in DOMAIN events : (i <= read_up_to(since)) <=> (events[i].seq <= since)
<1> DEFINE P(n) == \A i \in DOMAIN events : (i <= n) <=> (events[i].seq <= since)
           T == {k \in Nat : \/ k = Len(events) + 1
                             \/ k \in DOMAIN events /\ events[k].seq > since}
<1>1. Len(events) \in Nat /\ DOMAIN events = 1 .. Len(events)
  BY Elements
<1>2. \A i \in DOMAIN events : events[i].seq \in Nat
  <2>1. \A e \in Entry : e.seq \in Nat
    BY DEF Entry
  <2> QED BY <2>1, Elements
<1>3. PICK m \in T : \A k \in T : m <= k
  <2>1. Len(events) + 1 \in T /\ T \subseteq Nat
    BY <1>1
  <2> HIDE DEF T
  <2> QED BY <2>1, LeastNumber
<1>4. m \in 1 .. (Len(events) + 1)
  BY <1>1
<1>5. m - 1 \in 0 .. Len(events)
  BY <1>1, <1>4
<1>6. P(m - 1)
  <2> SUFFICES ASSUME NEW i \in DOMAIN events
               PROVE  (i <= m - 1) <=> (events[i].seq <= since)
    OBVIOUS
  <2>1. i \in Nat /\ events[i].seq \in Nat /\ m \in Nat
    BY <1>1, <1>2, <1>4
  <2>2. CASE i < m
    <3>1. i \notin T
      BY <1>3, <2>1, <2>2
    <3> QED BY <2>1, <2>2, <3>1
  <2>3. CASE ~(i < m)
    <3>1. m \in DOMAIN events /\ events[m].seq > since
      BY <1>1, <1>3, <2>1, <2>3
    <3>2. i = m \/ events[m].seq < events[i].seq
      BY <2>1, <2>3, <3>1 DEF Ascending
    <3> QED BY <1>2, <2>1, <2>3, <3>1, <3>2
  <2> QED BY <2>2, <2>3
<1>7. \E n \in 0 .. Len(events) : P(n)
  BY <1>5, <1>6
<1> HIDE DEF P
<1>8. (CHOOSE n \in 0 .. Len(events) : P(n)) \in 0 .. Len(events)
      /\ P(CHOOSE n \in 0 .. Len(events) : P(n))
  BY <1>7
<1> QED BY <1>8 DEF P, read_up_to

\* Numbers start at 1.
Positive ==
  /\ nextSeq >= 1
  /\ \A i \in DOMAIN events : events[i].seq >= 1
  /\ \A i \in DOMAIN disk : disk[i].seq >= 1

LogTypeInv == TypeOK /\ SeqIsFresh /\ Positive

\* A cursor that an answer gives is a number and so are its events.
LEMMA AnswerTypes ==
  ASSUME LogTypeInv, NEW since \in Nat
  PROVE  /\ oldest_valid_cursor \in Nat /\ page_cursor(since) \in Nat
         /\ [i \in DOMAIN after(since) |-> after(since)[i].event] \in Seq(Nat)
<1>1. events \in Seq(Entry) /\ Len(events) \in Nat /\ DOMAIN events = 1 .. Len(events)
      /\ Ascending(events)
  BY Elements, FreshMeans DEF LogTypeInv, TypeOK
<1>2. \A i \in DOMAIN events : events[i] \in Entry /\ events[i].seq \in Nat
                               /\ events[i].event \in Nat /\ events[i].seq >= 1
  <2>1. \A e \in Entry : e.seq \in Nat /\ e.event \in Nat
    BY DEF Entry
  <2> QED BY <1>1, <2>1, Elements DEF LogTypeInv, Positive
<1>3. oldest_valid_cursor \in Nat /\ page_cursor(since) \in Nat
  <2>1. CASE events = <<>>
    BY <2>1 DEF oldest_valid_cursor, page_cursor
  <2>2. CASE events # <<>>
    <3>1. 1 \in DOMAIN events /\ Len(events) \in DOMAIN events
      BY <1>1, <2>2
    <3> QED BY <1>2, <2>2, <3>1 DEF oldest_valid_cursor, page_cursor
  <2> QED BY <2>1, <2>2
<1> DEFINE n == read_up_to(since)
           evs == SubSeq(events, n + 1, Len(events))
<1>6. n \in 0 .. Len(events)
  BY <1>1, ReadFindsPlace
<1> HIDE DEF n
<1>7. evs \in Seq(Entry) /\ Len(evs) \in Nat /\ DOMAIN evs = 1 .. Len(evs)
  <2>1. n + 1 \in Nat \ {0}
    BY <1>1, <1>6
  <2>2. evs \in Seq(Entry)
    BY <1>1, <2>1
  <2> HIDE DEF evs
  <2> QED BY <2>2, Elements
<1>8. \A i \in DOMAIN evs : evs[i].event \in Nat
  <2>1. \A e \in Entry : e.event \in Nat
    BY DEF Entry
  <2> HIDE DEF evs
  <2>2. \A i \in DOMAIN evs : evs[i] \in Entry
    BY <1>7, Elements
  <2> QED BY <2>1, <2>2
<1>9. [i \in DOMAIN evs |-> evs[i].event] \in Seq(Nat)
  <2> HIDE DEF evs
  <2>1. [i \in DOMAIN evs |-> evs[i].event] \in [1 .. Len(evs) -> Nat]
    BY <1>7, <1>8
  <2> QED BY <1>7, <2>1, FiniteIsSeq
<1> QED BY <1>3, <1>9 DEF after, n
\* An append keeps numbers above 0, whether or not part of the log is dropped.
FromOne(es) == \A i \in DOMAIN es : es[i].seq >= 1

LEMMA AppendFromOne ==
  ASSUME NEW S, NEW es \in Seq(S), NEW e \in S, FromOne(es), e.seq >= 1
  PROVE  Append(es, e) \in Seq(S) /\ FromOne(Append(es, e))
<1>1. /\ Append(es, e) \in Seq(S)
      /\ DOMAIN Append(es, e) = 1 .. (Len(es) + 1) /\ DOMAIN es = 1 .. Len(es)
      /\ \A i \in 1 .. Len(es) : Append(es, e)[i] = es[i]
      /\ Append(es, e)[Len(es) + 1] = e /\ Len(es) \in Nat
  OBVIOUS
<1>2. \A i \in DOMAIN Append(es, e) : i = Len(es) + 1 \/ i \in DOMAIN es
  BY <1>1
<1> QED BY <1>1, <1>2 DEF FromOne

LEMMA PartFromOne ==
  ASSUME NEW S, NEW es \in Seq(S), FromOne(es),
         NEW a \in Nat \ {0}, NEW b \in Nat, b <= Len(es)
  PROVE  SubSeq(es, a, b) \in Seq(S) /\ FromOne(SubSeq(es, a, b))
<1>1. /\ SubSeq(es, a, b) \in Seq(S)
      /\ \A i \in DOMAIN SubSeq(es, a, b) :
           SubSeq(es, a, b)[i] = es[a + i - 1] /\ a + i - 1 \in DOMAIN es
  OBVIOUS
<1> QED BY <1>1 DEF FromOne

\* The parts of the invariant that every step of Writing keeps.
LEMMA PositiveStep ==
  ASSUME LogTypeInv, Writing
  PROVE  Positive'
<1>1. /\ disk \in Seq(Line) /\ events \in Seq(Entry) /\ nextSeq \in Nat /\ published \in Nat
      /\ nextSeq >= 1 /\ FromOne(events) /\ FromOne(disk)
  BY DEF LogTypeInv, TypeOK, Positive, FromOne
<1> DEFINE entry == [seq |-> nextSeq, event |-> published + 1]
           pushed == Append(events, entry)
<1>2. /\ entry \in Entry /\ entry.seq >= 1
      /\ \A b \in BOOLEAN : /\ [from_entry(entry) EXCEPT !.torn = b] \in Line
                            /\ [from_entry(entry) EXCEPT !.torn = b].seq >= 1
  <2>1. nextSeq \in Nat /\ published + 1 \in Nat
    BY <1>1
  <2>2. entry.seq >= 1
    BY <1>1
  <2> QED BY <1>1, <2>1, <2>2, RecordTypes
<1>3. pushed \in Seq(Entry) /\ FromOne(pushed)
  <2> HIDE DEF entry
  <2> QED BY <1>1, <1>2, AppendFromOne
<1>4. \A b \in BOOLEAN : FromOne(Append(disk, [from_entry(entry) EXCEPT !.torn = b]))
  BY <1>1, <1>2, AppendFromOne
<1>5. \A old \in 0 .. Len(events) + 1 : retain_from_index(pushed, old) \in 0 .. Len(pushed)
  <2>1. \A old \in 0 .. Len(events) + 1 : old \in Nat
    BY <1>1
  <2> HIDE DEF pushed
  <2> QED BY <1>3, <2>1, RetainBounds
<1>6. ASSUME nextSeq' = nextSeq + 1, FromOne(events'), FromOne(disk') PROVE Positive'
  BY <1>1, <1>6 DEF Positive, FromOne
<1>7. CASE open
  <2>1. /\ UNCHANGED disk /\ nextSeq' = seq_after(disk)
        /\ events' = [i \in DOMAIN disk |-> into_entry(disk[i])]
    BY <1>7 DEF open
  <2>2. \A i \in DOMAIN disk : into_entry(disk[i]).seq = disk[i].seq
    BY DEF into_entry
  <2>3. nextSeq' >= 1
    <3>1. CASE disk = <<>>
      BY <2>1, <3>1 DEF seq_after
    <3>2. CASE disk # <<>>
      <4>1. Len(disk) \in DOMAIN disk
        BY <1>1, <3>2, Elements
      <4>2. disk[Len(disk)].seq \in Nat
        BY <4>1, SeqNumbers DEF LogTypeInv, TypeOK, LogTypes
      <4> QED BY <2>1, <3>2, <4>2 DEF seq_after
    <3> QED BY <3>1, <3>2
  <2> QED BY <1>1, <2>1, <2>2, <2>3 DEF Positive, FromOne
<1>8. CASE notify_waiters
  BY <1>1, <1>8 DEF notify_waiters, Positive, FromOne
<1>9. CASE crash
  BY <1>1, <1>9 DEF crash, Positive, FromOne
<1>10. CASE append_write_fails
  BY <1>1, <1>10 DEF append_write_fails, Positive, FromOne
<1>11. CASE append_sync_fails
  <2>1. /\ nextSeq' = nextSeq + 1 /\ events' = pushed
        /\ disk' = Append(disk, [from_entry(entry) EXCEPT !.torn = (tail = "partial")])
    BY <1>11 DEF append_sync_fails
  <2>2. FromOne(events') /\ FromOne(disk')
    BY <1>3, <1>4, <2>1
  <2> QED BY <1>1, <1>6, <2>1, <2>2
<1>12. ASSUME NEW old \in 0 .. Len(events) + 1, append_compact_fails(old)
       PROVE  Positive'
  <2> DEFINE n == retain_from_index(pushed, old)
  <2>1. /\ nextSeq' = nextSeq + 1 /\ events' = SubSeq(pushed, 1, n)
        /\ disk' = Append(disk, [from_entry(entry) EXCEPT !.torn = (tail = "partial")])
    BY <1>12 DEF append_compact_fails
  <2>2. n \in Nat /\ n <= Len(pushed)
    BY <1>3, <1>5, Elements
  <2> HIDE DEF n, pushed
  <2>3. FromOne(SubSeq(pushed, 1, n))
    BY <1>3, <2>2, PartFromOne
  <2>4. FromOne(disk')
    BY <1>4, <2>1
  <2> QED BY <1>1, <1>6, <2>1, <2>3, <2>4
<1>13. ASSUME NEW old \in 0 .. Len(events) + 1, append(old)
       PROVE  Positive'
  <2> DEFINE n == retain_from_index(pushed, old)
             retained == SubSeq(pushed, n + 1, Len(pushed))
  <2>1. nextSeq' = nextSeq + 1
    BY <1>13 DEF append
  <2>2. CASE n > 0
    <3>1. compact(pushed, n)
      BY <1>13, <2>2 DEF append
    <3>2. n + 1 \in Nat \ {0} /\ Len(pushed) \in Nat
      BY <1>3, <1>5, Elements
    <3> HIDE DEF n, pushed
    <3>3. retained \in Seq(Entry) /\ FromOne(retained)
      BY <1>3, <3>2, PartFromOne
    <3>4. events' = retained /\ disk' = [i \in DOMAIN retained |-> from_entry(retained[i])]
      BY <3>1 DEF compact
    <3> HIDE DEF retained
    <3>5. \A i \in DOMAIN retained : from_entry(retained[i]).seq = retained[i].seq
      BY DEF from_entry
    <3> QED BY <1>1, <2>1, <3>3, <3>4, <3>5 DEF Positive, FromOne
  <2>3. CASE ~(n > 0)
    <3>1. events' = pushed /\ disk' = Append(disk, [from_entry(entry) EXCEPT
                                                     !.torn = (tail = "partial")])
      BY <1>13, <2>3 DEF append
    <3>2. FromOne(events') /\ FromOne(disk')
      BY <1>3, <1>4, <3>1
    <3> QED BY <1>1, <1>6, <2>1, <3>2
  <2> QED BY <2>2, <2>3
<1> QED BY <1>7, <1>8, <1>9, <1>10, <1>11, <1>12, <1>13 DEF Writing
\* Every step of Writing keeps the types.
LEMMA WritingTypes ==
  ASSUME LogTypeInv, Writing
  PROVE  TypeOK'
<1>1. LogInv
  BY DEF LogTypeInv, LogInv, LogTypes, TypeOK
<1>2. LogTypes'
  BY <1>1, LogStep DEF Next, LogInv
<1>3. /\ up \in BOOLEAN /\ tail \in {"clean", "partial"} /\ unnotified \in Nat /\ crashes \in Nat
      /\ request \in [Client -> Request] /\ woken \in SUBSET Client /\ cursor \in [Client -> Nat]
      /\ delivered \in [Client -> Seq(Nat)] /\ expired \in [Client -> Nat]
  BY DEF LogTypeInv, TypeOK
<1>4. NoRequest \in Request
  BY DEF NoRequest, Request
<1>5. UNCHANGED <<cursor, delivered, expired>>
  BY DEF Writing, open, notify_waiters, crash, append_write_fails, append_sync_fails, append,
         append_compact_fails, clientVars
<1>6. up' \in BOOLEAN /\ tail' \in {"clean", "partial"}
  BY <1>3 DEF Writing, open, notify_waiters, crash, append_write_fails, append_sync_fails,
              append, append_compact_fails
<1>7. unnotified' \in Nat /\ crashes' \in Nat
  BY <1>3 DEF Writing, open, notify_waiters, crash, append_write_fails, append_sync_fails,
              append, append_compact_fails
<1>8. request' \in [Client -> Request] /\ woken' \in SUBSET Client
  BY <1>3, <1>4 DEF Writing, open, notify_waiters, crash, append_write_fails,
                    append_sync_fails, append, append_compact_fails, clientVars
<1> QED BY <1>2, <1>3, <1>5, <1>6, <1>7, <1>8 DEF TypeOK, LogTypes

\* Every step of a reader keeps the types.
LEMMA ReadingTypes ==
  ASSUME LogTypeInv, NEW c \in Client, Reading(c)
  PROVE  TypeOK'
<1>1. TypeOK
  BY DEF LogTypeInv
<1>2. /\ request \in [Client -> Request] /\ woken \in SUBSET Client /\ cursor \in [Client -> Nat]
      /\ delivered \in [Client -> Seq(Nat)] /\ expired \in [Client -> Nat]
      /\ cursor[c] \in Nat /\ delivered[c] \in Seq(Nat)
      /\ request[c] \in Request /\ request[c].since \in Nat /\ request[c].page \in Nat
      /\ NoRequest \in Request
  BY <1>1 DEF TypeOK, Request, NoRequest
<1>3. UNCHANGED <<up, disk, tail, events, nextSeq, unnotified, published, crashes>>
  BY DEF Reading, events_since, register, second_check, notified, wait_elapsed,
         wait_for_disconnect, daemonVars
<1>4. ASSUME NEW evs, NEW to \in Nat, [i \in DOMAIN evs |-> evs[i].event] \in Seq(Nat),
             update_cursor(c, evs, to)
      PROVE  /\ request' \in [Client -> Request] /\ woken' \in SUBSET Client
             /\ cursor' \in [Client -> Nat] /\ delivered' \in [Client -> Seq(Nat)]
  <2>1. delivered[c] \o [i \in DOMAIN evs |-> evs[i].event] \in Seq(Nat)
    BY <1>2, <1>4
  <2> QED BY <1>2, <1>4, <2>1 DEF update_cursor
<1>5. [i \in DOMAIN <<>> |-> <<>>[i].event] \in Seq(Nat)
  <2>1. [i \in DOMAIN <<>> |-> <<>>[i].event] = <<>>
    OBVIOUS
  <2> QED BY <2>1
<1>6. ASSUME NEW since \in Nat, answer(c, since) PROVE TypeOK'
  <2>1. /\ oldest_valid_cursor \in Nat /\ page_cursor(since) \in Nat
        /\ [i \in DOMAIN after(since) |-> after(since)[i].event] \in Seq(Nat)
    BY AnswerTypes
  <2>2. expired' \in [Client -> Nat]
    BY <1>2, <1>6, <2>1 DEF answer
  <2>3. \/ update_cursor(c, <<>>, oldest_valid_cursor)
        \/ update_cursor(c, after(since), page_cursor(since))
    BY <1>6 DEF answer
  <2>4. /\ request' \in [Client -> Request] /\ woken' \in SUBSET Client
        /\ cursor' \in [Client -> Nat] /\ delivered' \in [Client -> Seq(Nat)]
    BY <1>4, <1>5, <2>1, <2>3
  <2> QED BY <1>1, <1>3, <2>2, <2>4 DEF TypeOK
<1>7. ASSUME request' \in [Client -> Request], UNCHANGED <<woken, cursor, delivered, expired>>
      PROVE  TypeOK'
  BY <1>1, <1>3, <1>7 DEF TypeOK
<1>8. CASE events_since(c)
  <2>1. CASE answer(c, cursor[c])
    BY <1>2, <1>6, <2>1
  <2>2. CASE ~answer(c, cursor[c])
    <3>1. /\ request' = [request EXCEPT ![c] =
               [pc |-> "checked", since |-> cursor[c], page |-> 0]]
          /\ UNCHANGED <<woken, cursor, delivered, expired>>
      BY <1>8, <2>2 DEF events_since
    <3>2. [pc |-> "checked", since |-> cursor[c], page |-> 0] \in Request
      BY <1>2 DEF Request
    <3> QED BY <1>2, <1>7, <3>1, <3>2
  <2> QED BY <2>1, <2>2
<1>9. CASE register(c)
  <2>1. /\ request' = [request EXCEPT ![c].pc = "registered"]
        /\ UNCHANGED <<woken, cursor, delivered, expired>>
    BY <1>9 DEF register
  <2>2. request' \in [Client -> Request]
    BY <1>2, <2>1 DEF Request
  <2> QED BY <1>7, <2>1, <2>2
<1>10. CASE second_check(c)
  <2> DEFINE since == request[c].since
  <2>1. CASE nothing_new(since)
    <3>1. /\ request' = [request EXCEPT ![c].pc = "waiting", ![c].page = page_cursor(since)]
          /\ UNCHANGED <<woken, cursor, delivered, expired>>
      BY <1>10, <2>1 DEF second_check
    <3>2. page_cursor(since) \in Nat
      BY <1>2, AnswerTypes
    <3>3. request' \in [Client -> Request]
      BY <1>2, <3>1, <3>2 DEF Request
    <3> QED BY <1>7, <3>1, <3>3
  <2>2. CASE ~nothing_new(since)
    BY <1>2, <1>6, <1>10, <2>2 DEF second_check
  <2> QED BY <2>1, <2>2
<1>11. CASE notified(c)
  BY <1>2, <1>6, <1>11 DEF notified
<1>12. CASE wait_elapsed(c)
  <2>1. update_cursor(c, <<>>, request[c].page) /\ UNCHANGED expired
    BY <1>12 DEF wait_elapsed
  <2>2. /\ request' \in [Client -> Request] /\ woken' \in SUBSET Client
        /\ cursor' \in [Client -> Nat] /\ delivered' \in [Client -> Seq(Nat)]
    BY <1>2, <1>4, <1>5, <2>1
  <2> QED BY <1>1, <1>3, <2>1, <2>2 DEF TypeOK
<1>13. CASE wait_for_disconnect(c)
  <2>1. /\ request' \in [Client -> Request] /\ woken' \in SUBSET Client
        /\ UNCHANGED <<cursor, delivered, expired>>
    BY <1>2, <1>13 DEF wait_for_disconnect
  <2> QED BY <1>1, <1>3, <2>1 DEF TypeOK
<1> QED BY <1>8, <1>9, <1>10, <1>11, <1>12, <1>13 DEF Reading

\* Every variable of the log and of its readers keeps its type, whichever I/O
\* operations fail: in particular no cursor is ever below 0 and the filter of
\* events_since always keeps a suffix of the log.
THEOREM LogTypeCorrect == Spec => []TypeOK
<1>1. Init => LogTypeInv
  <2> SUFFICES ASSUME Init PROVE LogTypeInv
    OBVIOUS
  <2>1. NoRequest \in Request
    BY DEF NoRequest, Request
  <2>2. <<>> \in Seq(Nat) /\ <<>> \in Seq(Line) /\ <<>> \in Seq(Entry)
    OBVIOUS
  <2>3. /\ request \in [Client -> Request] /\ cursor \in [Client -> Nat]
        /\ delivered \in [Client -> Seq(Nat)] /\ expired \in [Client -> Nat]
    BY <2>1, <2>2 DEF Init
  <2>4. TypeOK
    BY <2>2, <2>3 DEF Init, TypeOK
  <2>5. SeqIsFresh /\ Positive
    BY DEF Init, SeqIsFresh, Positive
  <2> QED BY <2>4, <2>5 DEF LogTypeInv
<1>2. LogTypeInv /\ [Next]_vars => LogTypeInv'
  <2> SUFFICES ASSUME LogTypeInv, [Next]_vars PROVE LogTypeInv'
    OBVIOUS
  <2>1. SeqIsFresh'
    <3>1. LogInv
      BY DEF LogTypeInv, LogInv, LogTypes, TypeOK
    <3> QED BY <3>1, LogStep DEF LogInv
  <2>2. CASE Writing
    BY <2>1, <2>2, WritingTypes, PositiveStep DEF LogTypeInv
  <2>3. ASSUME NEW c \in Client, Reading(c) PROVE LogTypeInv'
    <3>1. TypeOK'
      BY <2>3, ReadingTypes
    <3>2. UNCHANGED <<disk, events, nextSeq>>
      BY <2>3 DEF Reading, events_since, register, second_check, notified, wait_elapsed,
                  wait_for_disconnect, daemonVars
    <3> QED BY <2>1, <3>1, <3>2 DEF LogTypeInv, Positive
  <2>4. CASE UNCHANGED vars
    BY <2>1, <2>4 DEF vars, daemonVars, clientVars, LogTypeInv, TypeOK, Positive
  <2> QED BY <2>2, <2>3, <2>4 DEF Next
<1>3. LogTypeInv => TypeOK
  BY DEF LogTypeInv
<1> QED BY <1>1, <1>2, <1>3, PTL DEF Spec

-----------------------------------------------------------------------------
(* Memory and file.                                                        *)

\* The entry of the line of an entry.
LEMMA EntryOfLine ==
  ASSUME NEW e \in Entry
  PROVE  /\ into_entry(from_entry(e)) = e
         /\ \A b \in BOOLEAN : into_entry([from_entry(e) EXCEPT !.torn = b]) = e
<1>1. /\ from_entry(e) \in Line
      /\ from_entry(e).seq = e.seq /\ from_entry(e).event = e.event
  BY DEF from_entry, Entry, Line
<1>2. \A b \in BOOLEAN : /\ [from_entry(e) EXCEPT !.torn = b].seq = e.seq
                         /\ [from_entry(e) EXCEPT !.torn = b].event = e.event
  BY DEF from_entry
<1>3. e = [seq |-> e.seq, event |-> e.event]
  BY DEF Entry
<1> QED BY <1>1, <1>2, <1>3 DEF into_entry

\* What the readers see is what a restart would find, through crashes, failed
\* writes and failed syncs, as long as no rewrite of the file fails.
THEOREM MemoryMirrorsFile ==
  ASSUME "compact" \notin Faults
  PROVE  Spec => []MemoryIsFile
<1> DEFINE I == LogInv /\ MemoryIsFile
<1>1. Init => I
  BY DEF Init, LogInv, LogTypes, SeqIsFresh, MemoryIsFile
<1>2. I /\ [Next]_vars => I'
  <2> SUFFICES ASSUME LogInv, MemoryIsFile, [Next]_vars PROVE MemoryIsFile'
    BY LogStep
  <2>1. disk \in Seq(Line) /\ events \in Seq(Entry) /\ nextSeq \in Nat /\ published \in Nat
    BY DEF LogInv, LogTypes
  <2> DEFINE entry == [seq |-> nextSeq, event |-> published + 1]
             pushed == Append(events, entry)
  <2>2. entry \in Entry
    BY <2>1, RecordTypes
  <2>3. ASSUME NEW b \in BOOLEAN, up, events' = pushed,
               disk' = Append(disk, [from_entry(entry) EXCEPT !.torn = b])
        PROVE  MemoryIsFile'
    <3> DEFINE line == [from_entry(entry) EXCEPT !.torn = b]
    <3>1. line \in Line /\ into_entry(line) = entry
      BY <2>1, <2>2, RecordTypes, EntryOfLine
    <3> HIDE DEF line, entry
    <3>2. events = [i \in DOMAIN disk |-> into_entry(disk[i])]
      BY <2>3 DEF MemoryIsFile
    <3>3. /\ DOMAIN events = 1 .. Len(disk) /\ Len(events) = Len(disk) /\ Len(disk) \in Nat
          /\ \A i \in 1 .. Len(disk) : events[i] = into_entry(disk[i])
      BY <2>1, <3>2
    <3>4. /\ events' \in Seq(Entry) /\ DOMAIN events' = 1 .. (Len(disk) + 1)
          /\ \A i \in 1 .. Len(disk) : events'[i] = events[i]
          /\ events'[Len(disk) + 1] = entry
      BY <2>1, <2>2, <2>3, <3>3
    <3>5. /\ DOMAIN disk' = 1 .. (Len(disk) + 1)
          /\ \A i \in 1 .. Len(disk) : disk'[i] = disk[i]
          /\ disk'[Len(disk) + 1] = line
      BY <2>1, <2>3, <3>1 DEF line
    <3>6. \A i \in 1 .. (Len(disk) + 1) : i = Len(disk) + 1 \/ i \in 1 .. Len(disk)
      BY <3>3
    <3>7. \A i \in 1 .. (Len(disk) + 1) : events'[i] = into_entry(disk'[i])
      BY <3>1, <3>3, <3>4, <3>5, <3>6
    <3>8. events' = [i \in DOMAIN disk' |-> events'[i]]
      BY <3>4, <3>5
    <3> QED BY <3>5, <3>7, <3>8 DEF MemoryIsFile
  <2>4. ASSUME NEW old \in 0 .. Len(events) + 1, append(old) PROVE MemoryIsFile'
    <3> DEFINE n == retain_from_index(pushed, old)
               retained == SubSeq(pushed, n + 1, Len(pushed))
    <3>1. up
      BY <2>4 DEF append
    <3>2. CASE n > 0
      <4>1. pushed \in Seq(Entry) /\ old \in Nat
        BY <2>1, <2>2
      <4>2. compact(pushed, n)
        BY <2>4, <3>2 DEF append
      <4> HIDE DEF pushed
      <4>3. n \in 0 .. Len(pushed) /\ Len(pushed) \in Nat
        BY <4>1, RetainBounds, Elements
      <4> HIDE DEF n
      <4>4. retained \in Seq(Entry)
        <5>1. n + 1 \in Nat \ {0}
          BY <4>3
        <5> QED BY <4>1, <4>3, <5>1
      <4>5. events' = retained /\ disk' = [i \in DOMAIN retained |-> from_entry(retained[i])]
        BY <4>2 DEF compact
      <4> HIDE DEF retained
      <4>6. \A i \in DOMAIN retained : into_entry(from_entry(retained[i])) = retained[i]
        BY <4>4, Elements, EntryOfLine
      <4>7. retained = [i \in DOMAIN retained |-> retained[i]]
        BY <4>4
      <4>8. events' = [i \in DOMAIN disk' |-> into_entry(disk'[i])]
        BY <4>5, <4>6, <4>7
      <4> QED BY <4>8 DEF MemoryIsFile
    <3>3. CASE ~(n > 0)
      <4>1. events' = pushed /\ disk' = Append(disk, [from_entry(entry) EXCEPT
                                                       !.torn = (tail = "partial")])
        BY <2>4, <3>3 DEF append
      <4> QED BY <2>3, <3>1, <4>1
    <3> QED BY <3>2, <3>3
  <2>5. CASE append_sync_fails
    BY <2>3, <2>5 DEF append_sync_fails
  <2>6. CASE open
    BY <2>6 DEF open, MemoryIsFile
  <2>7. CASE crash
    BY <2>7 DEF crash, MemoryIsFile
  <2>8. CASE append_write_fails \/ notify_waiters \/ (\E c \in Client : Reading(c)) \/ UNCHANGED vars
    <3>1. UNCHANGED <<up, disk, events>>
      BY <2>8 DEF append_write_fails, notify_waiters, Reading, events_since, register,
                  second_check, notified, wait_elapsed, wait_for_disconnect, daemonVars, vars
    <3> QED BY <3>1 DEF MemoryIsFile
  <2>9. \A old \in 0 .. Len(events) + 1 : ~append_compact_fails(old)
    BY DEF append_compact_fails
  <2> QED BY <2>4, <2>5, <2>6, <2>7, <2>8, <2>9 DEF Next, Writing
<1>3. I => MemoryIsFile
  OBVIOUS
<1> QED BY <1>1, <1>2, <1>3, PTL DEF Spec
=============================================================================
