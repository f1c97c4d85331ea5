-------------------------- MODULE EventStreamProofs --------------------------
(***************************************************************************)
(* The event log implements EventStream, for any number of clients, events *)
(* and crashes, as long as no write to the file and no rewrite of it fails *)
(* (a failing fsync does no harm).  While that is so, sequence numbers are *)
(* consecutive, so that a cursor says how much of the stream a client saw. *)
(***************************************************************************)
EXTENDS EventLogProofs

\* No append is cut short and no compaction fails.
FileIsSound == Faults \subseteq {"sync"}

\* A daemon that is down remembers nothing and serves nobody; one that is up
\* has in memory what is in the file and counts on from the last append.
Closed == ~up => events = <<>> /\ \A c \in Client : request[c].pc = "idle"

Opened ==
  up => /\ tail = "clean"
        /\ nextSeq = published + 1
        /\ events = [i \in DOMAIN disk |-> into_entry(disk[i])]

\* The file holds the newest Len(disk) events, in order, under their own
\* numbers, and at least one once there has been one.
Numbered ==
  /\ Len(disk) <= published
  /\ published > 0 => Len(disk) > 0
  /\ \A i \in DOMAIN disk : disk[i] = [seq   |-> published - Len(disk) + i,
                                       event |-> published - Len(disk) + i,
                                       torn  |-> FALSE]

\* A cursor is not ahead of the log; an outstanding request is about the
\* client's cursor, and so is the page a timeout would answer.
Cursors ==
  \A c \in Client :
    /\ cursor[c] <= published
    /\ request[c].pc # "idle" => request[c].since = cursor[c]
    /\ request[c].pc = "waiting" => request[c].page = cursor[c]

\* What a client was given lies behind its cursor.
Behind == \A c \in Client : \A i \in DOMAIN delivered[c] : delivered[c][i] <= cursor[c]

StreamInv ==
  /\ TypeOK /\ Closed /\ Opened /\ Numbered /\ Cursors
  /\ Behind /\ DeliveredOnce /\ NothingSkipped
\* The events the log no longer has: the oldest valid cursor.
Floor == IF disk = <<>> THEN 0 ELSE disk[1].seq - 1

-----------------------------------------------------------------------------
(* The log between two steps.                                              *)

\* The file as a sequence of numbers.
LEMMA FileNumbers ==
  ASSUME StreamInv
  PROVE  /\ disk \in Seq(Line) /\ Len(disk) \in Nat /\ DOMAIN disk = 1 .. Len(disk)
         /\ published \in Nat /\ Floor = published - Len(disk) /\ Floor \in Nat
         /\ \A i \in 1 .. Len(disk) :
              disk[i] = [seq |-> Floor + i, event |-> Floor + i, torn |-> FALSE]
<1>1. disk \in Seq(Line) /\ Len(disk) \in Nat /\ DOMAIN disk = 1 .. Len(disk) /\ published \in Nat
  BY Elements DEF StreamInv, TypeOK
<1>2. /\ Len(disk) <= published
      /\ published > 0 => Len(disk) > 0
      /\ \A i \in 1 .. Len(disk) : disk[i] = [seq   |-> published - Len(disk) + i,
                                             event |-> published - Len(disk) + i,
                                             torn  |-> FALSE]
  BY <1>1 DEF StreamInv, Numbered
<1>3. Floor = published - Len(disk) /\ Floor \in Nat
  <2>1. CASE disk = <<>>
    BY <1>1, <1>2, <2>1 DEF Floor
  <2>2. CASE disk # <<>>
    <3>1. 1 \in 1 .. Len(disk)
      BY <1>1, <2>2
    <3>2. disk[1] = [seq   |-> published - Len(disk) + 1,
                     event |-> published - Len(disk) + 1, torn |-> FALSE]
      BY <1>2, <3>1
    <3>3. disk[1].seq = published - Len(disk) + 1
      BY <3>2
    <3> QED BY <1>1, <1>2, <2>2, <3>3 DEF Floor
  <2> QED BY <2>1, <2>2
<1> QED BY <1>1, <1>2, <1>3

\* The memory of a daemon that is up has the same numbers.
LEMMA MemoryNumbers ==
  ASSUME StreamInv, up
  PROVE  /\ events \in Seq(Entry) /\ Len(events) = Len(disk) /\ DOMAIN events = 1 .. Len(disk)
         /\ \A i \in 1 .. Len(disk) : events[i] = [seq |-> Floor + i, event |-> Floor + i]
         /\ oldest_valid_cursor = Floor
<1>1. /\ Len(disk) \in Nat /\ DOMAIN disk = 1 .. Len(disk) /\ Floor \in Nat
      /\ \A i \in 1 .. Len(disk) :
           disk[i] = [seq |-> Floor + i, event |-> Floor + i, torn |-> FALSE]
  BY FileNumbers
<1>2. events \in Seq(Entry) /\ events = [i \in 1 .. Len(disk) |-> into_entry(disk[i])]
  BY <1>1 DEF StreamInv, TypeOK, Opened
<1>3. DOMAIN events = 1 .. Len(disk) /\ Len(events) = Len(disk)
  BY <1>1, <1>2
<1>4. \A i \in 1 .. Len(disk) : events[i] = [seq |-> Floor + i, event |-> Floor + i]
  BY <1>1, <1>2 DEF into_entry
<1>5. oldest_valid_cursor = Floor
  <2>1. CASE disk = <<>>
    <3>1. Len(disk) = 0 /\ Floor = 0
      BY <2>1 DEF Floor
    <3>2. events = <<>>
      BY <1>2, <1>3, <3>1
    <3> QED BY <3>1, <3>2 DEF oldest_valid_cursor
  <2>2. CASE disk # <<>>
    <3>1. 1 \in 1 .. Len(disk)
      BY <1>1, <2>2, FileNumbers
    <3>2. events # <<>>
      BY <1>2, <1>3, <3>1
    <3>3. events[1] = [seq |-> Floor + 1, event |-> Floor + 1]
      BY <1>4, <3>1
    <3>4. events[1].seq = Floor + 1
      BY <3>3
    <3> QED BY <1>1, <3>2, <3>4 DEF oldest_valid_cursor
  <2> QED BY <2>1, <2>2
<1> QED BY <1>2, <1>3, <1>4, <1>5

\* A read at a cursor that has not expired finds exactly the numbers above it.
LEMMA ReadNumbers ==
  ASSUME StreamInv, up, NEW since \in Nat, Floor <= since, since <= published
  PROVE  /\ read_up_to(since) = since - Floor
         /\ [i \in DOMAIN after(since) |-> after(since)[i].event]
              = [i \in 1 .. (published - since) |-> since + i]
         /\ after(since) = <<>> <=> since = published
         /\ page_cursor(since) = published
<1>1. /\ events \in Seq(Entry) /\ Len(events) = Len(disk) /\ DOMAIN events = 1 .. Len(disk)
      /\ \A i \in 1 .. Len(disk) : events[i] = [seq |-> Floor + i, event |-> Floor + i]
  BY MemoryNumbers
<1>2. Len(disk) \in Nat /\ published \in Nat /\ Floor = published - Len(disk) /\ Floor \in Nat
  BY FileNumbers
<1>3. \A i \in 1 .. Len(disk) : events[i].seq = Floor + i /\ events[i].event = Floor + i
  BY <1>1
<1>4. read_up_to(since) = since - Floor
  <2> DEFINE P(n) == \A i \in DOMAIN events : (i <= n) <=> (events[i].seq <= since)
  <2>1. since - Floor \in 0 .. Len(events)
    BY <1>1, <1>2
  <2>2. P(since - Floor)
    BY <1>1, <1>2, <1>3
  <2>3. ASSUME NEW n \in 0 .. Len(events), P(n) PROVE n = since - Floor
    <3>1. n \in Nat /\ n <= Len(disk)
      BY <1>1, <1>2
    <3>2. CASE n < since - Floor
      <4>1. n + 1 \in 1 .. Len(disk) /\ ~(n + 1 <= n) /\ Floor + (n + 1) <= since
        BY <1>2, <3>1, <3>2
      <4> QED BY <1>1, <1>3, <2>3, <4>1
    <3>3. CASE n > since - Floor
      <4>1. n \in 1 .. Len(disk) /\ n <= n /\ ~(Floor + n <= since)
        BY <1>2, <3>1, <3>3
      <4> QED BY <1>1, <1>3, <2>3, <4>1
    <3> QED BY <1>2, <3>1, <3>2, <3>3
  <2>4. (CHOOSE n \in 0 .. Len(events) : P(n)) = since - Floor
    <3> HIDE DEF P
    <3> QED BY <2>1, <2>2, <2>3
  <2> QED BY <2>4 DEF read_up_to
<1>5. after(since) = SubSeq(events, since - Floor + 1, Len(disk))
  BY <1>1, <1>4 DEF after
<1> DEFINE a == since - Floor + 1
           evs == SubSeq(events, a, Len(disk))
<1>6. a \in Nat \ {0} /\ Len(disk) - a + 1 = published - since /\ published - since \in Nat
  BY <1>2
<1>7. /\ DOMAIN evs = 1 .. (published - since)
      /\ \A i \in 1 .. (published - since) : evs[i] = events[a + i - 1]
                                             /\ a + i - 1 \in 1 .. Len(disk)
  <2> HIDE DEF a
  <2>1. /\ DOMAIN evs = 1 .. (Len(disk) - a + 1)
        /\ \A i \in 1 .. (Len(disk) - a + 1) : evs[i] = events[a + i - 1]
                                               /\ a + i - 1 \in 1 .. Len(disk)
    BY <1>1, <1>2, <1>6
  <2> QED BY <1>6, <2>1
<1>8. \A i \in 1 .. (published - since) : evs[i].event = since + i
  <2> TAKE i \in 1 .. (published - since)
  <2>1. evs[i].event = Floor + (a + i - 1)
    BY <1>3, <1>7
  <2>2. Floor + (a + i - 1) = since + i
    BY <1>2
  <2> QED BY <2>1, <2>2
<1>9. [i \in DOMAIN evs |-> evs[i].event] = [i \in 1 .. (published - since) |-> since + i]
  BY <1>7, <1>8
<1>10. evs = <<>> <=> since = published
  <2>1. evs \in Seq(Entry) /\ Len(evs) = published - since
    <3> HIDE DEF a
    <3> QED BY <1>1, <1>6, <1>2
  <2> HIDE DEF evs, a
  <2>2. evs = <<>> <=> Len(evs) = 0
    BY <2>1
  <2> QED BY <1>2, <2>1, <2>2
<1>11. page_cursor(since) = published
  <2>1. CASE events = <<>>
    <3>1. Len(disk) = 0
      BY <1>1, <2>1
    <3> QED BY <1>2, <2>1, <3>1 DEF page_cursor
  <2>2. CASE events # <<>>
    <3>1. Len(events) \in 1 .. Len(disk) /\ Floor + Len(events) = published
      BY <1>1, <1>2, <2>2
    <3> QED BY <1>3, <2>2, <3>1 DEF page_cursor
  <2> QED BY <2>1, <2>2
<1> QED BY <1>4, <1>5, <1>9, <1>10, <1>11
-----------------------------------------------------------------------------
(* Steps of the log.                                                       *)

\* What an append does to the two copies of the log and to the floor.
Grown ==
  /\ up /\ up' = up /\ tail' = "clean" /\ UNCHANGED <<clientVars, crashes>>
  /\ published' = published + 1 /\ nextSeq' = nextSeq + 1
  /\ unnotified' \in {unnotified, unnotified + 1}
  /\ \/ Floor' = Floor
     \/ Floor' \in (Floor + 1) .. published' /\ published' - Floor' >= MinEvents
  /\ disk' \in Seq(Line) /\ events' \in Seq(Entry)
  /\ Numbered'
  /\ events' = [i \in DOMAIN disk' |-> into_entry(disk'[i])]

\* The line of an event and its entry.
Numbers(k) == [seq |-> k, event |-> k]
Lines(k) == [seq |-> k, event |-> k, torn |-> FALSE]

LEMMA LineOfNumber ==
  ASSUME NEW k \in Nat
  PROVE  /\ Numbers(k) \in Entry /\ Lines(k) \in Line
         /\ from_entry(Numbers(k)) = Lines(k) /\ into_entry(Lines(k)) = Numbers(k)
         /\ [from_entry(Numbers(k)) EXCEPT !.torn = FALSE] = Lines(k)
         /\ Lines(k).seq = k
<1>1. Numbers(k) \in Entry /\ Lines(k) \in Line /\ Lines(k).seq = k
  BY DEF Numbers, Lines, Entry, Line
<1>2. from_entry(Numbers(k)) = Lines(k) /\ into_entry(Lines(k)) = Numbers(k)
  BY DEF Numbers, Lines, from_entry, into_entry
<1>3. [from_entry(Numbers(k)) EXCEPT !.torn = FALSE] = Lines(k)
  <2> DEFINE r == [from_entry(Numbers(k)) EXCEPT !.torn = FALSE]
  <2>1. r \in Line /\ r.seq = k /\ r.event = k /\ r.torn = FALSE
    BY DEF Line, from_entry, Numbers
  <2> HIDE DEF r
  <2>2. Lines(k).event = k /\ Lines(k).torn = FALSE
    BY DEF Lines
  <2>3. \A x, y \in Line : x.seq = y.seq /\ x.event = y.event /\ x.torn = y.torn => x = y
    BY DEF Line
  <2>4. r = Lines(k)
    BY <1>1, <2>1, <2>2, <2>3
  <2> QED BY <2>4 DEF r
<1> QED BY <1>1, <1>2, <1>3

\* A file of L lines numbered from k + 1, and the memory that mirrors it.
LEMMA NumberedFile ==
  ASSUME NEW k \in Nat, NEW L \in Nat, published' = k + L, published' > 0 => L > 0,
         disk' = [i \in 1 .. L |-> Lines(k + i)],
         events' = [i \in 1 .. L |-> Numbers(k + i)]
  PROVE  /\ disk' \in Seq(Line) /\ events' \in Seq(Entry) /\ Len(disk') = L
         /\ Numbered' /\ Floor' = k
         /\ events' = [i \in DOMAIN disk' |-> into_entry(disk'[i])]
<1>1. \A i \in 1 .. L : k + i \in Nat
  OBVIOUS
<1>2. \A i \in 1 .. L : Lines(k + i) \in Line /\ Numbers(k + i) \in Entry
                        /\ into_entry(Lines(k + i)) = Numbers(k + i)
  BY <1>1, LineOfNumber
<1>3. disk' \in Seq(Line) /\ events' \in Seq(Entry) /\ Len(disk') = L /\ DOMAIN disk' = 1 .. L
  <2>1. disk' \in [1 .. L -> Line] /\ events' \in [1 .. L -> Entry]
    BY <1>2
  <2> QED BY <2>1, FiniteIsSeq
<1>4. published' - Len(disk') = k
  BY <1>3
<1>5. Numbered'
  <2>1. \A i \in DOMAIN disk' : disk'[i] = Lines(published' - Len(disk') + i)
    BY <1>3, <1>4
  <2>2. Len(disk') <= published' /\ (published' > 0 => Len(disk') > 0)
    BY <1>3
  <2> QED BY <2>1, <2>2 DEF Numbered, Lines
<1>6. Floor' = k
  <2>1. CASE L = 0
    BY <1>3, <2>1 DEF Floor
  <2>2. CASE L # 0
    <3>1. 1 \in 1 .. L /\ disk'[1] = Lines(k + 1) /\ disk' # <<>>
      BY <1>3, <2>2
    <3>2. disk'[1].seq = k + 1
      BY <3>1, LineOfNumber
    <3> QED BY <3>1, <3>2 DEF Floor
  <2> QED BY <2>1, <2>2
<1>7. events' = [i \in DOMAIN disk' |-> into_entry(disk'[i])]
  BY <1>2, <1>3
<1> QED BY <1>3, <1>5, <1>6, <1>7

\* An append that does not compact.
LEMMA PushGrows ==
  ASSUME StreamInv, up, up' = up, tail' = "clean", UNCHANGED <<clientVars, crashes>>,
         published' = published + 1, nextSeq' = nextSeq + 1,
         unnotified' \in {unnotified, unnotified + 1},
         events' = Append(events, [seq |-> nextSeq, event |-> published + 1]),
         disk' = Append(disk, [from_entry([seq |-> nextSeq, event |-> published + 1]) EXCEPT
                                 !.torn = (tail = "partial")])
  PROVE  Grown /\ Floor' = Floor
<1>1. /\ disk \in Seq(Line) /\ Len(disk) \in Nat /\ DOMAIN disk = 1 .. Len(disk)
      /\ published \in Nat /\ Floor = published - Len(disk) /\ Floor \in Nat
      /\ \A i \in 1 .. Len(disk) : disk[i] = Lines(Floor + i)
  BY FileNumbers DEF Lines
<1>2. /\ events \in Seq(Entry) /\ Len(events) = Len(disk) /\ DOMAIN events = 1 .. Len(disk)
      /\ \A i \in 1 .. Len(disk) : events[i] = Numbers(Floor + i)
  BY MemoryNumbers DEF Numbers
<1> DEFINE L == Len(disk) + 1
<1>3. L \in Nat /\ published' = Floor + L /\ (published' > 0 => L > 0)
  BY <1>1
<1>4. nextSeq = Floor + L /\ published + 1 = Floor + L /\ Floor + L \in Nat /\ ~(tail = "partial")
  BY <1>1 DEF StreamInv, Opened
<1>5. events' = Append(events, Numbers(Floor + L))
  BY <1>4 DEF Numbers
<1>6. disk' = Append(disk, Lines(Floor + L))
  <2>1. disk' = Append(disk, [from_entry(Numbers(Floor + L)) EXCEPT !.torn = FALSE])
    BY <1>4 DEF Numbers
  <2> QED BY <1>4, <2>1, LineOfNumber
<1>7. Numbers(Floor + L) \in Entry /\ Lines(Floor + L) \in Line
  BY <1>4, LineOfNumber
<1>8. events' = [i \in 1 .. L |-> Numbers(Floor + i)]
  <2>1. /\ events' \in Seq(Entry) /\ Len(events') = L
        /\ \A i \in 1 .. L : events'[i] = IF i = L THEN Numbers(Floor + L) ELSE events[i]
    BY <1>1, <1>2, <1>5, <1>7
  <2>2. \A i \in 1 .. L : i = L \/ i \in 1 .. Len(disk)
    BY <1>1
  <2> HIDE DEF L
  <2>3. \A i \in 1 .. L : events'[i] = Numbers(Floor + i)
    BY <1>2, <2>1, <2>2
  <2>4. DOMAIN events' = 1 .. L /\ events' = [i \in DOMAIN events' |-> events'[i]]
    BY <2>1
  <2> QED BY <2>3, <2>4
<1>9. disk' = [i \in 1 .. L |-> Lines(Floor + i)]
  <2>1. /\ disk' \in Seq(Line) /\ Len(disk') = L
        /\ \A i \in 1 .. L : disk'[i] = IF i = L THEN Lines(Floor + L) ELSE disk[i]
    BY <1>1, <1>6, <1>7
  <2>2. \A i \in 1 .. L : i = L \/ i \in 1 .. Len(disk)
    BY <1>1
  <2> HIDE DEF L
  <2>3. \A i \in 1 .. L : disk'[i] = Lines(Floor + i)
    BY <1>1, <2>1, <2>2
  <2>4. DOMAIN disk' = 1 .. L /\ disk' = [i \in DOMAIN disk' |-> disk'[i]]
    BY <2>1
  <2> QED BY <2>3, <2>4
<1>10. /\ disk' \in Seq(Line) /\ events' \in Seq(Entry) /\ Numbered' /\ Floor' = Floor
       /\ events' = [i \in DOMAIN disk' |-> into_entry(disk'[i])]
  <2> HIDE DEF L
  <2> QED BY <1>1, <1>3, <1>8, <1>9, NumberedFile
<1> QED BY <1>10 DEF Grown
\* An append that compacts: the floor rises by what is dropped and MinEvents
\* events stay.
LEMMA CompactGrows ==
  ASSUME StreamInv, NEW old \in Nat, append(old),
         retain_from_index(Append(events, [seq |-> nextSeq, event |-> published + 1]), old) > 0
  PROVE  Grown
<1>1. /\ disk \in Seq(Line) /\ Len(disk) \in Nat /\ published \in Nat
      /\ Floor = published - Len(disk) /\ Floor \in Nat
  BY FileNumbers
<1>2. /\ up /\ up' = up /\ tail' = "clean" /\ UNCHANGED <<clientVars, crashes>>
      /\ published' = published + 1 /\ nextSeq' = nextSeq + 1
      /\ unnotified' = unnotified + 1
  BY DEF append
<1>3. /\ events \in Seq(Entry) /\ Len(events) = Len(disk) /\ DOMAIN events = 1 .. Len(disk)
      /\ \A i \in 1 .. Len(disk) : events[i] = Numbers(Floor + i)
  BY <1>2, MemoryNumbers DEF Numbers
<1> DEFINE L == Len(disk) + 1
           entry == [seq |-> nextSeq, event |-> published + 1]
           pushed == Append(events, entry)
           n == retain_from_index(pushed, old)
           retained == SubSeq(pushed, n + 1, Len(pushed))
<1>4. entry = Numbers(Floor + L) /\ Floor + L \in Nat /\ published + 1 = Floor + L
  BY <1>1, <1>2 DEF StreamInv, Opened, Numbers
<1>5. entry \in Entry
  BY <1>4, LineOfNumber
<1>6. /\ pushed \in Seq(Entry) /\ Len(pushed) = L
      /\ \A i \in 1 .. L : pushed[i] = Numbers(Floor + i)
  <2> HIDE DEF entry
  <2>1. /\ pushed \in Seq(Entry) /\ Len(pushed) = L
        /\ \A i \in 1 .. L : pushed[i] = IF i = L THEN entry ELSE events[i]
    BY <1>1, <1>3, <1>5
  <2>2. \A i \in 1 .. L : i = L \/ i \in 1 .. Len(disk)
    BY <1>1
  <2> QED BY <1>3, <1>4, <2>1, <2>2
<1>7. compact(pushed, n)
  BY DEF append
<1>8. n > 0
  OBVIOUS
<1> HIDE DEF pushed, entry
<1>9. n \in Nat /\ n <= L - MinEvents /\ MinEvents \in Nat \ {0} /\ L \in Nat
  BY <1>1, <1>6, <1>8, MinEventsPositive DEF retain_from_index
<1> DEFINE K == L - n
<1> HIDE DEF n
<1>10. K \in Nat /\ K >= MinEvents /\ K > 0 /\ Floor + n \in Nat /\ published' = (Floor + n) + K
  <2> HIDE DEF L, Floor
  <2>1. published' = Floor + L /\ Floor \in Nat
    BY <1>1, <1>2, <1>4
  <2> QED BY <1>9, <2>1
<1>11. /\ retained \in Seq(Entry) /\ Len(retained) = K /\ DOMAIN retained = 1 .. K
       /\ \A i \in 1 .. K : retained[i] = Numbers((Floor + n) + i)
  <2>1. /\ retained \in Seq(Entry) /\ Len(retained) = K /\ DOMAIN retained = 1 .. K
        /\ \A i \in 1 .. K : retained[i] = pushed[n + i]
    <3> HIDE DEF L, K
    <3>1. n + 1 \in 1 .. L + 1 /\ L = n + K
      BY <1>9, <1>10 DEF L, K
    <3> QED BY <1>6, <1>9, <1>10, <3>1
  <2>2. \A i \in 1 .. K : n + i \in 1 .. L /\ Floor + (n + i) = (Floor + n) + i
    BY <1>1, <1>9, <1>10
  <2> QED BY <1>6, <2>1, <2>2
<1>12. events' = retained /\ disk' = [i \in DOMAIN retained |-> from_entry(retained[i])]
  BY <1>7 DEF compact
<1> HIDE DEF retained, K, L
<1>13. \A i \in 1 .. K : from_entry(retained[i]) = Lines((Floor + n) + i)
  <2>1. \A i \in 1 .. K : (Floor + n) + i \in Nat
    BY <1>10
  <2> QED BY <1>11, <2>1, LineOfNumber
<1>14. /\ events' = [i \in 1 .. K |-> Numbers((Floor + n) + i)]
       /\ disk' = [i \in 1 .. K |-> Lines((Floor + n) + i)]
  <2>1. retained = [i \in DOMAIN retained |-> retained[i]]
    BY <1>11
  <2>2. retained = [i \in 1 .. K |-> Numbers((Floor + n) + i)]
    BY <1>11, <2>1
  <2> QED BY <1>11, <1>12, <1>13, <2>2
<1>15. /\ disk' \in Seq(Line) /\ events' \in Seq(Entry) /\ Numbered' /\ Floor' = Floor + n
       /\ events' = [i \in DOMAIN disk' |-> into_entry(disk'[i])]
  BY <1>10, <1>14, NumberedFile
<1>16. Floor' \in (Floor + 1) .. published' /\ published' - Floor' >= MinEvents
  BY <1>1, <1>8, <1>9, <1>10, <1>15
<1> QED BY <1>2, <1>15, <1>16 DEF Grown

\* Every append of a log whose file is sound grows it by one event.
LEMMA AppendGrows ==
  ASSUME FileIsSound, StreamInv, NEW old \in Nat,
         append(old) \/ append_sync_fails \/ append_write_fails \/ append_compact_fails(old)
  PROVE  Grown
<1>1. ~append_write_fails /\ ~append_compact_fails(old)
  BY DEF FileIsSound, append_write_fails, append_compact_fails
<1>2. CASE append_sync_fails
  BY <1>2, PushGrows DEF append_sync_fails
<1>3. CASE append(old)
  <2> DEFINE pushed == Append(events, [seq |-> nextSeq, event |-> published + 1])
  <2>1. CASE retain_from_index(pushed, old) > 0
    BY <1>3, <2>1, CompactGrows
  <2>2. CASE ~(retain_from_index(pushed, old) > 0)
    BY <1>3, <2>2, PushGrows DEF append
  <2> QED BY <2>1, <2>2
<1> QED BY <1>1, <1>2, <1>3
-----------------------------------------------------------------------------
(* Steps of a reader.                                                      *)

\* The client's state after an answer, in terms of the stream.
Told(c) ==
  /\ cursor[c] < Floor
  /\ cursor' = [cursor EXCEPT ![c] = Floor] /\ delivered' = delivered
  /\ expired' = [expired EXCEPT ![c] = Floor]

Given(c) ==
  /\ Floor <= cursor[c]
  /\ cursor' = [cursor EXCEPT ![c] = published] /\ UNCHANGED expired
  /\ delivered' = [delivered EXCEPT ![c] =
       @ \o [i \in 1 .. (published - cursor[c]) |-> cursor[c] + i]]

\* An answer to a request about the client's cursor either tells it that the
\* cursor has expired or gives it everything that is new.
LEMMA Answers ==
  ASSUME StreamInv, up, NEW c \in Client, answer(c, cursor[c])
  PROVE  /\ Told(c) \/ Given(c)
         /\ request' = [request EXCEPT ![c] = NoRequest] /\ woken' = woken \ {c}
<1>1. cursor[c] \in Nat /\ cursor[c] <= published /\ delivered \in [Client -> Seq(Nat)]
  BY DEF StreamInv, TypeOK, Cursors
<1>2. oldest_valid_cursor = Floor /\ Floor \in Nat
  BY MemoryNumbers, FileNumbers
<1>3. CASE cursor[c] < Floor
  <2>1. /\ update_cursor(c, <<>>, Floor)
        /\ expired' = [expired EXCEPT ![c] = Floor]
    BY <1>2, <1>3 DEF answer
  <2>2. delivered[c] \o [i \in DOMAIN <<>> |-> <<>>[i].event] = delivered[c]
    <3>1. [i \in DOMAIN <<>> |-> <<>>[i].event] = <<>>
      OBVIOUS
    <3> QED BY <1>1, <3>1
  <2>3. delivered' = delivered
    BY <1>1, <2>1, <2>2 DEF update_cursor
  <2> QED BY <1>3, <2>1, <2>3 DEF update_cursor, Told
<1>4. CASE ~(cursor[c] < Floor)
  <2>1. Floor <= cursor[c]
    BY <1>1, <1>2, <1>4
  <2>2. update_cursor(c, after(cursor[c]), page_cursor(cursor[c])) /\ UNCHANGED expired
    BY <1>2, <1>4 DEF answer
  <2>3. /\ [i \in DOMAIN after(cursor[c]) |-> after(cursor[c])[i].event]
             = [i \in 1 .. (published - cursor[c]) |-> cursor[c] + i]
        /\ page_cursor(cursor[c]) = published
    BY <1>1, <2>1, ReadNumbers
  <2> QED BY <2>1, <2>2, <2>3 DEF update_cursor, Given
<1> QED BY <1>3, <1>4

\* The log and the other clients are left alone; what this client learns is
\* Told or Given, or nothing.
Heard(c) ==
  /\ UNCHANGED <<daemonVars, published, crashes>>
  /\ request' \in [Client -> Request] /\ woken' \in SUBSET Client
  /\ \A d \in Client \ {c} : request'[d] = request[d]
  /\ \/ /\ up /\ (Told(c) \/ Given(c))
        /\ request'[c] = NoRequest
     \/ /\ UNCHANGED <<cursor, delivered, expired>>
        /\ request'[c].pc # "idle" => up /\ request'[c].since = cursor[c]
        /\ request'[c].pc = "waiting" => request'[c].page = cursor[c]

LEMMA ReadingHears ==
  ASSUME StreamInv, NEW c \in Client, Reading(c)
  PROVE  Heard(c)
<1>1. /\ request \in [Client -> Request] /\ woken \in SUBSET Client
      /\ request[c] \in Request /\ NoRequest \in Request /\ NoRequest.pc = "idle"
      /\ cursor[c] \in Nat /\ cursor[c] <= published /\ published \in Nat
      /\ request[c].pc # "idle" => up /\ request[c].since = cursor[c]
      /\ request[c].pc = "waiting" => request[c].page = cursor[c]
  BY DEF StreamInv, TypeOK, Cursors, Closed, Request, NoRequest
<1>2. ASSUME up, answer(c, cursor[c]), UNCHANGED <<daemonVars, published, crashes>>
      PROVE  Heard(c)
  <2>1. /\ Told(c) \/ Given(c)
        /\ request' = [request EXCEPT ![c] = NoRequest] /\ woken' = woken \ {c}
    BY <1>2, Answers
  <2> QED BY <1>1, <1>2, <2>1 DEF Heard
<1>3. CASE events_since(c)
  <2>1. CASE answer(c, cursor[c])
    BY <1>2, <1>3, <2>1 DEF events_since
  <2>2. CASE ~answer(c, cursor[c])
    <3>1. /\ up /\ UNCHANGED <<daemonVars, published, crashes>>
          /\ request' = [request EXCEPT ![c] =
               [pc |-> "checked", since |-> cursor[c], page |-> 0]]
          /\ UNCHANGED <<woken, cursor, delivered, expired>>
      BY <1>3, <2>2 DEF events_since
    <3>2. [pc |-> "checked", since |-> cursor[c], page |-> 0] \in Request
      BY <1>1 DEF Request
    <3> QED BY <1>1, <3>1, <3>2 DEF Heard
  <2> QED BY <2>1, <2>2
<1>4. CASE register(c)
  <2>1. /\ request[c].pc = "checked" /\ request' = [request EXCEPT ![c].pc = "registered"]
        /\ UNCHANGED <<daemonVars, woken, cursor, delivered, expired, published, crashes>>
    BY <1>4 DEF register
  <2>2. /\ request' \in [Client -> Request] /\ request'[c].pc = "registered"
        /\ request'[c].since = request[c].since
        /\ \A d \in Client \ {c} : request'[d] = request[d]
    BY <1>1, <2>1 DEF Request
  <2> QED BY <1>1, <2>1, <2>2 DEF Heard
<1>5. CASE second_check(c)
  <2>1. /\ request[c].pc = "registered" /\ up /\ request[c].since = cursor[c]
        /\ UNCHANGED <<daemonVars, published, crashes>>
    BY <1>1, <1>5 DEF second_check
  <2>2. CASE ~nothing_new(cursor[c])
    BY <1>2, <1>5, <2>1, <2>2 DEF second_check
  <2>3. CASE nothing_new(cursor[c])
    <3>1. Floor <= cursor[c] /\ after(cursor[c]) = <<>>
      BY <1>1, <2>1, <2>3, MemoryNumbers, FileNumbers DEF nothing_new
    <3>2. page_cursor(cursor[c]) = cursor[c]
      BY <1>1, <2>1, <3>1, ReadNumbers
    <3>3. /\ request' = [request EXCEPT ![c].pc = "waiting", ![c].page = cursor[c]]
          /\ UNCHANGED <<woken, cursor, delivered, expired>>
      BY <1>5, <2>1, <2>3, <3>2 DEF second_check
    <3>4. /\ request' \in [Client -> Request] /\ request'[c].pc = "waiting"
          /\ request'[c].since = request[c].since /\ request'[c].page = cursor[c]
          /\ \A d \in Client \ {c} : request'[d] = request[d]
      BY <1>1, <3>3 DEF Request
    <3> QED BY <1>1, <2>1, <3>3, <3>4 DEF Heard
  <2> QED BY <2>2, <2>3
<1>6. CASE notified(c)
  BY <1>1, <1>2, <1>6 DEF notified
<1>7. CASE wait_elapsed(c)
  <2>1. /\ update_cursor(c, <<>>, cursor[c])
        /\ UNCHANGED <<daemonVars, expired, published, crashes>>
    BY <1>1, <1>7 DEF wait_elapsed
  <2>2. delivered \in [Client -> Seq(Nat)] /\ cursor \in [Client -> Nat]
    BY DEF StreamInv, TypeOK
  <2>3. delivered[c] \o [i \in DOMAIN <<>> |-> <<>>[i].event] = delivered[c]
    <3>1. [i \in DOMAIN <<>> |-> <<>>[i].event] = <<>>
      OBVIOUS
    <3> QED BY <2>2, <3>1
  <2>4. UNCHANGED <<cursor, delivered>>
    BY <2>1, <2>2, <2>3 DEF update_cursor
  <2>5. request' = [request EXCEPT ![c] = NoRequest] /\ woken' = woken \ {c}
    BY <2>1 DEF update_cursor
  <2> QED BY <1>1, <2>1, <2>4, <2>5 DEF Heard
<1>8. CASE wait_for_disconnect(c)
  <2>1. /\ request' = [request EXCEPT ![c] = NoRequest] /\ woken' = woken \ {c}
        /\ UNCHANGED <<daemonVars, cursor, delivered, expired, published, crashes>>
    BY <1>8 DEF wait_for_disconnect
  <2> QED BY <1>1, <2>1 DEF Heard
<1> QED BY <1>3, <1>4, <1>5, <1>6, <1>7, <1>8 DEF Reading
-----------------------------------------------------------------------------
(* The invariant.                                                          *)

\* The events after k up to p.
UpTo(k, p) == [i \in 1 .. (p - k) |-> k + i]

LEMMA Concatenation ==
  ASSUME NEW s \in Seq(Nat), NEW x \in Seq(Nat)
  PROVE  /\ s \o x \in Seq(Nat) /\ DOMAIN (s \o x) = 1 .. (Len(s) + Len(x))
         /\ \A i \in 1 .. (Len(s) + Len(x)) :
              (s \o x)[i] = IF i <= Len(s) THEN s[i] ELSE x[i - Len(s)]
OBVIOUS

\* t goes on from s, in order, with every event after k up to p.
Extended(s, k, p, t) ==
  /\ t \in Seq(Nat)
  /\ \A i \in DOMAIN t : t[i] <= p
  /\ \A i, j \in DOMAIN t : i < j => t[i] < t[j]
  /\ \A i \in DOMAIN s : i \in DOMAIN t /\ t[i] = s[i]
  /\ \A e \in (k + 1) .. p : \E i \in DOMAIN t : t[i] = e

\* A sequence of event numbers up to k, in order, followed by k + 1 .. p.
LEMMA Extends ==
  ASSUME NEW s \in Seq(Nat), NEW k \in Nat, NEW p \in Nat, k <= p,
         \A i \in DOMAIN s : s[i] <= k,
         \A i, j \in DOMAIN s : i < j => s[i] < s[j],
         NEW t, t = s \o UpTo(k, p)
  PROVE  Extended(s, k, p, t)
<1> DEFINE x == [i \in 1 .. (p - k) |-> k + i]
<1>1. p - k \in Nat /\ Len(s) \in Nat /\ DOMAIN s = 1 .. Len(s)
  OBVIOUS
<1>2. x \in [1 .. (p - k) -> Nat]
  BY <1>1
<1>3. x \in Seq(Nat) /\ Len(x) = p - k /\ DOMAIN x = 1 .. (p - k)
  BY <1>1, <1>2, FiniteIsSeq
<1>4. \A i \in 1 .. (p - k) : x[i] = k + i
  OBVIOUS
<1> HIDE DEF x
<1>5. /\ t \in Seq(Nat) /\ DOMAIN t = 1 .. (Len(s) + (p - k))
      /\ \A i \in 1 .. (Len(s) + (p - k)) :
           t[i] = IF i <= Len(s) THEN s[i] ELSE x[i - Len(s)]
  <2>1. t = s \o x
    BY DEF x, UpTo
  <2>2. /\ s \o x \in Seq(Nat) /\ DOMAIN (s \o x) = 1 .. (Len(s) + Len(x))
        /\ \A i \in 1 .. (Len(s) + Len(x)) :
             (s \o x)[i] = IF i <= Len(s) THEN s[i] ELSE x[i - Len(s)]
    BY <1>3, Concatenation
  <2> QED BY <1>3, <2>1, <2>2
<1>6. \A i \in DOMAIN t :
        \/ i \in DOMAIN s /\ t[i] = s[i]
        \/ i > Len(s) /\ i \in Nat /\ t[i] = k + (i - Len(s)) /\ t[i] <= p
  <2> TAKE i \in DOMAIN t
  <2>1. i \in Nat /\ i >= 1 /\ i <= Len(s) + (p - k)
    BY <1>1, <1>5
  <2>2. CASE i <= Len(s)
    BY <1>1, <1>5, <2>1, <2>2
  <2>3. CASE ~(i <= Len(s))
    <3>1. i - Len(s) \in 1 .. (p - k)
      BY <1>1, <2>1, <2>3
    <3>2. t[i] = k + (i - Len(s))
      BY <1>4, <1>5, <2>3, <3>1
    <3>3. k + (i - Len(s)) <= p
      BY <1>1, <2>1
    <3> QED BY <1>1, <2>1, <2>3, <3>2, <3>3
  <2> QED BY <2>2, <2>3
<1>7. \A i \in DOMAIN s : i \in DOMAIN t /\ t[i] = s[i]
  BY <1>1, <1>5
<1>8. \A i \in DOMAIN s : s[i] \in Nat /\ i \in Nat /\ i <= Len(s)
  BY <1>1
<1>9. \A i \in DOMAIN t : t[i] <= p
  BY <1>6, <1>8
<1>10. ASSUME NEW i \in DOMAIN t, NEW j \in DOMAIN t, i < j PROVE t[i] < t[j]
  <2>1. CASE j \in DOMAIN s
    <3>1. i \in DOMAIN s
      BY <1>1, <1>5, <1>10, <2>1
    <3> QED BY <1>7, <1>10, <2>1, <3>1
  <2>2. CASE j \notin DOMAIN s
    <3>1. j > Len(s) /\ j \in Nat /\ t[j] = k + (j - Len(s))
      BY <1>6, <2>2
    <3>2. CASE i \in DOMAIN s
      BY <1>1, <1>7, <1>8, <3>1, <3>2
    <3>3. CASE i \notin DOMAIN s
      <4>1. i \in Nat /\ t[i] = k + (i - Len(s))
        BY <1>6, <3>3
      <4> QED BY <1>1, <1>10, <3>1, <4>1
    <3> QED BY <3>2, <3>3
  <2> QED BY <2>1, <2>2
<1>11. ASSUME NEW e \in (k + 1) .. p PROVE \E i \in DOMAIN t : t[i] = e
  <2>1. /\ Len(s) + (e - k) \in 1 .. (Len(s) + (p - k)) /\ ~(Len(s) + (e - k) <= Len(s))
        /\ (Len(s) + (e - k)) - Len(s) = e - k /\ e - k \in 1 .. (p - k) /\ k + (e - k) = e
    BY <1>1
  <2>2. t[Len(s) + (e - k)] = x[e - k] /\ x[e - k] = k + (e - k)
    BY <1>4, <1>5, <2>1
  <2> QED BY <1>5, <2>1, <2>2
<1> QED BY <1>5, <1>7, <1>9, <1>10, <1>11 DEF Extended

\* The parts of the invariant about what a client was given.
LEMMA HeardKeeps ==
  ASSUME StreamInv, NEW c \in Client, Heard(c)
  PROVE  StreamInv'
<1>1. TypeOK /\ Closed /\ Opened /\ Numbered /\ Cursors /\ Behind /\ DeliveredOnce /\ NothingSkipped
  BY DEF StreamInv
<1>2. /\ published \in Nat /\ Floor \in Nat /\ Floor <= published
      /\ cursor \in [Client -> Nat] /\ expired \in [Client -> Nat]
      /\ delivered \in [Client -> Seq(Nat)] /\ request \in [Client -> Request]
      /\ cursor[c] <= published
  BY <1>1, FileNumbers DEF TypeOK, Cursors
<1>3. /\ UNCHANGED <<up, disk, tail, events, nextSeq, unnotified, published, crashes>>
      /\ request' \in [Client -> Request] /\ woken' \in SUBSET Client
      /\ \A d \in Client \ {c} : request'[d] = request[d]
  BY DEF Heard, daemonVars
<1>4. CASE up /\ Told(c) /\ request'[c] = NoRequest
  <2>1. /\ cursor' = [cursor EXCEPT ![c] = Floor] /\ delivered' = delivered
        /\ expired' = [expired EXCEPT ![c] = Floor] /\ cursor[c] < Floor
    BY <1>4 DEF Told
  <2>2. TypeOK'
    BY <1>1, <1>2, <1>3, <2>1 DEF TypeOK
  <2>3. Closed' /\ Opened' /\ Numbered'
    BY <1>1, <1>3, <1>4 DEF Closed, Opened, Numbered
  <2>4. Cursors'
    BY <1>1, <1>2, <1>3, <1>4, <2>1 DEF Cursors, NoRequest
  <2>5. Behind'
    <3>1. \A d \in Client : cursor[d] \in Nat /\ cursor'[d] \in Nat /\ cursor[d] <= cursor'[d]
      BY <1>2, <2>1
    <3>2. \A d \in Client : \A i \in DOMAIN delivered[d] : delivered[d][i] \in Nat
      BY <1>2, Elements
    <3> QED BY <1>1, <2>1, <3>1, <3>2 DEF Behind
  <2>6. DeliveredOnce'
    BY <1>1, <2>1 DEF DeliveredOnce
  <2>7. NothingSkipped'
    <3>1. ASSUME NEW d \in Client, NEW e \in (expired'[d] + 1) .. cursor'[d]
          PROVE  \E i \in DOMAIN delivered'[d] : delivered'[d][i] = e
      <4>1. CASE d = c
        <5>1. expired'[d] = Floor /\ cursor'[d] = Floor
          BY <1>2, <2>1, <4>1
        <5> QED BY <1>2, <3>1, <5>1
      <4>2. CASE d # c
        <5>1. expired'[d] = expired[d] /\ cursor'[d] = cursor[d]
          BY <1>2, <2>1, <4>2
        <5> QED BY <1>1, <2>1, <3>1, <5>1 DEF NothingSkipped
      <4> QED BY <4>1, <4>2
    <3> QED BY <3>1 DEF NothingSkipped
  <2> QED BY <2>2, <2>3, <2>4, <2>5, <2>6, <2>7 DEF StreamInv
<1>5. CASE up /\ Given(c) /\ request'[c] = NoRequest
  <2>1. /\ cursor' = [cursor EXCEPT ![c] = published] /\ UNCHANGED expired
        /\ delivered' = [delivered EXCEPT ![c] =
             @ \o [i \in 1 .. (published - cursor[c]) |-> cursor[c] + i]]
    BY <1>5 DEF Given
  <2> DEFINE s == delivered[c]
             t == delivered'[c]
  <2>2. /\ t \in Seq(Nat)
        /\ \A i \in DOMAIN t : t[i] <= published
        /\ \A i, j \in DOMAIN t : i < j => t[i] < t[j]
        /\ \A i \in DOMAIN s : i \in DOMAIN t /\ t[i] = s[i]
        /\ \A e \in (cursor[c] + 1) .. published : \E i \in DOMAIN t : t[i] = e
    <3>1. s \in Seq(Nat) /\ cursor[c] \in Nat
      BY <1>2
    <3>2. \A i \in DOMAIN s : s[i] <= cursor[c]
      BY <1>1 DEF Behind
    <3>3. \A i, j \in DOMAIN s : i < j => s[i] < s[j]
      BY <1>1 DEF DeliveredOnce
    <3>4. t = s \o UpTo(cursor[c], published)
      BY <1>2, <2>1 DEF UpTo
    <3>5. published \in Nat /\ cursor[c] <= published
      BY <1>2
    <3> HIDE DEF s, t
    <3>6. Extended(s, cursor[c], published, t)
      BY <3>1, <3>2, <3>3, <3>4, <3>5, Extends
    <3> QED BY <3>6 DEF Extended
  <2>3. /\ cursor'[c] = published
        /\ \A d \in Client \ {c} : cursor'[d] = cursor[d] /\ delivered'[d] = delivered[d]
    BY <1>2, <2>1
  <2>4. TypeOK'
    <3>1. cursor' \in [Client -> Nat] /\ expired' \in [Client -> Nat]
      BY <1>2, <2>1
    <3>2. delivered' \in [Client -> Seq(Nat)]
      BY <1>2, <2>1, <2>2
    <3> QED BY <1>1, <1>3, <3>1, <3>2 DEF TypeOK
  <2>5. Closed' /\ Opened' /\ Numbered'
    BY <1>1, <1>3, <1>5 DEF Closed, Opened, Numbered
  <2>6. Cursors'
    <3>1. cursor'[c] <= published' /\ request'[c].pc = "idle"
      BY <1>2, <1>3, <1>5, <2>3 DEF NoRequest
    <3> QED BY <1>1, <1>3, <2>3, <3>1 DEF Cursors
  <2> HIDE DEF t
  <2>7. Behind'
    BY <1>1, <2>2, <2>3 DEF Behind, t
  <2>8. DeliveredOnce'
    BY <1>1, <2>2, <2>3 DEF DeliveredOnce, t
  <2>9. NothingSkipped'
    <3>1. ASSUME NEW d \in Client, NEW e \in (expired'[d] + 1) .. cursor'[d]
          PROVE  \E i \in DOMAIN delivered'[d] : delivered'[d][i] = e
      <4>1. CASE d = c
        <5>1. e \in (expired[c] + 1) .. published
          BY <2>1, <2>3, <3>1, <4>1
        <5>2. CASE e <= cursor[c]
          <6>1. e \in (expired[c] + 1) .. cursor[c]
            BY <1>2, <5>1, <5>2
          <6>2. \E i \in DOMAIN s : s[i] = e
            BY <1>1, <6>1 DEF NothingSkipped
          <6> QED BY <2>2, <4>1, <6>2 DEF t
        <5>3. CASE ~(e <= cursor[c])
          <6>1. e \in (cursor[c] + 1) .. published
            BY <1>2, <5>1, <5>3
          <6> QED BY <2>2, <4>1, <6>1 DEF t
        <5> QED BY <5>2, <5>3
      <4>2. CASE d # c
        BY <1>1, <2>1, <2>3, <3>1, <4>2 DEF NothingSkipped
      <4> QED BY <4>1, <4>2
    <3> QED BY <3>1 DEF NothingSkipped
  <2> QED BY <2>4, <2>5, <2>6, <2>7, <2>8, <2>9 DEF StreamInv
<1>6. CASE /\ UNCHANGED <<cursor, delivered, expired>>
           /\ request'[c].pc # "idle" => up /\ request'[c].since = cursor[c]
           /\ request'[c].pc = "waiting" => request'[c].page = cursor[c]
  <2>1. TypeOK'
    BY <1>1, <1>3, <1>6 DEF TypeOK
  <2>2. Closed' /\ Opened' /\ Numbered'
    BY <1>1, <1>3, <1>6 DEF Closed, Opened, Numbered
  <2>3. Cursors'
    BY <1>1, <1>3, <1>6 DEF Cursors
  <2>4. Behind' /\ DeliveredOnce' /\ NothingSkipped'
    BY <1>1, <1>6 DEF Behind, DeliveredOnce, NothingSkipped
  <2> QED BY <2>1, <2>2, <2>3, <2>4 DEF StreamInv
<1> QED BY <1>4, <1>5, <1>6 DEF Heard
\* An append moves no cursor.
LEMMA GrownKeeps ==
  ASSUME StreamInv, Grown
  PROVE  StreamInv'
<1>1. TypeOK /\ Opened /\ Cursors /\ Behind /\ DeliveredOnce /\ NothingSkipped
  BY DEF StreamInv
<1>2. /\ up /\ up' = up /\ tail' = "clean"
      /\ UNCHANGED <<request, woken, cursor, delivered, expired, crashes>>
      /\ published' = published + 1 /\ nextSeq' = nextSeq + 1
      /\ unnotified' \in {unnotified, unnotified + 1}
      /\ disk' \in Seq(Line) /\ events' \in Seq(Entry) /\ Numbered'
      /\ events' = [i \in DOMAIN disk' |-> into_entry(disk'[i])]
  BY DEF Grown, clientVars
<1>3. TypeOK'
  BY <1>1, <1>2 DEF TypeOK
<1>4. Closed' /\ Opened'
  BY <1>1, <1>2 DEF Closed, Opened
<1>5. Cursors'
  <2>1. published \in Nat /\ \A c \in Client : cursor[c] \in Nat
    BY <1>1 DEF TypeOK
  <2> QED BY <1>1, <1>2, <2>1 DEF Cursors
<1>6. Behind' /\ DeliveredOnce' /\ NothingSkipped'
  BY <1>1, <1>2 DEF Behind, DeliveredOnce, NothingSkipped
<1> QED BY <1>2, <1>3, <1>4, <1>5, <1>6 DEF StreamInv

\* A restarted daemon reads the file and counts on.
LEMMA OpenKeeps ==
  ASSUME StreamInv, open
  PROVE  StreamInv'
<1>1. TypeOK /\ Numbered /\ Cursors /\ Behind /\ DeliveredOnce /\ NothingSkipped
  BY DEF StreamInv
<1>2. /\ up' = TRUE /\ tail' = "clean" /\ nextSeq' = seq_after(disk)
      /\ events' = [i \in DOMAIN disk |-> into_entry(disk[i])]
      /\ UNCHANGED <<disk, unnotified, request, woken, cursor, delivered, expired, published, crashes>>
  BY DEF open, clientVars
<1>3. /\ Len(disk) \in Nat /\ DOMAIN disk = 1 .. Len(disk) /\ published \in Nat
      /\ Floor = published - Len(disk) /\ Floor \in Nat
      /\ \A i \in 1 .. Len(disk) : disk[i] = Lines(Floor + i)
  BY FileNumbers DEF Lines
<1>4. nextSeq' = published' + 1
  <2>1. CASE disk = <<>>
    <3>1. Len(disk) = 0 /\ Floor = 0
      BY <2>1 DEF Floor
    <3> QED BY <1>2, <1>3, <2>1, <3>1 DEF seq_after
  <2>2. CASE disk # <<>>
    <3>1. Len(disk) \in 1 .. Len(disk)
      BY <1>1, <1>3, <2>2 DEF TypeOK
    <3>2. disk[Len(disk)].seq = Floor + Len(disk)
      <4>1. Floor + Len(disk) \in Nat /\ disk[Len(disk)] = Lines(Floor + Len(disk))
        BY <1>3, <3>1
      <4> QED BY <4>1, LineOfNumber
    <3> QED BY <1>2, <1>3, <2>2, <3>2 DEF seq_after
  <2> QED BY <2>1, <2>2
<1>5. events' \in Seq(Entry)
  <2>1. \A i \in 1 .. Len(disk) : into_entry(disk[i]) \in Entry
    <3>1. \A i \in 1 .. Len(disk) : Floor + i \in Nat
      BY <1>3
    <3> QED BY <1>3, <3>1, LineOfNumber
  <2>2. events' \in [1 .. Len(disk) -> Entry]
    BY <1>2, <1>3, <2>1
  <2> QED BY <1>3, <2>2, FiniteIsSeq
<1>6. TypeOK'
  BY <1>1, <1>2, <1>4, <1>5 DEF TypeOK
<1>7. Closed' /\ Opened' /\ Numbered'
  BY <1>1, <1>2, <1>4 DEF Closed, Opened, Numbered
<1>8. Cursors' /\ Behind' /\ DeliveredOnce' /\ NothingSkipped'
  BY <1>1, <1>2 DEF Cursors, Behind, DeliveredOnce, NothingSkipped
<1> QED BY <1>6, <1>7, <1>8 DEF StreamInv

\* A crash forgets the requests and keeps the file.
LEMMA CrashKeeps ==
  ASSUME StreamInv, crash
  PROVE  StreamInv'
<1>1. TypeOK /\ Numbered /\ Cursors /\ Behind /\ DeliveredOnce /\ NothingSkipped
  BY DEF StreamInv
<1>2. /\ crashes' = crashes + 1 /\ up' = FALSE /\ tail' \in {tail, "partial"}
      /\ events' = <<>> /\ nextSeq' = 1 /\ unnotified' = 0
      /\ request' = [c \in Client |-> NoRequest] /\ woken' = {}
      /\ UNCHANGED <<disk, cursor, delivered, expired, published>>
  BY DEF crash
<1>3. NoRequest \in Request /\ NoRequest.pc = "idle"
  BY DEF NoRequest, Request
<1>4. TypeOK'
  <2>1. request' \in [Client -> Request] /\ woken' \in SUBSET Client
    BY <1>2, <1>3
  <2>2. events' \in Seq(Entry) /\ nextSeq' \in Nat /\ unnotified' \in Nat /\ crashes' \in Nat
    BY <1>1, <1>2 DEF TypeOK
  <2>3. up' \in BOOLEAN /\ tail' \in {"clean", "partial"}
    BY <1>1, <1>2 DEF TypeOK
  <2> QED BY <1>1, <1>2, <2>1, <2>2, <2>3 DEF TypeOK
<1>5. Closed' /\ Opened' /\ Numbered'
  BY <1>1, <1>2, <1>3 DEF Closed, Opened, Numbered
<1>6. Cursors'
  BY <1>1, <1>2, <1>3 DEF Cursors
<1>7. Behind' /\ DeliveredOnce' /\ NothingSkipped'
  BY <1>1, <1>2 DEF Behind, DeliveredOnce, NothingSkipped
<1> QED BY <1>4, <1>5, <1>6, <1>7 DEF StreamInv

\* What a step is, in terms of the stream.
LEMMA Steps ==
  ASSUME FileIsSound, StreamInv, Next
  PROVE  \/ open \/ notify_waiters \/ crash \/ Grown
         \/ \E c \in Client : Heard(c)
<1>1. \A old \in 0 .. Len(events) + 1 : old \in Nat
  BY DEF StreamInv, TypeOK
<1>2. CASE append_write_fails \/ append_sync_fails
  BY <1>2, AppendGrows
<1>3. CASE \E old \in 0 .. Len(events) + 1 : append(old) \/ append_compact_fails(old)
  BY <1>1, <1>3, AppendGrows
<1>4. CASE \E c \in Client : Reading(c)
  BY <1>4, ReadingHears
<1> QED BY <1>2, <1>3, <1>4 DEF Next, Writing

LEMMA StreamStep ==
  ASSUME FileIsSound, StreamInv, [Next]_vars
  PROVE  StreamInv'
<1>1. CASE notify_waiters
  <2>1. /\ unnotified > 0 /\ unnotified' = unnotified - 1 /\ woken' \in SUBSET Client
        /\ UNCHANGED <<up, disk, tail, events, nextSeq, request, cursor, delivered,
                       expired, published, crashes>>
    BY <1>1 DEF notify_waiters
  <2>2. TypeOK'
    BY <2>1 DEF StreamInv, TypeOK
  <2> QED BY <2>1, <2>2 DEF StreamInv, Closed, Opened, Numbered, Cursors, Behind,
                           DeliveredOnce, NothingSkipped
<1>2. CASE UNCHANGED vars
  BY <1>2 DEF vars, daemonVars, clientVars, StreamInv, TypeOK, Closed, Opened, Numbered,
              Cursors, Behind, DeliveredOnce, NothingSkipped
<1>3. CASE Next
  BY <1>1, <1>3, Steps, OpenKeeps, CrashKeeps, GrownKeeps, HeardKeeps
<1> QED BY <1>2, <1>3

LEMMA StreamStart == Init => StreamInv
<1> SUFFICES ASSUME Init PROVE StreamInv
  OBVIOUS
<1>1. NoRequest \in Request /\ NoRequest.pc = "idle"
  BY DEF NoRequest, Request
<1>2. TypeOK
  <2>1. <<>> \in Seq(Nat) /\ <<>> \in Seq(Line) /\ <<>> \in Seq(Entry)
    OBVIOUS
  <2>2. /\ request \in [Client -> Request] /\ cursor \in [Client -> Nat]
        /\ delivered \in [Client -> Seq(Nat)] /\ expired \in [Client -> Nat]
    BY <1>1, <2>1 DEF Init
  <2> QED BY <2>1, <2>2 DEF Init, TypeOK
<1>3. Closed /\ Opened /\ Numbered
  BY <1>1 DEF Init, Closed, Opened, Numbered
<1>4. Cursors /\ Behind /\ DeliveredOnce /\ NothingSkipped
  BY <1>1 DEF Init, Cursors, Behind, DeliveredOnce, NothingSkipped
<1> QED BY <1>2, <1>3, <1>4 DEF StreamInv

LEMMA StreamInvariance ==
  ASSUME FileIsSound
  PROVE  Spec => []StreamInv
<1>1. StreamInv /\ [Next]_vars => StreamInv'
  BY StreamStep
<1> QED BY <1>1, StreamStart, PTL DEF Spec

-----------------------------------------------------------------------------
(* Theorems.                                                               *)

\* No client is given an event twice or out of order, however requests time
\* out, are dropped or are cut off by a crash.
THEOREM NoDuplicateDelivery ==
  ASSUME FileIsSound
  PROVE  Spec => []DeliveredOnce
<1>1. StreamInv => DeliveredOnce
  BY DEF StreamInv
<1> QED BY <1>1, StreamInvariance, PTL

\* What lies behind a client's cursor was given to it or reported as expired.
THEOREM NoSilentLoss ==
  ASSUME FileIsSound
  PROVE  Spec => []NothingSkipped
<1>1. StreamInv => NothingSkipped
  BY DEF StreamInv
<1> QED BY <1>1, StreamInvariance, PTL

\* Every step of the log is a step of the stream or leaves it alone.
LEMMA StepRefines ==
  ASSUME FileIsSound, StreamInv, [Next]_vars
  PROVE  [Stream!Next]_(Stream!svars)
<1> USE DEF Stream!svars
<1>1. CASE open \/ notify_waiters \/ crash
  BY <1>1 DEF open, notify_waiters, crash, clientVars
<1>2. CASE Grown
  <2>1. /\ published' = published + 1 /\ UNCHANGED <<cursor, delivered>>
        /\ \/ Floor' = Floor
           \/ Floor' \in (Floor + 1) .. published' /\ published' - Floor' >= MinEvents
    BY <1>2 DEF Grown, clientVars
  <2>2. Stream!Publish
    BY <2>1 DEF Stream!Publish, Floor
  <2> QED BY <2>2 DEF Stream!Next
<1>3. ASSUME NEW c \in Client, Heard(c) PROVE [Stream!Next]_(Stream!svars)
  <2>1. UNCHANGED <<disk, published>>
    BY <1>3 DEF Heard, daemonVars
  <2>2. CASE Told(c)
    <3>1. Stream!Expire(c)
      BY <2>1, <2>2 DEF Told, Stream!Expire, Floor
    <3> QED BY <3>1 DEF Stream!Next
  <2>3. CASE Given(c)
    <3>1. Stream!Deliver(c)
      BY <2>1, <2>3 DEF Given, Stream!Deliver, Floor
    <3> QED BY <3>1 DEF Stream!Next
  <2>4. CASE UNCHANGED <<cursor, delivered>>
    BY <2>1, <2>4
  <2> QED BY <1>3, <2>2, <2>3, <2>4 DEF Heard
<1>4. CASE UNCHANGED vars
  BY <1>4 DEF vars, daemonVars, clientVars
<1> QED BY <1>1, <1>2, <1>3, <1>4, Steps

\* The log with its file, its memory, its waiters and its restarts implements
\* the stream of events that clients are promised.
THEOREM LogImplementsStream ==
  ASSUME FileIsSound
  PROVE  Spec => ImplementsStream
<1>1. Init => Stream!Init
  BY DEF Init, Stream!Init
<1>2. StreamInv /\ [Next]_vars => [Stream!Next]_(Stream!svars)
  BY StepRefines
<1> QED BY <1>1, <1>2, StreamInvariance, PTL DEF Spec, ImplementsStream, Stream!Spec
=============================================================================
