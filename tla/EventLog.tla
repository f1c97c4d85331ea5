------------------------------ MODULE EventLog ------------------------------
(***************************************************************************)
(* The durable event log (crates/rtm-daemon/src/event_log.rs) with its     *)
(* long-polling readers and the clients' cursors                           *)
(* (crates/rtm-client/src/event_watcher.rs): append, fsync, retention,     *)
(* crash, recovery of a partial line, registration for notification.       *)
(* Append holds the log's mutex and never awaits, so it is one step; the   *)
(* notification comes after the mutex is released and is a step of its     *)
(* own, and so is each of the three reads of a long poll.                  *)
(***************************************************************************)
EXTENDS Integers, Sequences

CONSTANTS
  Client,      \* event watchers
  MinEvents,   \* EVENT_LOG_RETENTION_MIN_EVENTS
  MaxEvents,   \* bound on the number of appends
  MaxCrashes,  \* bound on daemon crashes
  Faults       \* which I/O operations may fail: "write", "sync", "compact"

ASSUME MinEventsPositive == MinEvents \in Nat \ {0}

ASSUME BoundsAreNaturals == MaxEvents \in Nat /\ MaxCrashes \in Nat

ASSUME KnownFaults == Faults \subseteq {"write", "sync", "compact"}

VARIABLES
  up,         \* the daemon runs and has opened the log
  disk,       \* complete lines of events.jsonl
  tail,       \* "clean", or "partial": bytes after the last newline
  events,     \* EventLogInner::events
  nextSeq,    \* EventLogInner::next_seq
  unnotified, \* appends that have not called notify_waiters yet
  request,    \* the Events request each client has outstanding
  woken,      \* clients whose registered future was notified
  cursor,     \* EventWatcher::cursor
  delivered,  \* events each client was given, in order
  expired,    \* the last floor each client was told by CursorExpired
  published,  \* appends that returned Ok so far; numbers the events
  crashes

daemonVars == <<up, disk, tail, events, nextSeq, unnotified>>
clientVars == <<request, woken, cursor, delivered, expired>>
vars == <<daemonVars, clientVars, published, crashes>>

\* EventLogEntry: the event is named by the number of its append.
Entry == [seq : Nat, event : Nat]

\* A line of the file; a torn line is one that does not parse.
Line == [seq : Nat, event : Nat, torn : BOOLEAN]

\* A request is read once ("checked"), registered with append_notify, read
\* again and then waits; since is its cursor, page the cursor of the answer
\* that a timeout returns.
Request == [pc : {"idle", "checked", "registered", "waiting"},
            since : Nat, page : Nat]

NoRequest == [pc |-> "idle", since |-> 0, page |-> 0]

TypeOK ==
  /\ up \in BOOLEAN
  /\ disk \in Seq(Line)
  /\ tail \in {"clean", "partial"}
  /\ events \in Seq(Entry)
  /\ nextSeq \in Nat
  /\ unnotified \in Nat
  /\ request \in [Client -> Request]
  /\ woken \in SUBSET Client
  /\ cursor \in [Client -> Nat]
  /\ delivered \in [Client -> Seq(Nat)]
  /\ expired \in [Client -> Nat]
  /\ published \in Nat
  /\ crashes \in Nat

Init ==
  /\ up = FALSE
  /\ disk = <<>> /\ tail = "clean"
  /\ events = <<>> /\ nextSeq = 1
  /\ unnotified = 0
  /\ request = [c \in Client |-> NoRequest]
  /\ woken = {}
  /\ cursor = [c \in Client |-> 0]
  /\ delivered = [c \in Client |-> <<>>]
  /\ expired = [c \in Client |-> 0]
  /\ published = 0
  /\ crashes = 0

-----------------------------------------------------------------------------
(* Opening, appending, compacting.                                         *)

\* Mutant of seq_after: the newest number is used again.
seq_reused(es) == IF es = <<>> THEN 1 ELSE es[Len(es)].seq

\* next_seq of a log that holds es.
seq_after(es) == IF es = <<>> THEN 1 ELSE es[Len(es)].seq + 1

\* EventLogRecord::into_entry and from_entry.
into_entry(line) == [seq |-> line.seq, event |-> line.event]
from_entry(entry) == [seq |-> entry.seq, event |-> entry.event, torn |-> FALSE]

\* open: the partial tail is cut off, every line must parse.
open ==
  /\ ~up
  /\ \A i \in DOMAIN disk : ~disk[i].torn
  /\ up' = TRUE
  /\ tail' = "clean"
  /\ events' = [i \in DOMAIN disk |-> into_entry(disk[i])]
  /\ nextSeq' = seq_after(disk)
  /\ UNCHANGED <<disk, unnotified, clientVars, published, crashes>>

\* Mutant of retain_from_index: one event less than the minimum is kept.
retain_one_less(es, old) ==
  IF Len(es) < MinEvents THEN 0
  ELSE IF Len(es) - MinEvents + 1 < old THEN Len(es) - MinEvents + 1 ELSE old

\* retain_from_index when the first old entries are past their minimum age.
retain_from_index(es, old) ==
  IF Len(es) < MinEvents THEN 0
  ELSE IF Len(es) - MinEvents < old THEN Len(es) - MinEvents ELSE old

\* Mutant of compact: the file is not replaced.
compact_memory_only(es, n) ==
  /\ events' = SubSeq(es, n + 1, Len(es))
  /\ disk' = [i \in DOMAIN es |-> from_entry(es[i])]

\* The file and the memory after compact_if_due dropped the first n entries:
\* the file is rewritten from memory.
compact(es, n) ==
  LET retained == SubSeq(es, n + 1, Len(es))
  IN /\ events' = retained
     /\ disk' = [i \in DOMAIN retained |-> from_entry(retained[i])]

\* append: write the line, push the entry, sync and compact if due.  A line
\* written after a partial one does not parse.
append(old) ==
  LET entry == [seq |-> nextSeq, event |-> published + 1]
      pushed == Append(events, entry)
      n == retain_from_index(pushed, old)
  IN /\ up
     /\ published < MaxEvents
     /\ published' = published + 1
     /\ nextSeq' = nextSeq + 1
     /\ unnotified' = unnotified + 1
     /\ tail' = "clean"
     /\ IF n > 0
          THEN compact(pushed, n)
          ELSE /\ events' = pushed
               /\ disk' = Append(disk, [from_entry(entry) EXCEPT
                                          !.torn = (tail = "partial")])
     /\ UNCHANGED <<up, clientVars, crashes>>

\* A failing write may leave part of the line; the number is used up.
append_write_fails ==
  /\ up /\ "write" \in Faults
  /\ nextSeq <= MaxEvents
  /\ nextSeq' = nextSeq + 1
  /\ tail' \in {tail, "partial"}
  /\ UNCHANGED <<up, disk, events, unnotified, clientVars, published, crashes>>

\* sync_data fails: the entry stays, nobody is notified.
append_sync_fails ==
  LET entry == [seq |-> nextSeq, event |-> published + 1]
  IN /\ up /\ "sync" \in Faults
     /\ published < MaxEvents
     /\ published' = published + 1
     /\ nextSeq' = nextSeq + 1
     /\ tail' = "clean"
     /\ events' = Append(events, entry)
     /\ disk' = Append(disk, [from_entry(entry) EXCEPT !.torn = (tail = "partial")])
     /\ UNCHANGED <<up, unnotified, clientVars, crashes>>

\* Rewriting the file fails after split_off, before the rename: memory is left
\* with the entries that were to be dropped, the file with all of them.
append_compact_fails(old) ==
  LET entry == [seq |-> nextSeq, event |-> published + 1]
      pushed == Append(events, entry)
      n == retain_from_index(pushed, old)
  IN /\ up /\ "compact" \in Faults
     /\ published < MaxEvents
     /\ n > 0
     /\ published' = published + 1
     /\ nextSeq' = nextSeq + 1
     /\ tail' = "clean"
     /\ events' = SubSeq(pushed, 1, n)
     /\ disk' = Append(disk, [from_entry(entry) EXCEPT !.torn = (tail = "partial")])
     /\ UNCHANGED <<up, unnotified, clientVars, crashes>>

\* notify_waiters wakes the futures that are registered at that moment.
notify_waiters ==
  /\ unnotified > 0
  /\ unnotified' = unnotified - 1
  /\ woken' = {c \in Client : request[c].pc \in {"registered", "waiting"}}
  /\ UNCHANGED <<up, disk, tail, events, nextSeq, request, cursor, delivered,
                 expired, published, crashes>>

\* The daemon process ends, perhaps inside append's writes; the requests that
\* were outstanding fail.
crash ==
  /\ up
  /\ crashes < MaxCrashes
  /\ crashes' = crashes + 1
  /\ up' = FALSE
  /\ tail' \in {tail, "partial"}
  /\ events' = <<>> /\ nextSeq' = 1 /\ unnotified' = 0
  /\ request' = [c \in Client |-> NoRequest]
  /\ woken' = {}
  /\ UNCHANGED <<disk, cursor, delivered, expired, published>>

-----------------------------------------------------------------------------
(* Reading.                                                                *)

\* oldest_valid_cursor; an empty log accepts every cursor.
oldest_valid_cursor == IF events = <<>> THEN 0 ELSE events[1].seq - 1

\* Mutant of read_up_to: the event at the cursor is read again.
read_before(since) ==
  CHOOSE n \in 0 .. Len(events) :
    \A i \in DOMAIN events : (i <= n) <=> (events[i].seq < since)

\* events_since: the entries after a cursor, and the cursor of the page.  The
\* code filters; sequence numbers ascend, so what it keeps is a suffix.
read_up_to(since) ==
  CHOOSE n \in 0 .. Len(events) :
    \A i \in DOMAIN events : (i <= n) <=> (events[i].seq <= since)

after(since) == SubSeq(events, read_up_to(since) + 1, Len(events))

page_cursor(since) == IF events = <<>> THEN since ELSE events[Len(events)].seq

\* The answer reaches the client, which applies it (EventWatcher::next).
update_cursor(c, evs, to) ==
  /\ delivered' = [delivered EXCEPT ![c] = @ \o [i \in DOMAIN evs |-> evs[i].event]]
  /\ cursor' = [cursor EXCEPT ![c] = to]
  /\ request' = [request EXCEPT ![c] = NoRequest]
  /\ woken' = woken \ {c}

\* Mutant of answer: an expired cursor is not noticed.
answer_any(c, since) ==
  update_cursor(c, after(since), page_cursor(since)) /\ UNCHANGED expired

\* An answer of events_since that ends the request: CursorExpired, or a page.
answer(c, since) ==
  IF since < oldest_valid_cursor
    THEN /\ update_cursor(c, <<>>, oldest_valid_cursor)
         /\ expired' = [expired EXCEPT ![c] = oldest_valid_cursor]
    ELSE /\ update_cursor(c, after(since), page_cursor(since))
         /\ UNCHANGED expired

\* A read that finds nothing and does not expire.
nothing_new(since) == since >= oldest_valid_cursor /\ after(since) = <<>>

\* events_since_or_wait, first read; without wait_ms it always answers.
events_since(c) ==
  /\ up
  /\ request[c].pc = "idle"
  /\ \/ answer(c, cursor[c])
     \/ /\ nothing_new(cursor[c])
        /\ request' = [request EXCEPT ![c] =
             [pc |-> "checked", since |-> cursor[c], page |-> 0]]
        /\ UNCHANGED <<woken, cursor, delivered, expired>>
  /\ UNCHANGED <<daemonVars, published, crashes>>

\* notified.enable().
register(c) ==
  /\ request[c].pc = "checked"
  /\ request' = [request EXCEPT ![c].pc = "registered"]
  /\ UNCHANGED <<daemonVars, woken, cursor, delivered, expired, published, crashes>>

\* Mutant of second_check: the log is not read again after registration.
second_check_skipped(c) ==
  /\ request[c].pc = "registered"
  /\ request' = [request EXCEPT ![c].pc = "waiting", ![c].page = request[c].since]
  /\ UNCHANGED <<daemonVars, woken, cursor, delivered, expired, published, crashes>>

second_check(c) ==
  LET since == request[c].since
  IN /\ request[c].pc = "registered"
     /\ IF nothing_new(since)
          THEN /\ request' = [request EXCEPT ![c].pc = "waiting",
                                             ![c].page = page_cursor(since)]
               /\ UNCHANGED <<woken, cursor, delivered, expired>>
          ELSE answer(c, since)
     /\ UNCHANGED <<daemonVars, published, crashes>>

notified(c) ==
  /\ request[c].pc = "waiting"
  /\ c \in woken
  /\ answer(c, request[c].since)
  /\ UNCHANGED <<daemonVars, published, crashes>>

\* The wait is over: the page of the second check is the answer.
wait_elapsed(c) ==
  /\ request[c].pc = "waiting"
  /\ update_cursor(c, <<>>, request[c].page)
  /\ UNCHANGED <<daemonVars, expired, published, crashes>>

\* The client goes away; wait_for_disconnect drops the request.
wait_for_disconnect(c) ==
  /\ request[c].pc # "idle"
  /\ request' = [request EXCEPT ![c] = NoRequest]
  /\ woken' = woken \ {c}
  /\ UNCHANGED <<daemonVars, cursor, delivered, expired, published, crashes>>

-----------------------------------------------------------------------------
Writing ==
  \/ open \/ notify_waiters \/ crash \/ append_write_fails \/ append_sync_fails
  \/ \E old \in 0 .. Len(events) + 1 : append(old) \/ append_compact_fails(old)

Reading(c) ==
  \/ events_since(c) \/ register(c) \/ second_check(c)
  \/ notified(c) \/ wait_elapsed(c) \/ wait_for_disconnect(c)

Next == Writing \/ \E c \in Client : Reading(c)

Spec == Init /\ [][Next]_vars

\* The daemon is started again, an append calls notify_waiters and a task that
\* was notified runs; no timeout is needed and no client has to poll.
FairSpec ==
  /\ Spec
  /\ WF_vars(open) /\ WF_vars(notify_waiters)
  /\ \A c \in Client : WF_vars(second_check(c)) /\ WF_vars(notified(c))

-----------------------------------------------------------------------------
(* Properties.                                                             *)

\* The newest sequence number in memory.
last_seq == IF events = <<>> THEN 0 ELSE events[Len(events)].seq

\* Sequence numbers ascend in memory and in the file and next_seq is above all
\* of them, whichever write, sync or rewrite failed and whenever the daemon
\* crashed: no number names two events.
SeqIsFresh ==
  /\ \A i, j \in DOMAIN events : i < j => events[i].seq < events[j].seq
  /\ \A i, j \in DOMAIN disk : i < j => disk[i].seq < disk[j].seq
  /\ up => /\ \A i \in DOMAIN events : events[i].seq < nextSeq
           /\ \A i \in DOMAIN disk : disk[i].seq < nextSeq

\* What the readers see is what a restart would find: memory and file hold the
\* same entries, compaction included.
MemoryIsFile ==
  up => events = [i \in DOMAIN disk |-> into_entry(disk[i])]

\* No client gets an event twice or out of order, across restarts, disconnects
\* and long polls that time out ("resumes without duplicate delivery across
\* daemon restarts", PROJECT.md).
DeliveredOnce ==
  \A c \in Client : \A i, j \in DOMAIN delivered[c] :
    i < j => delivered[c][i] < delivered[c][j]

\* No client misses an event silently: what lies behind its cursor was given
\* to it, or it was told by CursorExpired that retention had dropped it.
NothingSkipped ==
  \A c \in Client : \A e \in (expired[c] + 1) .. cursor[c] :
    \E i \in DOMAIN delivered[c] : delivered[c][i] = e

\* A waiting reader for whom an event was appended stops waiting even if its
\* timeout never expires.
WaiterIsServed ==
  \A c \in Client :
    (request[c].pc = "waiting" /\ last_seq > request[c].since)
    ~> (request[c].pc # "waiting")

\* A log that was written can be read again: TLDR.md says that transitions
\* "survive daemon restarts", and open refuses a file with a torn line.
LogCanBeOpened == \A i \in DOMAIN disk : ~disk[i].torn

\* The log implements the stream of events that clients are promised.
Stream == INSTANCE EventStream WITH
  floor    <- IF disk = <<>> THEN 0 ELSE disk[1].seq - 1,
  position <- cursor,
  received <- delivered

\* Every step of the log, of a crash, of a recovery or of a long poll is a step
\* of EventStream or leaves the stream and what the clients got unchanged.
ImplementsStream == Stream!Spec
=============================================================================
