---------------------------- MODULE ClientProofs ----------------------------
(***************************************************************************)
(* For any number of daemons, callers and requests, at any paths: as long  *)
(* as no daemon is started beside another, a listening daemon owns the     *)
(* socket file at its path, and "rtmd stopped" is said of a daemon that    *)
(* has gone.  For any store and panes, every answer that a client takes    *)
(* says what is so.                                                        *)
(***************************************************************************)
EXTENDS Client, SequenceTheorems, FiniteSetTheorems, TLAPS

\* A call has six fields, and is at some place with some daemon.
IsCall(x) ==
  /\ x = [field \in {"pc", "rpc", "daemon", "world", "response", "outcome"} |-> x[field]]
  /\ x.pc \in CallState
  /\ x.daemon \in Daemon \cup {Nobody}

Types ==
  /\ daemon \in [Daemon -> DaemonState]
  /\ socket \in [Path -> Daemon \cup {Nobody}]
  /\ stopping \in [Daemon -> {"no", "answered", "sent"}]
  /\ overlap \in BOOLEAN
  /\ conn = [c \in Caller |-> conn[c]]
  /\ \A c \in Caller : IsCall(conn[c])

\* One daemon at a time is between the opening of the store and the removal of
\* the socket.
Alone ==
  ~overlap => \A d, e \in Daemon :
    path_of(d) = path_of(e) /\ daemon[d] \in Started /\ daemon[e] \in Started => d = e

\* Nobody puts a file back between prepare_socket and bind.
PreparedIsFree ==
  ~overlap => \A d \in Daemon : daemon[d] = "prepared" => socket[path_of(d)] = Nobody

\* A socket file is at its daemon's path.
FileIsPlaced ==
  \A path \in Path : socket[path] # Nobody => /\ path_of(socket[path]) = path
                                              /\ daemon[socket[path]] \notin
                                                   {"new", "opened", "prepared"}

\* A call that has met a daemon met one at its own path.
CallIsPlaced ==
  \A c \in Caller : conn[c].pc \in {"queued", "accepted", "answered", "waiting", "stopped"} =>
    /\ conn[c].daemon \in Daemon
    /\ path_of(conn[c].daemon) = path_of(c)
    /\ daemon[conn[c].daemon] \notin {"new", "opened", "prepared"}

IInv ==
  /\ Types /\ Alone /\ PreparedIsFree /\ SocketIsServed
  /\ FileIsPlaced /\ CallIsPlaced /\ StopIsTrue

-----------------------------------------------------------------------------

LEMMA PathOfPlace == \A x \in Daemon \cup Caller : path_of(x) \in Path
  BY DEF Path

LEMMA IdleIsCall == IsCall(Idle)
  BY DEF Idle, IsCall, CallState

LEMMA EndedIsCall ==
  ASSUME NEW outcome
  PROVE  IsCall(Ended(outcome)) /\ Ended(outcome).pc = "done"
  BY DEF Ended, Idle, IsCall, CallState

LEMMA DoneIsCall ==
  ASSUME NEW x, IsCall(x), NEW outcome
  PROVE  LET y == [x EXCEPT !.pc = "done", !.daemon = Nobody, !.outcome = outcome]
         IN  IsCall(y) /\ y.pc = "done"
  BY DEF IsCall, CallState

\* What a step of one call does to conn.
LEMMA OneCallChanges ==
  ASSUME Types, NEW c \in Caller, NEW x, IsCall(x), conn' = [conn EXCEPT ![c] = x]
  PROVE  /\ conn' = [b \in Caller |-> conn'[b]]
         /\ \A b \in Caller : IsCall(conn'[b])
         /\ conn'[c] = x
         /\ \A b \in Caller \ {c} : conn'[b] = conn[b]
<1>1. conn' = [b \in Caller |-> IF b = c THEN x ELSE conn[b]]
  BY DEF Types
<1> QED
  BY <1>1 DEF Types

LEMMA InitHolds == Init => IInv
<1> SUFFICES ASSUME Init PROVE IInv
  OBVIOUS
<1>1. Types
  BY IdleIsCall DEF Init, Types, DaemonState
<1>2. \A c \in Caller : conn[c].pc = "idle"
  BY DEF Init, Idle
<1>3. \A d \in Daemon : daemon[d] = "new"
  BY DEF Init
<1>4. \A path \in Path : socket[path] = Nobody
  BY DEF Init
<1> QED
  BY <1>1, <1>2, <1>3, <1>4
  DEF IInv, Alone, PreparedIsFree, SocketIsServed, FileIsPlaced, CallIsPlaced, StopIsTrue, Started

-----------------------------------------------------------------------------
(* What the daemon parts of the invariant need of a step: one daemon moves *)
(* and the file at its path changes, or nothing but a call does.           *)

LEMMA OneCallStep ==
  ASSUME IInv, UNCHANGED <<daemon, socket, overlap>>,
         stopping' \in [Daemon -> {"no", "answered", "sent"}] \/ UNCHANGED stopping,
         NEW c \in Caller, NEW x, IsCall(x), conn' = [conn EXCEPT ![c] = x],
         x.pc \in {"queued", "accepted", "answered", "waiting", "stopped"} =>
           /\ x.daemon \in Daemon
           /\ path_of(x.daemon) = path_of(c)
           /\ daemon[x.daemon] \notin {"new", "opened", "prepared"},
         x.pc = "stopped" /\ ~overlap => daemon[x.daemon] \in {"removed", "off"}
  PROVE  IInv'
<1>1. /\ conn' = [b \in Caller |-> conn'[b]]
      /\ \A b \in Caller : IsCall(conn'[b])
      /\ conn'[c] = x
      /\ \A b \in Caller \ {c} : conn'[b] = conn[b]
  BY OneCallChanges DEF IInv
<1>2. Types'
  BY <1>1 DEF IInv, Types
<1>3. CallIsPlaced'
  BY <1>1 DEF CallIsPlaced, IInv
<1>4. StopIsTrue'
  BY <1>1 DEF StopIsTrue, IInv
<1> QED
  BY <1>2, <1>3, <1>4 DEF IInv, Alone, PreparedIsFree, SocketIsServed, FileIsPlaced

-----------------------------------------------------------------------------
LEMMA NextHolds == IInv /\ [Next]_vars => IInv'
<1> SUFFICES ASSUME IInv, [Next]_vars PROVE IInv'
  OBVIOUS
<1> USE PathOfPlace, NobodyIsNoDaemon
<1>types. /\ daemon \in [Daemon -> DaemonState]
          /\ socket \in [Path -> Daemon \cup {Nobody}]
          /\ stopping \in [Daemon -> {"no", "answered", "sent"}]
          /\ overlap \in BOOLEAN
          /\ conn = [c \in Caller |-> conn[c]]
          /\ \A c \in Caller : IsCall(conn[c])
  BY DEF IInv, Types
<1>1. ASSUME NEW d \in Daemon, open_store(d) PROVE IInv'
  <2>1. Types'
    BY <1>1, <1>types DEF open_store, DaemonGo, Types, DaemonState
  <2>2. Alone'
    BY <1>1, <1>types DEF IInv, open_store, DaemonGo, Alone, Started
  <2>3. PreparedIsFree' /\ SocketIsServed' /\ StopIsTrue'
    BY <1>1, <1>types
    DEF IInv, open_store, DaemonGo, PreparedIsFree, SocketIsServed, StopIsTrue, CallIsPlaced
  <2>4. FileIsPlaced' /\ CallIsPlaced'
    BY <1>1, <1>types DEF IInv, open_store, DaemonGo, FileIsPlaced, CallIsPlaced
  <2> QED
    BY <2>1, <2>2, <2>3, <2>4 DEF IInv
<1>2. ASSUME NEW d \in Daemon, prepare_socket(d) PROVE IInv'
  <2>1. Types'
    BY <1>2, <1>types DEF prepare_socket, DaemonGo, Types, DaemonState
  <2>2. Alone'
    BY <1>2, <1>types DEF IInv, prepare_socket, DaemonGo, Alone, Started
  <2>3. PreparedIsFree' /\ SocketIsServed'
    BY <1>2, <1>types
    DEF IInv, prepare_socket, DaemonGo, PreparedIsFree, SocketIsServed, Alone, Started
  <2>4. FileIsPlaced'
    BY <1>2, <1>types DEF IInv, prepare_socket, DaemonGo, FileIsPlaced
  <2>5. CallIsPlaced' /\ StopIsTrue'
    BY <1>2, <1>types DEF IInv, prepare_socket, DaemonGo, CallIsPlaced, StopIsTrue
  <2> QED
    BY <2>1, <2>2, <2>3, <2>4, <2>5 DEF IInv
<1>3. ASSUME NEW d \in Daemon, bind(d) PROVE IInv'
  <2>1. Types'
    BY <1>3, <1>types DEF bind, DaemonGo, Types, DaemonState
  <2>2. Alone'
    BY <1>3, <1>types DEF IInv, bind, DaemonGo, Alone, Started
  <2>3. PreparedIsFree' /\ SocketIsServed'
    BY <1>3, <1>types
    DEF IInv, bind, DaemonGo, PreparedIsFree, SocketIsServed, Alone, Started
  <2>4. FileIsPlaced'
    BY <1>3, <1>types DEF IInv, bind, DaemonGo, FileIsPlaced
  <2>5. CallIsPlaced' /\ StopIsTrue'
    BY <1>3, <1>types DEF IInv, bind, DaemonGo, CallIsPlaced, StopIsTrue
  <2> QED
    BY <2>1, <2>2, <2>3, <2>4, <2>5 DEF IInv
<1>4. ASSUME NEW d \in Daemon, serve(d) \/ leave_on_stop(d) \/ leave_on_signal(d) PROVE IInv'
  <2>1. /\ daemon[d] \in {"bound", "up"}
        /\ daemon' = [daemon EXCEPT ![d] = IF daemon[d] = "bound" THEN "up" ELSE "leaving"]
        /\ UNCHANGED <<socket, stopping, overlap, conn>>
    BY <1>4 DEF serve, leave_on_stop, leave_on_signal, DaemonGo
  <2>2. Types'
    BY <2>1, <1>types DEF Types, DaemonState
  <2>3. Alone' /\ PreparedIsFree' /\ SocketIsServed'
    BY <2>1, <1>types DEF IInv, Alone, Started, PreparedIsFree, SocketIsServed
  <2>4. FileIsPlaced' /\ CallIsPlaced' /\ StopIsTrue'
    BY <2>1, <1>types DEF IInv, FileIsPlaced, CallIsPlaced, StopIsTrue
  <2> QED
    BY <2>2, <2>3, <2>4 DEF IInv
<1>5. ASSUME NEW d \in Daemon, remove_socket_file(d) PROVE IInv'
  <2>1. Types'
    BY <1>5, <1>types DEF remove_socket_file, DaemonGo, Types, DaemonState
  <2>2. Alone' /\ PreparedIsFree' /\ SocketIsServed'
    BY <1>5, <1>types
    DEF IInv, remove_socket_file, DaemonGo, Alone, Started, PreparedIsFree, SocketIsServed
  <2>3. FileIsPlaced' /\ CallIsPlaced' /\ StopIsTrue'
    BY <1>5, <1>types
    DEF IInv, remove_socket_file, DaemonGo, FileIsPlaced, CallIsPlaced, StopIsTrue
  <2> QED
    BY <2>1, <2>2, <2>3 DEF IInv
<1>6. ASSUME NEW d \in Daemon, fail(d) \/ exit(d) PROVE IInv'
  <2>1. /\ daemon[d] \notin {"new", "off"}
        /\ daemon' = [daemon EXCEPT ![d] = "off"]
        /\ UNCHANGED <<socket, stopping, overlap>>
    BY <1>6 DEF fail, exit, DaemonGo
  <2>2. conn' = [c \in Caller |-> IF open_to(c, d) THEN Ended(Eof) ELSE conn[c]]
    BY <1>6 DEF fail, exit, disconnect
  <2>3. \A c \in Caller : conn'[c] = conn[c] \/ conn'[c].pc = "done"
    BY <2>2, EndedIsCall
  <2>4. Types'
    <3>1. conn' = [c \in Caller |-> conn'[c]] /\ \A c \in Caller : IsCall(conn'[c])
      BY <2>2, <1>types, EndedIsCall
    <3> QED
      BY <2>1, <3>1, <1>types DEF Types, DaemonState
  <2>5. Alone' /\ PreparedIsFree' /\ SocketIsServed'
    BY <2>1, <1>types DEF IInv, Alone, Started, PreparedIsFree, SocketIsServed
  <2>6. FileIsPlaced'
    BY <2>1, <1>types DEF IInv, FileIsPlaced
  <2>7. CallIsPlaced' /\ StopIsTrue'
    BY <2>1, <2>3, <1>types DEF IInv, CallIsPlaced, StopIsTrue
  <2> QED
    BY <2>4, <2>5, <2>6, <2>7 DEF IInv
<1>7. ASSUME NEW d \in Daemon, send_shutdown(d) PROVE IInv'
  <2>1. Types'
    BY <1>7, <1>types DEF send_shutdown, Types
  <2> QED
    BY <1>7, <2>1 DEF send_shutdown, IInv, Alone, PreparedIsFree, SocketIsServed,
                      FileIsPlaced, CallIsPlaced, StopIsTrue
<1>8. ASSUME NEW c \in Caller, NEW rpc \in Asks[c], request(c, rpc) PROVE IInv'
  <2> DEFINE d == socket[path_of(c)]
             queued == [Idle EXCEPT !.pc = "queued", !.rpc = rpc, !.daemon = d]
  <2>0. UNCHANGED <<daemon, socket, stopping, overlap>>
    BY <1>8 DEF request
  <2>1. CASE d # Nobody /\ daemon[d] \in Listening
    <3>1. conn' = [conn EXCEPT ![c] = queued]
      BY <1>8, <2>1 DEF request
    <3>2. d \in Daemon
      BY <2>1, <1>types
    <3>3. IsCall(queued) /\ queued.pc = "queued" /\ queued.daemon = d
      BY <3>2 DEF Idle, IsCall, CallState
    <3>4. path_of(d) = path_of(c) /\ daemon[d] \notin {"new", "opened", "prepared"}
      BY <2>1, <1>types DEF IInv, FileIsPlaced
    <3> HIDE DEF queued
    <3> QED
      BY <2>0, <3>1, <3>2, <3>3, <3>4, OneCallStep
  <2>2. CASE ~(d # Nobody /\ daemon[d] \in Listening)
    <3>1. conn' = [conn EXCEPT ![c] = Ended(Unavailable)]
      BY <1>8, <2>2 DEF request
    <3> QED
      BY <2>0, <3>1, EndedIsCall, OneCallStep
  <2> QED
    BY <2>1, <2>2
<1>9. ASSUME NEW c \in Caller, accept(c) PROVE IInv'
  <2> DEFINE accepted == [conn[c] EXCEPT !.pc = "accepted"]
  <2>1. /\ conn[c].pc = "queued" /\ conn' = [conn EXCEPT ![c] = accepted]
        /\ UNCHANGED <<daemon, socket, stopping, overlap>>
    BY <1>9 DEF accept
  <2>2. IsCall(accepted) /\ accepted.pc = "accepted" /\ accepted.daemon = conn[c].daemon
    BY <1>types DEF IsCall, CallState
  <2> HIDE DEF accepted
  <2> QED
    BY <2>1, <2>2, OneCallStep DEF IInv, CallIsPlaced
<1>10. ASSUME NEW c \in Caller, handle_rpc(c) PROVE IInv'
  <2>1. PICK world, response : Handled(c, world, response)
    BY <1>10, Zenon DEF handle_rpc
  <2>2. PICK seen : conn' = [conn EXCEPT ![c].pc = "answered", ![c].response = response,
                                         ![c].world = seen]
    BY <2>1 DEF Handled
  <2> DEFINE answered == [conn[c] EXCEPT !.pc = "answered", !.response = response,
                                         !.world = seen]
  <2>3. conn[c].pc = "accepted" /\ UNCHANGED <<daemon, socket, stopping, overlap>>
    BY <1>10 DEF handle_rpc
  <2>4. conn' = [conn EXCEPT ![c] = answered]
    BY <2>2, <1>types
  <2>5. IsCall(answered) /\ answered.pc = "answered" /\ answered.daemon = conn[c].daemon
    <3>1. IsCall(conn[c])
      BY <1>types
    <3>2. answered = [field \in {"pc", "rpc", "daemon", "world", "response", "outcome"} |->
                        IF field = "pc" THEN "answered" ELSE IF field = "response" THEN response
                        ELSE IF field = "world" THEN seen ELSE conn[c][field]]
      BY <3>1 DEF IsCall
    <3>3. answered.pc = "answered" /\ answered.daemon = conn[c].daemon
      BY <3>2
    <3>4. answered = [field \in {"pc", "rpc", "daemon", "world", "response", "outcome"} |->
                        answered[field]]
      BY <3>2
    <3> HIDE DEF answered
    <3> QED
      BY <3>1, <3>3, <3>4 DEF IsCall, CallState
  <2> HIDE DEF answered
  <2> QED
    BY <2>3, <2>4, <2>5, OneCallStep DEF IInv, CallIsPlaced
<1>11. ASSUME NEW c \in Caller, respond(c) PROVE IInv'
  <2> DEFINE waiting == [Idle EXCEPT !.pc = "waiting", !.daemon = conn[c].daemon]
             answered == [conn[c] EXCEPT !.pc = "done", !.daemon = Nobody,
                                         !.outcome = outcome_of(conn[c].rpc, conn[c].response)]
  <2>1. /\ conn[c].pc = "answered"
        /\ conn' = [conn EXCEPT ![c] = waiting] \/ conn' = [conn EXCEPT ![c] = answered]
        /\ UNCHANGED <<daemon, socket, overlap>>
    BY <1>11 DEF respond
  <2>2. stopping' \in [Daemon -> {"no", "answered", "sent"}]
    BY <1>11, <1>types DEF respond
  <2>3. IsCall(waiting) /\ waiting.pc = "waiting" /\ waiting.daemon = conn[c].daemon
    BY <1>types DEF Idle, IsCall, CallState
  <2>4. IsCall(answered) /\ answered.pc = "done"
    <3>1. IsCall(conn[c])
      BY <1>types
    <3> QED
      BY <3>1, DoneIsCall, Zenon
  <2> HIDE DEF waiting, answered
  <2>5. CASE conn' = [conn EXCEPT ![c] = waiting]
    BY <2>1, <2>2, <2>3, <2>5, OneCallStep DEF IInv, CallIsPlaced
  <2>6. CASE conn' = [conn EXCEPT ![c] = answered]
    BY <2>1, <2>2, <2>4, <2>6, OneCallStep
  <2> QED
    BY <2>1, <2>5, <2>6
<1>12. ASSUME NEW c \in Caller, see_removed(c) PROVE IInv'
  <2> DEFINE stopped == [conn[c] EXCEPT !.pc = "stopped"]
  <2>1. /\ conn[c].pc = "waiting" /\ socket[path_of(c)] = Nobody
        /\ conn' = [conn EXCEPT ![c] = stopped]
        /\ UNCHANGED <<daemon, socket, stopping, overlap>>
    BY <1>12 DEF see_removed
  <2>2. IsCall(stopped) /\ stopped.pc = "stopped" /\ stopped.daemon = conn[c].daemon
    BY <1>types DEF IsCall, CallState
  <2>3. /\ conn[c].daemon \in Daemon
        /\ path_of(conn[c].daemon) = path_of(c)
        /\ daemon[conn[c].daemon] \notin {"new", "opened", "prepared"}
    BY <2>1 DEF IInv, CallIsPlaced
  <2>4. ~overlap => daemon[conn[c].daemon] \in {"removed", "off"}
    BY <2>1, <2>3, <1>types DEF IInv, SocketIsServed, DaemonState
  <2> HIDE DEF stopped
  <2> QED
    BY <2>1, <2>2, <2>3, <2>4, OneCallStep
<1>13. ASSUME NEW c \in Caller, wait_timeout(c) \/ give_up(c) PROVE IInv'
  <2>0. UNCHANGED <<daemon, socket, stopping, overlap>>
    BY <1>13 DEF wait_timeout, give_up
  <2>1. CASE wait_timeout(c)
    BY <2>0, <2>1, EndedIsCall, OneCallStep DEF wait_timeout
  <2>2. CASE give_up(c)
    <3>1. Idle.pc = "idle"
      BY DEF Idle
    <3> QED
      BY <2>0, <2>2, <3>1, IdleIsCall, OneCallStep DEF give_up
  <2> QED
    BY <1>13, <2>1, <2>2
<1>14. CASE UNCHANGED vars
  BY <1>14 DEF vars, IInv, Types, Alone, PreparedIsFree, SocketIsServed, FileIsPlaced,
               CallIsPlaced, StopIsTrue, path_of, Path
<1> QED
  BY <1>1, <1>2, <1>3, <1>4, <1>5, <1>6, <1>7, <1>8, <1>9, <1>10, <1>11, <1>12, <1>13, <1>14
  DEF Next, DaemonStep, CallStep

LEMMA InvariantHolds == Spec => []IInv
  BY InitHolds, NextHolds, PTL DEF Spec

\* While no daemon is started beside another, the file at the path of a daemon
\* that listens is its own (prepare_socket, bind, remove_socket_file), for any
\* number of daemons, crashes and failed starts.
THEOREM ListenerOwnsSocket == Spec => []SocketIsServed
<1>1. IInv => SocketIsServed
  BY DEF IInv
<1> QED
  BY InvariantHolds, <1>1, PTL

\* While no daemon is started beside another, wait_for_socket_removed lets rtm
\* daemon stop say "rtmd stopped" only of a daemon that has left its accept loop,
\* whatever other callers do.
THEOREM StoppedIsTrue == Spec => []StopIsTrue
<1>1. IInv => StopIsTrue
  BY DEF IInv
<1> QED
  BY InvariantHolds, <1>1, PTL
-----------------------------------------------------------------------------
(* What the store answers: the order of texts is that of the times, what   *)
(* was written is what is read, and an address has one text.               *)

\* What a concatenation has at each place.
LEMMA ConcatAt ==
  ASSUME NEW S, NEW a \in Seq(S), NEW b \in Seq(S)
  PROVE  /\ a \o b \in Seq(S) /\ Len(a \o b) = Len(a) + Len(b)
         /\ \A i \in 1..Len(a) : (a \o b)[i] = a[i]
         /\ \A i \in 1..Len(b) : (a \o b)[i + Len(a)] = b[i]
OBVIOUS

\* The characters of a time's text, read one by one.
Written(t, text) ==
  LET n == Len(text) IN
  /\ n = IF t.nano # 0 THEN 6 ELSE IF t.micro # 0 THEN 5 ELSE IF t.milli # 0 THEN 4 ELSE 2
  /\ text[1] = 48 + t.sec
  /\ text[2] = IF n = 2 THEN 43 ELSE 46
  /\ n > 2 => text[3] = 48 + t.milli
  /\ n > 2 => text[4] = IF n = 4 THEN 43 ELSE 48 + t.micro
  /\ n > 4 => text[5] = IF n = 5 THEN 43 ELSE 48 + t.nano
  /\ n > 5 => text[6] = 43

\* Digits between a first character and the sign.
Frame(c, digits) == <<c>> \o (<<46>> \o digits) \o <<43>>

Framed(text, c, digits) ==
  /\ text \in Seq(Int) /\ Len(text) = Len(digits) + 3
  /\ text[1] = c /\ text[2] = 46 /\ text[Len(digits) + 3] = 43
  /\ \A i \in 1..Len(digits) : text[i + 2] = digits[i]

LEMMA FrameIsFramed ==
  ASSUME NEW c \in Int, NEW digits \in Seq(Int), NEW text, text = Frame(c, digits)
  PROVE  Framed(text, c, digits)
<1> DEFINE n == Len(digits)
           rest == <<46>> \o digits
           front == <<c>> \o rest
<1>1. /\ n \in Nat /\ <<c>> \in Seq(Int) /\ <<46>> \in Seq(Int) /\ <<43>> \in Seq(Int)
      /\ Len(<<c>>) = 1 /\ Len(<<46>>) = 1 /\ Len(<<43>>) = 1 /\ <<43>>[1] = 43
      /\ <<46>>[1] = 46 /\ <<c>>[1] = c
  OBVIOUS
<1>2. /\ rest \in Seq(Int) /\ Len(rest) = n + 1 /\ rest[1] = 46
      /\ \A i \in 1..n : rest[i + 1] = digits[i]
  BY <1>1, ConcatAt
<1> HIDE DEF rest, n
<1>3. /\ front \in Seq(Int) /\ Len(front) = n + 2 /\ front[1] = c
      /\ \A i \in 1..(n + 1) : front[i + 1] = rest[i]
  BY <1>1, <1>2, ConcatAt
<1>4. text = front \o <<43>>
  BY DEF rest, Frame
<1> HIDE DEF front
<1>5. /\ text \in Seq(Int) /\ Len(text) = n + 3 /\ text[n + 3] = 43
      /\ \A i \in 1..(n + 2) : text[i] = front[i]
  <2> DEFINE sign == <<43>>
  <2>1. sign \in Seq(Int) /\ Len(sign) = 1 /\ sign[1] = 43 /\ 1 \in 1..1
    BY <1>1
  <2> HIDE DEF sign
  <2>2. /\ front \o sign \in Seq(Int) /\ Len(front \o sign) = Len(front) + Len(sign)
        /\ \A i \in 1..Len(front) : (front \o sign)[i] = front[i]
        /\ \A i \in 1..Len(sign) : (front \o sign)[i + Len(front)] = sign[i]
    <3>1. front \in Seq(Int) /\ sign \in Seq(Int)
      BY <1>3, <2>1
    <3> QED BY <3>1, ConcatAt
  <2>3. (front \o sign)[1 + Len(front)] = 43
    BY <2>1, <2>2
  <2>4. 1 + Len(front) = n + 3 /\ Len(front) + 1 = n + 3
    BY <1>1, <1>3
  <2> HIDE DEF sign
  <2>5. text = front \o sign
    BY <1>4 DEF sign
  <2>6. text \in Seq(Int) /\ Len(text) = n + 3 /\ text[n + 3] = 43
    BY <2>1, <2>2, <2>3, <2>4, <2>5
  <2> QED BY <1>3, <2>2, <2>5, <2>6
<1>6. ASSUME NEW i \in 1..n PROVE text[i + 2] = digits[i]
  <2>1. i \in Int /\ i + 2 \in 1..(n + 2) /\ i + 1 \in 1..(n + 1) /\ (i + 1) + 1 = i + 2
    BY <1>1
  <2>2. text[i + 2] = front[i + 2]
    BY <1>5, <2>1
  <2>3. front[(i + 1) + 1] = rest[i + 1]
    BY <1>3, <2>1
  <2>4. rest[i + 1] = digits[i]
    BY <1>2
  <2> QED BY <2>1, <2>2, <2>3, <2>4
<1>7. text[1] = c /\ text[2] = 46
  <2>1. 1 \in 1..(n + 2) /\ 2 \in 1..(n + 2) /\ 1 \in 1..(n + 1) /\ 1 + 1 = 2
    BY <1>1
  <2>2. front[1 + 1] = rest[1]
    BY <1>3, <2>1
  <2> QED BY <1>2, <1>3, <1>5, <2>1, <2>2
<1> QED BY <1>5, <1>6, <1>7 DEF n, Framed

LEMMA TimeIsWritten ==
  ASSUME NEW t \in Time
  PROVE  Written(t, to_rfc3339(t)) /\ to_rfc3339(t) \in Seq(Int)
<1>0. t.sec \in 0..9 /\ t.milli \in 0..9 /\ t.micro \in 0..9 /\ t.nano \in 0..9
  BY DEF Time
<1> DEFINE text == to_rfc3339(t)
<1>1. CASE t.nano # 0
  <2> DEFINE groups == <<t.milli, t.micro, t.nano>>
             digits == [i \in 1..Len(groups) |-> Digit(groups[i])]
  <2>1. Len(groups) = 3 /\ groups # <<>>
    OBVIOUS
  <2>2. text = Frame(Digit(t.sec), digits)
    BY <1>1, <2>1 DEF to_rfc3339, Frame
  <2>3. digits \in Seq(Int) /\ Len(digits) = 3 /\ digits[1] = 48 + t.milli /\ digits[2] = 48 + t.micro /\ digits[3] = 48 + t.nano
    <3>1. \A i \in 1..3 : Digit(groups[i]) \in Int
      BY <1>0 DEF Digit
    <3>2. digits \in [1..3 -> Int]
      <4> HIDE DEF groups
      <4> QED BY <2>1, <3>1
    <3>3. digits \in Seq(Int)
      <4> HIDE DEF digits
      <4> QED BY <3>2, SeqDef
    <3>4. digits[1] = 48 + t.milli /\ digits[2] = 48 + t.micro /\ digits[3] = 48 + t.nano
      BY DEF Digit
    <3> QED BY <3>2, <3>3, <3>4
  <2> HIDE DEF digits, text
  <2>4. Digit(t.sec) \in Int /\ Digit(t.sec) = 48 + t.sec
    BY <1>0 DEF Digit
  <2>5. /\ text \in Seq(Int) /\ Len(text) = 6 /\ text[1] = Digit(t.sec) /\ text[2] = 46 /\ text[6] = 43
        /\ \A i \in 1..3 : text[i + 2] = digits[i]
    <3>1. Framed(text, Digit(t.sec), digits)
      BY <2>2, <2>3, <2>4, FrameIsFramed
    <3> QED BY <2>3, <3>1 DEF Framed
  <2>6. text[3] = 48 + t.milli /\ text[4] = 48 + t.micro /\ text[5] = 48 + t.nano
    <3>1. 1 \in 1..3 /\ 2 \in 1..3 /\ 3 \in 1..3 /\ 1 + 2 = 3 /\ 2 + 2 = 4 /\ 3 + 2 = 5
      OBVIOUS
    <3> QED BY <2>3, <2>5, <3>1
  <2>7. Written(t, text)
    BY <1>0, <1>1, <2>4, <2>5, <2>6 DEF Written
  <2> QED BY <2>5, <2>7 DEF text
<1>2. CASE t.nano = 0 /\ t.micro # 0
  <2> DEFINE groups == <<t.milli, t.micro>>
             digits == [i \in 1..Len(groups) |-> Digit(groups[i])]
  <2>1. Len(groups) = 2 /\ groups # <<>>
    OBVIOUS
  <2>2. text = Frame(Digit(t.sec), digits)
    BY <1>2, <2>1 DEF to_rfc3339, Frame
  <2>3. digits \in Seq(Int) /\ Len(digits) = 2 /\ digits[1] = 48 + t.milli /\ digits[2] = 48 + t.micro
    <3>1. \A i \in 1..2 : Digit(groups[i]) \in Int
      BY <1>0 DEF Digit
    <3>2. digits \in [1..2 -> Int]
      <4> HIDE DEF groups
      <4> QED BY <2>1, <3>1
    <3>3. digits \in Seq(Int)
      <4> HIDE DEF digits
      <4> QED BY <3>2, SeqDef
    <3>4. digits[1] = 48 + t.milli /\ digits[2] = 48 + t.micro
      BY DEF Digit
    <3> QED BY <3>2, <3>3, <3>4
  <2> HIDE DEF digits, text
  <2>4. Digit(t.sec) \in Int /\ Digit(t.sec) = 48 + t.sec
    BY <1>0 DEF Digit
  <2>5. /\ text \in Seq(Int) /\ Len(text) = 5 /\ text[1] = Digit(t.sec) /\ text[2] = 46 /\ text[5] = 43
        /\ \A i \in 1..2 : text[i + 2] = digits[i]
    <3>1. Framed(text, Digit(t.sec), digits)
      BY <2>2, <2>3, <2>4, FrameIsFramed
    <3> QED BY <2>3, <3>1 DEF Framed
  <2>6. text[3] = 48 + t.milli /\ text[4] = 48 + t.micro
    <3>1. 1 \in 1..2 /\ 2 \in 1..2 /\ 1 + 2 = 3 /\ 2 + 2 = 4
      OBVIOUS
    <3> QED BY <2>3, <2>5, <3>1
  <2>7. Written(t, text)
    BY <1>0, <1>2, <2>4, <2>5, <2>6 DEF Written
  <2> QED BY <2>5, <2>7 DEF text
<1>3. CASE t.nano = 0 /\ t.micro = 0 /\ t.milli # 0
  <2> DEFINE groups == <<t.milli>>
             digits == [i \in 1..Len(groups) |-> Digit(groups[i])]
  <2>1. Len(groups) = 1 /\ groups # <<>>
    OBVIOUS
  <2>2. text = Frame(Digit(t.sec), digits)
    BY <1>3, <2>1 DEF to_rfc3339, Frame
  <2>3. digits \in Seq(Int) /\ Len(digits) = 1 /\ digits[1] = 48 + t.milli
    <3>1. \A i \in 1..1 : Digit(groups[i]) \in Int
      BY <1>0 DEF Digit
    <3>2. digits \in [1..1 -> Int]
      <4> HIDE DEF groups
      <4> QED BY <2>1, <3>1
    <3>3. digits \in Seq(Int)
      <4> HIDE DEF digits
      <4> QED BY <3>2, SeqDef
    <3>4. digits[1] = 48 + t.milli
      BY DEF Digit
    <3> QED BY <3>2, <3>3, <3>4
  <2> HIDE DEF digits, text
  <2>4. Digit(t.sec) \in Int /\ Digit(t.sec) = 48 + t.sec
    BY <1>0 DEF Digit
  <2>5. /\ text \in Seq(Int) /\ Len(text) = 4 /\ text[1] = Digit(t.sec) /\ text[2] = 46 /\ text[4] = 43
        /\ \A i \in 1..1 : text[i + 2] = digits[i]
    <3>1. Framed(text, Digit(t.sec), digits)
      BY <2>2, <2>3, <2>4, FrameIsFramed
    <3> QED BY <2>3, <3>1 DEF Framed
  <2>6. text[3] = 48 + t.milli
    <3>1. 1 \in 1..1 /\ 1 + 2 = 3
      OBVIOUS
    <3> QED BY <2>3, <2>5, <3>1
  <2>7. Written(t, text)
    BY <1>0, <1>3, <2>4, <2>5, <2>6 DEF Written
  <2> QED BY <2>5, <2>7 DEF text
<1>4. CASE t.nano = 0 /\ t.micro = 0 /\ t.milli = 0
  <2>1. text = <<Digit(t.sec)>> \o <<>> \o <<43>>
    BY <1>4 DEF to_rfc3339
  <2>2. <<Digit(t.sec)>> \in Seq(Int) /\ Digit(t.sec) = 48 + t.sec
    BY <1>0 DEF Digit
  <2>3. text \in Seq(Int) /\ Len(text) = 2 /\ text[1] = Digit(t.sec) /\ text[2] = 43
    BY <2>1, <2>2
  <2> HIDE DEF text
  <2>4. Written(t, text)
    BY <1>0, <1>4, <2>2, <2>3 DEF Written
  <2> QED BY <2>3, <2>4 DEF text
<1> QED BY <1>0, <1>1, <1>2, <1>3, <1>4


\* A number with one more digit, and its order.
Tens(x, m) == x * 10 + m

Ordered(x, m, y, n) ==
  /\ Tens(x, m) \in Nat /\ Tens(y, n) \in Nat
  /\ Tens(x, m) < Tens(y, n) <=> (x < y \/ (x = y /\ m < n))
  /\ Tens(x, m) = Tens(y, n) <=> (x = y /\ m = n)

LEMMA TensOrder ==
  ASSUME NEW x \in Nat, NEW y \in Nat, NEW m \in 0..9, NEW n \in 0..9
  PROVE  Ordered(x, m, y, n)
BY DEF Tens, Ordered

\* Times are ordered by their fields.
LEMMA FieldOrder ==
  ASSUME NEW s \in Time, NEW t \in Time
  PROVE  Earlier(s, t) <=>
           \/ s.sec < t.sec
           \/ s.sec = t.sec /\ s.milli < t.milli
           \/ s.sec = t.sec /\ s.milli = t.milli /\ s.micro < t.micro
           \/ /\ s.sec = t.sec /\ s.milli = t.milli /\ s.micro = t.micro
              /\ s.nano < t.nano
<1>1. /\ s.sec \in 0..9 /\ s.milli \in 0..9 /\ s.micro \in 0..9 /\ s.nano \in 0..9
      /\ t.sec \in 0..9 /\ t.milli \in 0..9 /\ t.micro \in 0..9 /\ t.nano \in 0..9
  BY DEF Time
<1> DEFINE s2 == Tens(s.sec, s.milli)
           s3 == Tens(s2, s.micro)
           t2 == Tens(t.sec, t.milli)
           t3 == Tens(t2, t.micro)
<1>2. Earlier(s, t) <=> Tens(s3, s.nano) < Tens(t3, t.nano)
  BY DEF Earlier, Tens
<1>3. /\ s2 \in Nat /\ t2 \in Nat
      /\ s2 < t2 <=> (s.sec < t.sec \/ (s.sec = t.sec /\ s.milli < t.milli))
      /\ s2 = t2 <=> (s.sec = t.sec /\ s.milli = t.milli)
  <2>1. s.sec \in Nat /\ t.sec \in Nat
    BY <1>1
  <2>2. Ordered(s.sec, s.milli, t.sec, t.milli)
    BY <1>1, <2>1, TensOrder
  <2> QED BY <2>2 DEF Ordered
<1> HIDE DEF s2, t2
<1>4. /\ s3 \in Nat /\ t3 \in Nat
      /\ s3 < t3 <=> (s2 < t2 \/ (s2 = t2 /\ s.micro < t.micro))
      /\ s3 = t3 <=> (s2 = t2 /\ s.micro = t.micro)
  <2>1. Ordered(s2, s.micro, t2, t.micro)
    BY <1>1, <1>3, TensOrder
  <2> QED BY <2>1 DEF Ordered
<1> HIDE DEF s3, t3
<1>5. Earlier(s, t) <=> (s3 < t3 \/ (s3 = t3 /\ s.nano < t.nano))
  <2>1. Ordered(s3, s.nano, t3, t.nano)
    BY <1>1, <1>4, TensOrder
  <2> QED BY <1>2, <2>1 DEF Ordered
<1> QED BY <1>3, <1>4, <1>5

\* A later time has a greater text.
LEMMA TextAscends ==
  ASSUME NEW s \in Time, NEW t \in Time, NEW a, NEW b, Written(s, a), Written(t, b),
         Earlier(s, t)
  PROVE  TextLess(a, b)
<1>0. /\ s.sec \in 0..9 /\ s.milli \in 0..9 /\ s.micro \in 0..9 /\ s.nano \in 0..9
      /\ t.sec \in 0..9 /\ t.milli \in 0..9 /\ t.micro \in 0..9 /\ t.nano \in 0..9
  BY DEF Time
<1> DEFINE Less(n) == /\ n \in 0..Len(a) /\ n < Len(b) /\ \A i \in 1..n : a[i] = b[i]
                      /\ n < Len(a) => a[n + 1] < b[n + 1]
<1>1. Len(a) \in {2, 4, 5, 6} /\ Len(b) \in {2, 4, 5, 6}
  BY DEF Written
<1>2. ASSUME NEW n, Less(n) PROVE TextLess(a, b)
  BY <1>2 DEF TextLess
<1>3. CASE s.sec < t.sec
  <2>1. Less(0)
    BY <1>0, <1>1, <1>3 DEF Written
  <2> HIDE DEF Less
  <2> QED BY <1>2, <2>1
<1>4. CASE s.sec = t.sec /\ ~(s.sec < t.sec) /\ Len(a) = 2
  <2>1. t.milli # 0 \/ t.micro # 0 \/ t.nano # 0
    BY <1>0, <1>4, FieldOrder DEF Written
  <2>2. Len(b) > 2 /\ b[2] = 46
    BY <2>1 DEF Written
  <2>3. a[1] = b[1] /\ a[2] = 43
    BY <1>4 DEF Written
  <2>4. Less(1)
    BY <1>4, <2>2, <2>3
  <2> HIDE DEF Less
  <2> QED BY <1>2, <2>4
<1>5. CASE s.sec = t.sec /\ s.milli < t.milli /\ Len(a) # 2
  <2>1. /\ Len(b) > 2 /\ b[1] = a[1] /\ b[2] = a[2] /\ a[3] < b[3]
    BY <1>0, <1>1, <1>5 DEF Written
  <2>2. Less(2)
    BY <1>1, <1>5, <2>1
  <2> HIDE DEF Less
  <2> QED BY <1>2, <2>2
<1>6. CASE s.sec = t.sec /\ s.milli = t.milli /\ s.micro < t.micro /\ Len(a) # 2
  <2>1. /\ Len(b) > 4 /\ b[1] = a[1] /\ b[2] = a[2] /\ a[3] = b[3] /\ a[4] < b[4]
    BY <1>0, <1>1, <1>6 DEF Written
  <2>2. Less(3)
    BY <1>1, <1>6, <2>1
  <2> HIDE DEF Less
  <2> QED BY <1>2, <2>2
<1>7. CASE /\ s.sec = t.sec /\ s.milli = t.milli /\ s.micro = t.micro /\ s.nano < t.nano
           /\ Len(a) = 4
  <2>1. /\ Len(b) = 6 /\ b[1] = a[1] /\ b[2] = a[2] /\ a[3] = b[3] /\ a[4] < b[4]
    BY <1>0, <1>7 DEF Written
  <2>2. Less(3)
    BY <1>7, <2>1
  <2> HIDE DEF Less
  <2> QED BY <1>2, <2>2
<1>8. CASE /\ s.sec = t.sec /\ s.milli = t.milli /\ s.micro = t.micro /\ s.nano < t.nano
           /\ Len(a) \in {5, 6}
  <2>1. /\ Len(b) = 6 /\ b[1] = a[1] /\ b[2] = a[2] /\ a[3] = b[3] /\ a[4] = b[4]
        /\ a[5] < b[5]
    BY <1>0, <1>8 DEF Written
  <2>2. Less(4)
    BY <1>8, <2>1
  <2> HIDE DEF Less
  <2> QED BY <1>2, <2>2
<1> QED BY <1>0, <1>1, <1>3, <1>4, <1>5, <1>6, <1>7, <1>8, FieldOrder

\* No text is less than one that is less than it, or than itself.
LEMMA TextAsymmetric ==
  ASSUME NEW a \in Seq(Int), NEW b \in Seq(Int), TextLess(a, b)
  PROVE  ~TextLess(b, a) /\ a # b
<1>1. PICK n \in 0..Len(a) : /\ n < Len(b) /\ \A i \in 1..n : a[i] = b[i]
                             /\ n < Len(a) => a[n + 1] < b[n + 1]
  BY DEF TextLess
<1>2. /\ \A i \in 1..Len(a) : a[i] \in Int
      /\ \A i \in 1..Len(b) : b[i] \in Int
      /\ Len(a) \in Nat /\ Len(b) \in Nat
  OBVIOUS
<1>3. a # b
  BY <1>1, <1>2
<1>4. ASSUME NEW m \in 0..Len(b), m < Len(a), \A i \in 1..m : b[i] = a[i],
             m < Len(b) => b[m + 1] < a[m + 1]
      PROVE  FALSE
  <2>1. CASE n < m
    <3>1. n + 1 \in 1..m /\ n < Len(a) /\ n + 1 \in 1..Len(b)
      BY <1>1, <1>2, <1>4, <2>1
    <3> QED BY <1>1, <1>2, <1>4, <3>1
  <2>2. CASE m < n
    <3>1. m + 1 \in 1..n /\ m < Len(b) /\ m + 1 \in 1..Len(a)
      BY <1>1, <1>2, <1>4, <2>2
    <3> QED BY <1>1, <1>2, <1>4, <3>1
  <2>3. CASE m = n
    <3>1. m < Len(b) /\ n < Len(a) /\ n + 1 \in 1..Len(a) /\ n + 1 \in 1..Len(b)
      BY <1>1, <1>2, <1>4, <2>3
    <3>2. a[n + 1] < b[n + 1] /\ b[n + 1] < a[n + 1] /\ a[n + 1] \in Int /\ b[n + 1] \in Int
      BY <1>1, <1>2, <1>4, <2>3, <3>1
    <3> QED BY <3>2
  <2> QED BY <1>2, <2>1, <2>2, <2>3
<1> QED BY <1>3, <1>4 DEF TextLess

\* The order of the texts is the order of the times.
LEMMA TextOrder ==
  ASSUME NEW s \in Time, NEW t \in Time
  PROVE  TextLess(to_rfc3339(s), to_rfc3339(t)) <=> Earlier(s, t)
<1> DEFINE a == to_rfc3339(s)
           b == to_rfc3339(t)
<1>1. Written(s, a) /\ Written(t, b) /\ a \in Seq(Int) /\ b \in Seq(Int)
  BY TimeIsWritten
<1> HIDE DEF a, b
<1>2. ASSUME Earlier(s, t) PROVE TextLess(a, b)
  BY <1>1, <1>2, TextAscends
<1>3. ASSUME ~Earlier(s, t) PROVE ~TextLess(a, b)
  <2>1. CASE Earlier(t, s)
    <3>1. TextLess(b, a)
      BY <1>1, <2>1, TextAscends
    <3> QED BY <1>1, <3>1, TextAsymmetric
  <2>2. CASE ~Earlier(t, s)
    <3>1. s = t
      <4>1. /\ s.sec \in 0..9 /\ s.milli \in 0..9 /\ s.micro \in 0..9 /\ s.nano \in 0..9
            /\ t.sec \in 0..9 /\ t.milli \in 0..9 /\ t.micro \in 0..9 /\ t.nano \in 0..9
        BY DEF Time
      <4>2. s.sec = t.sec /\ s.milli = t.milli /\ s.micro = t.micro /\ s.nano = t.nano
        BY <1>3, <2>2, <4>1, FieldOrder
      <4> QED BY <4>2 DEF Time
    <3>2. a = b
      BY <3>1 DEF a, b
    <3> QED BY <1>1, <3>2, TextAsymmetric
  <2> QED BY <2>1, <2>2
<1> QED BY <1>2, <1>3 DEF a, b

\* The tokens of texts.
Token == STRING \cup {":", ".", "tmux"} \cup Numeral

LEMMA OneToken ==
  ASSUME NEW S, NEW s \in Seq(S), NEW i \in 1..Len(s)
  PROVE  SubSeq(s, i, i) = <<s[i]>>
<1>1. s[i] \in S
  OBVIOUS
<1>2. SubSeq(s, i, i) \in Seq(S) /\ Len(SubSeq(s, i, i)) = 1 /\ SubSeq(s, i, i)[1] = s[i]
  OBVIOUS
<1>3. <<s[i]>> \in Seq(S) /\ Len(<<s[i]>>) = 1 /\ <<s[i]>>[1] = s[i]
  BY <1>1
<1>4. \A j \in 1..1 : SubSeq(s, i, i)[j] = <<s[i]>>[j]
  BY <1>2, <1>3
<1> QED BY <1>2, <1>3, <1>4, SeqEqual

\* Every set of natural numbers that is not empty has a least element.
LEMMA LeastNumber ==
  ASSUME NEW T, T \subseteq Nat, T # {}
  PROVE  \E x \in T : \A y \in T : x <= y
<1> DEFINE R == {ss \in Nat \X Nat : ss[1] < ss[2]}
<1>1. IsWellFoundedOn(R, Nat)
  BY NatLessThanWellFounded DEF OpToRel
<1> HIDE DEF R
<1>2. PICK x \in T : \A y \in T : ~ (<<y, x>> \in R)
  BY <1>1, WFMin
<1>3. \A y \in T : ~(y < x)
  BY <1>2 DEF R
<1> QED BY <1>3

\* The first and the last place of a token.
LEMMA LeastPlace ==
  ASSUME NEW text, Len(text) \in Nat, NEW token, Places(text, token) # {}
  PROVE  LET i == Least(Places(text, token)) IN
         /\ i \in 1..Len(text) /\ text[i] = token
         /\ \A j \in Places(text, token) : i <= j
<1> DEFINE P == Places(text, token)
<1>1. P \subseteq Nat /\ \A i \in P : i \in 1..Len(text) /\ text[i] = token
  BY DEF Places
<1> HIDE DEF P
<1>2. \E i \in P : \A j \in P : i <= j
  BY <1>1, LeastNumber DEF P
<1>3. Least(P) \in P /\ \A j \in P : Least(P) <= j
  BY <1>2 DEF Least
<1> QED BY <1>1, <1>3 DEF P

LEMMA GreatestPlace ==
  ASSUME NEW text, Len(text) \in Nat, NEW token, Places(text, token) # {}
  PROVE  LET i == Greatest(Places(text, token)) IN
         /\ i \in 1..Len(text) /\ text[i] = token
         /\ \A j \in Places(text, token) : i >= j
<1> DEFINE P == Places(text, token)
           T == {n \in Nat : Len(text) - n \in P}
<1>1. P \subseteq 1..Len(text) /\ \A i \in P : i \in 1..Len(text) /\ text[i] = token
  BY DEF Places
<1>2. P # {}
  OBVIOUS
<1> HIDE DEF P
<1>3. PICK p : p \in P
  BY <1>2
<1>4. Len(text) - p \in T
  <2>1. Len(text) - p \in Nat /\ Len(text) - (Len(text) - p) = p
    BY <1>1, <1>3
  <2> QED BY <1>3, <2>1
<1>5. PICK n \in T : \A m \in T : n <= m
  <2>1. T \subseteq Nat /\ T # {}
    BY <1>4
  <2> HIDE DEF T
  <2> QED BY <2>1, LeastNumber
<1>6. \E i \in P : \A j \in P : i >= j
  <2>1. Len(text) - n \in P /\ n \in Nat
    BY <1>5
  <2>2. ASSUME NEW j \in P PROVE Len(text) - n >= j
    <3>1. Len(text) - j \in Nat /\ Len(text) - (Len(text) - j) = j /\ j \in Nat
      BY <1>1
    <3>2. Len(text) - j \in T
      BY <3>1
    <3>3. n <= Len(text) - j
      BY <1>5, <3>2
    <3> QED BY <2>1, <3>1, <3>3
  <2> QED BY <2>1, <2>2
<1>7. Greatest(P) \in P /\ \A j \in P : Greatest(P) >= j
  BY <1>6 DEF Greatest
<1> QED BY <1>1, <1>7 DEF P

\* The characters of the text of a pane.
LEMMA PaneAt ==
  ASSUME NEW session \in Seq(STRING) \ {<<>>}, NEW w \in Numeral, NEW p \in Numeral
  PROVE  LET text == pane_text(session, w, p)
             n == Len(session)
         IN /\ text \in Seq(Token) /\ Len(text) = n + 4 /\ n \in Nat \ {0}
            /\ \A i \in 1..n : text[i] = session[i]
            /\ text[n + 1] = ":" /\ text[n + 2] = w
            /\ text[n + 3] = "." /\ text[n + 4] = p
<1> DEFINE n == Len(session)
           rest == <<":", w, ".", p>>
           text == pane_text(session, w, p)
<1>1. session \in Seq(STRING) /\ session # <<>>
  OBVIOUS
<1>2. session \in Seq(Token) /\ n \in Nat \ {0}
  <2>1. STRING \subseteq Token
    BY DEF Token
  <2>2. session \in Seq(Token)
    BY <1>1, <2>1, SeqMonotonic
  <2> QED BY <1>1, <2>2, EmptySeq
<1>3. /\ rest \in Seq(Token) /\ Len(rest) = 4 /\ rest[1] = ":" /\ rest[2] = w
      /\ rest[3] = "." /\ rest[4] = p
  <2>1. ":" \in Token /\ "." \in Token /\ w \in Token /\ p \in Token
    BY <1>1 DEF Token
  <2> QED BY <2>1
<1>4. text = session \o rest
  BY DEF pane_text
<1> HIDE DEF rest, text
<1>5. /\ text \in Seq(Token) /\ Len(text) = n + Len(rest)
      /\ \A i \in 1..n : text[i] = session[i]
      /\ \A i \in 1..Len(rest) : text[i + n] = rest[i]
  <2>1. session \in Seq(Token) /\ rest \in Seq(Token)
    BY <1>2, <1>3
  <2> QED BY <1>4, <2>1, ConcatAt
<1>6. /\ text[n + 1] = rest[1] /\ text[n + 2] = rest[2]
      /\ text[n + 3] = rest[3] /\ text[n + 4] = rest[4]
  <2>1. /\ 1 \in 1..4 /\ 2 \in 1..4 /\ 3 \in 1..4 /\ 4 \in 1..4
        /\ 1 + n = n + 1 /\ 2 + n = n + 2 /\ 3 + n = n + 3 /\ 4 + n = n + 4
    BY <1>2
  <2> QED BY <1>3, <1>5, <2>1
<1> QED BY <1>2, <1>3, <1>5, <1>6 DEF text

\* TmuxAddress::from_str takes every way to write a pane.
LEMMA ParsePane ==
  ASSUME NEW session \in Seq(STRING) \ {<<>>}, NEW w \in Numeral, NEW p \in Numeral
  PROVE  parse_address(pane_text(session, w, p)) =
           {[session |-> session, window |-> value_of[w], pane |-> value_of[p]]}
<1> DEFINE text == pane_text(session, w, p)
           n == Len(session)
<1>1. /\ text \in Seq(Token) /\ Len(text) = n + 4 /\ n \in Nat \ {0}
      /\ \A i \in 1..n : text[i] = session[i]
      /\ text[n + 1] = ":" /\ text[n + 2] = w
      /\ text[n + 3] = "." /\ text[n + 4] = p
  BY PaneAt
<1>2. /\ session \in Seq(STRING) /\ session # <<>>
      /\ w # ":" /\ w # "." /\ p # ":" /\ p # "."
  BY NumbersAreWritten
<1> HIDE DEF text, n
<1>3. Greatest(Places(text, ":")) = n + 1 /\ Places(text, ":") # {}
  <2>1. n + 1 \in Places(text, ":")
    BY <1>1 DEF Places
  <2>2. \A j \in Places(text, ":") : j \in Int /\ j <= n + 1
    <3>1. \A j \in 1..(n + 4) : j <= n + 1 \/ j = n + 2 \/ j = n + 3 \/ j = n + 4
      BY <1>1
    <3>2. text[n + 2] # ":" /\ text[n + 3] # ":" /\ text[n + 4] # ":"
      BY <1>1, <1>2
    <3> QED BY <1>1, <3>1, <3>2 DEF Places
  <2>3. \A i, j \in Places(text, ":") : (i >= n + 1 /\ j <= n + 1 /\ i <= n + 1) => i = n + 1
    BY <1>1, <2>2
  <2>4. Places(text, ":") # {} /\ Len(text) \in Nat
    BY <1>1, <2>1
  <2>5. /\ Greatest(Places(text, ":")) \in Places(text, ":")
        /\ \A j \in Places(text, ":") : Greatest(Places(text, ":")) >= j
    BY <2>4, GreatestPlace DEF Places
  <2> QED BY <2>1, <2>2, <2>3, <2>4, <2>5
<1> DEFINE at == SplitAt(text, n + 1)
<1>4. at.before = session
  <2>1. at.before = SubSeq(text, 1, n)
    BY <1>1 DEF SplitAt
  <2>2. SubSeq(text, 1, n) \in Seq(Token) /\ Len(SubSeq(text, 1, n)) = n
        /\ \A i \in 1..n : SubSeq(text, 1, n)[i] = session[i]
    BY <1>1
  <2>3. session \in Seq(Token)
    BY <1>2, SeqMonotonic DEF Token
  <2> HIDE DEF at
  <2> QED BY <2>1, <2>2, <2>3, SeqEqual DEF n
<1>5. /\ at.after \in Seq(Token) /\ Len(at.after) = 3 /\ at.after[1] = w
      /\ at.after[2] = "." /\ at.after[3] = p
  <2>1. at.after = SubSeq(text, n + 2, n + 4)
    BY <1>1 DEF SplitAt
  <2>2. /\ SubSeq(text, n + 2, n + 4) \in Seq(Token) /\ Len(SubSeq(text, n + 2, n + 4)) = 3
        /\ \A i \in 1..3 : SubSeq(text, n + 2, n + 4)[i] = text[(n + 1) + i]
    BY <1>1
  <2>3. /\ 1 \in 1..3 /\ 2 \in 1..3 /\ 3 \in 1..3
        /\ (n + 1) + 1 = n + 2 /\ (n + 1) + 2 = n + 3 /\ (n + 1) + 3 = n + 4
    BY <1>1
  <2> HIDE DEF at
  <2> QED BY <1>1, <2>1, <2>2, <2>3
<1>6. SplitAt(text, Greatest(Places(text, ":"))) = at
  BY <1>3
<1> HIDE DEF at
<1>7. Places(at.after, ".") = {2}
  <2>1. \A j \in 1..3 : j = 1 \/ j = 2 \/ j = 3
    OBVIOUS
  <2>2. at.after[1] # "." /\ at.after[3] # "." /\ 2 \in 1..3
    BY <1>2, <1>5
  <2> QED BY <1>5, <2>1, <2>2 DEF Places
<1>8. Least({2}) = 2
  BY DEF Least
<1>9. SplitAt(at.after, 2) = [before |-> <<w>>, after |-> <<p>>]
  <2>1. SubSeq(at.after, 1, 1) = <<w>>
    BY <1>5, OneToken
  <2>2. SubSeq(at.after, 3, 3) = <<p>>
    BY <1>5, OneToken
  <2> QED BY <1>5, <2>1, <2>2 DEF SplitAt
<1>10. is_number(<<w>>) /\ is_number(<<p>>) /\ <<w>>[1] = w /\ <<p>>[1] = p
  BY DEF is_number
<1>11. [before |-> <<w>>, after |-> <<p>>].before = <<w>> /\ [before |-> <<w>>, after |-> <<p>>].after = <<p>>
  OBVIOUS
<1>12. parse_address(text) =
         {[session |-> session, window |-> value_of[w], pane |-> value_of[p]]}
  BY <1>2, <1>3, <1>4, <1>6, <1>7, <1>8, <1>9, <1>10, <1>11 DEF parse_address
<1> QED BY <1>12 DEF text

\* It inverts Display.
LEMMA ParseWritten ==
  ASSUME NEW a \in Address
  PROVE  parse_address(address_text(a)) = {a}
<1> DEFINE w == number_text[a.window]
           p == number_text[a.pane]
<1>1. /\ a = [session |-> a.session, window |-> a.window, pane |-> a.pane]
      /\ a.session \in Seq(STRING) \ {<<>>} /\ a.window \in Number /\ a.pane \in Number
  BY DEF Address
<1>2. w \in Numeral /\ p \in Numeral /\ value_of[w] = a.window /\ value_of[p] = a.pane
  BY <1>1, NumbersAreWritten
<1>3. address_text(a) = pane_text(a.session, w, p)
  BY DEF address_text
<1> HIDE DEF w, p
<1> QED BY <1>1, <1>2, <1>3, ParsePane

\* What it accepts is a way to write the address that it returns.
LEMMA ParsedIsWritten ==
  ASSUME NEW text \in Seq(Token), NEW a \in parse_address(text)
  PROVE  \E w, p \in Numeral : /\ text = pane_text(a.session, w, p)
                               /\ a.window = value_of[w] /\ a.pane = value_of[p]
<1> DEFINE P == Places(text, ":")
           k == Greatest(P)
           at == SplitAt(text, k)
           m == Least(Places(at.after, "."))
           pos == SplitAt(at.after, m)
           w == pos.before[1]
           p == pos.after[1]
<1>1. /\ P # {} /\ Places(at.after, ".") # {}
      /\ is_number(pos.before) /\ is_number(pos.after)
      /\ a = [session |-> at.before, window |-> value_of[w], pane |-> value_of[p]]
  BY DEF parse_address
<1>2. Len(text) \in Nat /\ k \in 1..Len(text) /\ text[k] = ":"
  BY <1>1, GreatestPlace
<1> HIDE DEF P, k
<1>3. at.before = SubSeq(text, 1, k - 1) /\ at.after = SubSeq(text, k + 1, Len(text))
  BY DEF SplitAt
<1>4. /\ at.before \in Seq(Token) /\ Len(at.before) = k - 1
      /\ \A i \in 1..(k - 1) : at.before[i] = text[i]
  BY <1>2, <1>3
<1>5. /\ at.after \in Seq(Token) /\ Len(at.after) = Len(text) - k
      /\ \A i \in 1..(Len(text) - k) : at.after[i] = text[k + i]
  BY <1>2, <1>3
<1> HIDE DEF at
<1>6. m \in 1..Len(at.after) /\ at.after[m] = "."
  <2>1. Len(at.after) \in Nat
    BY <1>5
  <2> QED BY <1>1, <2>1, LeastPlace
<1> HIDE DEF m
<1>7. /\ pos.before = SubSeq(at.after, 1, m - 1)
      /\ pos.after = SubSeq(at.after, m + 1, Len(at.after))
  BY DEF SplitAt
<1> HIDE DEF pos
<1>8. /\ Len(SubSeq(at.after, 1, m - 1)) = 1 /\ Len(SubSeq(at.after, m + 1, Len(at.after))) = 1
      /\ w \in Numeral /\ p \in Numeral
  BY <1>1, <1>7 DEF is_number
<1>9. m = 2 /\ Len(at.after) = 3 /\ Len(text) = k + 3
  <2>1. Len(SubSeq(at.after, 1, m - 1)) = m - 1
    BY <1>5, <1>6
  <2>2. Len(SubSeq(at.after, m + 1, Len(at.after))) = Len(at.after) - m
    BY <1>5, <1>6
  <2>3. Len(at.after) \in Nat /\ m \in Nat
    BY <1>5, <1>6
  <2>4. m = 2 /\ Len(at.after) = 3
    <3>1. m - 1 = 1 /\ Len(at.after) - m = 1
      BY <1>8, <2>1, <2>2
    <3> QED BY <2>3, <3>1
  <2>5. Len(text) - k = 3
    BY <1>5, <2>4
  <2> QED BY <1>2, <2>4, <2>5
<1>10. at.after[1] = w /\ at.after[3] = p
  <2>1. SubSeq(at.after, 1, 1) = <<at.after[1]>> /\ SubSeq(at.after, 3, 3) = <<at.after[3]>>
    BY <1>5, <1>9, OneToken
  <2>2. pos.before = <<at.after[1]>> /\ pos.after = <<at.after[3]>>
    BY <1>7, <1>9, <2>1
  <2> QED BY <2>2
<1> HIDE DEF w, p
<1>11. text[k + 1] = w /\ text[k + 2] = "." /\ text[k + 3] = p
  BY <1>2, <1>5, <1>6, <1>9, <1>10
<1>12. a.session = at.before /\ a.window = value_of[w] /\ a.pane = value_of[p]
  BY <1>1
<1> DEFINE rest == <<":", w, ".", p>>
<1>13. /\ rest \in Seq(Token) /\ Len(rest) = 4 /\ rest[1] = ":" /\ rest[2] = w
       /\ rest[3] = "." /\ rest[4] = p
  <2>1. ":" \in Token /\ "." \in Token /\ w \in Token /\ p \in Token
    BY <1>8 DEF Token
  <2> QED BY <2>1
<1>14. pane_text(a.session, w, p) = at.before \o rest
  BY <1>12 DEF pane_text
<1> HIDE DEF rest
<1>15. /\ at.before \o rest \in Seq(Token) /\ Len(at.before \o rest) = Len(at.before) + Len(rest)
       /\ \A i \in 1..Len(at.before) : (at.before \o rest)[i] = at.before[i]
       /\ \A i \in 1..Len(rest) : (at.before \o rest)[i + Len(at.before)] = rest[i]
  <2>1. at.before \in Seq(Token) /\ rest \in Seq(Token)
    BY <1>4, <1>13
  <2> QED BY <2>1, ConcatAt
<1>16. Len(at.before \o rest) = Len(text)
  BY <1>2, <1>4, <1>9, <1>13, <1>15
<1>17. ASSUME NEW i \in 1..Len(text) PROVE text[i] = (at.before \o rest)[i]
  <2>1. CASE i \in 1..(k - 1)
    BY <1>2, <1>4, <1>15, <2>1
  <2>2. CASE i \notin 1..(k - 1)
    <3>1. i = k \/ i = k + 1 \/ i = k + 2 \/ i = k + 3
      BY <1>2, <1>9, <2>2
    <3>2. /\ (at.before \o rest)[1 + (k - 1)] = rest[1] /\ (at.before \o rest)[2 + (k - 1)] = rest[2]
          /\ (at.before \o rest)[3 + (k - 1)] = rest[3] /\ (at.before \o rest)[4 + (k - 1)] = rest[4]
      <4>1. 1 \in 1..4 /\ 2 \in 1..4 /\ 3 \in 1..4 /\ 4 \in 1..4
        OBVIOUS
      <4> QED BY <1>4, <1>13, <1>15, <4>1
    <3>3. 1 + (k - 1) = k /\ 2 + (k - 1) = k + 1 /\ 3 + (k - 1) = k + 2 /\ 4 + (k - 1) = k + 3
      BY <1>2
    <3> QED BY <1>2, <1>11, <1>13, <3>1, <3>2, <3>3
  <2> QED BY <2>1, <2>2
<1>18. text = at.before \o rest
  <2>1. text \in Seq(Token) /\ at.before \o rest \in Seq(Token) /\ Len(text) = Len(at.before \o rest)
    BY <1>15, <1>16
  <2> QED BY <1>17, <2>1, SeqEqual
<1> QED BY <1>8, <1>12, <1>14, <1>18

\* A way to write a pane, after the mode.
Spells(text, a) ==
  \E w, p \in Numeral : /\ value_of[w] = a.window /\ value_of[p] = a.pane
                        /\ text = <<"tmux", ":">> \o pane_text(a.session, w, p)

\* validate_target says of a text that it is valid if it is a way to write a live
\* pane, or no pane.
LEMMA ValidTarget ==
  ASSUME NEW text \in Seq(Token), NEW alive, alive \subseteq Address
  PROVE  validate_target(text, alive) = "Valid" <=>
           \/ text = <<"headless">>
           \/ \E a \in alive : Spells(text, a)
<1> DEFINE tmux == <<"tmux", ":">>
           name == SubSeq(text, 3, Len(text))
<1>1. tmux \in Seq(Token) /\ Len(tmux) = 2 /\ tmux[1] = "tmux" /\ tmux[2] = ":"
  <2>1. "tmux" \in Token /\ ":" \in Token
    BY DEF Token
  <2> QED BY <2>1
<1>2. validate_target(text, alive) = "Valid" <=>
        /\ parse_target(text) # {}
        /\ ~\E x \in parse_target(text) : x.mode = "tmux" /\ x.address \notin alive
  <2>1. CASE parse_target(text) = {}
    BY <2>1 DEF validate_target
  <2>2. CASE parse_target(text) # {}
    BY <2>2 DEF validate_target
  <2> QED BY <2>1, <2>2
<1>3. CASE text = <<"headless">>
  BY <1>2, <1>3 DEF parse_target
<1>4. CASE text # <<"headless">> /\ ~(Len(text) >= 2 /\ SubSeq(text, 1, 2) = tmux)
  <2>1. parse_target(text) = {}
    BY <1>4 DEF parse_target
  <2>2. ASSUME NEW a \in alive, Spells(text, a) PROVE FALSE
    <3>0. PICK window, pane \in Numeral : text = tmux \o pane_text(a.session, window, pane)
      BY <2>2 DEF Spells
    <3> DEFINE w == pane_text(a.session, window, pane)
    <3>1. w \in Seq(Token)
      BY PaneAt DEF Address
    <3> HIDE DEF w, tmux
    <3>2. /\ Len(text) = 2 + Len(w) /\ text[1] = tmux[1] /\ text[2] = tmux[2] /\ Len(w) \in Nat
      <4>1. /\ Len(tmux \o w) = Len(tmux) + Len(w)
            /\ \A i \in 1..Len(tmux) : (tmux \o w)[i] = tmux[i]
        <5>1. tmux \in Seq(Token)
          BY <1>1
        <5> QED BY <3>1, <5>1, ConcatAt
      <4>2. text = tmux \o w /\ Len(w) \in Nat
        BY <3>0, <3>1 DEF w
      <4> QED BY <1>1, <4>1, <4>2
    <3>3. SubSeq(text, 1, 2) = tmux
      <4>1. /\ SubSeq(text, 1, 2) \in Seq(Token) /\ Len(SubSeq(text, 1, 2)) = 2
            /\ SubSeq(text, 1, 2)[1] = text[1] /\ SubSeq(text, 1, 2)[2] = text[2]
        BY <3>2
      <4>2. \A i \in 1..2 : SubSeq(text, 1, 2)[i] = tmux[i]
        BY <3>2, <4>1
      <4> QED BY <1>1, <4>1, <4>2, SeqEqual
    <3> QED BY <1>4, <3>2, <3>3
  <2> QED BY <1>2, <1>4, <2>1, <2>2
<1>5. CASE text # <<"headless">> /\ Len(text) >= 2 /\ SubSeq(text, 1, 2) = tmux
  <2>1. parse_target(text) = {[mode |-> "tmux", address |-> a] : a \in parse_address(name)}
    BY <1>5 DEF parse_target
  <2>2. name \in Seq(Token)
    BY <1>5
  <2>3. text = tmux \o name
    <3>1. SubSeq(text, 1, 2) \o SubSeq(text, 3, Len(text)) = SubSeq(text, 1, Len(text))
      <4>1. /\ 1 \in 1..(Len(text) + 1) /\ 2 \in (1 - 1)..Len(text)
            /\ Len(text) \in 2..Len(text) /\ 2 + 1 = 3
        BY <1>5
      <4>2. SubSeq(text, 1, 2) \o SubSeq(text, 2 + 1, Len(text)) = SubSeq(text, 1, Len(text))
        BY <4>1, ConcatAdjacentSubSeq
      <4> QED BY <4>1, <4>2
    <3>2. SubSeq(text, 1, Len(text)) = text
      BY SubSeqFull
    <3> QED BY <1>5, <3>1, <3>2
  <2> HIDE DEF name, tmux
  <2>4. ASSUME NEW a \in alive, NEW window \in Numeral, NEW pane \in Numeral,
               text = tmux \o pane_text(a.session, window, pane)
        PROVE  name = pane_text(a.session, window, pane)
    <3> DEFINE w == pane_text(a.session, window, pane)
    <3>1. w \in Seq(Token)
      BY PaneAt DEF Address
    <3>2. text = tmux \o w
      BY <2>4
    <3> HIDE DEF w
    <3>3. name = w
      BY <1>1, <2>2, <2>3, <3>1, <3>2, ConcatSimplifications
    <3> QED BY <3>3 DEF w
  <2>5. (\E a \in alive : Spells(text, a)) <=>
          /\ parse_address(name) # {} /\ parse_address(name) \subseteq alive
    <3>1. ASSUME NEW a \in alive, Spells(text, a)
          PROVE  parse_address(name) = {a}
      <4>1. PICK window, pane \in Numeral :
              /\ value_of[window] = a.window /\ value_of[pane] = a.pane
              /\ text = tmux \o pane_text(a.session, window, pane)
        BY <3>1 DEF Spells, tmux
      <4>2. name = pane_text(a.session, window, pane)
        BY <2>4, <4>1
      <4>3. a \in Address
        OBVIOUS
      <4>4. /\ a.session \in Seq(STRING) \ {<<>>}
            /\ a = [session |-> a.session, window |-> a.window, pane |-> a.pane]
        BY <4>3 DEF Address
      <4> QED BY <4>1, <4>2, <4>4, ParsePane
    <3>2. ASSUME NEW a \in parse_address(name), parse_address(name) \subseteq alive
          PROVE  a \in alive /\ Spells(text, a)
      <4>1. PICK window, pane \in Numeral :
              /\ name = pane_text(a.session, window, pane)
              /\ a.window = value_of[window] /\ a.pane = value_of[pane]
        BY <2>2, ParsedIsWritten
      <4>2. text = <<"tmux", ":">> \o pane_text(a.session, window, pane)
        BY <2>3, <4>1 DEF tmux
      <4> QED BY <3>2, <4>1, <4>2 DEF Spells
    <3> QED BY <3>1, <3>2
  <2>6. validate_target(text, alive) = "Valid" <=>
          /\ parse_address(name) # {} /\ parse_address(name) \subseteq alive
    <3> DEFINE target(a) == [mode |-> "tmux", address |-> a]
    <3>1. \A a : target(a).mode = "tmux" /\ target(a).address = a
      OBVIOUS
    <3>2. parse_target(text) = {target(a) : a \in parse_address(name)}
      BY <2>1
    <3> HIDE DEF target
    <3> QED BY <1>2, <3>1, <3>2
  <2> QED BY <1>5, <2>5, <2>6 DEF tmux
<1> QED BY <1>3, <1>4, <1>5

\* A row of a world, and what codec.rs makes of it.
Stored == [lifecycle : StoredLifecycle, at : Time]

Coded(r) == encode(r.lifecycle, r.at)

\* What is read from a row is what was written.
LEMMA DecodeInverts ==
  ASSUME NEW r \in Stored
  PROVE  /\ decode(Coded(r)) = r.lifecycle
         /\ Coded(r).session = r.lifecycle.session /\ Coded(r).runtime = r.lifecycle.runtime
         /\ Coded(r).state = r.lifecycle.state /\ Coded(r).updated_at = to_rfc3339(r.at)
<1> DEFINE l == r.lifecycle
           row == Coded(r)
<1>1. l \in StoredLifecycle
  BY DEF Stored
<1>2. /\ l \in [session : STRING, runtime : STRING, exit : SUBSET Int,
                evidence : SUBSET STRING, state : LifecycleState,
                tmux_pane : SUBSET Address]
      /\ l.state # "Exited" => l.exit = {}
      /\ l.state # "Lost" => l.evidence = {}
  BY <1>1 DEF StoredLifecycle
<1>3. columns_of(l).exit = l.exit /\ columns_of(l).evidence = l.evidence
  BY <1>2 DEF columns_of
<1>4. row = [session |-> l.session, runtime |-> l.runtime, state |-> l.state,
             exit |-> l.exit, evidence |-> l.evidence,
             tmux_pane |-> {address_text(a) : a \in l.tmux_pane},
             updated_at |-> to_rfc3339(r.at)]
  BY <1>3 DEF Coded, encode
<1> HIDE DEF row
<1>5. /\ row.session = l.session /\ row.runtime = l.runtime /\ row.state = l.state
      /\ row.exit = l.exit /\ row.evidence = l.evidence
      /\ row.tmux_pane = {address_text(a) : a \in l.tmux_pane}
      /\ row.updated_at = to_rfc3339(r.at)
  BY <1>4
<1>6. columns_of(row).exit = l.exit /\ columns_of(row).evidence = l.evidence
  BY <1>2, <1>5 DEF columns_of
<1>7. UNION {parse_address(text) : text \in row.tmux_pane} = l.tmux_pane
  <2>1. \A a \in l.tmux_pane : parse_address(address_text(a)) = {a}
    BY <1>2, ParseWritten
  <2> QED BY <1>5, <2>1
<1>8. decode(row) = [session |-> l.session, runtime |-> l.runtime, state |-> l.state,
                     exit |-> l.exit, evidence |-> l.evidence, tmux_pane |-> l.tmux_pane]
  BY <1>5, <1>6, <1>7 DEF decode
<1>9. decode(row) = l
  <2> HIDE DEF l
  <2> QED BY <1>2, <1>8
<1> QED BY <1>5, <1>9 DEF row

\* A world as the assumptions have it.
IsStore(world) ==
  /\ world.rows \subseteq Stored /\ IsFiniteSet(world.rows)
  /\ \A r, q \in world.rows : r.lifecycle.session = q.lifecycle.session => r = q
  /\ world.alive \subseteq Address /\ world.window \in Time

\* The condition of a filter on a row, as written.
Meets(r, filter) ==
  /\ \/ filter.session_ids = {} /\ filter.session_id = {}
     \/ r.lifecycle.session \in filter.session_ids \cup filter.session_id
  /\ filter.runtime \subseteq {r.lifecycle.runtime}
  /\ filter.state \subseteq AnyCase[r.lifecycle.state]
  /\ \A t \in filter.updated_since : ~Earlier(r.at, t)

\* LOWER tells the states apart, and nothing else.
LEMMA SameLetters ==
  ASSUME NEW state \in LifecycleState, NEW text
  PROVE  LOWER(state) = LOWER(text) <=> text \in AnyCase[state]
BY StatesDiffer DEF LOWER, LifecycleState

\* The query lists the rows that its filter names.
LEMMA ListIsNamed ==
  ASSUME NEW world, IsStore(world), NEW filter, filter.updated_since \subseteq Time
  PROVE  list(table_of(world), filter) = Named(world, filter)
<1> DEFINE Asked(q) == /\ requested_session_ids(filter) # {} => q.session \in requested_session_ids(filter)
                       /\ \A runtime \in filter.runtime : q.runtime = runtime
                       /\ \A state \in filter.state : LOWER(q.state) = LOWER(state)
                       /\ \A t \in filter.updated_since : ~TextLess(q.updated_at, to_rfc3339(t))
<1>1. ASSUME NEW r \in world.rows
      PROVE  decode(Coded(r)) = r.lifecycle /\ (Asked(Coded(r)) <=> Meets(r, filter))
  <2>1. r \in Stored /\ r.at \in Time
    BY DEF IsStore, Stored
  <2>2. /\ decode(Coded(r)) = r.lifecycle
        /\ Coded(r).session = r.lifecycle.session /\ Coded(r).runtime = r.lifecycle.runtime
        /\ Coded(r).state = r.lifecycle.state /\ Coded(r).updated_at = to_rfc3339(r.at)
    BY <2>1, DecodeInverts
  <2>3. \A t \in filter.updated_since : TextLess(Coded(r).updated_at, to_rfc3339(t)) <=> Earlier(r.at, t)
    BY <2>1, <2>2, TextOrder
  <2>4. \A state \in filter.state :
          LOWER(Coded(r).state) = LOWER(state) <=> state \in AnyCase[r.lifecycle.state]
    <3>1. r.lifecycle.state \in LifecycleState
      BY <2>1 DEF Stored, StoredLifecycle
    <3> QED BY <2>2, <3>1, SameLetters
  <2> QED BY <2>2, <2>3, <2>4 DEF Meets, requested_session_ids
<1>2. list(table_of(world), filter) = {decode(q) : q \in {p \in table_of(world) : Asked(p)}}
  BY DEF list
<1>3. Named(world, filter) = {r.lifecycle : r \in {q \in world.rows : Meets(q, filter)}}
  BY DEF Named, Meets
<1>4. table_of(world) = {Coded(r) : r \in world.rows}
  BY DEF table_of, Coded
<1> HIDE DEF Asked
<1> QED BY <1>1, <1>2, <1>3, <1>4

\* The answer to a status request.
LEMMA StatusIsTrue ==
  ASSUME NEW world, IsStore(world), NEW filter, filter.updated_since \subseteq Time,
         NEW response, response.lifecycles = status(world, filter)
  PROVE  StatusMatches(world, filter, response)
<1> DEFINE listed == list(table_of(world), filter)
           entry(l) == [lifecycle |-> l, log_availability |-> log_availability(l, world.alive)]
<1>1. \A l : entry(l).lifecycle = l /\ entry(l).log_availability = log_availability(l, world.alive)
  OBVIOUS
<1>2. response.lifecycles = IF world.readable THEN {entry(l) : l \in listed} ELSE {}
  BY DEF status
<1>3. listed = Named(world, filter)
  BY ListIsNamed
<1> HIDE DEF entry, listed
<1>4. {x.lifecycle : x \in response.lifecycles}
        = IF world.readable THEN Named(world, filter) ELSE {}
  <2>1. CASE world.readable
    BY <1>1, <1>2, <1>3, <2>1
  <2>2. CASE ~world.readable
    BY <1>2, <2>2
  <2> QED BY <2>1, <2>2
<1>5. ASSUME NEW x \in response.lifecycles
      PROVE  x.log_availability = "TmuxPaneSnapshot" <=>
               x.lifecycle.tmux_pane # {} /\ x.lifecycle.tmux_pane \subseteq world.alive
  <2>1. PICK l \in listed : x = entry(l)
    BY <1>2
  <2> QED BY <1>1, <2>1 DEF log_availability
<1> QED BY <1>4, <1>5 DEF StatusMatches

\* Sets that a finite set maps to one by one have equally many elements.
LEMMA SameNumber ==
  ASSUME NEW S, IsFiniteSet(S), NEW T, NEW f \in [S -> T], \A t \in T : \E s \in S : f[s] = t,
         \A r, s \in S : f[r] = f[s] => r = s
  PROVE  Cardinality(T) = Cardinality(S)
<1>1. f \in Bijection(S, T)
  BY DEF Bijection, Injection, Surjection, IsInjective
<1> QED BY <1>1, FS_Bijection DEF ExistsBijection

\* The counts of the doctor are those of the rows.
LEMMA CountsAreTrue ==
  ASSUME NEW world, IsStore(world), NEW state \in LifecycleState
  PROVE  Cardinality({q \in table_of(world) : q.state = state})
           = Cardinality(Named(world, [NoFilter EXCEPT !.state = {state}]))
<1> DEFINE filter == [NoFilter EXCEPT !.state = {state}]
           rows == {r \in world.rows : r.lifecycle.state = state}
           coded == {q \in table_of(world) : q.state = state}
           named == Named(world, filter)
<1>1. IsFiniteSet(rows) /\ rows \subseteq world.rows
  BY FS_Subset DEF IsStore
<1>2. /\ filter.session_ids = {} /\ filter.session_id = {} /\ filter.runtime = {}
      /\ filter.state = {state} /\ filter.updated_since = {}
  BY DEF NoFilter
<1> HIDE DEF filter
<1>3. named = {r.lifecycle : r \in rows}
  <2>1. \A r \in world.rows : state \in AnyCase[r.lifecycle.state] <=> r.lifecycle.state = state
    BY StatesDiffer DEF IsStore, Stored, StoredLifecycle
  <2> QED BY <1>2, <2>1 DEF Named
<1>4. \A r \in world.rows : Coded(r).session = r.lifecycle.session /\ Coded(r).state = r.lifecycle.state
  BY DecodeInverts DEF IsStore
<1>5. coded = {Coded(r) : r \in rows}
  BY <1>4 DEF table_of, Coded
<1>6. \A r, q \in rows : r.lifecycle.session = q.lifecycle.session => r = q
  BY DEF IsStore
<1>7. Cardinality(named) = Cardinality(rows)
  <2> DEFINE f == [r \in rows |-> r.lifecycle]
  <2>1. /\ f \in [rows -> named] /\ \A t \in named : \E s \in rows : f[s] = t
        /\ \A r, s \in rows : f[r] = f[s] => r = s
    BY <1>3, <1>6
  <2> HIDE DEF f, rows, named
  <2> QED BY <1>1, <2>1, SameNumber
<1>8. Cardinality(coded) = Cardinality(rows)
  <2> DEFINE f == [r \in rows |-> Coded(r)]
  <2>1. /\ f \in [rows -> coded] /\ \A t \in coded : \E s \in rows : f[s] = t
        /\ \A r, s \in rows : f[r] = f[s] => r = s
    <3>1. \A r, s \in rows : Coded(r) = Coded(s) => r = s
      BY <1>1, <1>4, <1>6
    <3> HIDE DEF rows, coded
    <3> QED BY <1>5, <3>1
  <2> HIDE DEF f, rows, coded
  <2> QED BY <1>1, <2>1, SameNumber
<1> QED BY <1>7, <1>8 DEF filter

\* The answer to a doctor request.
LEMMA DoctorIsTrue ==
  ASSUME NEW world, IsStore(world), NEW response, response = collect(world)
  PROVE  DoctorMatches(world, response)
<1> DEFINE states == LifecycleState
           counts == [state \in states |-> Cardinality({r \in table_of(world) : r.state = state})]
           filter == [NoFilter EXCEPT !.state = {"Lost"}, !.updated_since = {world.window}]
<1>1. /\ response.lifecycles = counts
      /\ response.recent_lost = recent_lost_since(table_of(world), world.window)
  BY DEF collect, lifecycle_counts
<1>2. \A state \in DOMAIN response.lifecycles :
        response.lifecycles[state] = Cardinality(Named(world, [NoFilter EXCEPT !.state = {state}]))
  <2>1. \A state \in states : counts[state] = Cardinality({r \in table_of(world) : r.state = state})
    OBVIOUS
  <2>2. DOMAIN counts = states
    OBVIOUS
  <2> HIDE DEF counts
  <2>3. ASSUME NEW state \in states
        PROVE  counts[state] = Cardinality(Named(world, [NoFilter EXCEPT !.state = {state}]))
    BY <2>1, CountsAreTrue
  <2> QED BY <1>1, <2>2, <2>3
<1>3. /\ filter.session_ids = {} /\ filter.session_id = {} /\ filter.runtime = {}
      /\ filter.state = {"Lost"} /\ filter.updated_since = {world.window}
  BY DEF NoFilter
<1> HIDE DEF filter
<1> DEFINE late == {r \in world.rows : r.lifecycle.state = "Lost" /\ ~Earlier(r.at, world.window)}
<1>4. Named(world, filter) = {r.lifecycle : r \in late}
  <2>1. \A r \in world.rows : "Lost" \in AnyCase[r.lifecycle.state] <=> r.lifecycle.state = "Lost"
    BY StatesDiffer DEF IsStore, Stored, StoredLifecycle, LifecycleState
  <2> QED BY <1>3, <2>1 DEF Named
<1>5. ASSUME NEW r \in world.rows
      PROVE  /\ Coded(r).session = r.lifecycle.session
             /\ (Coded(r).state = "Lost" /\ ~TextLess(Coded(r).updated_at, to_rfc3339(world.window)))
                  <=> (r.lifecycle.state = "Lost" /\ ~Earlier(r.at, world.window))
  <2>1. r \in Stored /\ r.at \in Time /\ world.window \in Time
    BY DEF IsStore, Stored
  <2> QED BY <2>1, DecodeInverts, TextOrder
<1>6. recent_lost_since(table_of(world), world.window) = {r.lifecycle.session : r \in late}
  <2>1. table_of(world) = {Coded(r) : r \in world.rows}
    BY DEF table_of, Coded
  <2> QED BY <1>5, <2>1 DEF recent_lost_since
<1>7. {l.session : l \in Named(world, filter)} = {r.lifecycle.session : r \in late}
  BY <1>4
<1> QED BY <1>1, <1>2, <1>6, <1>7 DEF DoctorMatches, filter

\* The answer to a line.
LEMMA LineIsTrue ==
  ASSUME NEW line, line.valid /\ line.tool # NoTool => line.method = <<"tools", "call">>,
         NEW response, response.line \in handle_line(line)
  PROVE  LineMatches(line, response)
<1>1. CASE ~line.valid
  <2>1. handle_line(line) = {{[id |-> {}, result |-> "-32700"]}}
    BY <1>1 DEF handle_line
  <2>2. response.line = {[id |-> {}, result |-> "-32700"]}
    BY <2>1
  <2> QED BY <1>1, <2>2 DEF LineMatches
<1>2. CASE line.valid /\ is_notification(line.method)
  <2>1. handle_line(line) = {{}}
    BY <1>2 DEF handle_line
  <2>2. response.line = {}
    BY <2>1
  <2> QED BY <1>2, <2>2 DEF LineMatches
<1>3. CASE line.valid /\ ~is_notification(line.method)
  <2>1. PICK result \in handle_request(line) : response.line = {[id |-> line.id, result |-> result]}
    BY <1>3 DEF handle_line
  <2>2. ASSUME line.tool # NoTool PROVE result # "-32601"
    <3>1. line.method = <<"tools", "call">>
      BY <1>3, <2>2
    <3>2. handle_request(line) = call_tool(line.tool, line.arguments)
      BY <2>2, <3>1 DEF handle_request
    <3>3. call_tool(line.tool, line.arguments) \subseteq {"done", "ERROR"}
      BY DEF call_tool
    <3> QED BY <2>1, <3>2, <3>3
  <2> QED BY <1>3, <2>1, <2>2 DEF LineMatches
<1> QED BY <1>1, <1>2, <1>3

-----------------------------------------------------------------------------
(* What a call holds.  A daemon that ends closes its connections, so a     *)
(* call that is open has a daemon that listens; what the daemon answered   *)
(* is one of the responses of its request, or an error with a code that    *)
(* the client library knows.                                               *)

Codes == Outcome \ {"none", "ok", "still_exists", "UnexpectedResponse"}

Fits(rpc, response) ==
  \/ response.type = "Error" /\ response.code \in Codes
  \/ /\ rpc.kind \in DOMAIN Responses
     /\ response.type \in Responses[rpc.kind]

\* An answer that is not an error says what is so in the world it was made from.
Matches(rpc, world, response) ==
  /\ rpc.kind = "Status" => StatusMatches(world, rpc.filter, response)
  /\ rpc.kind = "Doctor" => DoctorMatches(world, response)
  /\ rpc.kind = "ValidateTarget" => TargetMatches(rpc.target, world, response)
  /\ rpc.kind = "McpBridge" => LineMatches(rpc.line, response)

\* A call has taken, or is about to take, an answer that is not an error.
Told(call) ==
  \/ call.pc = "answered" /\ call.response.type # "Error"
  \/ call.pc = "done" /\ call.outcome = "ok"

CallFits(call) ==
  /\ call.outcome \in Outcome \ {"UnexpectedResponse"}
  /\ call.pc \in {"queued", "accepted", "answered"} => call.rpc \in Rpc
  /\ call.pc = "answered" => Fits(call.rpc, call.response)
  /\ Told(call) => Matches(call.rpc, call.world, call.response)

OpenIsHeard ==
  \A c \in Caller : conn[c].pc \in {"queued", "accepted", "answered"} =>
    daemon[conn[c].daemon] \in Listening

Calls == OpenIsHeard /\ \A c \in Caller : CallFits(conn[c])

\* rpc_error_response: the code of an error is one of the client's.
LEMMA ErrorFits ==
  ASSUME NEW rpc, NEW failure
  PROVE  Fits(rpc, error_response(rpc, failure))
<1>1. \A f \in DOMAIN RuntimeFailureCode : RuntimeFailureCode[f] \in Codes
  BY DEF RuntimeFailureCode, Codes, Outcome
<1>2. \A f \in DOMAIN launcher_error_code : launcher_error_code[f] \in Codes
  BY DEF launcher_error_code, Codes, Outcome
<1>3. "LaunchFailed" \in Codes /\ "RuntimeUnavailable" \in Codes
  BY DEF Codes, Outcome
<1>4. rpc_error_code(rpc.kind, failure) \in Codes
  <2>1. CASE failure \in DOMAIN RuntimeFailureCode
    <3>1. CASE failure \in DOMAIN launcher_error_code
      BY <2>1, <3>1 DEF RuntimeFailureCode, launcher_error_code
    <3>2. CASE failure \notin DOMAIN launcher_error_code
      BY <1>1, <2>1, <3>2 DEF rpc_error_code
    <3> QED BY <3>1, <3>2
  <2>2. CASE failure \notin DOMAIN RuntimeFailureCode /\ failure \in DOMAIN launcher_error_code
    BY <1>2, <2>2 DEF rpc_error_code
  <2>3. CASE failure \notin DOMAIN RuntimeFailureCode /\ failure \notin DOMAIN launcher_error_code
    BY <1>3, <2>3 DEF rpc_error_code
  <2> QED BY <2>1, <2>2, <2>3
<1>5. protocol_error_code(failure) \in Codes
  BY DEF protocol_error_code, Codes, Outcome
<1> QED BY <1>4, <1>5 DEF Fits, error_response

\* handle_rpc_result: the type of an answer is one of the request's.
LEMMA ResponseFits ==
  ASSUME NEW rpc \in Rpc, NEW world, NEW response \in handle_rpc_result(rpc, world)
  PROVE  Fits(rpc, response)
<1>1. rpc.kind \in DOMAIN Responses \cup {"Malformed"} /\ "Malformed" \notin DOMAIN Responses
  BY RpcKinds DEF Responses
<1>2. CASE rpc.kind = "Status"
  BY <1>2 DEF handle_rpc_result, Fits, Responses
<1>3. CASE rpc.kind = "ValidateTarget"
  BY <1>3 DEF handle_rpc_result, Fits, Responses
<1>4. CASE rpc.kind = "Doctor"
  BY <1>4 DEF handle_rpc_result, collect, Fits, Responses
<1>5. CASE rpc.kind = "McpBridge"
  BY <1>5 DEF handle_rpc_result, Fits, Responses
<1>6. CASE rpc.kind = "Malformed"
  BY <1>6 DEF handle_rpc_result
<1>7. CASE rpc.kind \notin {"Status", "ValidateTarget", "Doctor", "McpBridge", "Malformed"}
  <2>1. PICK type \in Responses[rpc.kind] : response = [type |-> type]
    BY <1>7 DEF handle_rpc_result
  <2> QED BY <1>1, <1>7, <2>1 DEF Fits
<1> QED BY <1>2, <1>3, <1>4, <1>5, <1>6, <1>7

\* The world that Handled remembers with a response.
Kept(world, response) ==
  IF response.type \in {"Status", "Doctor", "ValidateTarget"} THEN world ELSE NoWorld

\* handle_rpc_result: what an answer says is so.
LEMMA ResponseMatches ==
  ASSUME NEW rpc \in Rpc, NEW world \in Worlds,
         NEW response \in handle_rpc_result(rpc, world)
  PROVE  Matches(rpc, Kept(world, response), response)
<1>1. IsStore(world)
  BY WorldsAreStores DEF IsStore, Stored
<1>2. CASE rpc.kind = "Status"
  <2>1. response = [type |-> "Status", lifecycles |-> status(world, rpc.filter)]
    BY <1>2 DEF handle_rpc_result
  <2>2. response.lifecycles = status(world, rpc.filter) /\ Kept(world, response) = world
    BY <2>1 DEF Kept
  <2>3. rpc.filter.updated_since \subseteq Time
    BY <1>2, RequestsAreTyped
  <2>4. StatusMatches(world, rpc.filter, response)
    BY <1>1, <2>2, <2>3, StatusIsTrue
  <2> QED BY <1>2, <2>2, <2>4 DEF Matches
<1>3. CASE rpc.kind = "ValidateTarget"
  <2>1. response = [type |-> "ValidateTarget",
                    outcome |-> validate_target(rpc.target, world.alive)]
    BY <1>3 DEF handle_rpc_result
  <2>2. /\ response.outcome = validate_target(rpc.target, world.alive)
        /\ Kept(world, response) = world
    BY <2>1 DEF Kept
  <2>3. rpc.target \in Seq(Token)
    <3>1. rpc.target \in Seq(STRING) /\ STRING \subseteq Token
      BY <1>3, RequestsAreTyped DEF Token
    <3> QED BY <3>1, SeqMonotonic
  <2>4. TargetMatches(rpc.target, world, response)
    <3>1. response.outcome = "Valid" <=>
            rpc.target = <<"headless">> \/ \E a \in world.alive : Spells(rpc.target, a)
      BY <1>1, <2>2, <2>3, ValidTarget DEF IsStore
    <3> QED BY <3>1, Zenon DEF TargetMatches, Spells
  <2> QED BY <1>3, <2>2, <2>4 DEF Matches
<1>4. CASE rpc.kind = "Doctor"
  <2>1. response = collect(world)
    BY <1>4 DEF handle_rpc_result
  <2>2. Kept(world, response) = world
    BY <2>1 DEF collect, Kept
  <2>3. DoctorMatches(world, response)
    BY <1>1, <2>1, DoctorIsTrue
  <2> QED BY <1>4, <2>2, <2>3 DEF Matches
<1>5. CASE rpc.kind = "McpBridge"
  <2>1. PICK line \in handle_line(rpc.line) : response = [type |-> "McpBridge", line |-> line]
    BY <1>5 DEF handle_rpc_result
  <2>2. response.line \in handle_line(rpc.line)
    BY <2>1
  <2>3. rpc.line.valid /\ rpc.line.tool # NoTool =>
          rpc.line.method = <<"tools", "call">>
    BY <1>5, RequestsAreTyped
  <2>4. LineMatches(rpc.line, response)
    BY <2>2, <2>3, LineIsTrue
  <2> QED BY <1>5, <2>4 DEF Matches
<1>6. CASE rpc.kind \notin {"Status", "ValidateTarget", "Doctor", "McpBridge"}
  BY <1>6 DEF Matches
<1> QED BY <1>2, <1>3, <1>4, <1>5, <1>6

\* The client library takes every response that fits, and an error for an error.
LEMMA FitIsTaken ==
  ASSUME NEW rpc, NEW response, Fits(rpc, response)
  PROVE  /\ outcome_of(rpc, response) \in Outcome \ {"UnexpectedResponse"}
         /\ outcome_of(rpc, response) = "ok" => response.type # "Error"
<1>1. CASE response.type = "Error" /\ response.code \in Codes
  <2>1. ~(rpc.kind = "Spawn" /\ response.type = "SpawnConflict")
    BY <1>1
  <2> QED BY <1>1, <2>1 DEF outcome_of, Codes
<1>2. CASE /\ rpc.kind \in DOMAIN Responses
           /\ response.type \in Responses[rpc.kind]
  <2>1. response.type # "Error"
    BY <1>2 DEF Responses
  <2>2. CASE rpc.kind = "Spawn" /\ response.type = "SpawnConflict"
    BY <2>1, <2>2 DEF outcome_of, Outcome
  <2>3. CASE ~(rpc.kind = "Spawn" /\ response.type = "SpawnConflict")
    <3>1. response.type \in Expected[rpc.kind]
      BY <1>2, <2>3 DEF Responses, Expected
    <3> QED BY <2>1, <2>3, <3>1 DEF outcome_of, Outcome
  <2> QED BY <2>2, <2>3
<1> QED BY <1>1, <1>2 DEF Fits

\* What a step of one call needs.
LEMMA OneCallFits ==
  ASSUME IInv, Calls, UNCHANGED daemon, NEW c \in Caller, NEW x,
         conn' = [conn EXCEPT ![c] = x], CallFits(x),
         x.pc \in {"queued", "accepted", "answered"} => daemon[x.daemon] \in Listening
  PROVE  Calls'
<1>1. conn = [b \in Caller |-> conn[b]]
  BY DEF IInv, Types
<1>2. conn'[c] = x /\ \A b \in Caller \ {c} : conn'[b] = conn[b]
  BY <1>1
<1>3. OpenIsHeard'
  BY <1>2 DEF Calls, OpenIsHeard
<1>4. \A b \in Caller : CallFits(conn'[b])
  BY <1>2 DEF Calls
<1> QED BY <1>3, <1>4 DEF Calls, CallFits

\* What a step of one daemon needs: while calls are open to it, it goes on
\* listening.
LEMMA OneDaemonFits ==
  ASSUME IInv, Calls, UNCHANGED conn, NEW d \in Daemon, NEW state,
         daemon' = [daemon EXCEPT ![d] = state],
         state \in Listening \/ daemon[d] \notin Listening
  PROVE  Calls'
<1>1. daemon \in [Daemon -> DaemonState]
  BY DEF IInv, Types
<1>2. \A e \in Daemon : daemon[e] \in Listening => daemon'[e] \in Listening
  BY <1>1
<1>3. \A c \in Caller : conn[c].pc \in {"queued", "accepted", "answered"} => conn[c].daemon \in Daemon
  BY DEF IInv, CallIsPlaced
<1>4. OpenIsHeard'
  BY <1>2, <1>3 DEF Calls, OpenIsHeard
<1> QED BY <1>4 DEF Calls, CallFits

LEMMA IdleFits ==
  ASSUME NEW outcome \in Outcome \ {"UnexpectedResponse", "ok"}
  PROVE  CallFits(Idle) /\ CallFits(Ended(outcome)) /\ Idle.pc = "idle" /\ Ended(outcome).pc = "done"
<1>1. CallFits(Idle) /\ Idle.pc = "idle"
  BY DEF CallFits, Told, Idle, Outcome
<1>2. Ended(outcome).pc = "done" /\ Ended(outcome).outcome = outcome
  BY DEF Ended, Idle
<1> QED BY <1>1, <1>2 DEF CallFits, Told

LEMMA CallsStep == IInv /\ Calls /\ [Next]_vars => Calls'
<1> SUFFICES ASSUME IInv, Calls, [Next]_vars PROVE Calls'
  OBVIOUS
<1>types. /\ daemon \in [Daemon -> DaemonState]
          /\ socket \in [Path -> Daemon \cup {Nobody}]
          /\ conn = [c \in Caller |-> conn[c]]
          /\ \A c \in Caller : IsCall(conn[c])
  BY DEF IInv, Types
<1>fits. \A c \in Caller : CallFits(conn[c])
  BY DEF Calls
<1>codes. {"none", Eof, Unavailable, "still_exists"} \subseteq Outcome \ {"UnexpectedResponse", "ok"}
  BY DEF Outcome, Eof, Unavailable
<1>1. ASSUME NEW d \in Daemon, open_store(d) \/ prepare_socket(d) \/ bind(d) PROVE Calls'
  <2>1. daemon[d] \notin Listening /\ UNCHANGED conn
    BY <1>1 DEF open_store, prepare_socket, bind, Listening
  <2>2. PICK state : daemon' = [daemon EXCEPT ![d] = state]
    BY <1>1 DEF open_store, prepare_socket, bind, DaemonGo
  <2> QED BY <2>1, <2>2, OneDaemonFits
<1>2. ASSUME NEW d \in Daemon,
             serve(d) \/ leave_on_stop(d) \/ leave_on_signal(d) \/ remove_socket_file(d)
      PROVE  Calls'
  <2>1. UNCHANGED conn
    BY <1>2 DEF serve, leave_on_stop, leave_on_signal, remove_socket_file
  <2>2. PICK state \in Listening : daemon' = [daemon EXCEPT ![d] = state]
    BY <1>2 DEF serve, leave_on_stop, leave_on_signal, remove_socket_file, DaemonGo, Listening
  <2> QED BY <2>1, <2>2, OneDaemonFits
<1>3. ASSUME NEW d \in Daemon, fail(d) \/ exit(d) PROVE Calls'
  <2>1. /\ daemon' = [daemon EXCEPT ![d] = "off"]
        /\ conn' = [c \in Caller |-> IF open_to(c, d) THEN Ended(Eof) ELSE conn[c]]
    BY <1>3 DEF fail, exit, DaemonGo, disconnect
  <2>2. CallFits(Ended(Eof)) /\ Ended(Eof).pc = "done"
    BY <1>codes, IdleFits
  <2>3. \A c \in Caller : CallFits(conn'[c])
    BY <1>fits, <2>1, <2>2
  <2>4. \A c \in Caller : conn'[c].pc \in {"queued", "accepted", "answered"} =>
          conn'[c] = conn[c] /\ conn[c].daemon # d
    BY <2>1, <2>2 DEF open_to
  <2>5. OpenIsHeard'
    <3>1. \A e \in Daemon \ {d} : daemon'[e] = daemon[e]
      BY <1>types, <2>1
    <3>2. \A c \in Caller : conn[c].pc \in {"queued", "accepted", "answered"} =>
            conn[c].daemon \in Daemon /\ daemon[conn[c].daemon] \in Listening
      BY DEF IInv, CallIsPlaced, Calls, OpenIsHeard
    <3> QED BY <2>4, <3>1, <3>2 DEF OpenIsHeard
  <2> QED BY <2>3, <2>5 DEF Calls, CallFits
<1>4. ASSUME NEW d \in Daemon, send_shutdown(d) PROVE Calls'
  <2>1. UNCHANGED <<daemon, conn>>
    BY <1>4 DEF send_shutdown
  <2> QED BY <2>1 DEF Calls, OpenIsHeard, CallFits
<1>5. ASSUME NEW c \in Caller, NEW rpc \in Asks[c], request(c, rpc) PROVE Calls'
  <2> DEFINE d == socket[path_of(c)]
             queued == [Idle EXCEPT !.pc = "queued", !.rpc = rpc, !.daemon = d]
  <2>0. UNCHANGED daemon
    BY <1>5 DEF request
  <2>1. CASE d # Nobody /\ daemon[d] \in Listening
    <3>1. conn' = [conn EXCEPT ![c] = queued]
      BY <1>5, <2>1 DEF request
    <3>2. /\ queued.pc = "queued" /\ queued.daemon = d /\ queued.rpc = rpc
          /\ queued.outcome = "none"
      BY DEF Idle
    <3> HIDE DEF queued
    <3>3. CallFits(queued)
      BY <1>codes, <3>2, AsksRpcs DEF CallFits, Told
    <3> QED BY <2>0, <2>1, <3>1, <3>2, <3>3, OneCallFits
  <2>2. CASE ~(d # Nobody /\ daemon[d] \in Listening)
    <3>1. conn' = [conn EXCEPT ![c] = Ended(Unavailable)]
      BY <1>5, <2>2 DEF request
    <3>2. CallFits(Ended(Unavailable)) /\ Ended(Unavailable).pc = "done"
      BY <1>codes, IdleFits
    <3> QED BY <2>0, <3>1, <3>2, OneCallFits
  <2> QED BY <2>1, <2>2
<1>6. ASSUME NEW c \in Caller, accept(c) PROVE Calls'
  <2> DEFINE accepted == [conn[c] EXCEPT !.pc = "accepted"]
  <2>1. /\ conn[c].pc = "queued" /\ conn' = [conn EXCEPT ![c] = accepted] /\ UNCHANGED daemon
    BY <1>6 DEF accept
  <2>2. /\ accepted.pc = "accepted" /\ accepted.daemon = conn[c].daemon
        /\ accepted.rpc = conn[c].rpc /\ accepted.outcome = conn[c].outcome
    BY <1>types DEF IsCall
  <2> HIDE DEF accepted
  <2>3. CallFits(accepted) /\ daemon[conn[c].daemon] \in Listening
    BY <1>fits, <2>1, <2>2 DEF CallFits, Told, Calls, OpenIsHeard
  <2> QED BY <2>1, <2>2, <2>3, OneCallFits
<1>7. ASSUME NEW c \in Caller, handle_rpc(c) PROVE Calls'
  <2>0. conn[c].pc = "accepted" /\ UNCHANGED daemon
    BY <1>7 DEF handle_rpc
  <2>1. conn[c].rpc \in Rpc /\ conn[c].outcome \in Outcome \ {"UnexpectedResponse"}
    BY <1>fits, <2>0 DEF CallFits
  <2>2. PICK world, response :
          /\ Handled(c, world, response) /\ Fits(conn[c].rpc, response)
          /\ response.type # "Error" => Matches(conn[c].rpc, Kept(world, response), response)
    <3>1. PICK world \in Worlds :
            \/ \E response \in handle_rpc_result(conn[c].rpc, world) : Handled(c, world, response)
            \/ \E failure \in failures_of(conn[c].rpc, world) :
                 Handled(c, world, error_response(conn[c].rpc, failure))
      BY <1>7, Zenon DEF handle_rpc
    <3>2. CASE \E response \in handle_rpc_result(conn[c].rpc, world) : Handled(c, world, response)
      BY <2>1, <3>2, ResponseFits, ResponseMatches, Zenon
    <3>3. CASE \E failure \in failures_of(conn[c].rpc, world) :
                 Handled(c, world, error_response(conn[c].rpc, failure))
      <4>1. \A failure : error_response(conn[c].rpc, failure).type = "Error"
        BY DEF error_response
      <4> QED BY <3>3, <4>1, ErrorFits, Zenon
    <3> QED BY <3>1, <3>2, <3>3
  <2> DEFINE seen == Kept(world, response)
             answered == [conn[c] EXCEPT !.pc = "answered", !.response = response,
                                         !.world = seen]
  <2>3. conn' = [conn EXCEPT ![c].pc = "answered", ![c].response = response,
                             ![c].world = seen]
    BY <2>2 DEF Handled, Kept
  <2> HIDE DEF seen
  <2>4. conn' = [conn EXCEPT ![c] = answered]
    BY <2>3, <1>types
  <2>5. /\ answered.pc = "answered" /\ answered.daemon = conn[c].daemon
        /\ answered.rpc = conn[c].rpc /\ answered.outcome = conn[c].outcome
        /\ answered.response = response /\ answered.world = seen
    <3>1. IsCall(conn[c])
      BY <1>types
    <3>2. answered = [field \in {"pc", "rpc", "daemon", "world", "response", "outcome"} |->
                        IF field = "pc" THEN "answered" ELSE IF field = "response" THEN response
                        ELSE IF field = "world" THEN seen ELSE conn[c][field]]
      BY <3>1 DEF IsCall
    <3> QED BY <3>2
  <2> HIDE DEF answered
  <2>6. CallFits(answered) /\ daemon[conn[c].daemon] \in Listening
    <3>1. Told(answered) => Matches(answered.rpc, answered.world, answered.response)
      BY <2>2, <2>5 DEF Told, seen
    <3> QED BY <2>0, <2>1, <2>2, <2>5, <3>1 DEF CallFits, Calls, OpenIsHeard
  <2> QED BY <2>0, <2>4, <2>5, <2>6, OneCallFits
<1>8. ASSUME NEW c \in Caller, respond(c) PROVE Calls'
  <2> DEFINE waiting == [Idle EXCEPT !.pc = "waiting", !.daemon = conn[c].daemon]
             outcome == outcome_of(conn[c].rpc, conn[c].response)
             done == [conn[c] EXCEPT !.pc = "done", !.daemon = Nobody, !.outcome = outcome]
  <2>1. /\ conn[c].pc = "answered" /\ UNCHANGED daemon
        /\ conn' = [conn EXCEPT ![c] = waiting] \/ conn' = [conn EXCEPT ![c] = done]
    BY <1>8 DEF respond
  <2>2. waiting.pc = "waiting" /\ waiting.outcome = "none"
    BY DEF Idle
  <2>3. /\ outcome \in Outcome \ {"UnexpectedResponse"}
        /\ outcome = "ok" => conn[c].response.type # "Error"
    BY <1>fits, <2>1, FitIsTaken DEF CallFits
  <2> HIDE DEF outcome
  <2>4. /\ done.pc = "done" /\ done.outcome = outcome /\ done.rpc = conn[c].rpc
        /\ done.world = conn[c].world /\ done.response = conn[c].response
    BY <1>types DEF IsCall
  <2> HIDE DEF waiting, done
  <2>5. CallFits(waiting) /\ CallFits(done)
    <3>1. Told(done) => Matches(done.rpc, done.world, done.response)
      BY <1>fits, <2>1, <2>3, <2>4 DEF CallFits, Told
    <3>2. ~Told(waiting)
      BY <2>2 DEF Told
    <3> QED BY <1>codes, <2>2, <2>3, <2>4, <3>1, <3>2 DEF CallFits
  <2> QED BY <2>1, <2>2, <2>4, <2>5, OneCallFits
<1>9. ASSUME NEW c \in Caller, see_removed(c) PROVE Calls'
  <2> DEFINE stopped == [conn[c] EXCEPT !.pc = "stopped"]
  <2>1. conn' = [conn EXCEPT ![c] = stopped] /\ UNCHANGED daemon
    BY <1>9 DEF see_removed
  <2>2. stopped.pc = "stopped" /\ stopped.outcome = conn[c].outcome
    BY <1>types DEF IsCall
  <2> HIDE DEF stopped
  <2>3. CallFits(stopped)
    BY <1>fits, <2>2 DEF CallFits, Told
  <2> QED BY <2>1, <2>2, <2>3, OneCallFits
<1>10. ASSUME NEW c \in Caller, wait_timeout(c) \/ give_up(c) PROVE Calls'
  <2>1. /\ UNCHANGED daemon
        /\ \/ conn' = [conn EXCEPT ![c] = Ended("still_exists")]
           \/ conn' = [conn EXCEPT ![c] = Idle]
    BY <1>10 DEF wait_timeout, give_up
  <2>2. /\ CallFits(Idle) /\ Idle.pc = "idle"
        /\ CallFits(Ended("still_exists")) /\ Ended("still_exists").pc = "done"
    BY <1>codes, IdleFits
  <2> QED BY <2>1, <2>2, OneCallFits
<1>11. CASE UNCHANGED vars
  BY <1>11 DEF vars, Calls, OpenIsHeard, CallFits
<1> QED
  BY <1>1, <1>2, <1>3, <1>4, <1>5, <1>6, <1>7, <1>8, <1>9, <1>10, <1>11
  DEF Next, DaemonStep, CallStep

LEMMA CallsHold == Spec => []Calls
<1>1. Init => Calls
  <2> SUFFICES ASSUME Init PROVE Calls
    OBVIOUS
  <2>1. CallFits(Idle) /\ Idle.pc = "idle"
    BY IdleFits DEF Outcome
  <2> QED BY <2>1 DEF Init, Calls, OpenIsHeard
<1> QED BY <1>1, CallsStep, InvariantHolds, PTL DEF Spec

\* Every daemon, socket file and call keeps its type, and an open connection is
\* always to a process that still listens: the end of a daemon ends its calls.
THEOREM ClientTypeCorrect == Spec => []TypeOK
<1>1. IInv /\ Calls => TypeOK
  <2> SUFFICES ASSUME IInv, Calls PROVE TypeOK
    OBVIOUS
  <2>1. DOMAIN conn = Caller
    BY DEF IInv, Types
  <2>2. \A c \in Caller :
       /\ conn[c].pc \in CallState
       /\ conn[c].daemon \in Daemon \cup {Nobody}
       /\ conn[c].outcome \in Outcome
       /\ conn[c].pc \in {"queued", "accepted", "answered"} =>
            conn[c].daemon \in Daemon /\ daemon[conn[c].daemon] \in Listening
    BY DEF IInv, Types, IsCall, Calls, CallFits, OpenIsHeard, CallIsPlaced
  <2> QED BY <2>1, <2>2 DEF IInv, Types, TypeOK
<1> QED BY <1>1, CallsHold, InvariantHolds, PTL

\* Every answer is one that the client takes for its request, and says what is so:
\* the query over texts lists the rows that the filter names by time, the doctor's
\* counts and losses are those of the rows, a target is valid exactly when it is one of
\* the ways to write a live pane, or says headless, and an MCP line is answered with its id.
THEOREM AnswersMatchHolds == Spec => []AnswersMatch
<1>1. Calls => AnswersMatch
  <2> SUFFICES ASSUME Calls, NEW c \in Caller
               PROVE  /\ conn[c].outcome # "UnexpectedResponse"
                      /\ conn[c].pc = "done" /\ conn[c].outcome = "ok" =>
                           Matches(conn[c].rpc, conn[c].world, conn[c].response)
    BY DEF AnswersMatch, Matches
  <2> QED BY DEF Calls, CallFits, Told
<1> QED BY <1>1, CallsHold, PTL
=============================================================================
