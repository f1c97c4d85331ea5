----------------------------- MODULE EventStream -----------------------------
(***************************************************************************)
(* What the event log promises its clients, without files, memory, waiters *)
(* or restarts: one stream of events, numbered from 1, of which retention  *)
(* forgets a prefix; a client that asks gets everything after its position *)
(* in stream order, or is told that its position has been forgotten.       *)
(***************************************************************************)
EXTENDS Naturals, Sequences

CONSTANTS Client, MinEvents

VARIABLES
  published,  \* events appended so far
  floor,      \* events forgotten by retention
  position,   \* the cursor of each client
  received    \* the events each client was given, in order

svars == <<published, floor, position, received>>

Init ==
  /\ published = 0
  /\ floor = 0
  /\ position = [c \in Client |-> 0]
  /\ received = [c \in Client |-> <<>>]

\* A new event; retention may then forget old ones, but never the last MinEvents.
Publish ==
  /\ published' = published + 1
  /\ \/ floor' = floor
     \/ floor' \in (floor + 1) .. published' /\ published' - floor' >= MinEvents
  /\ UNCHANGED <<position, received>>

\* A client gets the events it has not seen.
Deliver(c) ==
  /\ floor <= position[c]
  /\ received' = [received EXCEPT ![c] =
       @ \o [i \in 1 .. (published - position[c]) |-> position[c] + i]]
  /\ position' = [position EXCEPT ![c] = published]
  /\ UNCHANGED <<published, floor>>

\* A client learns that events it has not seen are forgotten.
Expire(c) ==
  /\ position[c] < floor
  /\ position' = [position EXCEPT ![c] = floor]
  /\ UNCHANGED <<published, floor, received>>

Next == Publish \/ \E c \in Client : Deliver(c) \/ Expire(c)

Spec == Init /\ [][Next]_svars
=============================================================================
