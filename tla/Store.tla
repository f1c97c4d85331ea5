-------------------------------- MODULE Store --------------------------------
(***************************************************************************)
(* What the lifecycle store keeps and answers, as operators: the columns of *)
(* a row (codec.rs), the status query (lifecycle.rs, StatusReader) and the  *)
(* texts of times, panes and targets that they compare.  A text is a       *)
(* sequence of tokens; an optional value is a set of at most one element.  *)
(***************************************************************************)
EXTENDS Integers, Sequences, FiniteSets

CONSTANTS
  Numeral,      \* texts that u32::from_str takes: zeros and a plus may come first
  value_of,     \* the number that each stands for
  number_text,  \* the text that a number is written with
  AnyCase       \* the texts that differ from that of a state in case only

\* The numbers of windows and panes.
Number == {value_of[numeral] : numeral \in Numeral}

ASSUME NumbersAreWritten ==
  /\ {":", "."} \cap Numeral = {}
  /\ \A n \in Number : number_text[n] \in Numeral /\ value_of[number_text[n]] = n

LifecycleState == {"Forking", "Running", "Exited", "Lost"}

ASSUME StatesDiffer ==
  /\ \A state \in LifecycleState : state \in AnyCase[state]
  /\ \A s, t \in LifecycleState : AnyCase[s] \cap AnyCase[t] # {} => s = t
  /\ "forking" \in AnyCase["Forking"] /\ "running" \in AnyCase["Running"]
  /\ "exited" \in AnyCase["Exited"] /\ "lost" \in AnyCase["Lost"]

SplitAt(text, i) == [before |-> SubSeq(text, 1, i - 1),
                     after |-> SubSeq(text, i + 1, Len(text))]

Places(text, token) == {i \in 1..Len(text) : text[i] = token}

Least(places) == CHOOSE i \in places : \A j \in places : i <= j

Greatest(places) == CHOOSE i \in places : \A j \in places : i >= j

-----------------------------------------------------------------------------
(* Times.  A time is a second and three groups of three digits; a character *)
(* is its code.                                                            *)

Time == [sec : 0..9, milli : 0..9, micro : 0..9, nano : 0..9]

Digit(n) == 48 + n

\* Mutant: times are written with Z.
to_rfc3339_z(t) ==
  LET groups == IF t.nano # 0 THEN <<t.milli, t.micro, t.nano>>
                ELSE IF t.micro # 0 THEN <<t.milli, t.micro>>
                ELSE IF t.milli # 0 THEN <<t.milli>> ELSE <<>>
      digits == [i \in 1..Len(groups) |-> Digit(groups[i])]
  IN <<Digit(t.sec)>> \o (IF groups = <<>> THEN <<>> ELSE <<46>> \o digits) \o <<90>>

\* chrono's to_rfc3339 in UTC: groups of zeros at the end are not written.
to_rfc3339(t) ==
  LET groups == IF t.nano # 0 THEN <<t.milli, t.micro, t.nano>>
                ELSE IF t.micro # 0 THEN <<t.milli, t.micro>>
                ELSE IF t.milli # 0 THEN <<t.milli>> ELSE <<>>
      digits == [i \in 1..Len(groups) |-> Digit(groups[i])]
  IN <<Digit(t.sec)>> \o (IF groups = <<>> THEN <<>> ELSE <<46>> \o digits) \o <<43>>

\* The order of TEXT columns.
TextLess(a, b) ==
  \E n \in 0..Len(a) :
    /\ n < Len(b) /\ \A i \in 1..n : a[i] = b[i]
    /\ n < Len(a) => a[n + 1] < b[n + 1]

\* Earlier(s, t) is the order of times that the texts stand for.
Earlier(s, t) ==
  LET key(x) == ((x.sec * 10 + x.milli) * 10 + x.micro) * 10 + x.nano
  IN key(s) < key(t)

-----------------------------------------------------------------------------
(* tmux addresses and spawn targets.                                       *)

is_number(text) == Len(text) = 1 /\ text[1] \in Numeral

\* A TmuxAddress; the name of its session is not empty.
Address == [session : Seq(STRING) \ {<<>>}, window : Number, pane : Number]

pane_text(session, window, pane) == session \o <<":", window, ".", pane>>

address_text(a) == pane_text(a.session, number_text[a.window], number_text[a.pane])

\* TmuxAddress::from_str: split at the last colon, then at the first point
\* after it.
parse_address(text) ==
  IF Places(text, ":") = {} THEN {}
  ELSE LET at == SplitAt(text, Greatest(Places(text, ":"))) IN
       IF Places(at.after, ".") = {} \/ at.before = <<>> THEN {}
       ELSE LET pos == SplitAt(at.after, Least(Places(at.after, "."))) IN
            IF is_number(pos.before) /\ is_number(pos.after)
            THEN {[session |-> at.before, window |-> value_of[pos.before[1]],
                   pane |-> value_of[pos.after[1]]]}
            ELSE {}

\* SpawnTarget::from_str.
parse_target(text) ==
  IF text = <<"headless">> THEN {[mode |-> "headless"]}
  ELSE IF Len(text) >= 2 /\ SubSeq(text, 1, 2) = <<"tmux", ":">>
       THEN {[mode |-> "tmux", address |-> a] : a \in parse_address(SubSeq(text, 3, Len(text)))}
       ELSE {}

\* A text that names a mode which is not tmux.
is_unsupported_target(text) ==
  /\ Places(text, ":") # {}
  /\ SplitAt(text, Least(Places(text, ":"))).before \notin {<<>>, <<"tmux">>}

\* What validate_target says of a text; alive is the set of live addresses.
validate_target(text, alive) ==
  CASE parse_target(text) = {} ->
         IF is_unsupported_target(text) THEN "UnsupportedTarget" ELSE "InvalidTarget"
    [] \E x \in parse_target(text) : x.mode = "tmux" /\ x.address \notin alive -> "TmuxPaneDead"
    [] OTHER -> "Valid"

-----------------------------------------------------------------------------
(* Rows.                                                                   *)

\* Lifecycle: what belongs to a state is there in that state only.
StoredLifecycle ==
  {l \in [session : STRING, runtime : STRING, exit : SUBSET Int, evidence : SUBSET STRING,
           state : LifecycleState, tmux_pane : SUBSET Address] :
     /\ l.state # "Exited" => l.exit = {}
     /\ l.state # "Lost" => l.evidence = {}}

\* What belongs to a state has columns of its own, which are read for it only.
columns_of(x) ==
  [exit |-> IF x.state = "Exited" THEN x.exit ELSE {},
   evidence |-> IF x.state = "Lost" THEN x.evidence ELSE {}]

encode(l, now) ==
  [session |-> l.session, runtime |-> l.runtime, state |-> l.state,
   exit |-> columns_of(l).exit, evidence |-> columns_of(l).evidence,
   tmux_pane |-> {address_text(a) : a \in l.tmux_pane}, updated_at |-> to_rfc3339(now)]

decode(row) ==
  [session |-> row.session, runtime |-> row.runtime, state |-> row.state,
   exit |-> columns_of(row).exit, evidence |-> columns_of(row).evidence,
   tmux_pane |-> UNION {parse_address(text) : text \in row.tmux_pane}]

\* LOWER, of texts that are no state as good as their own.
LOWER(text) ==
  CASE text \in AnyCase["Forking"] -> "forking" [] text \in AnyCase["Running"] -> "running"
    [] text \in AnyCase["Exited"] -> "exited" [] text \in AnyCase["Lost"] -> "lost"
    [] OTHER -> text

\* StatusFilter::requested_session_ids: no ids stand for all.
requested_session_ids(filter) == filter.session_ids \cup filter.session_id

\* The query of LifecycleStore::list on a table, a set of rows.
list(table, filter) ==
  LET ids == requested_session_ids(filter)
  IN {decode(row) : row \in
        {r \in table :
           /\ ids # {} => r.session \in ids
           /\ \A runtime \in filter.runtime : r.runtime = runtime
           /\ \A state \in filter.state : LOWER(r.state) = LOWER(state)
           /\ \A t \in filter.updated_since : ~TextLess(r.updated_at, to_rfc3339(t))}}

\* LifecycleStore::recent_lost_since.
recent_lost_since(table, since) ==
  {r.session : r \in {q \in table : /\ q.state = "Lost"
                                    /\ ~TextLess(q.updated_at, to_rfc3339(since))}}

lifecycle_counts(table) ==
  [state \in LifecycleState |->
     Cardinality({r \in table : r.state = state})]

\* StatusReader: where the output of a session is.
log_availability(l, alive) ==
  IF l.tmux_pane = {} THEN "Headless"
  ELSE IF l.tmux_pane \subseteq alive THEN "TmuxPaneSnapshot" ELSE "PaneUnavailable"
=============================================================================
