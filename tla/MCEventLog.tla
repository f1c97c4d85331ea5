----------------------------- MODULE MCEventLog -----------------------------
(* Instances of EventLog for TLC.                                          *)
EXTENDS EventLog

\* Every file operation of append and compact_if_due may fail.
AllFaults == {"write", "sync", "compact"}
=============================================================================
