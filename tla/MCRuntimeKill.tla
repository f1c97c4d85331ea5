---------------------------- MODULE MCRuntimeKill ----------------------------
(* RuntimeKill with interchangeable kill requests for TLC.                 *)
EXTENDS RuntimeKill, TLC

Symmetric == Permutations(Request)
=============================================================================
