----------------------------- MODULE MCNetworkExecutor -----------------------------
(* Two or three edits, one of them perhaps rebuilt, and one or two lost      *)
(* connections: enough for an interruption between any two steps of a        *)
(* goroutine with another one queued behind it.                              *)
EXTENDS NetworkExecutor

CONSTANTS a, b, r, q
====================================================================================
