----------------------------- MODULE MCLogging -----------------------------
(***************************************************************************)
(* Logging with two threads and three levels: one is disabled, one is      *)
(* flushed line by line as in the programs, one is flushed every second    *)
(* line.                                                                   *)
(***************************************************************************)
EXTENDS Logging

CONSTANTS main, t1

MCThreshold == [l \in Level |-> IF l = "INFO" THEN 2 ELSE 0]
=============================================================================
