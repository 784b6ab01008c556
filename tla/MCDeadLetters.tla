--------------------------- MODULE MCDeadLetters ---------------------------
(* An instance of DeadLetters for TLC: a watcher and the operator's        *)
(* command, with a persisting thread and a recovery thread each, and the   *)
(* command's main thread.                                                  *)
EXTENDS DeadLetters, TLC

CONSTANTS a, b, watcher, command, t1, t2, r1, r2, main

OneThreadEach == (t1 :> watcher) @@ (t2 :> command)

TwoInTheCommand == (r1 :> watcher) @@ (r2 :> command) @@ (main :> command)

(* Bound: two persists, runs of the command, faults or crashes.            *)
TwoEvents == jobs + faults + crashes <= 2

(* The paths are interchangeable: the letter of an earlier run, if there   *)
(* is one, is not that of b (the clock counts what was inserted since).    *)
OldIsFirst == clock = 1 => letter[b].id = 0
=============================================================================
