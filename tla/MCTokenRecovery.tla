--------------------------- MODULE MCTokenRecovery ---------------------------
(* Small instances of TokenRecovery for TLC.                                  *)
EXTENDS TokenRecovery

CONSTANTS w1, w2

MCWorkers == {w1, w2}

Setup(lossy, times, drivers) == [lossy |-> lossy, times |-> times, drivers |-> drivers]

(* Restarts of about the same time; of different times, longer than the       *)
(* workers or the processor wait; and requests and workers that are lost.     *)
MCSetups == {Setup(FALSE, {1, 2}, MCWorkers), Setup(FALSE, {0, 3, 4}, MCWorkers),
             Setup(TRUE, {1, 4}, MCWorkers)}
=============================================================================
