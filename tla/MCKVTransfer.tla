---------------------------- MODULE MCKVTransfer -----------------------------
(* Small instances of KVTransfer for TLC.                                     *)
EXTENDS KVTransfer

CONSTANTS r1, r2

MCRequests == {r1, r2}

MCOneBlock == {r1}

(* Both requests are pulled from one cluster, or each from its own.           *)
OneHome == [r \in MCRequests |-> 1]
TwoHome == [r \in MCRequests |-> IF r = r2 THEN 2 ELSE 1]

Setup(ranks, mode, mayFail, home) ==
    [ranks |-> ranks, mode |-> mode, mayFail |-> mayFail, home |-> home]

MCSetups ==
    {Setup({0}, "single", FALSE, OneHome), Setup({0}, "single", TRUE, OneHome),
     Setup({0, 1}, "single", FALSE, OneHome),
     Setup({0}, "threads", FALSE, TwoHome), Setup({0}, "threads", TRUE, OneHome),
     Setup({0, 1}, "threads", FALSE, TwoHome), Setup({0, 1}, "threads", TRUE, OneHome)}

(* One request pulled in halves by two threads; and two ranks that wait for   *)
(* each other at a barrier while pulls fail.                                  *)
MCHalves  == {Setup({0}, "ranks", FALSE, TwoHome)}
MCBarrier == {Setup({0, 1}, "single", TRUE, OneHome)}
=============================================================================
