-------------------------- MODULE MCEngineScheduler --------------------------
(* Small instances of EngineScheduler for TLC.                                *)
EXTENDS EngineScheduler

CONSTANTS r1, r2, r3

MCRequests == {r1, r2, r3}
MCPrompt   == r1 :> 1 @@ r2 :> 2 @@ r3 :> 3
MCMaxNew   == r1 :> 4 @@ r2 :> 2 @@ r3 :> 1
MCOneNew   == [r \in MCRequests |-> 1]

Setup(policy, depth, blocks, limit, threshold, maxNew) ==
    [policy |-> policy, depth |-> depth, blocks |-> blocks, limit |-> limit,
     threshold |-> threshold, maxNew |-> maxNew]

(* A cache in which not all fit, so that requests are preempted; where        *)
(* prompts are computed in pieces it has room for all.  A prefill instance    *)
(* generates one token, the others several.                                   *)
MCSetups ==
    {Setup("hybrid", 1, 5, 5, 0, MCMaxNew), Setup("hybrid", 2, 6, 6, 0, MCMaxNew),
     Setup("sorted", 1, 5, 0, 0, MCOneNew),
     Setup("mixed", 1, 12, 0, 1, MCMaxNew), Setup("mixed", 1, 5, 0, 0, MCMaxNew),
     Setup("tfas", 1, 5, 0, 0, MCMaxNew)}

(* Prompts computed in pieces.                                                *)
MCPieces  == {Setup("sorted", 1, 12, 0, 1, MCOneNew)}

(* A prompt that exceeds the limit.                                           *)
MCIgnored == {Setup("hybrid", 1, 6, 2, 0, MCOneNew)}
=============================================================================
