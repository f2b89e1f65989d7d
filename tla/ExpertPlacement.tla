--------------------------- MODULE ExpertPlacement ---------------------------
(* Moving experts between ranks while the model serves.  On every rank a      *)
(* worker thread takes part in collective calls, agrees with the others on a  *)
(* new placement and receives the weights of its part into a buffer; the main *)
(* thread installs what is buffered, and the routes to it, before its next    *)
(* step.  Names are those of cpp/placement_manager.cpp, distribution.cpp,     *)
(* placement_mapping.cpp and placement_optimizer.cpp.                         *)
EXTENDS Integers, FiniteSets, SequencesExt

CONSTANTS NumRanks,     \* ranks that hold experts
          NumLayers, NumSlots,  \* MoE layers, and experts a rank holds of each
          NumExperts,
          Start,                \* what each rank holds of each layer at first
          Targets               \* what the load balancer may ask for

Ranks     == 1..NumRanks
Layers    == 1..NumLayers
Slots     == 1..NumSlots
Experts   == 1..NumExperts
Positions == Ranks \X Slots
None      == 0    \* -1 in the code: no expert
NoSource  == <<0, 0>>

(* A placement leaves no expert out and no rank with more than it can hold;   *)
(* no rank holds an expert twice.                                             *)
Placements ==
    {f \in [Layers -> [Ranks -> SUBSET Experts]] :
        \A l \in Layers : /\ UNION {f[l][r] : r \in Ranks} = Experts
                          /\ \A r \in Ranks : Cardinality(f[l][r]) <= NumSlots}

ASSUME ExpertPlacementAssumption ==
    /\ {NumRanks, NumLayers, NumSlots, NumExperts} \subseteq Nat \ {0}
    /\ Start \in Placements /\ Targets \subseteq Placements

VARIABLES
    pos,      \* pos_to_ep_ of every rank: the expert at each position
    hbm,      \* the expert whose weights each position holds
    route,    \* selector: pos as of the last update_selector
    updated,  \* is_layer_update
    buf,      \* completed_sync_queue_ with the buffers it names
    ready,    \* buf_ready_flag_
    pc,       \* where the worker thread is
    main,     \* where the main thread is in its step
    turn,     \* parity of the rounds a rank has installed
    todo,     \* instructions of the rounds to come
    round,    \* those of this round that no batch has taken yet
    batch     \* those under way

plan == <<todo, round, batch>>
maps == <<hbm, route, turn>>
vars == <<pos, maps, updated, buf, ready, pc, main, plan>>

PlacementMaps == [Layers -> [Positions -> Experts \cup {None}]]
Instructions  == [layer : Layers, to : Positions, expert : Experts \cup {None},
                  from : Positions \cup {NoSource}]

TypeOK ==
    /\ pos \in [Ranks -> PlacementMaps] /\ route \in [Ranks -> PlacementMaps]
    /\ hbm \in PlacementMaps
    /\ updated \in [Ranks -> SUBSET Layers]
    /\ \A r \in Ranks :
          /\ buf[r] \subseteq [layer : Layers, to : {r} \X Slots, weights : Experts]
          /\ Cardinality(buf[r]) <= NumSlots
    /\ ready \in [Ranks -> BOOLEAN] /\ turn \in [Ranks -> BOOLEAN]
    /\ pc \in [Ranks -> {"collect", "shake", "map", "move", "wait"}]
    /\ main \in [Ranks -> {"between", "batch", "dummy", "after"}]
    /\ \A S \in {todo, round, batch} : S \subseteq Instructions

----------------------------------------------------------------------------
(* The expert of each slot, when the slots of a rank are to hold the experts  *)
(* of want: those it holds stay where they are, the others take the first     *)
(* slots left, in the order of their numbers.                                 *)
Rearranged(cur, want) ==
    LET new          == want \ {cur[s] : s \in Slots}
        Left(s)      == {t \in Slots : t <= s /\ cur[t] \notin want}
    IN  [s \in Slots |->
           IF cur[s] \in want THEN cur[s]
           ELSE Max({None} \cup {e \in new : Cardinality({d \in new : d <= e}) = Cardinality(Left(s))})]

(* What each position of a layer is to hold, when it holds what cur says.     *)
Goal(cur, want) ==
    [p \in Positions |->
       Rearranged([s \in Slots |-> cur[<<p[1], s>>]], want[p[1]])[p[2]]]

Init ==
    /\ pos = [r \in Ranks |-> [l \in Layers |-> Goal([p \in Positions |-> None], Start[l])]]
    /\ route = pos /\ hbm = pos[CHOOSE r \in Ranks : TRUE]
    /\ updated = [r \in Ranks |-> {}] /\ buf = [r \in Ranks |-> {}]
    /\ ready = [r \in Ranks |-> FALSE] /\ turn = [r \in Ranks |-> FALSE]
    /\ pc = [r \in Ranks |-> "collect"] /\ main = [r \in Ranks |-> "between"]
    /\ todo = {} /\ round = {} /\ batch = {}

(* The source of an addition is the rank that appears in fewest instructions  *)
(* so far, of those that hold the expert now.                                 *)
Source(cur, e, used) ==
    CHOOSE q \in Positions :
       /\ cur[q] = e
       /\ \A o \in Positions : cur[o] = e =>
             \/ used[q[1]] < used[o[1]]
             \/ used[q[1]] = used[o[1]] /\ q[1] <= o[1]

(* The turn of position p, which is to hold e.                                *)
Add(acc, l, cur, p, e) ==
    LET from == IF e = None THEN NoSource ELSE Source(cur, e, acc.used)
        i    == [layer |-> l, to |-> p, expert |-> e, from |-> from]
    IN  CASE e = cur[p] -> acc
          [] e # cur[p] /\ e = None -> [acc EXCEPT !.plan = @ \cup {i}]
          [] OTHER -> [plan |-> acc.plan \cup {i},
                       used |-> [acc.used EXCEPT ![p[1]] = @ + 1, ![from[1]] = @ + 1]]

(* The positions, slot by slot.                                               *)
Slotwise ==
    [k \in 1..(NumRanks * NumSlots) |->
       <<((k - 1) % NumRanks) + 1, ((k - 1) \div NumRanks) + 1>>]

(* The instructions that turn a layer's map into one where each rank holds    *)
(* what want says.  (Through a set, so that TLC evaluates acc once.)          *)
LayerInstructions(l, cur, want) ==
    LET goal == Goal(cur, want)
    IN  FoldLeft(LAMBDA acc, p : CHOOSE x \in {Add(a, l, cur, p, goal[p]) : a \in {acc}} : TRUE,
                 [plan |-> {}, used |-> [r \in Ranks |-> 0]], Slotwise).plan

(* The workers gather the activations, and each computes the same plan.       *)
Optimize ==
    /\ \A r \in Ranks : pc[r] = "collect"
    /\ \E want \in Targets, r \in Ranks :
          todo' = UNION {LayerInstructions(l, pos[r][l], want[l]) : l \in Layers}
    /\ todo' # {}
    /\ pc' = [r \in Ranks |-> "shake"]
    /\ UNCHANGED <<pos, maps, updated, buf, ready, main, round, batch>>

----------------------------------------------------------------------------
(* Whether the layers of L together need no more buffers than a rank has.     *)
WrongFits(L) == TRUE

Fits(L) ==
    \A r \in Ranks :
       Cardinality({i \in todo : i.layer \in L /\ i.to[1] = r}) <= NumSlots

(* The layers of the next round: the first that is left, and every later one  *)
(* that fits beside those taken.                                              *)
NextLayers ==
    LET Merge(L, l) == IF Fits(L \cup {l}) THEN L \cup {l} ELSE L
    IN  FoldLeft(Merge, {}, [l \in Layers |-> l])

(* Rounds by slot, as the optimizer numbers them.                             *)
WrongNextRound == {i \in todo : \A j \in todo : i.to[2] <= j.to[2]}

NextRound == {i \in todo : i.layer \in NextLayers}

Ends(i) == {i.to[1]} \cup IF i.expert = None THEN {} ELSE {i.from[1]}

(* In a batch no rank sends or receives twice.                                *)
OncePerRank(B) ==
    \A i, j \in B : i = j \/ i.expert = None \/ j.expert = None \/ Ends(i) \cap Ends(j) = {}

(* The workers agree that they begin the next batch.  Which instructions of   *)
(* the round go together is left open.                                        *)
Handshake ==
    /\ \A r \in Ranks : pc[r] = "shake"
    /\ LET open == IF round = {} THEN NextRound ELSE round
       IN  /\ \E B \in {S \in SUBSET open : S # {} /\ OncePerRank(S)} :
                 batch' = B /\ round' = open \ B
           /\ todo' = todo \ open
    /\ pc' = [r \in Ranks |-> "map"]
    /\ UNCHANGED <<pos, maps, updated, buf, ready, main>>

(* Where the workers of R are when they have done their part of the batch: at *)
(* the end of a round they wait for their main threads.                       *)
PartDone(R) ==
    /\ pc' = [r \in Ranks |-> IF r \notin R THEN pc[r]
                              ELSE IF round = {} THEN "wait" ELSE "shake"]
    /\ ready' = [r \in Ranks |-> ready[r] \/ (r \in R /\ round = {})]

Moves(r) == {i \in batch : i.expert # None /\ r \in Ends(i)}

(* The map m after the instructions of B.                                     *)
Applied(m, B) ==
    [l \in Layers |-> [p \in Positions |->
       IF \E i \in B : i.layer = l /\ i.to = p
       THEN (CHOOSE i \in B : i.layer = l /\ i.to = p).expert
       ELSE m[l][p]]]

(* An expert for which there is no buffer left ends the work on the plan.     *)
Map(r, marks) ==
    /\ pc[r] = "map"
    /\ pos' = [pos EXCEPT ![r] = Applied(@, batch)]
    /\ updated' = [updated EXCEPT ![r] = @ \cup {i.layer : i \in marks}]
    /\ IF Moves(r) = {} THEN PartDone({r})
       ELSE /\ pc' = [pc EXCEPT ![r] =
                        IF (\E i \in Moves(r) : i.to[1] = r)
                             /\ Cardinality(buf[r]) >= NumSlots
                        THEN "collect" ELSE "move"]
            /\ UNCHANGED ready
    /\ UNCHANGED <<maps, buf, main, plan>>

(* A layer that only loses experts keeps its routes.                          *)
WrongHandleBatch(r) == Map(r, {i \in batch : i.expert # None})

HandleBatch(r) == Map(r, batch)

(* hccl_batch_send of the two ends of an instruction: the source sends what   *)
(* it computes with, the target receives into a buffer.                       *)
BatchSend(i) ==
    /\ i.expert # None /\ \A r \in Ends(i) : pc[r] = "move"
    /\ buf' = [buf EXCEPT ![i.to[1]] =
                 @ \cup {[layer |-> i.layer, to |-> i.to,
                          weights |-> hbm[i.layer][i.from]]}]
    /\ PartDone(Ends(i))
    /\ UNCHANGED <<pos, maps, updated, main, plan>>

(* The worker sees that its flag was cleared.                                 *)
Resume(r) ==
    /\ pc[r] = "wait" /\ ~ready[r]
    /\ pc' = [pc EXCEPT ![r] = IF todo = {} THEN "collect" ELSE "shake"]
    /\ UNCHANGED <<pos, maps, updated, buf, ready, main, plan>>

----------------------------------------------------------------------------
(* The main thread.                                                           *)
DoPlacementOptimizer(r) ==
    /\ hbm' = [l \in Layers |-> [p \in Positions |->
                 IF \E b \in buf[r] : b.layer = l /\ b.to = p
                 THEN (CHOOSE b \in buf[r] : b.layer = l /\ b.to = p).weights
                 ELSE hbm[l][p]]]
    /\ route' = [route EXCEPT ![r] =
                   [l \in Layers |-> IF l \in updated[r] THEN pos[r][l] ELSE @[l]]]
    /\ updated' = [updated EXCEPT ![r] = {}]
    /\ buf'     = [buf EXCEPT ![r] = {}]
    /\ ready'   = [ready EXCEPT ![r] = FALSE]
    /\ turn'    = [turn EXCEPT ![r] = ~@]

PlaceExperts(r) ==
    IF ready[r] THEN DoPlacementOptimizer(r)
    ELSE UNCHANGED <<maps, updated, buf, ready>>

(* A batch: rounds are installed before the model runs.                       *)
StartBatch(r) ==
    /\ main[r] = "between"
    /\ main' = [main EXCEPT ![r] = "batch"]
    /\ PlaceExperts(r)
    /\ UNCHANGED <<pos, pc, plan>>

(* A rank with nothing to compute runs the model on a dummy token ...         *)
StartDummy(r) ==
    /\ main[r] = "between"
    /\ main' = [main EXCEPT ![r] = "dummy"]
    /\ UNCHANGED <<pos, maps, updated, buf, ready, pc, plan>>

(* ... and installs after it, in execute_dummy_batch,                         *)
EndDummyBatch(r) ==
    /\ main[r] = "after"
    /\ main' = [main EXCEPT ![r] = "between"]
    /\ PlaceExperts(r)
    /\ UNCHANGED <<pos, pc, plan>>

(* or not at all, in an execute_model without tokens.                         *)
EndEmptyStep(r) ==
    /\ main[r] = "after"
    /\ main' = [main EXCEPT ![r] = "between"]
    /\ UNCHANGED <<pos, maps, updated, buf, ready, pc, plan>>

(* The ranks exchange tokens, so that no step begins before all have ended.   *)
Forward ==
    /\ \A r \in Ranks : main[r] \in {"batch", "dummy"}
    /\ main' = [r \in Ranks |-> IF main[r] = "batch" THEN "between" ELSE "after"]
    /\ UNCHANGED <<pos, maps, updated, buf, ready, pc, plan>>

Next ==
    \/ Optimize \/ Handshake \/ Forward
    \/ \E r \in Ranks : \/ HandleBatch(r) \/ Resume(r)
                         \/ StartBatch(r) \/ StartDummy(r)
                         \/ EndDummyBatch(r) \/ EndEmptyStep(r)
    \/ \E i \in batch : BatchSend(i)

Spec == Init /\ [][Next]_vars

(* The threads run and the engine steps; a rank does not take empty steps     *)
(* only.  A load balancer that finds nothing to change is not a step.         *)
FairSpec ==
    /\ Spec
    /\ WF_vars(Handshake) /\ WF_vars(Forward)
    /\ \A r \in Ranks :
          /\ WF_vars(HandleBatch(r)) /\ WF_vars(Resume(r))
          /\ WF_vars(StartBatch(r) \/ StartDummy(r))
          /\ WF_vars(EndDummyBatch(r) \/ EndEmptyStep(r))
          /\ SF_vars(StartBatch(r) \/ EndDummyBatch(r))
    /\ WF_vars(\E i \in batch : BatchSend(i))

----------------------------------------------------------------------------
(* Properties *)

(* Every rank sends the tokens of every expert somewhere, and only to         *)
(* positions that hold its weights.                                           *)
RoutesRight ==
    \A r \in Ranks, l \in Layers, e \in Experts :
       LET to == {p \in Positions : route[r][l][p] = e}
       IN  to # {} /\ \A p \in to : hbm[l][p] = e

(* Tokens are computed by their experts, at every point of a plan, as long as *)
(* no rank has installed a round that another has not.                        *)
TokensReachExperts == (\A r, q \in Ranks : turn[r] = turn[q]) => RoutesRight

(* The same of every step in which all ranks compute a batch.                 *)
EveryStepRoutesRight == (\A r \in Ranks : main[r] = "batch") => RoutesRight

(* Between two rounds all ranks have the same map, route by it, and hold the  *)
(* weights it says; so the next round, or plan, starts from what is there.    *)
WeightsFollowMap ==
    (round = {} /\ \A r \in Ranks : pc[r] \in {"collect", "shake"}) =>
       \A r, q \in Ranks :
          /\ pos[r] = pos[q] /\ route[r] = pos[r]
          /\ \A l \in Layers, p \in Positions :
                pos[r][l][p] # None => hbm[l][p] = pos[r][l][p]

(* A plan ends: no rank waits for ever for another, for a buffer or for its   *)
(* main thread.                                                               *)
EveryPlanEnds ==
    todo # {} ~> todo = {} /\ \A r \in Ranks : pc[r] = "collect"
=============================================================================
