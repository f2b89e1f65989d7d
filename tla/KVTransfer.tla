----------------------------- MODULE KVTransfer ------------------------------
(* The LLMDataDist connector: a prefill engine P finishes a request but keeps *)
(* its cache blocks, a decode engine D pulls them with background threads,    *)
(* tells P, and P frees them; P also frees what nobody fetched when a delay   *)
(* has passed.  Names are those of llmdatadist_connector_v1.py.               *)
EXTENDS Naturals, Sequences, SequencesExt, FiniteSets

NoId == "None"  \* the id in a message that names no request of P

CONSTANTS Requests,
          OneBlock,   \* requests with one cache block only
          Setups      \* the ways D may be started

(* Of a setup: tensor-parallel ranks of D; what its threads are ("single": an *)
(* executor with one; "threads": one per cluster; "ranks": the same, and each *)
(* request is pulled in two halves); whether a pull may fail for good; and    *)
(* the cluster of P each request is pulled from.                              *)
ASSUME KVTransferAssumption ==
    /\ IsFiniteSet(Requests) /\ NoId \notin Requests
    /\ OneBlock \subseteq Requests
    /\ Setups \subseteq [ranks : {{0}, {0, 1}},
                         mode : {"single", "threads", "ranks"},
                         mayFail : BOOLEAN, home : [Requests -> {1, 2}]]

VARIABLES
    setup,        \* the setup of D
    pPhase,       \* what P does with r: "prefill", "held" or "free"
    finishTime,   \* when P finished r, as a place in the order of finishing
    pSched,       \* requests_finish_time of P's scheduler, an ordered dict
    pTimes,       \* requests_finish_time of P's worker, an ordered dict
    horizon,      \* requests finished up to here are past BLOCK_RELEASE_DELAY
    inbox,        \* messages on their way to P's socket
    receiveList,  \* receive_req_list of P's worker
    dPhase,       \* what D does with r
    hasParams,    \* requests whose kv_transfer_params are not None
    processed,    \* processed_request of D's scheduler
    queue,        \* tasks of a lane of a rank
    pull,         \* the task a lane works on, empty when it is idle
    alive,        \* lanes whose thread still runs
    recving       \* _recving_transfers of rank 0, whose report the engine uses

pvars == <<pPhase, finishTime, pSched, pTimes, horizon, receiveList>>
dvars == <<dPhase, hasParams, processed>>
lvars == <<queue, pull, alive>>
vars  == <<setup, pvars, inbox, dvars, lvars, recving>>

NoTask == <<>>
(* The executor has one thread; else there is one for each cluster of P.      *)
Lanes   == IF setup.mode = "single" THEN {1} ELSE {1, 2}
Workers == setup.ranks \X Lanes

TypeOK ==
    /\ setup \in Setups
    /\ pPhase \in [Requests -> {"prefill", "held", "free"}]
    /\ finishTime \in [Requests -> 0..Cardinality(Requests)]
    /\ pSched \in Seq(Requests) /\ pTimes \in Seq(Requests)
    /\ horizon \in 0..Cardinality(Requests)
    /\ inbox \subseteq Requests \cup {NoId}
    /\ receiveList \subseteq Requests \cup {NoId}
    /\ dPhase \in [Requests -> {"idle", "waiting", "loading", "ready", "over"}]
    /\ hasParams \subseteq Requests /\ processed \subseteq Requests
    /\ queue \in [Workers -> Seq(Requests)]
    /\ pull \in [Workers -> (Requests \X {"pull", "barrier"}) \cup {NoTask}]
    /\ alive \subseteq Workers
    /\ recving \subseteq Requests

Init ==
    /\ setup \in Setups
    /\ pPhase = [r \in Requests |-> "prefill"]
    /\ finishTime = [r \in Requests |-> 0]
    /\ pSched = <<>> /\ pTimes = <<>> /\ horizon = 0
    /\ inbox = {} /\ receiveList = {}
    /\ dPhase = [r \in Requests |-> "idle"]
    /\ hasParams = Requests /\ processed = {}
    /\ queue = [w \in Workers |-> <<>>]
    /\ pull = [w \in Workers |-> NoTask]
    /\ alive = Workers
    /\ recving = {}

(* Lanes of every rank that still have to pull a part of r.                   *)
Outstanding(r) ==
    {w \in alive : r \in ToSet(queue[w]) \/ pull[w] = <<r, "pull">>}

WrongFinishedCount == Cardinality({r \in Requests : finishTime[r] > 0}) + 1

FinishedCount == Cardinality({r \in Requests : finishTime[r] > 0})

----------------------------------------------------------------------------
(* The prefill engine *)

(* PrefillConnectorScheduler.request_finished of a request stopped by its     *)
(* length: the blocks stay, and the answer carries the transfer parameters.   *)
FinishPrefill(r) ==
    /\ pPhase[r] = "prefill"
    /\ pPhase' = [pPhase EXCEPT ![r] = "held"]
    /\ finishTime' = [finishTime EXCEPT ![r] = FinishedCount + 1]
    /\ pSched' = Append(pSched, r)
    /\ UNCHANGED <<setup, pTimes, horizon, receiveList, inbox, dvars, lvars, recving>>

(* request_finished with any other status: freed at once, no parameters.      *)
StopPrefill(r) ==
    /\ pPhase[r] = "prefill"
    /\ pPhase' = [pPhase EXCEPT ![r] = "free"]
    /\ dPhase' = [dPhase EXCEPT ![r] = "over"]
    /\ UNCHANGED <<setup, finishTime, pSched, pTimes, horizon, receiveList, inbox,
                   hasParams, processed, lvars, recving>>

(* get_pulled_kv_req_list, the listening thread.  Abort messages carry no     *)
(* remote_request_id.                                                         *)
Listen(m) ==
    /\ m \in inbox
    /\ inbox' = inbox \ {m}
    /\ receiveList' = receiveList \cup {m}
    /\ UNCHANGED <<setup, pPhase, finishTime, pSched, pTimes, horizon, dvars, lvars,
                   recving>>

WrongExpired(times) == {r \in ToSet(times) : finishTime[r] < horizon}

(* The scan of get_finished stops at the first request that is not too old.   *)
Expired(times) ==
    {times[i] : i \in {i \in DOMAIN times :
                         \A j \in 1..i : finishTime[times[j]] <= horizon}}

WrongMergedTimes(times, new) == new \o times

(* What build_connector_metadata hands to the worker is added at the end.     *)
MergedTimes(times, new) == times \o new

(* What stays of a dict when entries are taken out: the n-th is the one with  *)
(* n entries to keep up to it.                                                *)
Without(times, done) ==
    LET kept   == {i \in DOMAIN times : times[i] \notin done}
        nth(n) == CHOOSE i \in kept : Cardinality({j \in kept : j <= i}) = n
    IN  [n \in 1..Cardinality(kept) |-> times[nth(n)]]

(* A step of P's engine: the scheduler's build_connector_metadata, the        *)
(* worker's get_finished, and the scheduler freeing what it reports.          *)
PStep ==
    LET times    == MergedTimes(pTimes, pSched)
        done     == Expired(times) \cup receiveList
    IN  /\ pSched' = <<>>
        /\ pTimes' = Without(times, done)
        /\ receiveList' = {}
        /\ pPhase' = [r \in Requests |-> IF r \in done THEN "free" ELSE pPhase[r]]
        /\ UNCHANGED <<setup, finishTime, horizon, inbox, dvars, lvars, recving>>

----------------------------------------------------------------------------
(* The decode engine *)

(* The proxy forwards a request with the parameters P answered with, or the   *)
(* client has left by then.                                                   *)
Arrive(r) ==
    /\ finishTime[r] > 0 /\ dPhase[r] = "idle"
    /\ \E ph \in {"waiting", "over"} : dPhase' = [dPhase EXCEPT ![r] = ph]
    /\ UNCHANGED <<setup, pvars, inbox, hasParams, processed, lvars, recving>>

(* get_num_new_matched_tokens: a request is loaded once.                      *)
NeedsLoad(r) == r \notin processed /\ r \in hasParams

(* start_load_kv gives a lane a task: the executor's only lane; the thread of *)
(* the request's cluster; or both clusters, half of the blocks each, where    *)
(* an empty first half is skipped.                                            *)
Parts(r) ==
    CASE setup.mode = "ranks"   ->
            IF r \in OneBlock THEN Lanes \ {setup.home[r]} ELSE Lanes
      [] setup.mode = "threads" -> {setup.home[r]}
      [] OTHER                  -> Lanes

(* update_state_after_alloc and build_connector_metadata of D's scheduler: r  *)
(* is remembered, and its parameters go into the metadata and are cleared.    *)
UpdateStateAfterAlloc(r) == processed' = processed \cup {r}
BuildConnectorMetadata(r) == hasParams' = hasParams \ {r}

(* start_load_kv of every rank queues the tasks of r.                         *)
StartLoadKV(r) ==
    queue' = [w \in Workers |-> IF w[2] \in Parts(r) THEN Append(queue[w], r)
                                                      ELSE queue[w]]

(* A step of D's scheduler that allocates slots for r, and its workers.       *)
StartLoad(r) ==
    /\ dPhase[r] = "waiting" /\ NeedsLoad(r)
    /\ dPhase' = [dPhase EXCEPT ![r] = "loading"]
    /\ UpdateStateAfterAlloc(r)
    /\ BuildConnectorMetadata(r)
    /\ StartLoadKV(r)
    /\ UNCHANGED <<setup, pvars, inbox, pull, alive, recving>>

(* A preempted request is scheduled again and recomputes locally.             *)
Preempt(r) ==
    /\ dPhase[r] = "ready"
    /\ dPhase' = [dPhase EXCEPT ![r] = "waiting"]
    /\ UNCHANGED <<setup, pvars, inbox, hasParams, processed, lvars, recving>>

Resume(r) ==
    /\ dPhase[r] = "waiting" /\ ~NeedsLoad(r)
    /\ dPhase' = [dPhase EXCEPT ![r] = "ready"]
    /\ UNCHANGED <<setup, pvars, inbox, hasParams, processed, lvars, recving>>

(* DecodeConnectorScheduler.request_finished.  Only an aborted request whose  *)
(* load has not been started is reported to P, under D's own id.              *)
EndRequest(r, aborted) ==
    /\ IF aborted THEN dPhase[r] \in {"waiting", "loading", "ready"}
                  ELSE dPhase[r] = "ready"
    /\ dPhase' = [dPhase EXCEPT ![r] = "over"]
    /\ processed' = processed \ {r}
    /\ inbox' = IF aborted /\ r \in hasParams THEN inbox \cup {NoId} ELSE inbox
    /\ UNCHANGED <<setup, pvars, hasParams, lvars, recving>>

(* A lane takes its next task and calls pull_kv.                              *)
BeginPull(w) ==
    /\ w \in alive /\ pull[w] = NoTask /\ queue[w] # <<>>
    /\ pull' = [pull EXCEPT ![w] = <<Head(queue[w]), "pull">>]
    /\ queue' = [queue EXCEPT ![w] = Tail(@)]
    /\ UNCHANGED <<setup, pvars, inbox, dvars, alive, recving>>

(* Forgets to record the request as received.                                 *)
WrongEndPullAlone(w) ==
    /\ pull[w] # NoTask
    /\ setup.ranks = {0}
    /\ inbox' = inbox \cup {pull[w][1]}
    /\ pull' = [pull EXCEPT ![w] = NoTask]
    /\ UNCHANGED <<setup, pvars, dvars, queue, alive, recving>>

(* _read_blocks after pull_kv has returned.                                   *)
(* One rank: P is told and the request is done.                               *)
EndPullAlone(w) ==
    /\ pull[w] # NoTask
    /\ setup.ranks = {0}
    /\ inbox' = inbox \cup {pull[w][1]}
    /\ recving' = recving \cup {pull[w][1]}
    /\ pull' = [pull EXCEPT ![w] = NoTask]
    /\ UNCHANGED <<setup, pvars, dvars, queue, alive>>

(* Several ranks, threads: the rank reports to the thread of rank 0, which    *)
(* cannot read the report (an object where it expects a list) and drops it.   *)
EndPullSync(w) ==
    /\ pull[w] # NoTask
    /\ setup.ranks # {0} /\ setup.mode # "single"
    /\ pull' = [pull EXCEPT ![w] = NoTask]
    /\ UNCHANGED <<setup, pvars, inbox, dvars, queue, alive, recving>>

(* Several ranks, one executor thread each: all wait at a barrier ...         *)
ReachBarrier(w) ==
    /\ pull[w] # NoTask /\ pull[w][2] = "pull"
    /\ setup.ranks # {0} /\ setup.mode = "single"
    /\ pull' = [pull EXCEPT ![w] = <<@[1], "barrier">>]
    /\ UNCHANGED <<setup, pvars, inbox, dvars, queue, alive, recving>>

(* ... and rank 0 tells P of the task it has in its own hands.                *)
PassBarrier ==
    /\ \A w \in Workers : pull[w] # NoTask /\ pull[w][2] = "barrier"
    /\ \E w \in Workers :
          /\ w[1] = 0
          /\ inbox' = inbox \cup {pull[w][1]}
          /\ recving' = recving \cup {pull[w][1]}
    /\ pull' = [w \in Workers |-> NoTask]
    /\ UNCHANGED <<setup, pvars, dvars, queue, alive>>

(* pull_kv raises after its retries.  A lane thread reports D's own id and    *)
(* ends; the executor's thread goes on with its next task.                    *)
PullFails(w) ==
    /\ setup.mayFail
    /\ pull[w] # NoTask /\ pull[w][2] = "pull"
    /\ pull' = [pull EXCEPT ![w] = NoTask]
    /\ IF setup.mode = "single" THEN UNCHANGED <<inbox, alive>>
       ELSE /\ inbox' = inbox \cup {NoId}
            /\ alive' = alive \ {w}
    /\ UNCHANGED <<setup, pvars, dvars, queue, recving>>

(* Takes every loading request as received when one is.                       *)
WrongDReport ==
    /\ recving # {}
    /\ recving' = {}
    /\ dPhase' = [r \in Requests |->
                    IF dPhase[r] = "loading" THEN "ready" ELSE dPhase[r]]
    /\ UNCHANGED <<setup, pvars, inbox, hasParams, processed, lvars>>

(* D's workers report in get_finished and the scheduler takes the requests    *)
(* out of the waiting-for-remote state.                                       *)
DReport ==
    /\ recving # {}
    /\ recving' = {}
    /\ dPhase' = [r \in Requests |->
                    IF r \in recving /\ dPhase[r] = "loading" THEN "ready"
                    ELSE dPhase[r]]
    /\ UNCHANGED <<setup, pvars, inbox, hasParams, processed, lvars>>

(* BLOCK_RELEASE_DELAY passes for the next request in order of finishing.  It *)
(* is taken to be long: D does not start or end a pull after it.              *)
TimePasses ==
    /\ \E r \in Requests :
          /\ finishTime[r] = horizon + 1
          /\ Outstanding(r) = {}
          /\ dPhase[r] \in {"ready", "over"} \/ r \notin hasParams
    /\ horizon' = horizon + 1
    /\ UNCHANGED <<setup, pPhase, finishTime, pSched, pTimes, receiveList, inbox,
                   dvars, lvars, recving>>

Next ==
    \/ \E r \in Requests :
          \/ FinishPrefill(r) \/ StopPrefill(r)
          \/ Arrive(r) \/ StartLoad(r) \/ Preempt(r) \/ Resume(r)
          \/ \E aborted \in BOOLEAN : EndRequest(r, aborted)
    \/ \E m \in inbox : Listen(m)
    \/ PStep
    \/ \E w \in Workers :
          \/ BeginPull(w) \/ EndPullAlone(w) \/ EndPullSync(w)
          \/ ReachBarrier(w) \/ PullFails(w)
    \/ PassBarrier \/ DReport \/ TimePasses

Spec == Init /\ [][Next]_vars

(* The engines step while they have work, the threads run, a pull that cannot *)
(* fail ends, and time passes.                                                *)
Fairness ==
    /\ WF_vars(PStep) /\ WF_vars(DReport) /\ WF_vars(TimePasses)
    /\ WF_vars(PassBarrier)
    /\ \A r \in Requests : WF_vars(StartLoad(r)) /\ WF_vars(Arrive(r))
    /\ \A m \in Requests \cup {NoId} : WF_vars(Listen(m))
    /\ \A w \in {0, 1} \X {1, 2} :
          /\ WF_vars(w \in Workers /\ BeginPull(w))
          /\ WF_vars(w \in Workers
                       /\ (EndPullAlone(w) \/ EndPullSync(w) \/ ReachBarrier(w)))

FairSpec == Spec /\ Fairness

----------------------------------------------------------------------------
(* Properties *)

(* D computes with r, and P is told that r was pulled, only when no rank has  *)
(* a part of r left to pull.                                                  *)
DoneMeansPulled ==
    \A r \in Requests :
       dPhase[r] = "ready" \/ r \in inbox \cup receiveList \cup recving
          => Outstanding(r) = {}

(* The worker's dict is ordered by finish time, so that the early break of    *)
(* the scan leaves no request behind that is past the delay.                  *)
ScanMissesNone ==
    [][PStep => \A i \in DOMAIN pTimes' : finishTime[pTimes'[i]] > horizon]_vars

(* Rank 0 learns that the ranks have pulled.                                  *)
Reports == setup.ranks = {0} \/ setup.mode = "single"

(* Every load that D starts ends, where no pull fails and rank 0 is told: the *)
(* request runs, or is over.                                                  *)
EveryLoadEnds ==
    \A r \in Requests : dPhase[r] = "loading" /\ Reports /\ ~setup.mayFail
                          ~> dPhase[r] \in {"ready", "over"}

(* P gets every block back that it held for D.                                *)
BlocksReturn ==
    \A r \in Requests : pPhase[r] = "held" ~> pPhase[r] = "free"

Stranded(r) == \E w \in Workers \ alive : r \in ToSet(queue[w])

(* The connector implements the hand-over of KVHandoff.                       *)
Handoff == INSTANCE KVHandoff WITH
    src <- [r \in Requests |-> IF pPhase[r] = "prefill" THEN "computing"
                               ELSE pPhase[r]],
    dst <- [r \in Requests |-> IF Outstanding(r) # {} THEN "reading"
                               ELSE IF Stranded(r) THEN "gone"
                               ELSE IF r \notin hasParams THEN "read"
                               ELSE IF dPhase[r] = "over" THEN "gone" ELSE "none"],
    use <- {r \in Requests : dPhase[r] = "ready"}
ImplementsHandoff == Handoff!HSpec
=============================================================================
