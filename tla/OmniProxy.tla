----------------------------- MODULE OmniProxy -----------------------------
(***************************************************************************)
(* The request lifecycle of Omni Proxy: an nginx module whose worker       *)
(* processes share one request pool, one set of request groups (a group    *)
(* per phase) and the load counters of the prefill and decode endpoints.   *)
(*                                                                         *)
(* A request has three descriptions of where it is, kept by two processes: *)
(*   phase[s]     the bit set req->phase_state, written by its owner;      *)
(*   lgroup[w][p] the owner's private groups, local_state.groups;          *)
(*   ggroup[p]    the shared groups, g_state->groups, under g_state->shmtx.*)
(* The scheduler runs in the master worker.  It moves a request between    *)
(* shared groups only and raises has_prefill_sched or has_decode_sched;    *)
(* the owner notices at its next timer tick and brings the other two up to *)
(* date.                                                                   *)
(*                                                                         *)
(* A worker is a single-threaded event loop.  at[w] is where it stands in  *)
(* the handler it runs ("idle": between two events); a handler is cut at   *)
(* the points where it takes or releases shmtx, the only ones at which     *)
(* another worker can tell the difference.                                 *)
(***************************************************************************)
EXTENDS Integers, FiniteSets

CONSTANTS
    Workers,        \* the nginx worker processes
    Slots,          \* the slots of the request pool (MAX_REQUEST_SLOTS)
    NumPrefill,     \* num_prefill_endpoints, all of them STATUS_ENABLE
    NumDecode,      \* num_decode_endpoints
    Deployments,    \* what nginx may be configured with: sets of pd_policy values
    AbortPhases,    \* the phases in which the outside may end a request early
    MaxArrivals,    \* bound on the number of requests that arrive
    NoWorker,       \* worker_pid of a slot never allocated
    NoSlot          \* no slot: the worker is between two handlers

ASSUME WorkersAssumption == IsFiniteSet(Workers) /\ Workers # {}
ASSUME SlotsAssumption == IsFiniteSet(Slots)
ASSUME EndpointsAssumption == NumPrefill \in Nat \ {0} /\ NumDecode \in Nat \ {0}
ASSUME NoneAssumption == NoWorker \notin Workers /\ NoSlot \notin Slots
ASSUME DeploymentsAssumption ==
    Deployments # {} /\ Deployments \subseteq (SUBSET {"sequential", "parallel"}) \ {{}}
ASSUME BoundAssumption == MaxArrivals \in Nat

(* omni_proxy_request_phase_t; APC matching is done inside the tokenizing  *)
(* phase and PHASE_APC_MATCHING is never entered.                          *)
Phase == {"tokenizing", "p_waiting", "p_scheduled", "prefilling",
          "d_waiting", "d_scheduled", "decoding"}

ASSUME AbortAssumption == AbortPhases \subseteq Phase

Prefills == 0 .. NumPrefill - 1
Decodes  == 0 .. NumDecode - 1

Places == {"idle", "entering", "matching", "schedP", "schedD", "update", "runP",
           "waking", "runD", "released", "cleanup"}

VARIABLES
    up,         \* the workers whose init_process has run
    masters,    \* the workers with local_state.is_master_worker
    selected,   \* g_state->master_worker_selected
    locations,  \* the pd_policy of the locations that are served
    policy,     \* g_state->pd_policy
    inUse,      \* the slots whose bit is set in request_pool.in_use_bitmap
    owner,      \* req->worker_pid (and backend) of each slot
    phase,      \* req->phase_state
    pSched,     \* the slots with has_prefill_sched
    dSched,     \* the slots with has_decode_sched
    pIdx,       \* req->prefill_upstream_endpoint_idx
    dIdx,       \* req->decode_upstream_endpoint_idx
    ggroup,     \* g_state->groups
    lgroup,     \* local_state.groups of each worker
    inGroups,   \* local_state.req_in_groups
    pRun,       \* prefill_states[e].num_running (comm.ref moves with it)
    dRun,       \* decode_states[e].num_running (comm.ref moves with it)
    at,         \* where each worker stands in its handler
    cur,        \* the slot that handler works on
    visit,      \* what a loop over a group still has to visit
    todo,       \* the phases omni_proxy_cleanup_req still has to leave
    arrivals    \* how many requests have arrived so far

procVars == <<up, masters, selected, locations>>
reqVars  == <<inUse, owner, phase, pSched, dSched, pIdx, dIdx, policy>>
grpVars  == <<ggroup, lgroup, inGroups>>
runVars  == <<pRun, dRun>>
pcVars   == <<at, cur, visit, todo>>
vars     == <<procVars, reqVars, grpVars, runVars, pcVars, arrivals>>

----------------------------------------------------------------------------
(* Wrong variant: shmtx excludes nobody.                                   *)
NoLock == TRUE

(* The shared mutex.  Only the scheduling passes hold it across several    *)
(* steps; every other critical section is one step of this module.         *)
LockFree == \A w \in Workers : at[w] \notin {"schedP", "schedD"}

Idle(w) == w \in up /\ at[w] = "idle"

(* Removing the entry of slot s from a group and adding one.               *)
Drop(groups, s, p) == [groups EXCEPT ![p] = @ \ {s}]
Put(groups, s, p)  == [groups EXCEPT ![p] = @ \cup {s}]
ChangeTo(groups, s, from, to) == Put(Drop(groups, s, from), s, to)

(* The shared group that holds the entry for phase p of slot s: the        *)
(* scheduler may have moved it ahead of phase_state.                       *)
GroupOf(s, p) ==
    IF p = "p_waiting" /\ s \in pSched THEN "p_scheduled"
    ELSE IF p = "d_waiting" /\ s \in dSched THEN "d_scheduled"
    ELSE p

(* A loop that removes entries from the array it walks and compacts it     *)
(* visits every other entry; which ones depends on the sort.  T is one     *)
(* such choice for group G.                                                *)
EveryOther(T, G) == T \subseteq G /\ 2 * Cardinality(T) \in {Cardinality(G), Cardinality(G) + 1}

(* Wrong variant: the private group is forgotten.                          *)
TransitionShared(w, s, from, to) ==
    /\ LockFree
    /\ ggroup' = ChangeTo(ggroup, s, from, to)
    /\ phase'  = [phase EXCEPT ![s] = (@ \ {from}) \cup {to}]
    /\ UNCHANGED lgroup

(* omni_phase_transition_all, called by the owner of s: local group, then  *)
(* shared group and phase_state under the mutex.                           *)
TransitionAll(w, s, from, to) ==
    /\ LockFree
    /\ s \in lgroup[w][from] /\ s \in ggroup[from]
    /\ lgroup' = [lgroup EXCEPT ![w] = ChangeTo(@, s, from, to)]
    /\ ggroup' = ChangeTo(ggroup, s, from, to)
    /\ phase'  = [phase EXCEPT ![s] = (@ \ {from}) \cup {to}]

Goto(w, place) == at' = [at EXCEPT ![w] = place]

----------------------------------------------------------------------------
Init ==
    /\ up = {} /\ masters = {} /\ selected = FALSE
    /\ locations \in Deployments /\ policy = "sequential"
    /\ inUse = {}
    /\ owner = [s \in Slots |-> NoWorker]
    /\ phase = [s \in Slots |-> {}]
    /\ pSched = {} /\ dSched = {}
    /\ pIdx = [s \in Slots |-> 0] /\ dIdx = [s \in Slots |-> 0]
    /\ ggroup = [p \in Phase |-> {}]
    /\ lgroup = [w \in Workers |-> [p \in Phase |-> {}]]
    /\ inGroups = [w \in Workers |-> 0]
    /\ pRun = [e \in Prefills |-> 0] /\ dRun = [e \in Decodes |-> 0]
    /\ at = [w \in Workers |-> "idle"]
    /\ cur = [w \in Workers |-> NoSlot]
    /\ visit = [w \in Workers |-> {}]
    /\ todo = [w \in Workers |-> {}]
    /\ arrivals = 0

----------------------------------------------------------------------------
(* A worker process starts: the first one to register becomes the master.  *)
Register(w) ==
    /\ w \notin up /\ LockFree
    /\ up' = up \cup {w}
    /\ masters' = IF selected THEN masters ELSE masters \cup {w}
    /\ selected' = TRUE
    /\ UNCHANGED <<locations, reqVars, grpVars, runVars, pcVars, arrivals>>

----------------------------------------------------------------------------
(* A request arrives.  omni_req_init allocates a slot under the mutex, ... *)
ReqAlloc(w) ==
    /\ Idle(w) /\ LockFree /\ arrivals < MaxArrivals
    /\ \E s \in Slots \ inUse :
        /\ inUse' = inUse \cup {s}
        /\ owner' = [owner EXCEPT ![s] = w]
        /\ phase' = [phase EXCEPT ![s] = {}]
        /\ pSched' = pSched \ {s} /\ dSched' = dSched \ {s}
        /\ pIdx' = [pIdx EXCEPT ![s] = 0] /\ dIdx' = [dIdx EXCEPT ![s] = 0]
        /\ cur' = [cur EXCEPT ![w] = s]
    /\ Goto(w, "entering")
    /\ arrivals' = arrivals + 1
    /\ UNCHANGED <<procVars, policy, grpVars, runVars, visit, todo>>

(* ... releases it, enters the request in both groups and lets the handler *)
(* publish the policy of the location the request came through.            *)
ReqEnter(w) ==
    LET s == cur[w] IN
    /\ at[w] = "entering" /\ LockFree
    /\ phase' = [phase EXCEPT ![s] = @ \cup {"tokenizing"}]
    /\ lgroup' = [lgroup EXCEPT ![w] = Put(@, s, "tokenizing")]
    /\ inGroups' = [inGroups EXCEPT ![w] = @ + 1]
    /\ ggroup' = Put(ggroup, s, "tokenizing")
    /\ policy' \in locations
    /\ Goto(w, "idle") /\ cur' = [cur EXCEPT ![w] = NoSlot]
    /\ UNCHANGED <<procVars, inUse, owner, pSched, dSched, pIdx, dIdx, runVars,
                   visit, todo, arrivals>>

(* The body is read and tokenized: omni_proxy_post_tokenized matches the   *)
(* request against the prefix caches without the mutex, ...                *)
PostTokenized(w, s) ==
    /\ Idle(w) /\ s \in lgroup[w]["tokenizing"]
    /\ Goto(w, "matching") /\ cur' = [cur EXCEPT ![w] = s]
    /\ UNCHANGED <<procVars, reqVars, grpVars, runVars, visit, todo, arrivals>>

(* ... then hands it to the scheduler.                                     *)
QueuePrefill(w) ==
    /\ at[w] = "matching"
    /\ TransitionAll(w, cur[w], "tokenizing", "p_waiting")
    /\ Goto(w, "idle") /\ cur' = [cur EXCEPT ![w] = NoSlot]
    /\ UNCHANGED <<procVars, inUse, owner, pSched, dSched, pIdx, dIdx, policy,
                   inGroups, runVars, visit, todo, arrivals>>

----------------------------------------------------------------------------
(* The timer tick, every TIMER_INTERVAL.  The master first runs the two    *)
(* scheduling passes under the mutex.                                      *)
TickSchedule(w) ==
    /\ Idle(w) /\ w \in masters /\ LockFree
    /\ Goto(w, "schedP")
    /\ \E T \in SUBSET ggroup["p_waiting"] :
        /\ EveryOther(T, ggroup["p_waiting"])
        /\ visit' = [visit EXCEPT ![w] = T]
    /\ UNCHANGED <<procVars, reqVars, grpVars, runVars, cur, todo, arrivals>>

(* Wrong variant: the endpoint index counts from one, num_running is left. *)
SchedulePrefillFromOne(w) ==
    /\ at[w] = "schedP"
    /\ \E s \in visit[w], e \in Prefills :
        /\ pIdx' = [pIdx EXCEPT ![s] = e + 1]
        /\ ggroup' = ChangeTo(ggroup, s, "p_waiting", "p_scheduled")
        /\ pSched' = pSched \cup {s}
        /\ visit' = [visit EXCEPT ![w] = @ \ {s}]
    /\ UNCHANGED <<procVars, inUse, owner, phase, dSched, dIdx, policy, lgroup,
                   inGroups, runVars, at, cur, todo, arrivals>>

SchedulePrefill(w) ==
    /\ at[w] = "schedP"
    /\ \E s \in visit[w], e \in Prefills :
        /\ pIdx' = [pIdx EXCEPT ![s] = e]
        /\ pRun' = [pRun EXCEPT ![e] = @ + 1]
        /\ ggroup' = ChangeTo(ggroup, s, "p_waiting", "p_scheduled")
        /\ pSched' = pSched \cup {s}
        /\ visit' = [visit EXCEPT ![w] = @ \ {s}]
    /\ UNCHANGED <<procVars, inUse, owner, phase, dSched, dIdx, policy, lgroup,
                   inGroups, dRun, at, cur, todo, arrivals>>

SchedulePrefillDone(w) ==
    /\ at[w] = "schedP" /\ visit[w] = {}
    /\ Goto(w, "schedD")
    /\ \E T \in SUBSET ggroup["d_waiting"] :
        /\ EveryOther(T, ggroup["d_waiting"])
        /\ visit' = [visit EXCEPT ![w] = T]
    /\ UNCHANGED <<procVars, reqVars, grpVars, runVars, cur, todo, arrivals>>

(* Wrong variant: has_decode_sched is not raised.                          *)
ScheduleDecodeUnflagged(w) ==
    /\ at[w] = "schedD"
    /\ \E s \in visit[w], e \in Decodes :
        /\ dIdx' = [dIdx EXCEPT ![s] = e]
        /\ dRun' = [dRun EXCEPT ![e] = @ + 1]
        /\ ggroup' = ChangeTo(ggroup, s, "d_waiting", "d_scheduled")
        /\ visit' = [visit EXCEPT ![w] = @ \ {s}]
    /\ UNCHANGED <<procVars, inUse, owner, phase, pSched, dSched, pIdx, policy, lgroup,
                   inGroups, pRun, at, cur, todo, arrivals>>

ScheduleDecode(w) ==
    /\ at[w] = "schedD"
    /\ \E s \in visit[w], e \in Decodes :
        /\ dIdx' = [dIdx EXCEPT ![s] = e]
        /\ dRun' = [dRun EXCEPT ![e] = @ + 1]
        /\ ggroup' = ChangeTo(ggroup, s, "d_waiting", "d_scheduled")
        /\ dSched' = dSched \cup {s}
        /\ visit' = [visit EXCEPT ![w] = @ \ {s}]
    /\ UNCHANGED <<procVars, inUse, owner, phase, pSched, pIdx, policy, lgroup,
                   inGroups, pRun, at, cur, todo, arrivals>>

ScheduleDecodeDone(w) ==
    /\ at[w] = "schedD" /\ visit[w] = {}
    /\ Goto(w, "update")
    /\ UNCHANGED <<procVars, reqVars, grpVars, runVars, cur, visit, todo, arrivals>>

(* Wrong variant: decode assignments are never noticed.                    *)
CaughtUpPrefill(s) ==
    IF "p_waiting" \in phase[s] /\ s \in pSched
    THEN (phase[s] \ {"p_waiting"}) \cup {"p_scheduled"} ELSE phase[s]

(* phase_state of a scanned request after omni_update_local_waiting.       *)
CaughtUp(s) ==
    LET afterP == IF "p_waiting" \in phase[s] /\ s \in pSched
                  THEN (phase[s] \ {"p_waiting"}) \cup {"p_scheduled"} ELSE phase[s]
    IN  IF "d_waiting" \in afterP /\ s \in dSched
        THEN (afterP \ {"d_waiting"}) \cup {"d_scheduled"} ELSE afterP

(* Every worker, the master after its passes, catches up with the          *)
(* scheduler, without the mutex, and starts to walk its p_scheduled group. *)
UpdateLocal(w) ==
    LET scanned == lgroup[w]["p_waiting"] \cup lgroup[w]["d_waiting"]
        moved(from, to) == {s \in lgroup[w][from] : s \in inUse /\ to \in CaughtUp(s)}
        toP == moved("p_waiting", "p_scheduled")
        toD == moved("d_waiting", "d_scheduled")
    IN
    /\ at[w] = "update" \/ (Idle(w) /\ w \notin masters)
    /\ phase' = [s \in Slots |-> IF s \in scanned THEN CaughtUp(s) ELSE phase[s]]
    /\ lgroup' = [lgroup EXCEPT ![w] =
                    [p \in Phase |->
                        CASE p = "p_waiting"   -> @[p] \ toP
                          [] p = "p_scheduled" -> @[p] \cup toP
                          [] p = "d_waiting"   -> @[p] \ toD
                          [] p = "d_scheduled" -> @[p] \cup toD
                          [] OTHER             -> @[p]]]
    /\ Goto(w, "runP")
    /\ \E T \in SUBSET lgroup'[w]["p_scheduled"] :
        /\ EveryOther(T, lgroup'[w]["p_scheduled"])
        /\ visit' = [visit EXCEPT ![w] = T]
    /\ UNCHANGED <<procVars, inUse, owner, pSched, dSched, pIdx, dIdx, policy,
                   ggroup, inGroups, runVars, cur, todo, arrivals>>

----------------------------------------------------------------------------
(* Wrong variant: the policy is not looked at.                             *)
WakePrefillAnyPolicy(w) ==
    /\ at[w] = "runP" /\ LockFree
    /\ \E s \in visit[w] :
        /\ lgroup' = [lgroup EXCEPT ![w] = Put(@, s, "d_waiting")]
        /\ ggroup' = Put(ggroup, s, "d_waiting")
        /\ phase' = [phase EXCEPT ![s] = @ \cup {"d_waiting"}]
        /\ visit' = [visit EXCEPT ![w] = @ \ {s}]
        /\ cur' = [cur EXCEPT ![w] = s]
    /\ Goto(w, "waking")
    /\ UNCHANGED <<procVars, inUse, owner, pSched, dSched, pIdx, dIdx, policy,
                   inGroups, runVars, todo, arrivals>>

(* ngx_http_prefill_wakeup.  Under the parallel policy the request starts  *)
(* to wait for a decode endpoint before its prefill begins.                *)
WakePrefillParallel(w) ==
    /\ at[w] = "runP" /\ policy = "parallel" /\ LockFree
    /\ \E s \in visit[w] :
        /\ lgroup' = [lgroup EXCEPT ![w] = Put(@, s, "d_waiting")]
        /\ ggroup' = Put(ggroup, s, "d_waiting")
        /\ phase' = [phase EXCEPT ![s] = @ \cup {"d_waiting"}]
        /\ visit' = [visit EXCEPT ![w] = @ \ {s}]
        /\ cur' = [cur EXCEPT ![w] = s]
    /\ Goto(w, "waking")
    /\ UNCHANGED <<procVars, inUse, owner, pSched, dSched, pIdx, dIdx, policy,
                   inGroups, runVars, todo, arrivals>>

WakePrefillSequential(w) ==
    /\ at[w] = "runP" /\ policy = "sequential"
    /\ \E s \in visit[w] :
        /\ TransitionAll(w, s, "p_scheduled", "prefilling")
        /\ visit' = [visit EXCEPT ![w] = @ \ {s}]
    /\ UNCHANGED <<procVars, inUse, owner, pSched, dSched, pIdx, dIdx, policy,
                   inGroups, runVars, at, cur, todo, arrivals>>

WakePrefillStart(w) ==
    /\ at[w] = "waking"
    /\ TransitionAll(w, cur[w], "p_scheduled", "prefilling")
    /\ Goto(w, "runP") /\ cur' = [cur EXCEPT ![w] = NoSlot]
    /\ UNCHANGED <<procVars, inUse, owner, pSched, dSched, pIdx, dIdx, policy,
                   inGroups, runVars, visit, todo, arrivals>>

RunPrefillDone(w) ==
    /\ at[w] = "runP" /\ visit[w] = {}
    /\ Goto(w, "runD")
    /\ \E T \in SUBSET lgroup[w]["d_scheduled"] :
        /\ EveryOther(T, lgroup[w]["d_scheduled"])
        /\ visit' = [visit EXCEPT ![w] = T]
    /\ UNCHANGED <<procVars, reqVars, grpVars, runVars, cur, todo, arrivals>>

(* ngx_http_decode_wakeup starts the upstream, then moves the request on.  *)
WakeDecode(w) ==
    /\ at[w] = "runD"
    /\ \E s \in visit[w] :
        /\ TransitionAll(w, s, "d_scheduled", "decoding")
        /\ visit' = [visit EXCEPT ![w] = @ \ {s}]
    /\ UNCHANGED <<procVars, inUse, owner, pSched, dSched, pIdx, dIdx, policy,
                   inGroups, runVars, at, cur, todo, arrivals>>

RunDecodeDone(w) ==
    /\ at[w] = "runD" /\ visit[w] = {}
    /\ Goto(w, "idle")
    /\ UNCHANGED <<procVars, reqVars, grpVars, runVars, cur, visit, todo, arrivals>>

----------------------------------------------------------------------------
(* The prefill subrequest succeeds: ngx_http_prefill_post_subrequest gives *)
(* the endpoint back first and then, under the mutex, moves the request.   *)
PrefillRelease(w, s) ==
    /\ Idle(w) /\ s \in lgroup[w]["prefilling"]
    /\ pRun' = [pRun EXCEPT ![pIdx[s]] = @ - 1]
    /\ Goto(w, "released") /\ cur' = [cur EXCEPT ![w] = s]
    /\ UNCHANGED <<procVars, reqVars, grpVars, dRun, visit, todo, arrivals>>

PrefillAdvanceSequential(w) ==
    /\ at[w] = "released" /\ policy = "sequential"
    /\ TransitionAll(w, cur[w], "prefilling", "d_waiting")
    /\ Goto(w, "idle") /\ cur' = [cur EXCEPT ![w] = NoSlot]
    /\ UNCHANGED <<procVars, inUse, owner, pSched, dSched, pIdx, dIdx, policy,
                   inGroups, runVars, visit, todo, arrivals>>

PrefillAdvanceParallel(w) ==
    /\ at[w] = "released" /\ policy = "parallel" /\ LockFree
    /\ lgroup' = [lgroup EXCEPT ![w] = Drop(@, cur[w], "prefilling")]
    /\ ggroup' = Drop(ggroup, cur[w], "prefilling")
    /\ phase' = [phase EXCEPT ![cur[w]] = @ \ {"prefilling"}]
    /\ Goto(w, "idle") /\ cur' = [cur EXCEPT ![w] = NoSlot]
    /\ UNCHANGED <<procVars, inUse, owner, pSched, dSched, pIdx, dIdx, policy,
                   inGroups, runVars, visit, todo, arrivals>>

----------------------------------------------------------------------------
(* The end of a request: nginx runs omni_proxy_main_req_cleanup when it    *)
(* frees the request.                                                      *)
BeginCleanup(w, s) ==
    /\ Goto(w, "cleanup")
    /\ cur' = [cur EXCEPT ![w] = s]
    /\ todo' = [todo EXCEPT ![w] = phase[s]]
    /\ UNCHANGED <<procVars, reqVars, grpVars, runVars, arrivals>>

(* The decode response is complete, or failed.                             *)
DecodeEnd(w, s) ==
    /\ Idle(w) /\ s \in lgroup[w]["decoding"] /\ "prefilling" \notin phase[s]
    /\ BeginCleanup(w, s) /\ UNCHANGED visit

(* The client leaves, the prefill endpoint fails, or nginx closes the      *)
(* connection.                                                             *)
RequestAborts(w, s) ==
    /\ Idle(w) /\ s \in inUse /\ owner[s] = w
    /\ phase[s] \cap AbortPhases # {}
    /\ BeginCleanup(w, s) /\ UNCHANGED visit

DecodePhases == {"d_waiting", "d_scheduled", "decoding"}

(* Wrong variant: an endpoint is never given back.                         *)
GiveBackNone(s, p) == UNCHANGED runVars
(* Wrong variant: a request not decoding yet gives its endpoint back too.  *)

(* An endpoint is given back only by a request that runs on it.            *)
GiveBackDecode(s, p) ==
    /\ pRun' = IF p = "prefilling" THEN [pRun EXCEPT ![pIdx[s]] = @ - 1] ELSE pRun
    /\ dRun' = IF p \in DecodePhases THEN [dRun EXCEPT ![dIdx[s]] = @ - 1] ELSE dRun
GiveBack(s, p) ==
    /\ pRun' = IF p = "prefilling" THEN [pRun EXCEPT ![pIdx[s]] = @ - 1] ELSE pRun
    /\ dRun' = IF p = "decoding" THEN [dRun EXCEPT ![dIdx[s]] = @ - 1] ELSE dRun

(* One round of the loop of omni_proxy_cleanup_req, in the order of the    *)
(* phases.                                                                 *)
CleanupPhase(w) ==
    LET s == cur[w] IN
    /\ at[w] = "cleanup" /\ LockFree
    /\ \E p \in todo[w] :
        /\ p \in DecodePhases => todo[w] \subseteq DecodePhases
        /\ s \in ggroup[GroupOf(s, p)] /\ s \in lgroup[w][p]
        /\ GiveBack(s, p)
        /\ ggroup' = Drop(ggroup, s, GroupOf(s, p))
        /\ lgroup' = [lgroup EXCEPT ![w] = Drop(@, s, p)]
        /\ todo' = [todo EXCEPT ![w] = @ \ {p}]
    /\ UNCHANGED <<procVars, reqVars, inGroups, at, cur, visit, arrivals>>

(* Wrong variant: req_in_groups is not decremented.                        *)
ReqFreeUncounted(w) ==
    /\ at[w] = "cleanup" /\ todo[w] = {}
    /\ inUse' = inUse \ {cur[w]}
    /\ Goto(w, "idle") /\ cur' = [cur EXCEPT ![w] = NoSlot]
    /\ UNCHANGED <<procVars, owner, phase, pSched, dSched, pIdx, dIdx, policy,
                   grpVars, runVars, visit, todo, arrivals>>

(* The slot goes back to the pool; phase_state keeps its last value.       *)
ReqFree(w) ==
    /\ at[w] = "cleanup" /\ todo[w] = {}
    /\ inGroups' = [inGroups EXCEPT ![w] = @ - 1]
    /\ inUse' = inUse \ {cur[w]}
    /\ Goto(w, "idle") /\ cur' = [cur EXCEPT ![w] = NoSlot]
    /\ UNCHANGED <<procVars, owner, phase, pSched, dSched, pIdx, dIdx, policy,
                   ggroup, lgroup, runVars, visit, todo, arrivals>>

----------------------------------------------------------------------------
(* One event handler at a time: what may start when a worker is idle and   *)
(* how it goes on.                                                         *)
Tick(w) == TickSchedule(w) \/ (at[w] = "idle" /\ UpdateLocal(w))

Continue(w) ==
    \/ ReqEnter(w) \/ QueuePrefill(w)
    \/ SchedulePrefill(w) \/ SchedulePrefillDone(w)
    \/ ScheduleDecode(w)  \/ ScheduleDecodeDone(w)
    \/ at[w] = "update" /\ UpdateLocal(w)
    \/ WakePrefillParallel(w) \/ WakePrefillSequential(w) \/ WakePrefillStart(w)
    \/ RunPrefillDone(w) \/ WakeDecode(w) \/ RunDecodeDone(w)
    \/ PrefillAdvanceSequential(w) \/ PrefillAdvanceParallel(w)
    \/ CleanupPhase(w) \/ ReqFree(w)

(* Answers of the tokenizer and of the endpoints.                          *)
Answer(w, s) == PostTokenized(w, s) \/ PrefillRelease(w, s) \/ DecodeEnd(w, s)

Answers(w) == \E s \in Slots : Answer(w, s)

Step(w) ==
    \/ Register(w)
    \/ ReqAlloc(w)
    \/ Tick(w)
    \/ Continue(w)
    \/ Answers(w)
    \/ \E s \in Slots : RequestAborts(w, s)

Next == \E w \in Workers : Step(w)

Spec == Init /\ [][Next]_vars

(* Fairness: a started worker's event loop never stops, so its timer fires *)
(* and a running handler goes on, though it may have to contend for shmtx  *)
(* again and again; tokenizer and endpoints answer, and the event loop     *)
(* dispatches some answer between two ticks.  Nothing obliges a worker to  *)
(* start, a request to arrive, or one to abort.                            *)
Fairness == \A w \in Workers :
    SF_vars(Tick(w)) /\ SF_vars(Continue(w)) /\ SF_vars(Answers(w))

FairSpec == Spec /\ Fairness

----------------------------------------------------------------------------
TypeOK ==
    /\ up \subseteq Workers /\ masters \subseteq Workers /\ selected \in BOOLEAN
    /\ locations \in Deployments /\ policy \in {"sequential", "parallel"}
    /\ inUse \subseteq Slots
    /\ owner \in [Slots -> Workers \cup {NoWorker}]
    /\ phase \in [Slots -> SUBSET Phase]
    /\ pSched \subseteq Slots /\ dSched \subseteq Slots
    /\ pIdx \in [Slots -> Prefills] /\ dIdx \in [Slots -> Decodes]
    /\ ggroup \in [Phase -> SUBSET Slots]
    /\ lgroup \in [Workers -> [Phase -> SUBSET Slots]]
    /\ inGroups \in [Workers -> Int]
    /\ pRun \in [Prefills -> Int] /\ dRun \in [Decodes -> Int]
    /\ at \in [Workers -> Places]
    /\ cur \in [Workers -> Slots \cup {NoSlot}]
    /\ visit \in [Workers -> SUBSET Slots]
    /\ todo \in [Workers -> SUBSET Phase]
    /\ arrivals \in Nat

(* The handler of worker w is at this place, working on slot s.            *)
Doing(w, place, s) == at[w] = place /\ cur[w] = s

(* The phases whose group entries request s should have now: those of      *)
(* phase_state, less the ones a running cleanup has already left.          *)
Live(s) ==
    IF s \notin inUse THEN {}
    ELSE IF Doing(owner[s], "cleanup", s) THEN todo[owner[s]] ELSE phase[s]

(* The private groups of a worker are exactly the phase_state bits of the  *)
(* requests it owns: what makes every "slot_index not in group" assertion  *)
(* of a local removal hold.                                                *)
LocalGroupsAgree ==
    \A w \in Workers, p \in Phase :
        lgroup[w][p] = {s \in Slots : owner[s] = w /\ p \in Live(s)}

(* The shared groups are the same requests seen by the scheduler, ahead of *)
(* phase_state by what has_prefill_sched and has_decode_sched say.         *)
SharedGroupsAgree ==
    \A p \in Phase : ggroup[p] = {s \in Slots : \E q \in Live(s) : GroupOf(s, q) = p}

(* The assertions of omni_proxy_schedule_prefill and _decode: a request    *)
(* the scheduler is about to assign is in the waiting phase and has not    *)
(* been assigned before.                                                   *)
SchedulerAssertions ==
    \A w \in Workers :
        /\ at[w] = "schedP" => \A s \in visit[w] : "p_waiting" \in phase[s] /\ s \notin pSched
        /\ at[w] = "schedD" => \A s \in visit[w] : "d_waiting" \in phase[s] /\ s \notin dSched

----------------------------------------------------------------------------
(* The requests that count in num_running of prefill endpoint e: assigned  *)
(* to it and not yet given back.  Likewise for decode.                     *)
PrefillHolders(e) == {s \in pSched :
    /\ pIdx[s] = e
    /\ Live(s) \cap {"p_waiting", "p_scheduled", "prefilling"} # {}
    /\ ~ Doing(owner[s], "released", s)}

DecodeHolders(e) == {s \in dSched :
    dIdx[s] = e /\ Live(s) \cap {"d_waiting", "d_scheduled", "decoding"} # {}}

(* With the sequential policy num_running, which drives load balancing and *)
(* the reuse of endpoints, is exactly the number of requests assigned and  *)
(* not given back, in whatever order prefills and decodes end or fail.     *)
LoadIsExact == locations = {"sequential"} =>
    /\ \A e \in Prefills : pRun[e] = Cardinality(PrefillHolders(e))
    /\ \A e \in Decodes  : dRun[e] = Cardinality(DecodeHolders(e))

(* Whatever the outside does, num_running never falls below the number of  *)
(* requests on the endpoint, so the unsigned counter never wraps.          *)
LoadCoversHolders ==
    /\ \A e \in Prefills : pRun[e] >= Cardinality(PrefillHolders(e))
    /\ \A e \in Decodes  : dRun[e] >= Cardinality(DecodeHolders(e))

(* req_in_groups, on which an exiting worker decides to stop its timer,    *)
(* counts the requests of the worker that still need the timer.            *)
InGroupsCounts ==
    \A w \in Workers : inGroups[w] =
        Cardinality({s \in inUse : owner[s] = w /\ ~ Doing(w, "entering", s)})

----------------------------------------------------------------------------
(* The single logical stage of a request, recovered from phase_state and   *)
(* the scheduler's flags.                                                  *)
Logical(s) == IF s \in inUse THEN {GroupOf(s, p) : p \in phase[s]} ELSE {}

Lifecycle == INSTANCE RequestLifecycle WITH
    stage <- [s \in Slots |-> Logical(s)],
    parallel <- (locations = {"parallel"}),
    Abortable <- AbortPhases

(* Three copies of the stage in two processes behave like one.             *)
ImplementsLifecycle == Lifecycle!Spec

(* Every request that takes a slot gives it back.                          *)
EveryRequestEnds == \A s \in Slots : s \in inUse ~> s \notin inUse
============================================================================
