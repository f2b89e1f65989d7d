# Omni Infer in TLA+

Specifications, model-checking configurations and machine-checked proofs for
the parts of Omni Infer that schedule requests, move their caches, move experts
and recover from failures: the proxy in front of the engines, and what the
repository adds to the engines behind it.

File names of the proxy are those of
`src/omni/accelerators/sched/omni_proxy/modules/`; `M` stands for its
`ngx_http_omni_proxy_module.c`.

## 1. The system

Omni Infer serves large language models with *prefill* and *decode* running on
different machines.

    client -> Omni Proxy -> prefill instance P --KV cache--> decode instance D
                                 scheduler                     scheduler
                                 experts on many ranks, moved while serving
                                                               token recovery

| Component | State | Operations | Interacts with |
|---|---|---|---|
| Omni Proxy (C, nginx) | see 1.1 | see 1.1 | clients, P and D |
| LLMDataDist connector (`accelerators/pd/llmdatadist_connector_v1.py`) | finish times and received ids on P; tasks, threads and received transfers on D | finish, scan, listen; allocate, load, pull, synchronise ranks, report | the engines' schedulers; the pull library; one socket from D to P |
| OmniCache connector (`omni_cache_connector_v1.py`) | the same on P; executor, `_send_q`, `_pending`, `_h2d_q`, an event on D | send, receive, copy, trigger | the OX server; the model runner, which triggers the copies |
| Engine schedulers (`adaptors/vllm/sched`, `worker/tfas`) | waiting and running queues, blocks, `scheduled_req_ids` | `schedule`, `update_from_output`, `finish_requests` | the engine's loop and its workers |
| Token recovery (`adaptors/vllm/token_recovery`) | command, event and step of each worker; statuses and fault steps on rank 0 | report, stop, restart, go on | HTTP between workers and processor |
| Expert placement (`accelerators/placement/omni_placement`) | map, routes, weights, buffers and a flag on each rank | plan, rounds of batches, install | collective calls; the model runner |
| KV cache layouts, models, kernels, quantization, tools, deployment | - | - | not modelled, see 5 |

### 1.1 Omni Proxy

Omni Proxy is an nginx module. Every request is tokenized, matched against what
the endpoints have in their prefix caches, sent to a prefill endpoint (as a
subrequest) and then to a decode endpoint (as the upstream of the main request).

nginx runs several worker processes, each a single-threaded event loop. They
share one block of memory, `omni_global_state_t`, guarded by `g_state->shmtx`.
The worker that registers first is the *master*: it alone schedules, for all.

| Component | State | Operations | Interacts with |
|---|---|---|---|
| Request lifecycle (M, `omni_utils.h`) | `phase_state` of each slot, private groups per worker, shared groups, `has_*_sched`, `req_in_groups` | `omni_req_init`, `omni_phase_transition_all`, wakeups, `post_subrequest`, `omni_proxy_cleanup_req` | all of the below |
| Request pool (`omni_utils.c`) | `in_use_bitmap`, `num_requests`, `head` | allocate (locked), free (not locked) | lifecycle |
| Prefill scheduler (`omni_scheduler.c`) | shared waiting group, weights, endpoint counters, batch history | `omni_proxy_schedule_prefill` | timer of the master |
| Decode scheduler (`omni_scheduler.c`) | shared waiting group, endpoint counters | `omni_proxy_schedule_decode` | timer of the master |
| Worker processes (M) | `is_master_worker`, `master_worker_selected`, the timer | start, tick, exit, reload | nginx master process |
| Upstream registry (M) | `comm.status`, `comm.ref`, addresses | add, reuse, disable, resched | reload, schedulers |
| Prefix caches (`omni_radix_tree.c`, `omni_apc.c`, `omni_zmq_handler.c`) | a radix tree per endpoint | add chain, remove, match, clear | KV events over ZeroMQ |
| Tokenizer (`omni_tokenizer*.c`) | two pipes and a thread per worker | submit, result | lifecycle |
| Health checks (`omni_health.c`) | `healthy` flags, `pending_checks` | probe, finalize | nginx connections |
| Metrics, body rewriting | counters, JSON | format, rewrite | clients |

### What is hard here

* A request is described three times - `phase_state`, the private groups of its
  owner, the shared groups - by two processes. The scheduler moves the shared
  entry only and raises a flag; the owner catches up at its next tick; a cleanup
  may run in between. Each removal *asserts* that it finds its entry.
* Under the parallel policy a request is in two phases at once, and either may
  finish or fail first.
* Endpoint counters are incremented by the scheduler, decremented by owners, on
  three different paths.
* Loops remove entries from the array they walk.
* The pool is freed outside the lock.
* nginx may finalize a request inside a call that the handler expects to return.
* Workers of nginx die and are replaced; configurations are reloaded under
  traffic.
* P must keep the cache of a request until D has read it, and must not keep it
  for ever when D never does. Between the two are threads that fail one by one,
  ranks that must all have pulled, and a delay.
* Requests are preempted, skipped, sorted and aborted while batches with their
  tokens are under way.
* After a fault, workers and processor wait for each other with timeouts that
  run on different clocks; every request between them may be lost.
* Weights and routes change under a model that serves, on many ranks at once.

`PROJECT.json` lists every hazard at its line, with the properties that cover
it or the reason none does yet.

## 2. The modules

### 2.1 Omni Proxy

    RequestLifecycle <--implements-- OmniProxy ---uses---> SlotPool
    (one atomic stage)                |      |                ^
                     DecodeWakeFailure   EveryOther           | implements
                     (adds one step)         ^ justified by   |
                                        PrefillQueue     RequestPool

`OmniProxyProofs` holds the theorems about `OmniProxy`, `SharedMemoryProofs` those
about the pool and the queue.

**`OmniProxy`** is the core: one action per critical section of every handler.

* *Workers.* `at[w]` says where the event loop of `w` stands, `cur[w]` the slot
  the running handler works on. Handlers are cut exactly where they take or
  release `shmtx`; what lies between is private to the worker or written by
  nobody else. The two scheduling passes are the only critical sections of more
  than one step: `LockFree` is the condition that nobody is inside one.
* *Groups.* `lgroup[w]` and `ggroup` are sets of slots per phase. The array of
  `omni_req_group_t` matters only for the order in which a loop walks it, and
  that is the subject of `PrefillQueue`.
* *Tick* (`omni_proxy_timer_handler`): `TickSchedule`, `SchedulePrefill`*,
  `SchedulePrefillDone`, `ScheduleDecode`*, `ScheduleDecodeDone` (master only),
  then `UpdateLocal`, the `WakePrefill...` actions, `RunPrefillDone`,
  `WakeDecode`*, `RunDecodeDone`.
* *Answers*: `PostTokenized`/`QueuePrefill`, `PrefillRelease`/
  `PrefillAdvance...`, `DecodeEnd`.
* *End*: `BeginCleanup`, one `CleanupPhase` per phase, `ReqFree`.
* `RequestAborts` stands for everything that makes nginx free a request early;
  `AbortPhases` says in which phases.
* `locations` holds the policies of the configured locations. `ReqEnter` copies
  that of the request into the one shared `policy`, as M:510 does.
* `TransitionAll` needs the entries it moves. In the code their absence is the
  assertion of `omni_utils.h:109`; here the action would not be enabled, and
  `LocalGroupsAgree` and `SharedGroupsAgree` show that it never is missing.

Abstracted: token counts, batch estimates, queue counters and the radix match -
they only steer *which* endpoint is chosen, and the model lets the scheduler
choose any. `num_running` and `comm.ref` change together and are one counter
here. A request arrives only when a slot is free; the full pool is in
`RequestPool`. `num_running` is an integer: `LoadCoversHolders` is what excludes
that the unsigned word wraps.

**`RequestLifecycle`** is what the proxy promises of one request: a set of
stages, one atomic step per change, no processes. `OmniProxy!Lifecycle` is the
refinement mapping: the stage is `phase_state` moved ahead by the scheduler's
flags.

**`RequestPool`** is `omni_utils.c` load by load and store by store. `Reload`
leaves open whether the compiler reloads a shared word between two uses (the
accesses are plain C; concurrent ones are a data race). The last return of
`omni_allocate_request` ("Should never get here") is not an action: `SearchFinds`
shows that the search does not come to it. **`SlotPool`** is its
specification: a set of slots, refused only when all are held.

**`PrefillQueue`** is the array of one group: entries, weights, unstable sort,
the loop index. Weights are those of the code times `10 * max * oldest`, so that
they are integers. A pass runs under `shmtx`, so arrivals happen between passes.
`PassTakesHalf` is the fact that `EveryOther` of `OmniProxy` assumes.

**`DecodeWakeFailure`** adds one step to `OmniProxy`: `ngx_http_upstream_init`
fails at once and runs the cleanup inside the wakeup handler.

### 2.2 The engines

                  KVHandoff  (proved safe in OxTransferProofs)
                 /         \  implemented by
        KVTransfer         OxTransfer      EngineScheduler
        TokenRecovery      ExpertPlacement

The theorems are in `KVTransferProofs`, `OxTransferProofs` (with those about
`KVHandoff`), `EngineSchedulerProofs`, `TokenRecoveryProofs` and
`ExpertPlacementProofs`. `DataFacts` has the lemmas about queues, finite sets, sums
and loops that all of them, and `SharedMemoryProofs`, rest on.

**`KVHandoff`** is what moving the cache of a request promises: the source holds
its blocks while the destination reads, and the destination computes only with
what it has read to the end. It has no threads, messages or delays.

**`KVTransfer`** is the LLMDataDist connector. P's side: `FinishPrefill`,
`StopPrefill`, `Listen` (the thread at the socket), `PStep` (a step of the
engine: `build_connector_metadata`, `get_finished` with its scan, the freeing).
D's side: `StartLoad` (slots are allocated, the metadata reach `start_load_kv` of
every rank), one lane per thread with `BeginPull`, then, by the way D is set up,
`EndPullAlone`, `ReachBarrier`/`PassBarrier` or `EndPullSync`, or `PullFails`;
`DReport`, `EndRequest`, `Preempt`, `Resume`. A `setup`, chosen at the start,
stands for the configuration: ranks, pulling mode, whether pulls fail, and the
cluster of each request. Blocks are not counted; a message is the id it carries.
The dict of finish times is a sequence, and `Without` is what `get_finished` leaves
of it.
`TimePasses` ages requests in the order they finished. It waits until D has
neither a pull nor a load of the request before it: `BLOCK_RELEASE_DELAY` (10
minutes by default) is assumed to be longer than a transfer, an assumption of
the code that no property here can justify.

**`OxTransfer`** is the OmniCache connector, whose D-side work goes through three
threads: `ReadBlocks` (executor), `Send`/`Receive`/`InlineCopy` (the thread at
the server's socket), `H2DTake`/`H2DCopy` (the copier). A copy waits for an event
that `DStep` sets *and clears*, if the step is one in which the model runner
calls `decode_h2d_trigger` (`Triggers`). `Answer` is the OX server.

**`EngineScheduler`** has one state - queues, statuses, tokens, blocks - and three
schedulers: `HybridSchedule`, `SortedSchedule` (with and without mixing) and
`TfasSchedule`; each loop of `schedule()` is a `Loop`, a fold over a queue with a
`Turn` per request (`PrefillTurn`, `DecodeTurn`, `RunningTurn`, `WaitingTurn`; the
choice of what to batch has its own, `PickTurn`), and `Grow` is the preemption
loop. `UpdateFromOutput` takes the
oldest batch back; with `depth` 2 another is under way meanwhile. A block holds
one token, each request generates a fixed number. `crashed` records an assertion
that fails or an exception that ends the engine.

**`TokenRecovery`** has the wrapper of each worker as a program counter
(`ReportFault`, `StopDevice`, `ReportStopped`, `WaitingDoRecovery`,
`LocalRecovery`, `WaitingKeepRun`), the handlers of the worker's server as actions
of their own, in the two steps of `update_ha_cmd` (`SetCmd`, `SetEvent`), and the
processor. `Tick` is a second: it waits for timers and posts that are due. Times
are counted up to `MaxAge`, which keeps the runs finite and no proof limits. A
lossy setup loses requests and workers at any point.

**`ExpertPlacement`** has two threads per rank. The worker threads agree on a plan
(`Optimize`, `LayerInstructions`), and on each batch of a round (`Handshake`),
update the map (`HandleBatch`), exchange weights (`BatchSend`), and wait; the main
threads install what is buffered before a batch (`StartBatch`) or after a dummy
one (`EndDummyBatch`). The model computes in `Forward`. Rearrangement, the choice
of sources and the merging of layers into rounds are those of the code; what the
load balancer asks for is any member of `Targets`; how the instructions of a round
are cut into batches is left open, but for the rule that no rank sends or
receives twice in one.

Definitions named `Wrong...`, `No...` or with another name that says so, and
commented as what a mistake would do, are never part of a specification; each
stands before the definition it would replace, to see that a property fails when
the code is wrong in that way.

## 3. What is checked

| Run | Instance | Shows |
|---|---|---|
| `proxy_safety` | 2 workers, 2 slots, 3 requests, 2 prefill, 1 decode endpoint, either policy, aborts while tokenizing, prefilling, decoding | the three descriptions agree (`LocalGroupsAgree`, `SharedGroupsAgree`), no assertion of a pass fails (`SchedulerAssertions`), sequential counters are exact (`LoadIsExact`), `InGroupsCounts`, and the refinement `ImplementsLifecycle` |
| `proxy_live` | 2 workers, 2 slots, 2 requests, aborts between assignment and wakeup too | `LoadCoversHolders`, `EveryRequestEnds` |
| `proxy_mixed` | as `proxy_safety`, one location of each policy | **violates** `SchedulerAssertions` |
| `decode_wake` | 1 worker, 1 request | **violates** `WokenStillThere` |
| `pool_single` | 1 worker, 3 words of 2 bits | the search finds, the counter counts, the pool implements `SlotPool` |
| `pool_race` | 2 workers, 1 word of 2 bits | **violates** `FreedWasInUse` |
| `prefill_queue` | 4 requests of 2 sizes | `PassTakesHalf`, `OvertakenByHeavier`, `DrainsWhenQuiet` |
| `kv_handover` | 2 requests, one of one block; 1 or 2 ranks; executor or thread per cluster, where also two ranks fail apart; pulls that fail or not | the scan misses nobody (`ScanMissesNone`), `EveryLoadEnds`, `BlocksReturn`, `ImplementsHandoff` |
| `ox_handover` | 2 requests, copy queue of 1; several data-parallel ranks or one; failures or not | `DoneMeansLoaded`, `PendingIsUnderWay`, `EveryLoadEnds`, `BlocksReturn`, `ImplementsHandoff` |
| `sched` | 3 requests of 1-3 tokens that do not fit together, 6 setups | `NoneLost`, `BlocksAccounted`, `NeverCrashes`, `OldGoFirst`, `EveryRequestEnds` |
| `recovery` | 2 workers, 2 faults each; even, uneven and lossy | `Together`, `CommandsFindWaiters`, `EveryWaitEnds` |
| `placement` | 2 ranks, 2 slots, 2 layers, 3 experts | `TokensReachExperts`, `WeightsFollowMap`, `EveryPlanEnds` |

Each module's `TypeOK` is checked too, but for those of `PrefillQueue` and
`ExpertPlacement`, which are proved. Beside the runs lie configurations of the
same modules that TLC can be pointed at:

| Configuration | Shows |
|---|---|
| `PrefillQueue_starve.cfg` | violates `NoStarvation` (finding 4) |
| `MCKVTransfer_halves.cfg`, `MCKVTransfer_barrier.cfg` | violate `DoneMeansPulled` (5, 6) |
| `MCOxTransfer_alone.cfg` | violates `EveryLoadEndsAlone` (8) |
| `MCEngineScheduler_pieces.cfg` | violates `NoneLost` (9) |
| `MCEngineScheduler_ignored.cfg` | violates `NeverCrashes` (10) |
| `MCExpertPlacement_skewed.cfg` | violates `EveryStepRoutesRight` (14) |
| `MCExpertPlacement_wide.cfg` | three ranks: the invariants of `placement` hold |

*Why the bounds are enough.* Two workers give the master and a worker that is
not, and both orders of every pair of critical sections; two slots give two
requests of one owner or of two; a third request reuses a slot whose
`phase_state`, flags and indices are stale. The handlers treat requests
independently except through the counters, the lock and `EveryOther`, for which
two suffice to leave one behind. Three words of two bits let the search start in
the middle of a full word and wrap. Four waiting requests are the first for
which a pass leaves two behind and the order of the leavings can matter; the
ages are told apart up to one pass there and up to three in
`PrefillQueue_starve.cfg`.

Two requests let one be pulled, queued or stranded behind the other, and make
the order of finishing matter; two ranks make a barrier. A copy queue of one is
full with the second request, while a third thread waits with the first. Three
requests of different lengths, with a running list of two, have one that waits,
one preempted and one preempting; prompts of three tokens in a budget of four
are skipped; the setups bound the rest. Two faults of a worker let one recovery
meet what the one before left behind. Of the four timeouts, 4 s for the restarts
and 3 s for `keep_run` are the code's; 25 s for the stops and 30 s for
`do_recovery` are 3 and 5 here, still in that order, with room for a stop to
come late. Restarts of 0 to 4 seconds lie on both sides of those that matter.
Swapping three experts between two ranks makes a layer that needs every buffer,
so that two do not fit in a round; the second copy makes a layer that only loses
one.

Deadlock is checked except in the runs of `KVTransfer`, `OxTransfer` and
`EngineScheduler`, where every request may be over: then nothing is left to do.
`MaxArrivals` does not stop the proxy: the timers go on.

*Fairness.* `FairSpec` assumes strong fairness of each worker's tick, of the
continuation of a running handler, and of the answers of tokenizer and
endpoints. An event loop that is alive dispatches its timer every
`TIMER_INTERVAL` and goes on with what it started; it is *strong* because both
contend for a spinning mutex, which a waiter may find taken any number of times
but gets in the end, and because answers are dispatched only between two ticks.
That endpoints answer is nginx's read timeout: an endpoint that does not is an
answer too. Nothing obliges a worker to start, but a request only arrives at one
that has; the master is the first that starts. `PrefillQueue` assumes weak
fairness of the pass, the master's timer. `NoStarvation` fails although the pass runs for ever.

In the engines: engines step while they have work and their threads run (weak
fairness of each action of theirs). Nothing forces a client to send, abort or
leave, a pull to fail or a worker to fail. `KVTransfer` and `OxTransfer` add that a
pull or fetch ends and that the release delay passes; `OxTransfer` that the
answers on one socket are read in turn (strong fairness of `Receive`, which
`Send` disables again and again). `ExpertPlacement` needs that no rank takes only
empty steps for ever (strong fairness of the steps that install), since a step of
`execute_model` without tokens runs the model and does not install.

### Findings

1. *One policy for all locations* (M:510, `proxy_mixed`). The policy a request is
   woken under need not be the one it finishes under. A request can be entered
   twice among those waiting for decode, and `omni_scheduler.c:808` asserts.
2. *A wakeup after the end* (M:1585, `decode_wake`). A decode upstream that fails
   synchronously frees the request before the handler moves it on.
3. *Free without the lock* (`omni_utils.c:91`, `pool_race`). Two workers lose an
   update of a bitmap word, and a slot in use is handed out again.
4. *No starvation threshold* (`omni_scheduler.c:632`, `PrefillQueue_starve.cfg`).
   `README_CN.md:90` describes one; the setting is parsed, logged and not used.
5. *Half a request is reported whole* (`llmdatadist_connector_v1.py:898`). With
   `multi_rank_pull_kv` the first of two threads to end tells P and the engine;
   `_done_recving_count`, which would count, is never used.
6. *Barriers of different requests* (`:913`). After a failed pull on one rank the
   barrier pairs two requests.
7. *Reports that are dropped* (`:653`). With several ranks and threads, the report of
   a rank is an object where rank 0 reads a list; such a load never ends.
   `EveryLoadEnds` excludes this setup (`Reports`).
8. *An idle instance copies nothing* (`omni_cache_connector_v1.py:1070`). The copy
   waits for a batch, and with one data-parallel rank nothing runs a batch while
   the only request waits for its copy.
9. *Running requests dropped* (`length_sorted_schedule.py:194`). Without mixing the
   running list is rebuilt from waiting requests: a prompt computed in pieces is
   lost after the first.
10. *An ignored prompt ends the engine* (`npu_schedule.py:423`). A prompt over the
    limit is in no queue and still known; its abort raises.
11. *TFAS docstring* (`tfas_scheduler.py:116`): "lowest priority" is the highest.
12. *Only drivers recover* (`ha_monitor.py:217`). Other workers of a group return
    `{}`, which `execute_model` takes for a failed recovery.
13. *3 s against 4 s* (`common.py:25`). A worker that restarts early gives up before
    the processor, which waits longer for the last one, tells it to go on.
14. *Rounds are installed at different steps* (`placement_manager.cpp:619`). A step
    that begins on one rank before and on another after the installation routes
    tokens to positions that hold another expert.

Not a finding, since nothing in the repository promises otherwise: a request
that is closed after its endpoint was assigned and before it is woken leaves
`num_running` too high for ever. That is why `LoadIsExact` is checked with
aborts in the phases where nginx normally notices them, and `LoadCoversHolders`
with the others.

## 4. What is proved

TLAPS proves the theorems below for every value of the constants that meets the
assumptions named in the modules: any finite number of workers, slots, endpoints
and requests, any sizes and waiting times. No bound of a run is used. A further
premise, where a theorem has one, stands in the column *where*; each is one that
the code does not always meet, and a run or a configuration shows, for most of
them, what happens without it.

| Module | Theorem | States | Where |
|---|---|---|---|
| `OmniProxyProofs` | `InductiveInvariant`, `HandlerInvariant` | `IInv`, `HandlerInv` | one policy |
| | `TypeCorrect` | `TypeOK` | one policy |
| | `LocalAgreement`, `SharedAgreement` | `LocalGroupsAgree`, `SharedGroupsAgree` | one policy |
| | `SchedulerNeverAsserts` | `SchedulerAssertions` | one policy |
| | `InGroupsExact` | `InGroupsCounts` | one policy |
| | `LoadNeverWraps` | `LoadCoversHolders` | one policy |
| | `LoadExact` | `LoadIsExact` | one policy, early aborts |
| | `LifecycleRefinement` | `ImplementsLifecycle` | one policy, aborts ignore the scheduler |
| `SharedMemoryProofs` | `TypeCorrect` | `TypeOK` of `RequestPool` | |
| | `InductiveInvariant` | `IInv` | one worker |
| | `SearchAlwaysFinds`, `CounterExact` | `SearchFinds`, `CounterMatchesBitmap` | one worker |
| | `FreesWhatIsInUse` | `FreedWasInUse` | one worker |
| | `Refinement` | `ImplementsSlotPool` | one worker |
| | `QueueInvariant`, `QueueTypes` | `QueueInv`, `QueueTypeOK` of `PrefillQueue` | |
| | `TakesHalf`, `OvertakenOnlyByHeavier` | `PassTakesHalf`, `OvertakenByHeavier` | |
| `KVTransferProofs` | `OrderInvariant`, `TypeCorrect` | `FinishOrder`, `TypeOK` | |
| | `ScanIsComplete` | `ScanMissesNone` | |
| | `InductiveInvariant`, `PulledWhenDone` | `IInv`, `DoneMeansPulled` | whole and in step |
| | `PullsOnlyHeld` | P holds what is to be pulled | whole and in step |
| | `Refinement` | `ImplementsHandoff` | whole and in step |
| `OxTransferProofs` | `InductiveInvariant`, `TypeCorrect` | `IInv`, `TypeOK` | |
| | `LoadedWhenDone`, `PendingExact` | `DoneMeansLoaded`, `PendingIsUnderWay` | |
| | `FetchesOnlyHeld` | P holds what is being fetched | |
| | `Refinement` | `ImplementsHandoff` | |
| | `HandoffIsSafe` | `SourceKeepsReads`, `UsesOnlyRead` of `KVHandoff` | |
| `EngineSchedulerProofs` | `InductiveInvariant`, `TypeCorrect` | `IInv`, `TypeOK` | |
| | `BlocksAccountedFor`, `OldFirst` | `BlocksAccounted`, `OldGoFirst` | |
| | `NoneIsLost` | `NoneLost` | only prefills when sorted |
| | `NoCrash` | `NeverCrashes` | prompts fit |
| `TokenRecoveryProofs` | `SafeInvariant`, `TypeCorrect` | `SafeInv`, `TypeOK` | |
| | `RestartTogether` | `Together` | |
| | `InductiveInvariant`, `CommandsInTime` | `IInv`, `CommandsFindWaiters` | stops before recoveries |
| `ExpertPlacementProofs` | `InvariantHolds`, `TypeCorrect` | `IInv`, `TypeOK` | |
| | `TokensReachTheirExperts` | `TokensReachExperts` | |
| | `WeightsAreWhereTheMapSays` | `WeightsFollowMap` | |
| | `BuffersSuffice` | no round fills more buffers than there are | |

*The premises.*

* *One policy* (`OnePolicyEach`): no deployment mixes policies. `proxy_mixed` shows
  that assertions fail otherwise (finding 1).
* *Early aborts*: requests are given up in `EarlyAborts` (tokenizing, prefilling,
  decoding), the phases in which nginx notices the client; the note after the
  findings says what happens in the others.
* *Aborts ignore the scheduler* (`AbortsIgnoreScheduler`): if a waiting request can
  be given up, so can one that the scheduler has assigned. What ends a waiting
  request reads `phase_state`, not the flag, so the lifecycle, whose stage is ahead
  of `phase_state`, must allow it. It holds in every run.
* *One worker*: `pool_race` violates `FreedWasInUse` with two (finding 3).
* *Whole and in step* (`WholeInStep`): no request is pulled in halves, and several
  ranks that share the executor's barrier do not fail. `MCKVTransfer_halves.cfg` and
  `MCKVTransfer_barrier.cfg` violate `DoneMeansPulled` otherwise (findings 5, 6).
* *Only prefills when sorted* (`PrefillsOnly`): a setup with the length sorting
  scheduler and no mixing is used as on a prefill instance, with one batch under
  way, no prompt cut in pieces and one token for each. With pieces
  `MCEngineScheduler_pieces.cfg` violates `NoneLost` (finding 9). Nothing is asked of
  the other schedulers.
* *Prompts fit* (`PromptsFit`): under the hybrid scheduler no prompt, with the tokens
  it may have generated before it is preempted, exceeds the limit, beyond which it
  is ignored (finding 10, `MCEngineScheduler_ignored.cfg`), or the threshold, beyond
  which it is cut while the decode loop asserts that one token is missing. Nothing
  is asked of the other schedulers. Both premises speak of the setup the engine was
  started with, and every setup of the run `sched` meets them.
* *Stops before recoveries*: `StopWait <= RecoveryWait`, which are 25 and 30 s in
  the code. `CommandsFindWaiters` itself speaks of deployments where nothing is lost,
  every worker is a driver and the restarts take about the same time
  (findings 12 and 13 are about the others).

*Why the invariants have the parts they have.*

`OmniProxy`. The agreement of the groups is not inductive alone. A transition keeps
it only if no other phase of the request is filed under the group it leaves or
enters, so `ShapeInv` says which phases go together, `FlagInv` what the two flags
say about them, and `PolicyInv` that the policy does not change under a request in
two phases. A pass may assign what it planned to visit because nobody else removes
from the group while it holds the mutex (`VisitInv`, `OneSchedules`). A cleanup runs
over several steps, during which the request is in the phases still to leave
(`Live`, `CleanupInv`); that no second handler touches it meanwhile is `CurOwned`,
since only the owner runs handlers and runs one at a time. `TransitionAgrees` is the
lemma all transitions share; then there is one lemma per action. For the counters
and the refinement `HandlerInv` adds what a handler may still assume when it goes on
after it released the lock. The counters are cardinalities: the holders of an
endpoint are read off phases and flags (`HoldersRead`), each action adds or removes
one, and the library's theorems count. A cleanup that skips its decrement makes the
counter too high, never too low, so `LoadCoversHolders` needs no premise on aborts.

`RequestPool`. `CallInv` says where a search stands: the slots it has passed are in use,
and what it has loaded of a word is what the word holds. `BitmapInv` says that the bitmap, the counter
and the slots held agree but for the one slot of the call under way. That a search
finds follows by counting: were every slot in use, the counter would be the size.

`PrefillQueue`. The pass removes from the array it walks: it takes an entry, the next
one moves into its place, and the index goes on past that. `PassInv` says that
the index has passed as many entries as were taken, that taken and left are what
waited, and, for every weight `v`, that at least as many requests of weight `v` or
more were taken as are left, unless every round took one. From the first follows half
of what waits, from the second who overtakes whom. `TakesHalf` is what
`EveryOther` of `OmniProxy` stands for.

`KVHandoff`. Nothing is read before its source has finished (`NoneReadTooEarly`).

`KVTransfer`. The scan may stop at the first request that is not late because merging
adds, and removal keeps, the order of finishing (`FinishOrder`). D's threads: each task
is queued once (`OnceEach`); ranks that meet at a barrier have the same line ahead
(`SameLine`); nobody has been told of a
request that is still in a line (`TodoUnreported`); a request that is resumed is not
loaded again (`ParamsCleared`); what P has freed or may free is pulled
(`FreedIsPulled`).

`OxTransfer`. A request under way is in one place (`OnePlace`), is scheduled on D once
(`ScheduledOnce`), and is neither late nor freed on P while it is fetched
(`FreedIsFetched`). With the two properties these are inductive.

`EngineScheduler`. `Queued`, `Counted` and `Typing` hold for every setup: the queues are
lists without repetition whose members have the right status, what waits has nothing
computed. What `schedule()` does is read off what its loops leave: each turn keeps
that running and preempted make up the list, that the blocks are those held before and
those of the batch without those preempted, and that batch and budget add up (`Batched`,
`RunningUpto`, `WaitingUpto`). `LoopRule` carries this through a queue of any length:
`LoopExists` of `DataFacts` shows that the fold is such a loop, `CountedInduction` that
what each turn keeps holds at its end. `Grow` frees the shortest end of the list that is
enough; the lemmas on sums count its blocks.
`OldFirst` needs that what a sorted queue puts before is started before (`InOrder`).
`NoneLost` is not inductive without mixing, where the list is rebuilt: nothing of the
list must be left when it is, and that is `KeptInv`, since what runs is in the one
batch under way and ends with it. `NeverCrashes` needs that a request that decodes is in
one batch at most and in `scheduled_req_ids` just as long (`HybridInv`), also when it
is preempted or aborted and an old batch comes back, and that nothing is ignored.

`TokenRecovery`. `StatusInv` and `CmdInv` read off the last report and the command of
a worker where it is. Then no restart is under way, ahead or commanded unless all have
stopped (`RecoveryInv`), whatever was lost. That commands come in time needs the
clocks: in each wait the age of the worker's timer against the processor's
(`ClocksInv`), which event is set for which wait (`EventsInv`), and that a round starts
with everyone at the same fault (`FaultsInStep`, `EndsInv`).

`ExpertPlacement`. First what the optimizer computes, for any map and any placement
asked for: `RearrangedRight` (a rank holds what it shall, each expert once, because as
many slots fall free as experts come), `LayerInstructionsRight` (an instruction for each
position that changes, one only, whose source holds the expert now) and `NextLayersFit`
(the layers of a round fit into the buffers). `LayerInstructions` and `NextLayers` are
folds; `LoopExists` of `DataFacts` shows that the function a fold chooses exists, and
`CountedInduction` that what each turn keeps holds at the end. Then the invariant:
rounds are of whole layers (`WholeLayers`), so the source of an addition still to come
holds its expert (`Sources`); each position is written once (`OneEach`); with the batch
under way in it, all ranks have the same map (`SameMap`), which serves every expert, as
does what round and plan lead to (`Serve`); what its map says, a rank holds, has in a
buffer or receives now (`MapHeld`, `Received`, `Moved`); what it routes to itself, it holds
(`RoutesHeld`); and two ranks that have installed as often route alike (`Turns`,
`Installed`). Buffers suffice because a round is cut by `Fits` (`Room`).

*Refinements.* `InitRefines` or the theorem's first step maps initial states; then each
action maps to a step or a stutter. In `KVTransfer` the last lane to finish its part of
a request ends the read, and a thread that dies of a failed pull loses what is queued
behind it; in `OxTransfer` the server's answer ends the read; in
`RequestPool` a slot is held when the call returns, and given up likewise; in `OmniProxy` the flag of the
scheduler, not the later tick of the owner, moves the request on. Through `HandoffIsSafe`
both connectors inherit that blocks are kept while read and used only when read.

*How the proofs shaped the modules.* Every invariant was checked with TLC before it was
proved. Removal from a sequence is written without `SelectSeq`, whose definition is
recursive: `Without` of `KVTransfer` and `Keep` of `EngineScheduler` list the kept
positions by their rank, `SortedBy` ranks positions by their keys, and `PrefillQueue`
sorts the set of entries that stay. `ReadDone` of `KVHandoff` lets a
thread that dies leave only lost reads behind, which the proof for `KVTransfer` asked for.

*Only model-checked*, and why:

* Liveness (`EveryRequestEnds`, `DrainsWhenQuiet`, `EveryLoadEnds`, `BlocksReturn`,
  `EveryWaitEnds`, `EveryPlanEnds`) rests on fairness, which is beyond the prover.
* That the premises are needed: the runs that expect a violation and the
  configurations beside the runs show for most of them what fails without.

Every safety invariant, every action property and every refinement that a passing run
checks is stated by a theorem.

## 5. Not modelled, and the plan

Of the modelled components:

* *Omni Proxy*: death of a worker with its slots, its lock and its mastership
  (`omni_utils.h:124`; the code recovers nothing); reload, with reuse of endpoint
  slots (M:1975) and rescheduling (M:1008); the choice of endpoint, whose decode
  loop never runs (`omni_scheduler.c:844`) and whose weights divide by zero
  without prompts (`:559`, `:639`); the radix tree and KV events (M:2437, M:2388,
  `omni_radix_tree.c:323`); the tokenizer's pipe (M:360, M:2225); the full pool
  (M:131); health checks (`omni_health.c:224`). The lines are where each would bite.
* *KV connectors*: setting up links, the fast path, an abort while blocks are
  written (`llmdatadist_connector_v1.py:573`), several ranks with OX.
* *Schedulers*: swapping to the host (`length_sorted_schedule.py:270`), prefix
  caching, speculative tokens, LoRA, encoders, remote KV, the profiling variants.
* *Token recovery*: registration, and the check for memory errors.
* *Expert placement*: pause, resume and stop (the wait of
  `placement_manager.cpp:492` does not look at `should_stop_`), failing collectives
  (`distribution.h:39` only prints), redundant shared experts, the load balancers.

Left out for good: formatting of metrics, JSON rewriting, configuration parsing,
nginx, vLLM and the transfer libraries themselves (modelled by how they are
called); the hybrid cache layouts, whose control is in base classes of vLLM that
are not here; models, layers and quantization, which are numeric code on tensors
and the larger part of the repository; tools, charts and scripts.
