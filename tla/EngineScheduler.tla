--------------------------- MODULE EngineScheduler ---------------------------
(* The schedulers of the engine adaptors: NpuHybridScheduler, which fills a   *)
(* step with prefills or, if there is none, with decodes; the                 *)
(* LengthSortedScheduler of prefill instances; and TFASScheduler, which sorts *)
(* the queue and bounds the step of vLLM's scheduler.  schedule() makes a     *)
(* batch, update_from_output() takes it back.  Names are those of             *)
(* npu_schedule.py, length_sorted_schedule.py and tfas_scheduler.py.          *)
EXTENDS Integers, Sequences, SequencesExt, FiniteSets

CONSTANTS Requests,
          Prompt,      \* num_prompt_tokens of a request
          MaxTokens,   \* max_num_scheduled_tokens
          MaxRunning,  \* max_num_running_reqs
          Slack,       \* the 2048 tokens a prompt may exceed the threshold by
          TfasBudget,  \* tfas_token_budget
          TfasAdjust,  \* tfas_adjust_param, by 1024
          Setups       \* the ways the engine may be started

(* Of a setup: the scheduler ("hybrid", "tfas", or "sorted" or "mixed" for    *)
(* the sorting one without and with mix_schedule); the batches in flight; the *)
(* cache blocks, of one token each; the prompt limit;                         *)
(* long_prefill_token_threshold, 0 when there is none; and how many tokens    *)
(* each request generates.                                                    *)
ASSUME EngineSchedulerAssumption ==
    /\ IsFiniteSet(Requests)
    /\ Prompt \in [Requests -> Nat \ {0}]
    /\ {MaxTokens, MaxRunning, Slack, TfasBudget, TfasAdjust} \subseteq Nat \ {0}
    /\ \A s \in Setups :
          /\ DOMAIN s = {"policy", "depth", "blocks", "limit", "threshold", "maxNew"}
          /\ s.maxNew \in [Requests -> Nat \ {0}]
          /\ s.policy \in {"hybrid", "sorted", "mixed", "tfas"} /\ s.depth \in {1, 2}
          /\ {s.blocks, s.limit, s.threshold} \subseteq Nat

VARIABLES
    setup,      \* the setup of the engine
    status,     \* status of a request, "new" before it comes
    total,      \* num_tokens of a request
    computed,   \* num_computed_tokens
    held,       \* blocks the cache manager has given a request
    old,        \* requests that have waited longer than tfas_waiting_time_out
    waiting,    \* the waiting queue
    running,    \* the running list
    scheduled,  \* scheduled_req_ids
    flight,     \* batches the workers have, oldest first: request |-> tokens
    crashed     \* the engine's loop has ended with an exception

rvars == <<status, total, computed, held>>
vars  == <<setup, rvars, old, waiting, running, scheduled, flight, crashed>>

TypeOK ==
    /\ setup \in Setups
    /\ status \in [Requests -> {"new", "waiting", "preempted", "running", "finished",
                                "ignored"}]
    /\ \A r \in Requests : /\ total[r] \in Prompt[r]..(Prompt[r] + setup.maxNew[r])
                           /\ computed[r] \in 0..total[r]
                           /\ held[r] \in 0..setup.blocks
    /\ old \subseteq Requests
    /\ waiting \in Seq(Requests) /\ running \in Seq(Requests)
    /\ Len(running) <= MaxRunning
    /\ scheduled \subseteq Requests
    /\ Len(flight) <= setup.depth
    /\ \A i \in DOMAIN flight : /\ DOMAIN flight[i] \in (SUBSET Requests) \ {{}}
                                /\ SumFunction(flight[i]) <= MaxTokens
    /\ crashed \in BOOLEAN

NoTokens == [r \in {} |-> 0]

Init ==
    /\ setup \in Setups
    /\ status = [r \in Requests |-> "new"]
    /\ total = Prompt
    /\ computed = [r \in Requests |-> 0]
    /\ held = [r \in Requests |-> 0]
    /\ old = {} /\ waiting = <<>> /\ running = <<>> /\ scheduled = {} /\ flight = <<>>
    /\ crashed = FALSE

AddRequest(r) ==
    /\ ~crashed /\ status[r] = "new"
    /\ status' = [status EXCEPT ![r] = "waiting"]
    /\ waiting' = Append(waiting, r)
    /\ UNCHANGED <<setup, total, computed, held, old, running, scheduled, flight,
                   crashed>>

(* The time passes after which TFAS puts a request first.                     *)
GrowOld(r) ==
    /\ setup.policy = "tfas" /\ status[r] \in {"waiting", "preempted"} /\ r \notin old
    /\ old' = old \cup {r}
    /\ UNCHANGED <<setup, rvars, waiting, running, scheduled, flight, crashed>>

----------------------------------------------------------------------------
(* The items of seq that are in S, in their order: the list without what a    *)
(* loop or a comprehension takes out of it.                                   *)
Keep(seq, S) ==
    LET kept    == {i \in DOMAIN seq : seq[i] \in S}
        upTo(i) == {j \in kept : j <= i}
    IN  [n \in 1..Cardinality(kept) |->
           seq[CHOOSE i \in kept : Cardinality(upTo(i)) = n]]

Without(seq, S) == Keep(seq, Requests \ S)

(* schedule().  Its loops are folds over the queues; they carry the running   *)
(* list, the blocks held, the batch, the budget, the requests ignored and     *)
(* preempted, whether the loop has ended and whether an assertion has failed. *)

Start(budget) ==
    [running |-> running, held |-> held, batch |-> NoTokens, budget |-> budget,
     ignored |-> {}, preempted |-> <<>>, stop |-> FALSE, failed |-> FALSE]

Stopped(s) == [s EXCEPT !.stop = TRUE]
FreeBlocks(s) == setup.blocks - SumFunction(s.held)

(* Allocates n more tokens to r and puts them into the batch.                 *)
Give(s, r, n) ==
    [s EXCEPT !.held[r] = @ + n, !.budget = @ - n,
              !.batch = [q \in DOMAIN @ \cup {r} |-> IF q = r THEN n ELSE @[q]]]

(* num_new_tokens of a request with n tokens to compute.                      *)
Chunk(n) ==
    LET bound == IF setup.policy \in {"hybrid", "tfas"} THEN setup.threshold
                 ELSE setup.threshold + Slack
    IN  IF setup.threshold > 0 /\ n > bound THEN setup.threshold ELSE n

(* allocate_slots for the waiting request r, and what follows.                *)
Admit(s, r) ==
    LET n == Chunk(total[r])
    IN  IF n > FreeBlocks(s) THEN Stopped(s)
        ELSE Give([s EXCEPT !.running = Append(@, r)], r, n)

(* Forgets the bound on the running requests.                                 *)
WrongFull(s) == s.stop \/ s.budget = 0

Full(s) == s.stop \/ s.budget = 0 \/ Len(s.running) = MaxRunning

(* The hybrid scheduler's turn of the waiting r: what exceeds the limit is    *)
(* ignored, what exceeds the budget is skipped and stays.                     *)
PrefillTurn(s, r) ==
    LET n == Chunk(total[r])
    IN  CASE Full(s)           -> Stopped(s)
          [] ~Full(s) /\ n > setup.limit -> [s EXCEPT !.ignored = @ \cup {r}]
          [] ~Full(s) /\ n <= setup.limit /\ n > s.budget -> s
          [] OTHER             -> Admit(s, r)

(* Keeps the blocks of what it preempts.                                      *)
WrongGrow(s, r, n) ==
    LET len     == Len(s.running)
        room(k) == n <= FreeBlocks(s)
        place   == CHOOSE i \in 1..len : s.running[i] = r
        enough  == {k \in 0..(len - place) : room(k)}
        k       == IF enough = {} THEN len - place + 1
                   ELSE CHOOSE i \in enough : \A j \in enough : i <= j
        victims == SubSeq(s.running, len - k + 1, len)
        after   == [s EXCEPT !.running = SubSeq(@, 1, len - k),
                             !.preempted = victims \o @]
    IN  IF enough = {} THEN Stopped(after) ELSE Give(after, r, n)

(* Preempts running requests from the end of the list, r itself if it must    *)
(* be, until n more tokens of r fit.  Each goes to the head of the queue.     *)
Grow(s, r, n) ==
    LET len     == Len(s.running)
        Ending(k) == SubSeq(s.running, len - k + 1, len)
        room(k) == n <= FreeBlocks(s) + SumFunctionOnSet(s.held, ToSet(Ending(k)))
        place   == CHOOSE i \in 1..len : s.running[i] = r
        enough  == {k \in 0..(len - place) : room(k)}
        k       == IF enough = {} THEN len - place + 1
                   ELSE CHOOSE i \in enough : \A j \in enough : i <= j
        victims == Ending(k)
        after   == [s EXCEPT !.running = SubSeq(@, 1, len - k),
                             !.held = [q \in Requests |->
                                         IF q \in ToSet(victims) THEN 0 ELSE @[q]],
                             !.preempted = victims \o @]
    IN  IF enough = {} THEN Stopped(after) ELSE Give(after, r, n)

(* The hybrid scheduler's turn of the running r, which asserts that r needs   *)
(* one token.                                                                 *)
DecodeTurn(s, r) ==
    LET n == Chunk(total[r] - computed[r])
    IN  IF s.stop \/ s.budget = 0 \/ r \notin ToSet(s.running) THEN s
        ELSE IF n # 1 THEN [Stopped(s) EXCEPT !.failed = TRUE]
        ELSE Grow(s, r, 1)

(* The end of schedule(): num_computed_tokens advance, queues and statuses    *)
(* are those of the loops, and the batch goes to the workers.                 *)
Finish(s, queue) ==
    /\ crashed' = s.failed
    /\ waiting' = s.preempted \o Without(queue, DOMAIN s.batch \cup s.ignored)
    /\ running' = s.running
    /\ held' = s.held
    /\ computed' = [r \in Requests |->
                      IF r \in ToSet(s.preempted) THEN 0
                      ELSE IF r \in DOMAIN s.batch THEN computed[r] + s.batch[r]
                      ELSE computed[r]]
    /\ status' = [r \in Requests |->
                    CASE r \in DOMAIN s.batch      -> "running"
                      [] r \in ToSet(s.preempted)  -> "preempted"
                      [] r \in s.ignored           -> "ignored"
                      [] OTHER                     -> status[r]]
    /\ flight' = IF s.batch = NoTokens THEN flight ELSE Append(flight, s.batch)

(* The turn of the running r, and that of the waiting r, in the scheduler of  *)
(* vLLM and in the copy of it that sorts by length, which takes what it has   *)
(* picked, of the running requests only when it mixes.                        *)
RunningTurn(s, r, picked) ==
    LET left == Chunk(total[r] - computed[r])
        n    == IF left < s.budget THEN left ELSE s.budget
    IN  IF setup.policy = "mixed" /\ r \notin picked THEN Stopped(s)
        ELSE IF s.stop \/ n = 0 \/ r \notin ToSet(s.running) THEN s
        ELSE Grow(s, r, n)

WaitingTurn(s, r, picked) ==
    IF r \notin picked \/ Full(s) \/ Chunk(total[r]) > s.budget THEN Stopped(s)
    ELSE Admit(s, r)

Turn(loop, picked, s, r) ==
    CASE loop = "prefill" -> PrefillTurn(s, r)
      [] loop = "decode"  -> DecodeTurn(s, r)
      [] loop = "running" -> RunningTurn(s, r, picked)
      [] loop = "waiting" -> WaitingTurn(s, r, picked)

(* A loop over a queue.  (The sets of one element make TLC evaluate the state *)
(* of the loop once in each turn.)                                            *)
Loop(loop, picked, start, queue) ==
    FoldLeft(LAMBDA s, r : CHOOSE t \in {Turn(loop, picked, u, r) : u \in {s}} : TRUE,
             start, queue)

(* Prefills first; decodes only if no batch is under way.                     *)
HybridSchedule ==
    LET prefills == Loop("prefill", {}, Start(MaxTokens), waiting)
        decodes  == Loop("decode", {}, [prefills EXCEPT !.stop = FALSE], running)
    IN  /\ setup.policy = "hybrid"
        /\ \E step \in {IF scheduled \cup DOMAIN prefills.batch = {} THEN decodes
                       ELSE prefills} :
              /\ Finish(step, waiting)
              /\ scheduled' = scheduled \cup DOMAIN step.batch

(* The length a request is sorted by.                                         *)
Length ==
    [r \in Requests |->
       IF status[r] = "running" THEN total[r] - computed[r] ELSE Prompt[r]]

(* seq by rising key, in its own order where keys are equal: the n-th is what *)
(* n - 1 come before.                                                         *)
SortedBy(key, seq) ==
    LET before(i) == {j \in DOMAIN seq : \/ key[seq[j]] < key[seq[i]]
                                         \/ key[seq[j]] = key[seq[i]] /\ j < i}
    IN  [n \in DOMAIN seq |->
           seq[CHOOSE i \in DOMAIN seq : Cardinality(before(i)) = n - 1]]

(* Picks the waiting requests to batch, shortest first; the loop ends at the  *)
(* first that exceeds the budget, or is long for its place in the batch.      *)
PickTurn(p, r) ==
    LET n == Length[r]
    IN  IF p.stop \/ MaxTokens - p.tokens < n \/ 4 * Cardinality(p.picked) * n > MaxTokens
        THEN Stopped(p)
        ELSE [p EXCEPT !.picked = @ \cup {r}, !.tokens = @ + n]

(* pre_scheduled: the shortest request alone if it is running, else a batch   *)
(* of waiting ones.                                                           *)
PreScheduled(sorted) ==
    IF sorted # <<>> /\ status[Head(sorted)] = "running" THEN {Head(sorted)}
    ELSE FoldLeft(LAMBDA p, r : CHOOSE t \in {PickTurn(u, r) : u \in {p}} : TRUE,
                  [picked |-> {}, tokens |-> 0, stop |-> FALSE],
                  Keep(sorted, {r \in Requests : status[r] # "running"})).picked

(* Without mix_schedule the running list is emptied.                          *)
SortedSchedule ==
    LET sorted == SortedBy(Length, IF setup.policy = "mixed" THEN running \o waiting
                                   ELSE waiting)
        picked == PreScheduled(sorted)
        queue  == Keep(sorted, {r \in Requests : status[r] # "running"})
        list   == Keep(sorted, {r \in Requests : status[r] = "running"})
    IN  /\ setup.policy \in {"sorted", "mixed"}
        /\ \E first \in {Loop("running", picked,
                              [Start(MaxTokens) EXCEPT !.running = list], list)} :
              IF first.preempted # <<>> THEN Finish(first, waiting)
              ELSE \E second \in {Loop("waiting", picked, [first EXCEPT !.stop = FALSE],
                                       queue)} :
                      Finish(second, queue)
        /\ UNCHANGED scheduled

(* _compute_upper_bound and _accumulate_until_bound: what the queue allows a  *)
(* step to compute, or what takes it past that.                               *)
Sqrt(n) == CHOOSE k \in 0..n : k * k <= n /\ (k + 1) * (k + 1) > n

UpperBound ==
    LET tokens == SumFunctionOnSet(Prompt, ToSet(waiting))
        bound  == (9 * Sqrt(TfasAdjust * tokens)) \div 10
    IN  IF bound > TfasBudget THEN bound ELSE TfasBudget

UntilBound(queue, bound) ==
    LET sum(n)  == SumFunctionOnSet(total, ToSet(SubSeq(queue, 1, n)))
        past    == {n \in DOMAIN queue : sum(n) > bound}
    IN  IF past = {} THEN bound
        ELSE sum(CHOOSE n \in past : \A m \in past : n <= m) + 1

WrongTimeDecay == [r \in Requests |-> IF r \in old THEN MaxTokens ELSE Prompt[r]]

(* _length_sort_time_decay                                                    *)
TimeDecay == [r \in Requests |-> IF r \in old THEN 0 ELSE Prompt[r]]

(* vLLM's scheduler, running requests first, on the sorted queue.             *)
TfasSchedule ==
    LET queue == SortedBy(TimeDecay, waiting)
        bound == UntilBound(queue, UpperBound)
    IN  /\ setup.policy = "tfas"
        /\ \E first \in {Loop("running", Requests,
                              Start(IF bound < MaxTokens THEN bound ELSE MaxTokens),
                              running)} :
              IF first.preempted # <<>> THEN Finish(first, queue)
              ELSE \E second \in {Loop("waiting", Requests, [first EXCEPT !.stop = FALSE],
                                       queue)} :
                      Finish(second, queue)
        /\ UNCHANGED scheduled

Schedule ==
    /\ ~crashed /\ Len(flight) < setup.depth
    /\ waiting \o running # <<>>
    /\ HybridSchedule \/ SortedSchedule \/ TfasSchedule
    /\ UNCHANGED <<setup, total, old>>

----------------------------------------------------------------------------
(* Does not take the batch out of scheduled_req_ids.                          *)
WrongTaken(batch) == scheduled

(* Takes every batch out of it.                                               *)
WrongTakenAll(batch) == {}

Taken(batch) == scheduled \ (DOMAIN batch \cap ToSet(running))

(* update_from_output of the oldest batch: a request whose tokens are all     *)
(* computed gets the next, and is freed after its last.  Removing from        *)
(* scheduled_req_ids what is not there raises.                                *)
UpdateFromOutput ==
    LET batch == Head(flight)
        Grown == {r \in DOMAIN batch \cap ToSet(running) : computed[r] = total[r]}
        Ended == {r \in Grown : total[r] + 1 = Prompt[r] + setup.maxNew[r]}
    IN  /\ ~crashed /\ flight # <<>>
        /\ flight' = Tail(flight)
        /\ total' = [r \in Requests |-> IF r \in Grown THEN total[r] + 1 ELSE total[r]]
        /\ status' = [r \in Requests |-> IF r \in Ended THEN "finished" ELSE status[r]]
        /\ held' = [r \in Requests |-> IF r \in Ended THEN 0 ELSE held[r]]
        /\ running' = Without(running, Ended)
        /\ scheduled' = Taken(batch)
        /\ crashed' = (/\ setup.policy = "hybrid"
                       /\ ~(DOMAIN batch \cap ToSet(running) \subseteq scheduled))
        /\ UNCHANGED <<setup, computed, old, waiting>>

(* Leaves the request in the waiting queue.                                   *)
WrongFinishRequest(r) ==
    /\ ~crashed /\ status[r] \in {"waiting", "preempted", "running", "ignored"}
    /\ status' = [status EXCEPT ![r] = "finished"]
    /\ held' = [held EXCEPT ![r] = 0]
    /\ running' = Without(running, {r})
    /\ scheduled' = scheduled \ {r}
    /\ UNCHANGED <<setup, total, computed, old, flight, waiting, crashed>>

(* finish_requests: the client has left.  A request that is not running is    *)
(* taken from the waiting queue, which raises when it is not there either.    *)
FinishRequest(r) ==
    /\ ~crashed /\ status[r] \in {"waiting", "preempted", "running", "ignored"}
    /\ crashed' = (status[r] # "running" /\ r \notin ToSet(waiting))
    /\ IF crashed' THEN UNCHANGED <<rvars, waiting, running, scheduled>>
       ELSE /\ status' = [status EXCEPT ![r] = "finished"]
            /\ held' = [held EXCEPT ![r] = 0]
            /\ running' = Without(running, {r})
            /\ waiting' = Without(waiting, {r})
            /\ scheduled' = scheduled \ {r}
            /\ UNCHANGED <<total, computed>>
    /\ UNCHANGED <<setup, old, flight>>

Next ==
    \/ \E r \in Requests : AddRequest(r) \/ GrowOld(r) \/ FinishRequest(r)
    \/ Schedule \/ UpdateFromOutput

Spec == Init /\ [][Next]_vars

(* The engine's loop runs, and the workers return their batches.              *)
FairSpec == Spec /\ WF_vars(Schedule) /\ WF_vars(UpdateFromOutput)

----------------------------------------------------------------------------
(* Properties *)

(* A request that is not over is in exactly one queue, once, and its status   *)
(* says in which: whatever is preempted, skipped, sorted or aborted, no       *)
(* request is lost or scheduled twice.                                        *)
NoneLost ==
    /\ \A r \in Requests :
          /\ status[r] \in {"waiting", "preempted"} <=> r \in ToSet(waiting)
          /\ status[r] = "running" <=> r \in ToSet(running)
    /\ Len(waiting \o running) = Cardinality(ToSet(waiting \o running))

(* The running requests hold a block for every token computed, what does not  *)
(* run holds none, and there are never more than there are.                   *)
BlocksAccounted ==
    /\ \A r \in Requests : held[r] = IF status[r] = "running" THEN computed[r] ELSE 0
    /\ SumFunction(held) <= setup.blocks

(* Under TFAS no request that has not waited that long is started while one   *)
(* that has stays in the queue.                                               *)
OldGoFirst ==
    [][setup.policy = "tfas" /\ Schedule =>
          \A r \in ToSet(running') \ (ToSet(running) \cup old) :
             old \cap ToSet(waiting) \cap ToSet(waiting') = {}]_vars

(* No assertion of the scheduler fails and no exception ends the engine: what *)
(* is decoded needs one token, what an output takes from scheduled_req_ids is *)
(* in it, and what is aborted is in the queue its status says.                *)
NeverCrashes == ~crashed

(* Every request that comes is finished.                                      *)
EveryRequestEnds ==
    \A r \in Requests : status[r] = "waiting" ~> status[r] = "finished"
=============================================================================
