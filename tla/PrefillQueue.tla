---------------------------- MODULE PrefillQueue ----------------------------
(***************************************************************************)
(* The shared group of requests that wait for a prefill endpoint, and the  *)
(* scheduling pass over it: the array of omni_req_group_t, entry by entry. *)
(*                                                                         *)
(* OmniProxy takes a group as a set and lets a pass visit EveryOther       *)
(* element of it.  Here is the array, the weights it is sorted by, and the *)
(* loop that removes and compacts what it walks over; the theorem is that  *)
(* it visits every other entry, the question which request waits for ever. *)
(* The group holds no free entry below its watermark whenever somebody     *)
(* looks (every removal compacts), so it is a sequence; qsort is unstable. *)
(* Between two steps of a pass shmtx is held: nobody else changes it.      *)
(* The names that RequestPool has too begin with Queue here: the proofs    *)
(* about both structures are in one module.                                *)
(***************************************************************************)
EXTENDS Integers, Sequences, FiniteSetsExt, Functions

CONSTANTS
    Requests,   \* the slots that may wait here
    Sizes,      \* prompt_num_tokens of a request, in some unit
    MinWait,    \* the floor of max_wait_time, in passes (50 ms in the code)
    MaxAge      \* waiting times are told apart up to this bound, in passes

ASSUME QueueAssumption ==
    /\ Sizes \subseteq Nat \ {0} /\ Sizes # {}
    /\ MinWait \in Nat \ {0} /\ MaxAge \in Nat

VARIABLES
    queue,      \* g_state->groups[PHASE_PREFILL_WAITING_SCHEDULE]
    tokens,     \* req->metrics.prompt_num_tokens
    age,        \* how long each request has waited
    passing,    \* a scheduling pass is running
    i,          \* its loop index
    start,      \* the requests that waited when it began
    chosen      \* the entries it has scheduled

queueVars == <<queue, tokens, age, passing, i, start, chosen>>

Waiting == {queue[k].slot : k \in DOMAIN queue}

Entry(s, weight) == [slot |-> s, weight |-> weight]

(* Wrong variant: increasing weight.                                       *)
Ascending(entries) ==
    {g \in [1 .. Cardinality(entries) -> entries] :
        /\ IsInjective(g)
        /\ \A k, l \in DOMAIN g : k < l => g[k].weight <= g[l].weight}

(* omni_sort_compact_group: an array of these entries, by decreasing       *)
(* weight and with no gap.                                                 *)
Sorted(entries) ==
    {g \in [1 .. Cardinality(entries) -> entries] :
        /\ IsInjective(g)
        /\ \A k, l \in DOMAIN g : k < l => g[k].weight >= g[l].weight}

(* omni_remove_req_from_group_by_req_index.                                *)
Without(group, s) == Sorted({entry \in Range(group) : entry.slot # s})

Largest(f) == CHOOSE n \in {f[s] : s \in Waiting} : \A s \in Waiting : f[s] <= n

(* update_prefill_weights: 0.8 * (max - tokens) / max + 0.2 * age / oldest,*)
(* times 10 * max * oldest.                                                *)
Weight(s) ==
    LET max == Largest(tokens)
        oldest == IF Largest(age) < MinWait THEN MinWait ELSE Largest(age)
    IN  8 * (max - tokens[s]) * oldest + 2 * age[s] * max

Weighed(group) == {Entry(entry.slot, Weight(entry.slot)) : entry \in Range(group)}

QueueInit ==
    /\ queue = <<>> /\ passing = FALSE /\ i = 1
    /\ tokens = [s \in Requests |-> CHOOSE n \in Sizes : TRUE]
    /\ age = [s \in Requests |-> 0]
    /\ start = {} /\ chosen = {}

(* A tokenized request queues up; tokenizing it has taken some time.       *)
Arrive(s) ==
    /\ ~ passing /\ s \notin Waiting
    /\ queue' = Append(queue, Entry(s, 0))
    /\ tokens' \in {[tokens EXCEPT ![s] = n] : n \in Sizes}
    /\ age' = [age EXCEPT ![s] = 0]
    /\ UNCHANGED <<passing, i, start, chosen>>

(* The connection of a waiting request is closed.                          *)
Leave(s) ==
    /\ ~ passing /\ s \in Waiting
    /\ queue' \in Without(queue, s)
    /\ UNCHANGED <<tokens, age, passing, i, start, chosen>>

(* omni_proxy_schedule_prefill: weights and order first, ...               *)
PassBegin ==
    /\ ~ passing /\ queue # <<>>
    /\ queue' \in Sorted(Weighed(queue))
    /\ passing' = TRUE /\ start' = Waiting
    /\ UNCHANGED <<tokens, age, i, chosen>>

(* Wrong variant: the index stays where the entry was removed.             *)
PassVisitInPlace ==
    /\ passing /\ i <= Len(queue)
    /\ chosen' = chosen \cup {queue[i]}
    /\ queue' \in Without(queue, queue[i].slot)
    /\ UNCHANGED <<tokens, age, passing, start, i>>

(* ... then the loop over the array, which each round makes shorter.       *)
PassVisit ==
    /\ passing /\ i <= Len(queue)
    /\ chosen' = chosen \cup {queue[i]}
    /\ queue' \in Without(queue, queue[i].slot)
    /\ i' = i + 1
    /\ UNCHANGED <<tokens, age, passing, start>>

(* Wrong variant: the index is not reset.                                  *)
PassEndKeepsIndex ==
    /\ passing /\ i > Len(queue)
    /\ passing' = FALSE /\ start' = {} /\ chosen' = {}
    /\ UNCHANGED <<queue, tokens, age, i>>

PassEnd ==
    /\ passing /\ i > Len(queue)
    /\ passing' = FALSE /\ i' = 1
    /\ start' = {} /\ chosen' = {}
    /\ age' = [s \in Requests |-> IF s \in Waiting /\ age[s] < MaxAge THEN age[s] + 1 ELSE age[s]]
    /\ UNCHANGED <<queue, tokens>>

Pass == PassBegin \/ PassVisit \/ PassEnd

QueueNext == Pass \/ \E s \in Requests : Arrive(s) \/ Leave(s)

(* The timer of the master worker fires for ever.                          *)
QueueSpec == QueueInit /\ [][QueueNext]_queueVars /\ WF_queueVars(Pass)

----------------------------------------------------------------------------
QueueTypeOK ==
    /\ queue \in Seq([slot : Requests, weight : Nat])
    /\ tokens \in [Requests -> Sizes] /\ age \in [Requests -> 0 .. MaxAge]
    /\ passing \in BOOLEAN /\ i \in Nat
    /\ start \subseteq Requests /\ chosen \subseteq [slot : Requests, weight : Nat]

(* omni_proxy_schedule_prefill removes what it walks over: a pass assigns  *)
(* half of what waits, rounded up, and never a request twice; this is what *)
(* EveryOther of OmniProxy stands for.                                     *)
PassTakesHalf ==
    LET slots == {c.slot : c \in chosen} IN
    /\ Cardinality(Waiting) = Len(queue)
    /\ passing => start = slots \cup Waiting /\ slots \cap Waiting = {}
    /\ passing /\ i > Len(queue) =>
        2 * Cardinality(slots) \in {Cardinality(start), Cardinality(start) + 1}

(* The order of the weights is respected two by two: the k-th request that *)
(* a pass leaves behind has seen at least k requests, none of them lighter *)
(* than itself, assigned in it.  In particular the heaviest never waits.   *)
OvertakenByHeavier ==
    passing /\ i > Len(queue) => \A k \in DOMAIN queue :
        Cardinality({c \in chosen : c.weight >= queue[k].weight}) >= k

(* When no more requests arrive the queue drains.                          *)
DrainsWhenQuiet ==
    <>[][~ \E s \in Requests : Arrive(s)]_queueVars =>
        \A s \in Requests : s \in Waiting ~> s \notin Waiting

(* README_CN.md: a threshold makes sure that a request with a large prompt *)
(* is scheduled once it has waited too long.                               *)
NoStarvation == \A s \in Requests : s \in Waiting ~> s \notin Waiting
=============================================================================
