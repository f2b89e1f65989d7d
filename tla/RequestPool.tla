---------------------------- MODULE RequestPool ----------------------------
(***************************************************************************)
(* The request pool of Omni Proxy, in shared memory: a bitmap of the slots *)
(* in use, kept in machine words, their number, and the slot at which the  *)
(* next search begins.  OmniProxy takes it as a set of slots; here it is   *)
(* the code of omni_utils.c, load by load and store by store.              *)
(*                                                                         *)
(* omni_req_init calls omni_allocate_request under g_state->shmtx.         *)
(* omni_req_free calls omni_free_request without it, and its updates are   *)
(* plain C read-modify-writes.  The compiler may or may not reload what it *)
(* has loaded before: Reload allows both.                                  *)
(***************************************************************************)
EXTENDS Integers, FiniteSets

CONSTANTS
    Workers,        \* the nginx worker processes
    NumWords,       \* the words of in_use_bitmap
    WordBits        \* the bits of a word (64)

ASSUME PoolAssumption == NumWords \in Nat \ {0} /\ WordBits \in Nat \ {0}

Total   == NumWords * WordBits      \* MAX_REQUEST_SLOTS
Slots   == 0 .. Total - 1
Offsets == 0 .. WordBits - 1
Words   == 0 .. NumWords - 1

WordOf(i)   == i \div WordBits
OffsetOf(i) == i % WordBits

VARIABLES
    bitmap,         \* pool->in_use_bitmap: the offsets set in each word
    num,            \* pool->num_requests
    head,           \* pool->head
    pc,             \* where each worker stands in its call, "out" outside one
    idx,            \* the slot that call looks at
    checked,        \* how many slots an allocation has passed
    bits,           \* the word it loaded last
    count,          \* the num_requests it loaded last
    held,           \* the slots whose allocation returned to each worker
    refused         \* the workers whose last allocation returned NULL

pool == <<bitmap, num, head>>
regs == <<idx, checked, bits, count>>
vars == <<pool, pc, regs, held, refused>>

(* Allocations exclude each other; nothing excludes a free.                *)
LockFree == \A w \in Workers : pc[w] \notin {"scan", "mark", "counted"}

Minimum(a, b) == IF a < b THEN a ELSE b

(* What a read-modify-write of shared memory starts from: the value there  *)
(* now, or the one in the register.                                        *)
Reload(memory, register) == {memory, register}

(* Wrong variant: off by one.                                              *)
PoolFullEarly == num >= Total - 1

(* omni_allocate_request refuses at once when it counts as many slots.     *)
PoolFull == num >= Total

(* Wrong variant: no wrap.                                                 *)
AfterUnwrapped(i) == i + 1

(* The slot after slot i.                                                  *)
After(i) == (i + 1) % Total

Init ==
    /\ bitmap = [k \in Words |-> {}] /\ num = 0 /\ head = 0
    /\ pc = [w \in Workers |-> "out"]
    /\ idx = [w \in Workers |-> 0]
    /\ checked = [w \in Workers |-> 0]
    /\ bits = [w \in Workers |-> {}]
    /\ count = [w \in Workers |-> 0]
    /\ held = [w \in Workers |-> {}]
    /\ refused = {}

----------------------------------------------------------------------------
(* omni_allocate_request.                                                  *)
AllocFull(w) ==
    /\ pc[w] = "out" /\ LockFree /\ PoolFull
    /\ refused' = refused \cup {w}
    /\ UNCHANGED <<pool, pc, regs, held>>

AllocStart(w) ==
    /\ pc[w] = "out" /\ LockFree /\ ~ PoolFull
    /\ pc' = [pc EXCEPT ![w] = "scan"]
    /\ idx' = [idx EXCEPT ![w] = head]
    /\ checked' = [checked EXCEPT ![w] = 0]
    /\ UNCHANGED <<pool, bits, count, held, refused>>

(* Wrong variant: skips a whole word from any offset.                      *)
SkipAWord(i, passed, word) ==
    IF word = Offsets THEN Minimum(WordBits, Total - passed) ELSE 1

(* How far one round of the search moves on when it does not end there: to *)
(* the next word past a full one, never past the end of the search.        *)
SkipFrom(i, passed, word) ==
    IF word = Offsets THEN Minimum(WordBits - OffsetOf(i), Total - passed) ELSE 1

Scan(w) ==
    LET word == bitmap[WordOf(idx[w])] IN
    /\ pc[w] = "scan" /\ checked[w] < Total
    /\ bits' = [bits EXCEPT ![w] = word]
    /\ IF OffsetOf(idx[w]) \notin word
       THEN pc' = [pc EXCEPT ![w] = "mark"] /\ UNCHANGED <<idx, checked>>
       ELSE LET skip == SkipFrom(idx[w], checked[w], word) IN
            /\ idx' = [idx EXCEPT ![w] = (@ + skip) % Total]
            /\ checked' = [checked EXCEPT ![w] = @ + skip]
            /\ UNCHANGED pc
    /\ UNCHANGED <<pool, count, held, refused>>

AllocMark(w) ==
    /\ pc[w] = "mark"
    /\ \E word \in Reload(bitmap[WordOf(idx[w])], bits[w]) :
        bitmap' = [bitmap EXCEPT ![WordOf(idx[w])] = word \cup {OffsetOf(idx[w])}]
    /\ count' = [count EXCEPT ![w] = num]
    /\ pc' = [pc EXCEPT ![w] = "counted"]
    /\ UNCHANGED <<num, head, idx, checked, bits, held, refused>>

AllocReturn(w) ==
    /\ pc[w] = "counted"
    /\ \E n \in Reload(num, count[w]) : num' = n + 1
    /\ head' = After(idx[w])
    /\ held' = [held EXCEPT ![w] = @ \cup {idx[w]}]
    /\ refused' = refused \ {w}
    /\ pc' = [pc EXCEPT ![w] = "out"]
    /\ UNCHANGED <<bitmap, regs>>

----------------------------------------------------------------------------
(* omni_free_request.                                                      *)
FreeStart(w) ==
    /\ pc[w] = "out"
    /\ \E s \in held[w] :
        /\ idx' = [idx EXCEPT ![w] = s]
        /\ bits' = [bits EXCEPT ![w] = bitmap[WordOf(s)]]
    /\ pc' = [pc EXCEPT ![w] = "clear"]
    /\ UNCHANGED <<pool, checked, count, held, refused>>

FreeClear(w) ==
    /\ pc[w] = "clear" /\ OffsetOf(idx[w]) \in bits[w]
    /\ \E word \in Reload(bitmap[WordOf(idx[w])], bits[w]) :
        bitmap' = [bitmap EXCEPT ![WordOf(idx[w])] = word \ {OffsetOf(idx[w])}]
    /\ count' = [count EXCEPT ![w] = num]
    /\ pc' = [pc EXCEPT ![w] = "cleared"]
    /\ UNCHANGED <<num, head, idx, checked, bits, held, refused>>

(* Wrong variant: num_requests is not decremented.                         *)
FreeReturnUncounted(w) ==
    /\ pc[w] = "cleared"
    /\ held' = [held EXCEPT ![w] = @ \ {idx[w]}]
    /\ pc' = [pc EXCEPT ![w] = "out"]
    /\ UNCHANGED <<pool, regs, refused>>

FreeReturn(w) ==
    /\ pc[w] = "cleared"
    /\ \E n \in Reload(num, count[w]) : num' = n - 1
    /\ held' = [held EXCEPT ![w] = @ \ {idx[w]}]
    /\ pc' = [pc EXCEPT ![w] = "out"]
    /\ UNCHANGED <<bitmap, head, regs, refused>>

----------------------------------------------------------------------------
Next == \E w \in Workers :
    \/ AllocFull(w) \/ AllocStart(w) \/ Scan(w) \/ AllocMark(w) \/ AllocReturn(w)
    \/ FreeStart(w) \/ FreeClear(w) \/ FreeReturn(w)

Spec == Init /\ [][Next]_vars

----------------------------------------------------------------------------
TypeOK ==
    /\ bitmap \in [Words -> SUBSET Offsets] /\ num \in Int /\ head \in Slots
    /\ pc \in [Workers -> {"out", "scan", "mark", "counted", "clear", "cleared"}]
    /\ idx \in [Workers -> Slots]
    /\ checked \in [Workers -> 0 .. Total]
    /\ bits \in [Workers -> SUBSET Offsets] /\ count \in [Workers -> Int]
    /\ held \in [Workers -> SUBSET Slots] /\ refused \subseteq Workers

IsSet(s) == OffsetOf(s) \in bitmap[WordOf(s)]

(* The comment on the last return of omni_allocate_request: the search     *)
(* never passes every slot without finding a free one, wherever it starts, *)
(* however full words are skipped and wherever it wraps.                   *)
SearchFinds == \A w \in Workers : pc[w] = "scan" => checked[w] < Total

(* The assertion of omni_free_request: the bit of a slot that is being     *)
(* freed is still set.                                                     *)
FreedWasInUse == \A w \in Workers : pc[w] = "clear" => OffsetOf(idx[w]) \in bits[w]

(* Between two calls the bitmap and the counter say the same.              *)
CounterMatchesBitmap == (\A w \in Workers : pc[w] = "out") =>
    num = Cardinality({s \in Slots : IsSet(s)})

Promise == INSTANCE SlotPool

(* The word-wise search, the bitmap and the counter behave like a set of   *)
(* slots: an allocation fails exactly when every slot is held.             *)
ImplementsSlotPool == Promise!Spec
=============================================================================
