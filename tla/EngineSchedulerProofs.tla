------------------------ MODULE EngineSchedulerProofs ------------------------
(* What EngineScheduler guarantees for any requests, any sizes of the cache,  *)
(* the batches and the running list, and any setups.                          *)
EXTENDS EngineScheduler, DataFacts

(* A batch: the tokens of each request in it.                                 *)
BatchesOf(N) == UNION {[D -> N] : D \in SUBSET Requests}
Given(b, r) == IF r \in DOMAIN b THEN b[r] ELSE 0

(* Prompts are computed in one piece, where the hybrid scheduler takes them,  *)
(* and do not exceed its limit, with all that is generated: what it decodes   *)
(* needs one token.                                                           *)
PromptsFit(s) ==
    s.policy = "hybrid" =>
       \A r \in Requests : /\ Prompt[r] + s.maxNew[r] <= s.limit + 1
                           /\ s.threshold = 0 \/ Prompt[r] + s.maxNew[r] <= s.threshold + 1

(* The sorting scheduler without mixing is used as on a prefill instance: one *)
(* batch at a time, each prompt in one piece, one token for each.             *)
PrefillsOnly(s) ==
    s.policy = "sorted" =>
       /\ s.depth = 1
       /\ \A r \in Requests : /\ s.maxNew[r] = 1
                              /\ s.threshold = 0 \/ Prompt[r] <= s.threshold + Slack

Typing ==
    /\ TypeOK
    /\ held \in [Requests -> Nat]
    /\ flight \in Seq(BatchesOf(Nat))

(* The queues hold a request once, and what is in them has its status.        *)
Queued ==
    /\ IsInjective(waiting) /\ IsInjective(running)
    /\ \A r \in Requests : status[r] \in {"waiting", "preempted"} <=> r \in ToSet(waiting)
    /\ \A r \in ToSet(running) : status[r] = "running"

(* What waits has nothing computed, and what is not over has tokens to come.  *)
Counted ==
    /\ \A r \in Requests : status[r] # "finished" => total[r] < Prompt[r] + setup.maxNew[r]
    /\ \A r \in Requests : status[r] \notin {"running", "finished"} => computed[r] = 0

SInv == Typing /\ Queued /\ Counted /\ BlocksAccounted

(* What runs is in the list: of the sorting scheduler without mixing only if  *)
(* it is used as above, because then nothing runs when it schedules.          *)
Flying == UNION {DOMAIN flight[i] : i \in DOMAIN flight}

Apart(S) == \A i, j \in DOMAIN flight :
               i # j => DOMAIN flight[i] \cap DOMAIN flight[j] \cap S = {}

KeptInv ==
    PrefillsOnly(setup) =>
       /\ \A r \in Requests : status[r] = "running" => r \in ToSet(running)
       /\ setup.policy = "sorted" =>
             \A r \in ToSet(running) : r \in Flying /\ computed[r] = total[r]

(* The hybrid scheduler: what runs is in one batch under way at most, and     *)
(* then in scheduled_req_ids with all its tokens computed; else one is to be  *)
(* computed.                                                                  *)
HybridInv ==
    setup.policy = "hybrid" /\ PromptsFit(setup) =>
       /\ Flying \cap ToSet(running) \subseteq scheduled
       /\ Apart(ToSet(running))
       /\ \A r \in Flying : status[r] \in {"running", "finished"}
       /\ \A r \in ToSet(running) :
             computed[r] = IF r \in Flying THEN total[r] ELSE total[r] - 1

NoCrashInv == PromptsFit(setup) => ~crashed /\ \A r \in Requests : status[r] # "ignored"

IInv == SInv /\ KeptInv /\ HybridInv /\ NoCrashInv

----------------------------------------------------------------------------
(* What the operators on queues return. *)

(* Keep leaves the members that are in the set, each once.                    *)
LEMMA KeepIs ==
    ASSUME NEW seq \in Seq(Requests), IsInjective(seq), NEW S
    PROVE  /\ Keep(seq, S) \in Seq(Requests) /\ IsInjective(Keep(seq, S))
           /\ ToSet(Keep(seq, S)) = ToSet(seq) \cap S
           /\ Len(Keep(seq, S)) <= Len(seq)
<1> DEFINE kept == {i \in DOMAIN seq : seq[i] \in S}
           upTo(i) == {j \in kept : j <= i}
           m == Cardinality(kept)
           At(n) == CHOOSE i \in kept : Cardinality(upTo(i)) = n
           out == [n \in 1..m |-> seq[At(n)]]
<1>1. Len(seq) \in Nat /\ DOMAIN seq = 1..Len(seq) /\ \A i \in 1..Len(seq) : seq[i] \in Requests
  BY LenProperties, ElementOfSeq
<1>2. IsFiniteSet(DOMAIN seq) /\ Cardinality(DOMAIN seq) = Len(seq)
  <2>1. /\ IsFiniteSet(1..Len(seq))
        /\ Cardinality(1..Len(seq)) = IF 1 > Len(seq) THEN 0 ELSE Len(seq) - 1 + 1
    BY <1>1, FS_Interval
  <2> QED BY <1>1, <2>1
<1>3. kept \in SUBSET Nat /\ kept \in SUBSET (DOMAIN seq)
  BY <1>1
<1>4. IsFiniteSet(kept) /\ m <= Len(seq) /\ m \in Nat
  BY <1>2, <1>3, FS_Subset, FS_CardinalityType
<1> HIDE DEF kept
<1>5. /\ \A i \in kept : Cardinality(upTo(i)) \in 1..m
      /\ \A k \in 1..m : \E i \in kept : Cardinality(upTo(i)) = k
  BY <1>3, <1>4, RanksOfNumbers
<1> HIDE DEF upTo, m
<1>6. \A k \in 1..m : At(k) \in kept /\ Cardinality(upTo(At(k))) = k
  BY <1>5
<1>7. \A i \in kept : i \in 1..Len(seq) /\ seq[i] \in S /\ seq[i] \in Requests
  BY <1>1 DEF kept
<1> HIDE DEF At
<1>8. out \in [1..m -> Requests] /\ DOMAIN out = 1..m
  BY <1>6, <1>7
<1>9. out \in Seq(Requests) /\ Len(out) = m
  <2>1. out \in Seq(Requests)
    BY <1>4, <1>8, SeqDef
  <2>2. DOMAIN out = 1..Len(out) /\ Len(out) \in Nat
    BY <2>1, LenProperties
  <2> HIDE DEF out
  <2> QED BY <1>4, <1>8, <2>1, <2>2
<1>10. \A k \in 1..m : out[k] = seq[At(k)]
  OBVIOUS
<1> HIDE DEF out
<1>11. IsInjective(out)
  <2> SUFFICES ASSUME NEW j \in 1..m, NEW k \in 1..m, out[j] = out[k]
               PROVE  j = k
    BY <1>8 DEF IsInjective
  <2>1. seq[At(j)] = seq[At(k)] /\ At(j) \in DOMAIN seq /\ At(k) \in DOMAIN seq
    BY <1>1, <1>6, <1>7, <1>10
  <2>2. At(j) = At(k)
    BY <2>1 DEF IsInjective
  <2> QED BY <1>6, <2>2
<1>12. ToSet(out) \subseteq ToSet(seq) \cap S
  <2> SUFFICES ASSUME NEW k \in 1..m
               PROVE  out[k] \in ToSet(seq) \cap S
    BY <1>8 DEF ToSet
  <2> QED BY <1>1, <1>6, <1>7, <1>10 DEF ToSet
<1>13. ToSet(seq) \cap S \subseteq ToSet(out)
  <2> SUFFICES ASSUME NEW i \in DOMAIN seq, seq[i] \in S
               PROVE  seq[i] \in ToSet(out)
    BY DEF ToSet
  <2>1. i \in kept
    BY DEF kept
  <2> DEFINE k == Cardinality(upTo(i))
  <2>2. k \in 1..m
    BY <1>5, <2>1
  <2>3. At(k) \in kept /\ Cardinality(upTo(At(k))) = k
    BY <1>6, <2>2
  <2>4. At(k) = i
    <3>1. \A a, c \in kept : Cardinality(upTo(a)) = Cardinality(upTo(c)) => a = c
      BY <1>3, <1>4, RanksOfNumbers DEF upTo
    <3> HIDE DEF k
    <3> QED BY <2>1, <2>3, <3>1 DEF k
  <2>5. out[k] = seq[i]
    BY <1>10, <2>2, <2>4
  <2> QED BY <1>8, <2>2, <2>5 DEF ToSet
<1>14. Keep(seq, S) = out
  BY DEF Keep, out, At, m, upTo, kept
<1> QED BY <1>4, <1>9, <1>11, <1>12, <1>13, <1>14

LEMMA WithoutIs ==
    ASSUME NEW seq \in Seq(Requests), IsInjective(seq), NEW S
    PROVE  /\ Without(seq, S) \in Seq(Requests) /\ IsInjective(Without(seq, S))
           /\ ToSet(Without(seq, S)) = ToSet(seq) \ S
           /\ Len(Without(seq, S)) <= Len(seq)
<1>1. ToSet(seq) \subseteq Requests
  BY QueueElements
<1> QED BY <1>1, KeepIs DEF Without

(* Sorting rearranges a queue so that the keys rise.                          *)
LEMMA SortedIs ==
    ASSUME NEW seq \in Seq(Requests), IsInjective(seq),
           NEW key, \A r \in Requests : key[r] \in Int
    PROVE  /\ SortedBy(key, seq) \in Seq(Requests) /\ IsInjective(SortedBy(key, seq))
           /\ ToSet(SortedBy(key, seq)) = ToSet(seq)
           /\ Len(SortedBy(key, seq)) = Len(seq)
           /\ \A m, n \in 1..Len(seq) :
                 m < n => key[SortedBy(key, seq)[m]] <= key[SortedBy(key, seq)[n]]
<1> DEFINE A == DOMAIN seq
           before(i) == {j \in A : (key[seq[j]] < key[seq[i]])
                                   \/ (key[seq[j]] = key[seq[i]] /\ j < i)}
           B == [i \in A |-> before(i)]
           At(n) == CHOOSE i \in A : Cardinality(before(i)) = n - 1
           len == Len(seq)
           out == [n \in A |-> seq[At(n)]]
<1>1. len \in Nat /\ A = 1..len /\ \A i \in A : seq[i] \in Requests
  BY LenProperties, ElementOfSeq
<1>2. IsFiniteSet(A) /\ Cardinality(A) = len
  BY <1>1, FS_Interval
<1>3. \A i \in A : key[seq[i]] \in Int /\ i \in Nat
  BY <1>1
<1> HIDE DEF A, len
<1>4. B \in [A -> SUBSET A] /\ \A i \in A : B[i] = before(i)
  OBVIOUS
<1>5. \A i, j \in A : j \in B[i] <=> (key[seq[j]] < key[seq[i]])
                                      \/ (key[seq[j]] = key[seq[i]] /\ j < i)
  OBVIOUS
<1> HIDE DEF before, B
<1>6. \A a \in A : a \notin B[a] /\ \A c \in B[a] : B[c] \subseteq B[a]
  <2> TAKE a \in A
  <2>1. a \notin B[a]
    BY <1>3, <1>5
  <2>2. ASSUME NEW c \in B[a], NEW d \in B[c]
        PROVE  d \in B[a]
    <3>1. c \in A /\ d \in A
      BY <1>4
    <3> QED BY <1>3, <1>5, <2>2, <3>1
  <2> QED BY <2>1, <2>2
<1>7. \A a, c \in A : a = c \/ a \in B[c] \/ c \in B[a]
  <2> TAKE a, c \in A
  <2>1. key[seq[a]] \in Int /\ key[seq[c]] \in Int /\ a \in Nat /\ c \in Nat
    BY <1>3
  <2>2. \/ key[seq[a]] < key[seq[c]] \/ key[seq[c]] < key[seq[a]] \/ a = c
        \/ key[seq[a]] = key[seq[c]] /\ (a < c \/ c < a)
    BY <2>1
  <2> QED BY <1>5, <2>2
<1>8. /\ \A a \in A : Cardinality(B[a]) \in 0..(len - 1)
      /\ \A a, c \in A : c \in B[a] <=> Cardinality(B[c]) < Cardinality(B[a])
      /\ \A a, c \in A : Cardinality(B[a]) = Cardinality(B[c]) => a = c
      /\ \A k \in 0..(len - 1) : \E a \in A : Cardinality(B[a]) = k
  BY <1>2, <1>4, <1>6, <1>7, RanksOfOrder
<1>9. \A n \in A : At(n) \in A /\ Cardinality(B[At(n)]) = n - 1
  <2> TAKE n \in A
  <2>1. n - 1 \in 0..(len - 1)
    BY <1>1
  <2>2. \E i \in A : Cardinality(before(i)) = n - 1
    BY <1>4, <1>8, <2>1
  <2>3. At(n) \in A /\ Cardinality(before(At(n))) = n - 1
    BY <2>2
  <2> HIDE DEF At
  <2> QED BY <1>4, <2>3
<1> HIDE DEF At
<1>10. out \in [A -> Requests] /\ DOMAIN out = A /\ \A n \in A : out[n] = seq[At(n)]
  BY <1>1, <1>9
<1> HIDE DEF out
<1>11. out \in Seq(Requests) /\ Len(out) = len
  <2>1. out \in Seq(Requests)
    BY <1>1, <1>10, SeqDef
  <2>2. DOMAIN out = 1..Len(out) /\ Len(out) \in Nat
    BY <2>1, LenProperties
  <2> QED BY <1>1, <1>10, <2>1, <2>2
<1>12. IsInjective(out)
  <2> SUFFICES ASSUME NEW j \in A, NEW k \in A, out[j] = out[k]
               PROVE  j = k
    BY <1>10 DEF IsInjective
  <2>1. At(j) = At(k)
    <3>1. seq[At(j)] = seq[At(k)] /\ At(j) \in A /\ At(k) \in A
      BY <1>9, <1>10
    <3> QED BY <3>1 DEF IsInjective, A
  <2>2. j - 1 = k - 1
    BY <1>9, <2>1
  <2> QED BY <1>3, <2>2
<1>13. ToSet(out) \subseteq ToSet(seq)
  <2> SUFFICES ASSUME NEW k \in A
               PROVE  out[k] \in ToSet(seq)
    BY <1>10 DEF ToSet
  <2> QED BY <1>9, <1>10 DEF ToSet, A
<1>14. ToSet(seq) \subseteq ToSet(out)
  <2> SUFFICES ASSUME NEW i \in A
               PROVE  seq[i] \in ToSet(out)
    BY DEF ToSet, A
  <2> DEFINE k == Cardinality(B[i]) + 1
  <2>1. k \in A /\ k - 1 = Cardinality(B[i])
    BY <1>1, <1>8
  <2> HIDE DEF k
  <2>2. At(k) = i
    BY <1>8, <1>9, <2>1
  <2> QED BY <1>10, <2>1, <2>2 DEF ToSet
<1>15. \A m, n \in 1..len : m < n => key[out[m]] <= key[out[n]]
  <2> SUFFICES ASSUME NEW m \in A, NEW n \in A, m < n
               PROVE  key[out[m]] <= key[out[n]]
    BY <1>1
  <2>1. Cardinality(B[At(m)]) < Cardinality(B[At(n)]) /\ At(m) \in A /\ At(n) \in A
    BY <1>3, <1>9
  <2>2. At(m) \in B[At(n)]
    BY <1>8, <2>1
  <2>3. key[seq[At(m)]] <= key[seq[At(n)]]
    BY <1>3, <1>5, <2>1, <2>2
  <2> QED BY <1>10, <2>3
<1>16. SortedBy(key, seq) = out
  BY DEF SortedBy, out, At, before, A
<1> QED BY <1>11, <1>12, <1>13, <1>14, <1>15, <1>16 DEF len

----------------------------------------------------------------------------
(* The turns of the loops *)

(* The states of the loops.                                                   *)
LoopStates ==
    [running : Seq(Requests), held : [Requests -> Int], batch : BatchesOf(Int),
     budget : Int, ignored : SUBSET Requests, preempted : Seq(Requests),
     stop : BOOLEAN, failed : BOOLEAN]

(* The first m of the running list stay, the others are preempted.            *)
Cut(s, m) ==
    LET victims == SubSeq(s.running, m + 1, Len(s.running))
    IN  [s EXCEPT !.running = SubSeq(@, 1, m),
                  !.held = [q \in Requests |-> IF q \in ToSet(victims) THEN 0 ELSE @[q]],
                  !.preempted = victims \o @]

(* What the setup and the counts of tokens are.                               *)
Numbers ==
    /\ setup \in Setups /\ IsFiniteSet(Requests)
    /\ setup.policy \in {"hybrid", "sorted", "mixed", "tfas"} /\ setup.depth \in {1, 2}
    /\ setup.blocks \in Nat /\ setup.limit \in Nat /\ setup.threshold \in Nat
    /\ MaxTokens \in Nat \ {0} /\ MaxRunning \in Nat \ {0} /\ Slack \in Nat \ {0}
    /\ TfasBudget \in Nat \ {0} /\ TfasAdjust \in Nat \ {0}
    /\ \A r \in Requests : /\ Prompt[r] \in Nat \ {0} /\ setup.maxNew[r] \in Nat \ {0}
                           /\ total[r] \in Nat /\ computed[r] \in Nat
                           /\ Prompt[r] <= total[r]
                           /\ total[r] <= Prompt[r] + setup.maxNew[r]
                           /\ computed[r] <= total[r]

LEMMA NumbersHold ==
    ASSUME TypeOK
    PROVE  Numbers
<1>1. setup \in Setups /\ IsFiniteSet(Requests)
  BY EngineSchedulerAssumption DEF TypeOK
<1>2. /\ setup.policy \in {"hybrid", "sorted", "mixed", "tfas"} /\ setup.depth \in {1, 2}
      /\ setup.blocks \in Nat /\ setup.limit \in Nat /\ setup.threshold \in Nat
      /\ setup.maxNew \in [Requests -> Nat \ {0}]
  BY <1>1, EngineSchedulerAssumption
<1>3. /\ MaxTokens \in Nat \ {0} /\ MaxRunning \in Nat \ {0} /\ Slack \in Nat \ {0}
      /\ TfasBudget \in Nat \ {0} /\ TfasAdjust \in Nat \ {0}
  BY EngineSchedulerAssumption
<1>4. \A r \in Requests : /\ Prompt[r] \in Nat \ {0} /\ setup.maxNew[r] \in Nat \ {0}
                         /\ total[r] \in Prompt[r]..(Prompt[r] + setup.maxNew[r])
                         /\ computed[r] \in 0..total[r]
  BY <1>2, EngineSchedulerAssumption DEF TypeOK
<1>5. ASSUME NEW r \in Requests
      PROVE  /\ Prompt[r] \in Nat \ {0} /\ setup.maxNew[r] \in Nat \ {0}
             /\ total[r] \in Nat /\ computed[r] \in Nat
             /\ Prompt[r] <= total[r]
             /\ total[r] <= Prompt[r] + setup.maxNew[r]
             /\ computed[r] <= total[r]
  <2>1. /\ Prompt[r] \in Nat \ {0} /\ setup.maxNew[r] \in Nat \ {0}
        /\ total[r] \in Prompt[r]..(Prompt[r] + setup.maxNew[r])
        /\ computed[r] \in 0..total[r]
    BY <1>4
  <2> QED BY <2>1
<1> QED BY <1>1, <1>2, <1>3, <1>5 DEF Numbers

(* A chunk of the tokens to compute.                                          *)
LEMMA ChunkIs ==
    ASSUME Numbers, NEW n \in Nat
    PROVE  Chunk(n) \in 0..n /\ (n > 0 => Chunk(n) > 0)
  BY DEF Chunk, Numbers

(* t is s with n more tokens for r.                                           *)
IsGiven(s, r, n, t) ==
    /\ t \in LoopStates
    /\ \A q \in Requests : t.held[q] = IF q = r THEN s.held[q] + n ELSE s.held[q]
    /\ t.budget = s.budget - n
    /\ DOMAIN t.batch = DOMAIN s.batch \cup {r}
    /\ \A q \in DOMAIN s.batch \cup {r} : t.batch[q] = IF q = r THEN n ELSE s.batch[q]
    /\ t.running = s.running /\ t.preempted = s.preempted
    /\ t.ignored = s.ignored /\ t.stop = s.stop /\ t.failed = s.failed

LEMMA GiveIs ==
    ASSUME NEW s \in LoopStates, NEW r \in Requests, NEW n \in Int
    PROVE  IsGiven(s, r, n, Give(s, r, n))
<1> DEFINE h == [s.held EXCEPT ![r] = @ + n]
           b == [q \in DOMAIN s.batch \cup {r} |-> IF q = r THEN n ELSE s.batch[q]]
           t == [s EXCEPT !.held = h, !.budget = s.budget - n, !.batch = b]
<1>1. s.held \in [Requests -> Int] /\ s.batch \in BatchesOf(Int) /\ s.budget \in Int
  BY DEF LoopStates
<1>2. h \in [Requests -> Int] /\ \A q \in Requests : h[q] = IF q = r THEN s.held[q] + n ELSE s.held[q]
  BY <1>1
<1>3. /\ b \in BatchesOf(Int) /\ DOMAIN b = DOMAIN s.batch \cup {r}
      /\ \A q \in DOMAIN s.batch \cup {r} : b[q] = IF q = r THEN n ELSE s.batch[q]
  <2>1. PICK D \in SUBSET Requests : s.batch \in [D -> Int]
    BY <1>1 DEF BatchesOf
  <2>2. DOMAIN s.batch \cup {r} \in SUBSET Requests /\ b \in [DOMAIN s.batch \cup {r} -> Int]
    BY <2>1
  <2> QED BY <2>2 DEF BatchesOf
<1>4. Give(s, r, n) = t
  BY DEF Give, LoopStates
<1> HIDE DEF h, b
<1>5. t \in LoopStates
  <2>1. h \in [Requests -> Int] /\ b \in BatchesOf(Int) /\ s.budget - n \in Int
    BY <1>1, <1>2, <1>3
  <2> QED BY ONLY s \in LoopStates, <2>1 DEF LoopStates
<1>6. /\ t.running = s.running /\ t.held = h /\ t.budget = s.budget - n /\ t.batch = b
      /\ t.ignored = s.ignored /\ t.preempted = s.preempted /\ t.stop = s.stop
      /\ t.failed = s.failed
  BY DEF LoopStates
<1> HIDE DEF t
<1> QED BY <1>2, <1>3, <1>4, <1>5, <1>6 DEF IsGiven

(* Those of the running list after the first m.                               *)
Victims(s, m) == SubSeq(s.running, m + 1, Len(s.running))

(* t is what Cut makes of s.                                                  *)
IsCut(s, m, t) ==
    /\ t \in LoopStates
    /\ t.running = SubSeq(s.running, 1, m)
    /\ \A q \in Requests : t.held[q] = IF q \in ToSet(Victims(s, m)) THEN 0 ELSE s.held[q]
    /\ t.batch = s.batch /\ t.budget = s.budget /\ t.ignored = s.ignored
    /\ t.preempted = Victims(s, m) \o s.preempted
    /\ t.stop = s.stop /\ t.failed = s.failed

LEMMA CutIs ==
    ASSUME NEW s \in LoopStates, NEW m \in 0..Len(s.running)
    PROVE  IsCut(s, m, Cut(s, m))
<1> DEFINE victims == SubSeq(s.running, m + 1, Len(s.running))
           h == [q \in Requests |-> IF q \in ToSet(victims) THEN 0 ELSE s.held[q]]
           t == [s EXCEPT !.running = SubSeq(s.running, 1, m), !.held = h,
                          !.preempted = victims \o s.preempted]
<1>1. /\ s.held \in [Requests -> Int] /\ s.running \in Seq(Requests)
      /\ s.preempted \in Seq(Requests)
  BY DEF LoopStates
<1>2. SubSeq(s.running, 1, m) \in Seq(Requests) /\ victims \in Seq(Requests)
  BY <1>1, QueueEnd
<1>3. victims \o s.preempted \in Seq(Requests)
  BY <1>1, <1>2, QueueConcat
<1>4. Cut(s, m) = t
  BY DEF Cut, LoopStates
<1>5. h \in [Requests -> Int]
  BY <1>1
<1> HIDE DEF victims, h
<1>6. t \in LoopStates
  BY <1>2, <1>3, <1>5 DEF LoopStates
<1>7. /\ t.running = SubSeq(s.running, 1, m) /\ t.held = h /\ t.budget = s.budget
      /\ t.batch = s.batch /\ t.ignored = s.ignored /\ t.preempted = victims \o s.preempted
      /\ t.stop = s.stop /\ t.failed = s.failed
  BY DEF LoopStates
<1>8. \A q \in Requests : h[q] = IF q \in ToSet(victims) THEN 0 ELSE s.held[q]
  BY DEF h
<1> HIDE DEF t
<1> QED BY <1>4, <1>6, <1>7, <1>8 DEF victims, Victims, IsCut

LEMMA HeldSums ==
    ASSUME Numbers, NEW s \in LoopStates
    PROVE  /\ SumFunction(s.held) = SumFunctionOnSet(s.held, Requests)
           /\ FreeBlocks(s) = setup.blocks - SumFunctionOnSet(s.held, Requests)
           /\ \A A \in SUBSET Requests : SumFunctionOnSet(s.held, A) \in Int
           /\ SumFunctionOnSet(s.held, Requests) \in Int /\ FreeBlocks(s) \in Int
<1>1. IsFiniteSet(Requests) /\ s.held \in [Requests -> Int] /\ setup.blocks \in Int
  BY DEF Numbers, LoopStates
<1>2. \A r \in Requests : s.held[r] \in Int
  BY <1>1
<1>3. \A A \in SUBSET Requests : SumFunctionOnSet(s.held, A) \in Int
  BY ONLY <1>1, <1>2, SumOf
<1>4. SumFunction(s.held) = SumFunctionOnSet(s.held, Requests)
  BY <1>1 DEF SumFunction
<1>5. SumFunctionOnSet(s.held, Requests) \in Int
  BY <1>3
<1>6. FreeBlocks(s) = setup.blocks - SumFunctionOnSet(s.held, Requests)
  BY <1>4 DEF FreeBlocks
<1>7. FreeBlocks(s) \in Int
  BY <1>1, <1>5, <1>6
<1> QED BY <1>3, <1>4, <1>5, <1>6, <1>7

(* Growing cuts the running list where r is or after it, and gives r its      *)
(* tokens only in the second case.                                            *)
Grown(s, r, n, t) ==
    \E p \in 1..Len(s.running), m \in 0..Len(s.running) :
       /\ s.running[p] = r
       /\ \/ m = p - 1 /\ t = Stopped(Cut(s, m))
          \/ /\ p <= m /\ t = Give(Cut(s, m), r, n)
             /\ n <= FreeBlocks(s)
                        + SumFunctionOnSet(s.held, ToSet(Victims(s, m)))

LEMMA GrowIs ==
    ASSUME NEW s \in LoopStates, NEW r \in ToSet(s.running), NEW n \in Int
    PROVE  Grown(s, r, n, Grow(s, r, n))
<1> DEFINE len     == Len(s.running)
           Ending(k) == SubSeq(s.running, len - k + 1, len)
           room(k) == n <= FreeBlocks(s) + SumFunctionOnSet(s.held, ToSet(Ending(k)))
           place   == CHOOSE i \in 1..len : s.running[i] = r
           enough  == {k \in 0..(len - place) : room(k)}
           least   == CHOOSE i \in enough : \A j \in enough : i <= j
           k       == IF enough = {} THEN len - place + 1 ELSE least
           t       == Grow(s, r, n)
<1>1. t = IF enough = {} THEN Stopped(Cut(s, len - k)) ELSE Give(Cut(s, len - k), r, n)
  BY DEF Grow, Cut
<1>2. s.running \in Seq(Requests) /\ len \in Nat /\ DOMAIN s.running = 1..len
  <2>1. s.running \in Seq(Requests)
    BY DEF LoopStates
  <2> QED BY <2>1, LenProperties
<1> HIDE DEF len, t
<1>3. place \in 1..len /\ s.running[place] = r
  BY <1>2 DEF ToSet
<1> HIDE DEF place, room
<1>4. CASE enough = {}
  <2>1. t = Stopped(Cut(s, len - (len - place + 1)))
    BY <1>1, <1>4
  <2>2. len - (len - place + 1) = place - 1 /\ place - 1 \in 0..len
    BY <1>2, <1>3
  <2> HIDE DEF enough
  <2>3. t = Stopped(Cut(s, place - 1))
    BY ONLY <2>1, <2>2, Zenon
  <2> QED BY <1>3, <2>2, <2>3 DEF Grown, len, t
<1>5. CASE enough # {}
  <2>1. enough \in SUBSET Nat
    BY <1>2, <1>3
  <2>2. \E i \in enough : \A j \in enough : i <= j
    <3> HIDE DEF enough
    <3> QED BY <1>5, <2>1, LeastNumber
  <2>3. least \in enough
    <3> HIDE DEF enough
    <3> QED BY <2>2
  <2>4. least \in 0..(len - place) /\ room(least)
    <3> HIDE DEF least
    <3> QED BY <2>3
  <2>5. t = Give(Cut(s, len - least), r, n)
    <3> HIDE DEF enough, least
    <3> QED BY <1>1, <1>5
  <2> HIDE DEF enough, least
  <2>6. place <= len - least /\ len - least \in 0..len
    BY <1>2, <1>3, <2>4
  <2> QED BY <1>3, <2>4, <2>5, <2>6 DEF Grown, Victims, len, t, room
<1> QED BY <1>4, <1>5 DEF t

(* A turn makes of the state of a loop another.                               *)
LEMMA TurnTyped ==
    ASSUME Numbers, NEW loop \in {"prefill", "decode", "running", "waiting"}, NEW picked,
           NEW s \in LoopStates, NEW r \in Requests
    PROVE  Turn(loop, picked, s, r) \in LoopStates
<1>1. \A u \in LoopStates : Stopped(u) \in LoopStates
  BY DEF LoopStates, Stopped
<1>3. total[r] \in Nat /\ total[r] - computed[r] \in Nat
  BY DEF Numbers
<1>4. Chunk(total[r]) \in Nat /\ Chunk(total[r] - computed[r]) \in Nat
  BY <1>3, ChunkIs
<1>5. Admit(s, r) \in LoopStates
  <2> DEFINE u == [s EXCEPT !.running = Append(@, r)]
  <2>1. Append(s.running, r) \in Seq(Requests)
    BY AppendProperties DEF LoopStates
  <2>2. u \in LoopStates
    BY <2>1 DEF LoopStates
  <2> HIDE DEF u
  <2>3. Give(u, r, Chunk(total[r])) \in LoopStates
    BY <1>4, <2>2, GiveIs DEF IsGiven
  <2> QED BY <1>1, <2>3 DEF Admit, u
<1>6. ASSUME r \in ToSet(s.running), NEW n \in Int
      PROVE  Grow(s, r, n) \in LoopStates
  <2>1. PICK p \in 1..Len(s.running), m \in 0..Len(s.running) :
              \/ Grow(s, r, n) = Stopped(Cut(s, m))
              \/ Grow(s, r, n) = Give(Cut(s, m), r, n)
    BY <1>6, GrowIs DEF Grown
  <2>2. Cut(s, m) \in LoopStates
    BY CutIs DEF IsCut
  <2>3. Give(Cut(s, m), r, n) \in LoopStates
    BY <2>2, GiveIs DEF IsGiven
  <2> QED BY <1>1, <2>1, <2>2, <2>3
<1>7. [s EXCEPT !.ignored = @ \cup {r}] \in LoopStates
  BY DEF LoopStates
<1>8. [Stopped(s) EXCEPT !.failed = TRUE] \in LoopStates
  BY DEF LoopStates, Stopped
<1>9. PrefillTurn(s, r) \in LoopStates
  BY <1>1, <1>5, <1>7 DEF PrefillTurn
<1>10. DecodeTurn(s, r) \in LoopStates
  BY <1>6, <1>8 DEF DecodeTurn
<1>11. RunningTurn(s, r, picked) \in LoopStates
  <2>1. s.budget \in Int
    BY DEF LoopStates
  <2> QED BY <1>1, <1>4, <1>6, <2>1 DEF RunningTurn
<1>12. WaitingTurn(s, r, picked) \in LoopStates
  BY <1>1, <1>5 DEF WaitingTurn
<1> QED BY <1>9, <1>10, <1>11, <1>12 DEF Turn

(* What a loop keeps: I pairs how many turns it has taken with the state.     *)
LEMMA LoopRule ==
    ASSUME Numbers, NEW loop \in {"prefill", "decode", "running", "waiting"}, NEW picked,
           NEW start \in LoopStates, NEW queue \in Seq(Requests),
           NEW I, <<0, start>> \in I,
           \A k \in 1..Len(queue) : \A s \in LoopStates :
              <<k - 1, s>> \in I => <<k, Turn(loop, picked, s, queue[k])>> \in I
    PROVE  /\ Loop(loop, picked, start, queue) \in LoopStates
           /\ <<Len(queue), Loop(loop, picked, start, queue)>> \in I
<1> DEFINE n == Len(queue)
           V == LoopStates
           Next1(s, k) == CHOOSE t \in {Turn(loop, picked, u, queue[k]) : u \in {s}} : TRUE
           F == [p \in V \X (1..n) |-> Turn(loop, picked, p[1], queue[p[2]])]
           Step(g, s) == IF s = {} THEN start ELSE Next1(g[s \ {Max(s)}], Max(s))
           Loops(g) == g = [s \in SUBSET (DOMAIN queue) |-> Step(g, s)]
           h == CHOOSE g : Loops(g)
<1>1. n \in Nat /\ DOMAIN queue = 1..n /\ \A k \in 1..n : queue[k] \in Requests
  BY LenProperties, ElementOfSeq
<1>2. \A s \in V : \A k \in 1..n : Turn(loop, picked, s, queue[k]) \in V
  BY <1>1, TurnTyped
<1>3. \A s, k : Next1(s, k) = Turn(loop, picked, s, queue[k])
  OBVIOUS
<1>4. F \in [V \X (1..n) -> V]
  <2> HIDE DEF n, V
  <2> QED BY <1>2
<1>5. /\ \A k \in 1..n : Max(1..k) = k /\ (1..k) \ {k} = 1..(k - 1)
      /\ \A s \in SUBSET (1..n) : s # {} => Max(s) \in 1..n
      /\ \E g \in [SUBSET (1..n) -> V] : IsLoop(g, n, start, F)
  <2>1. start \in V
    OBVIOUS
  <2> HIDE DEF n, F, V
  <2> QED BY <1>1, <1>4, <2>1, LoopExists
<1>6. \E g : Loops(g)
  <2>1. PICK g \in [SUBSET (1..n) -> V] : IsLoop(g, n, start, F)
    BY <1>5
  <2>2. ASSUME NEW s \in SUBSET (1..n), s # {}
        PROVE  F[<<g[s \ {Max(s)}], Max(s)>>] = Next1(g[s \ {Max(s)}], Max(s))
    <3>1. Max(s) \in 1..n
      BY <1>5, <2>2
    <3>2. g[s \ {Max(s)}] \in V
      OBVIOUS
    <3> HIDE DEF Next1, V, n
    <3> QED BY <1>3, <3>1, <3>2
  <2>3. \A s \in SUBSET (1..n) :
          (IF s = {} THEN start ELSE F[<<g[s \ {Max(s)}], Max(s)>>]) = Step(g, s)
    <3> HIDE DEF F, Next1, n
    <3> QED BY <2>2, Zenon
  <2> HIDE DEF Step, F, n
  <2>4. g = [s \in SUBSET (1..n) |-> Step(g, s)]
    BY <2>1, <2>3 DEF IsLoop
  <2> QED BY <1>1, <2>4
<1>7. Loops(h)
  <2> HIDE DEF Loops
  <2> QED BY <1>6
<1>8. Loop(loop, picked, start, queue) = h[1..n]
  <2>1. Loop(loop, picked, start, queue) = h[DOMAIN queue]
    BY DEF Loop, FoldLeft, MapThenFoldSet
  <2> HIDE DEF h
  <2> QED BY <1>1, <2>1
<1> HIDE DEF h
<1>9. /\ h[1..0] = start
      /\ \A k \in 1..n : h[1..k] = Turn(loop, picked, h[1..(k - 1)], queue[k])
  <2>1. h = [s \in SUBSET (1..n) |-> Step(h, s)]
    BY <1>1, <1>7
  <2>2. 1..0 = {} /\ \A k \in 1..n : 1..k # {} /\ 1..k \in SUBSET (1..n)
    <3>1. n \in Nat
      BY <1>1
    <3> HIDE DEF n
    <3>2. 1..0 = {}
      OBVIOUS
    <3>3. ASSUME NEW k \in 1..n
          PROVE  k \in 1..k /\ 1..k \subseteq 1..n
      BY ONLY <3>1, k \in 1..n
    <3> QED BY ONLY <3>2, <3>3
  <2>3. h[{}] = Step(h, {})
    <3> HIDE DEF Step
    <3> QED BY <2>1
  <2>4. \A k \in 1..n : h[1..k] = Step(h, 1..k)
    <3> HIDE DEF Step
    <3> QED BY <2>1, <2>2
  <2> HIDE DEF Next1, n
  <2> QED BY <1>3, <1>5, <2>2, <2>3, <2>4
<1> DEFINE T == {k \in 0..n : h[1..k] \in V /\ <<k, h[1..k]>> \in I}
<1> HIDE DEF n, V
<1>10. 0 \in T
  <2>1. 0 \in 0..n
    BY <1>1
  <2>2. h[1..0] \in V /\ <<0, h[1..0]>> \in I
    BY <1>9, Zenon DEF V
  <2> QED BY <2>1, <2>2, Zenon
<1>11. \A k \in T : k < n => k + 1 \in T
  <2> SUFFICES ASSUME NEW k \in T, k < n
               PROVE  k + 1 \in T
    OBVIOUS
  <2>1. k + 1 \in 1..n /\ (k + 1) - 1 = k /\ k + 1 \in 0..n
    BY <1>1
  <2>2. h[1..(k + 1)] = Turn(loop, picked, h[1..k], queue[k + 1])
    BY <1>9, <2>1
  <2>3. h[1..k] \in V /\ <<k, h[1..k]>> \in I
    OBVIOUS
  <2>4. Turn(loop, picked, h[1..k], queue[k + 1]) \in V
    BY <1>2, <2>1, <2>3
  <2>5. <<k + 1, Turn(loop, picked, h[1..k], queue[k + 1])>> \in I
    BY <2>1, <2>3 DEF V, n
  <2> QED BY <2>1, <2>2, <2>4, <2>5
<1>12. n \in T
  <2>1. T \in SUBSET Nat
    BY <1>1
  <2> HIDE DEF T
  <2> QED BY <1>1, <1>10, <1>11, <2>1, CountedInduction
<1> QED BY <1>8, <1>12 DEF n, V

----------------------------------------------------------------------------
(* What the loops keep *)

(* A batch within the budget b, of requests that are not preempted, each with *)
(* some of the tokens it has to compute; the blocks are those held before and *)
(* those of the batch, without those of what is preempted.                    *)
Batched(s, b) ==
    /\ s \in LoopStates
    /\ Len(s.running) <= MaxRunning
    /\ SumFunction(s.held) <= setup.blocks
    /\ s.budget \in Nat /\ SumFunction(s.batch) + s.budget = b
    /\ \A r \in DOMAIN s.batch : /\ r \notin ToSet(s.preempted)
                                 /\ s.batch[r] \in 1..(total[r] - computed[r])
    /\ \A r \in Requests :
          s.held[r] = IF r \in ToSet(s.preempted) THEN 0 ELSE held[r] + Given(s.batch, r)

LEMMA BatchIs ==
    ASSUME Numbers, NEW s \in LoopStates
    PROVE  /\ DOMAIN s.batch \in SUBSET Requests /\ IsFiniteSet(DOMAIN s.batch)
           /\ \A r \in DOMAIN s.batch : s.batch[r] \in Int
           /\ SumFunction(s.batch) = SumFunctionOnSet(s.batch, DOMAIN s.batch)
           /\ SumFunction(s.batch) \in Int
<1>1. PICK D \in SUBSET Requests : s.batch \in [D -> Int]
  BY DEF LoopStates, BatchesOf
<1>2. DOMAIN s.batch = D /\ IsFiniteSet(D) /\ \A r \in D : s.batch[r] \in Int
  BY <1>1, FS_Subset DEF Numbers
<1>3. SumFunctionOnSet(s.batch, D) \in Int
  BY <1>2, SumOf
<1> QED BY <1>2, <1>3 DEF SumFunction

LEMMA GiveBatched ==
    ASSUME Numbers, held \in [Requests -> Nat], NEW b \in Int, NEW s, Batched(s, b),
           NEW r \in Requests, r \notin DOMAIN s.batch, r \notin ToSet(s.preempted),
           NEW n \in 1..(total[r] - computed[r]), n <= s.budget, n <= FreeBlocks(s)
    PROVE  Batched(Give(s, r, n), b)
<1> DEFINE t == Give(s, r, n)
<1>0. s \in LoopStates /\ n \in Int
  BY DEF Batched
<1>1. /\ t \in LoopStates /\ t.running = s.running
      /\ \A q \in Requests : t.held[q] = IF q = r THEN s.held[q] + n ELSE s.held[q]
      /\ t.budget = s.budget - n
      /\ DOMAIN t.batch = DOMAIN s.batch \cup {r}
      /\ \A q \in DOMAIN s.batch \cup {r} : t.batch[q] = IF q = r THEN n ELSE s.batch[q]
      /\ t.preempted = s.preempted
  <2>1. IsGiven(s, r, n, t)
    BY <1>0, GiveIs
  <2> HIDE DEF t
  <2> QED BY <2>1 DEF IsGiven
<1> HIDE DEF t
<1>2. /\ FreeBlocks(s) = setup.blocks - SumFunctionOnSet(s.held, Requests)
      /\ SumFunctionOnSet(s.held, Requests) \in Int /\ setup.blocks \in Int
      /\ SumFunction(t.held) = SumFunctionOnSet(t.held, Requests)
  BY <1>0, <1>1, HeldSums DEF Numbers
<1>3. SumFunctionOnSet(t.held, Requests) = SumFunctionOnSet(s.held, Requests) + n
  <2>1. IsFiniteSet(Requests)
    BY DEF Numbers
  <2>2. \A q \in Requests : s.held[q] \in Int /\ t.held[q] = IF q = r THEN s.held[q] + n ELSE s.held[q]
    BY <1>0, <1>1 DEF LoopStates
  <2>3. n \in Int
    BY <1>0
  <2> QED BY ONLY <2>1, <2>2, <2>3, r \in Requests, SumChanged, Zenon
<1>4. SumFunction(t.held) <= setup.blocks
  BY <1>0, <1>2, <1>3
<1>5. SumFunction(t.batch) = SumFunction(s.batch) + n
  <2>1. /\ IsFiniteSet(DOMAIN s.batch) /\ \A q \in DOMAIN s.batch : s.batch[q] \in Int
        /\ SumFunction(s.batch) = SumFunctionOnSet(s.batch, DOMAIN s.batch)
    BY <1>0, BatchIs
  <2>2. SumFunction(t.batch) = SumFunctionOnSet(t.batch, DOMAIN s.batch \cup {r})
    BY <1>1 DEF SumFunction
  <2>3. (\A q \in DOMAIN s.batch : s.batch[q] \in Int /\ t.batch[q] = s.batch[q]) /\ t.batch[r] = n
    BY <1>1, <2>1
  <2>4. SumFunctionOnSet(t.batch, DOMAIN s.batch \cup {r})
            = SumFunctionOnSet(s.batch, DOMAIN s.batch) + n
    <3> DEFINE D == DOMAIN s.batch
               f == s.batch
               g == t.batch
    <3>1. IsFiniteSet(D)
      BY <2>1
    <3>2. Extended(f, g, D, r, n)
      BY <1>0, <2>3 DEF Extended
    <3> HIDE DEF D, f, g
    <3>3. SumFunctionOnSet(g, D \cup {r}) = SumFunctionOnSet(f, D) + n
      BY ONLY <3>1, <3>2, SumExtended
    <3> QED BY <3>3 DEF D, f, g
  <2> QED BY ONLY <2>1, <2>2, <2>4, Zenon
<1>6. t.budget \in Nat /\ SumFunction(t.batch) + t.budget = b
  <2>1. s.budget \in Nat /\ SumFunction(s.batch) + s.budget = b /\ SumFunction(s.batch) \in Int
    BY <1>0, BatchIs DEF Batched
  <2> QED BY <1>0, <1>1, <1>5, <2>1
<1>7. \A q \in DOMAIN t.batch : /\ q \notin ToSet(t.preempted)
                                /\ t.batch[q] \in 1..(total[q] - computed[q])
  BY <1>1 DEF Batched
<1>8. ASSUME NEW q \in Requests
      PROVE  t.held[q] = IF q \in ToSet(t.preempted) THEN 0 ELSE held[q] + Given(t.batch, q)
  <2>1. s.held[q] = IF q \in ToSet(s.preempted) THEN 0 ELSE held[q] + Given(s.batch, q)
    BY DEF Batched
  <2>2. CASE q = r
    BY <1>0, <1>1, <2>1, <2>2 DEF Given
  <2>3. CASE q # r
    BY <1>1, <2>1, <2>3 DEF Given
  <2> QED BY <2>2, <2>3
<1>9. Len(t.running) <= MaxRunning
  BY <1>1 DEF Batched
<1> QED BY <1>1, <1>4, <1>6, <1>7, <1>8, <1>9 DEF Batched, t

LEMMA CutBatched ==
    ASSUME Numbers, held \in [Requests -> Nat], NEW b \in Int, NEW s, Batched(s, b),
           NEW m \in 0..Len(s.running),
           \A i \in (m + 1)..Len(s.running) : s.running[i] \notin DOMAIN s.batch,
           IsInjective(s.running \o s.preempted)
    PROVE  /\ Batched(Cut(s, m), b)
           /\ FreeBlocks(Cut(s, m)) = FreeBlocks(s)
                 + SumFunctionOnSet(s.held, ToSet(Victims(s, m)))
<1> DEFINE t == Cut(s, m)
           victims == Victims(s, m)
           A == ToSet(victims)
<1>0. s \in LoopStates /\ s.running \in Seq(Requests) /\ s.preempted \in Seq(Requests)
  BY DEF Batched, LoopStates
<1>1. /\ t \in LoopStates /\ t.running = SubSeq(s.running, 1, m)
      /\ \A q \in Requests : t.held[q] = IF q \in A THEN 0 ELSE s.held[q]
      /\ t.batch = s.batch /\ t.budget = s.budget
      /\ t.preempted = victims \o s.preempted
  <2>1. IsCut(s, m, t)
    BY <1>0, CutIs
  <2> HIDE DEF t
  <2> QED BY <2>1 DEF IsCut
<1>2. /\ victims \in Seq(Requests) /\ Len(SubSeq(s.running, 1, m)) = m
      /\ A = {s.running[i] : i \in (m + 1)..Len(s.running)}
      /\ SubSeq(s.running, 1, m) \in Seq(Requests)
  <2> DEFINE q == s.running
  <2>1. q \in Seq(Requests) /\ m \in 0..Len(q)
    BY <1>0
  <2> HIDE DEF q
  <2>2. /\ SubSeq(q, 1, m) \in Seq(Requests) /\ Len(SubSeq(q, 1, m)) = m
        /\ SubSeq(q, m + 1, Len(q)) \in Seq(Requests)
        /\ ToSet(SubSeq(q, m + 1, Len(q))) = Items(q, m + 1, Len(q))
    BY ONLY <2>1, QueueEnd
  <2> QED BY <2>2 DEF q, Victims, Items
<1> HIDE DEF t, victims
<1>3. A \in SUBSET Requests
  BY <1>2, QueueElements
<1>4. ToSet(t.preempted) = A \cup ToSet(s.preempted)
  BY <1>0, <1>1, <1>2, QueueConcat
<1> HIDE DEF A
<1>5. A \cap DOMAIN s.batch = {}
  BY <1>2
<1>6. /\ FreeBlocks(s) = setup.blocks - SumFunctionOnSet(s.held, Requests)
      /\ SumFunctionOnSet(s.held, Requests) \in Int /\ setup.blocks \in Int
      /\ SumFunctionOnSet(s.held, A) \in Int
      /\ SumFunction(s.held) = SumFunctionOnSet(s.held, Requests)
  <2>1. setup.blocks \in Int
    BY DEF Numbers
  <2> QED BY <1>0, <1>3, <2>1, HeldSums
<1>7. /\ SumFunction(t.held) = SumFunctionOnSet(t.held, Requests)
      /\ FreeBlocks(t) = setup.blocks - SumFunctionOnSet(t.held, Requests)
  BY <1>1, HeldSums
<1>8. IsFiniteSet(Requests) /\ \A q \in Requests : s.held[q] \in Int
  BY <1>0 DEF Numbers, LoopStates
<1>9. SumFunctionOnSet(t.held, Requests)
        = SumFunctionOnSet(s.held, Requests) - SumFunctionOnSet(s.held, A)
  <2>1. \A q \in Requests : s.held[q] \in Int /\ t.held[q] = IF q \in A THEN 0 ELSE s.held[q]
    BY <1>1, <1>8
  <2> QED BY ONLY <1>3, <1>8, <2>1, SumCleared
<1>10. \A q \in Requests : s.held[q] >= 0
  <2> TAKE q \in Requests
  <2>1. s.held[q] = IF q \in ToSet(s.preempted) THEN 0 ELSE held[q] + Given(s.batch, q)
    BY DEF Batched
  <2>2. Given(s.batch, q) \in Nat
    BY DEF Given, Batched, Numbers
  <2> QED BY <2>1, <2>2
<1>11. SumFunctionOnSet(t.held, Requests) <= SumFunctionOnSet(s.held, Requests)
  <2>1. \A q \in Requests : t.held[q] \in Int /\ s.held[q] \in Int /\ t.held[q] <= s.held[q]
    BY <1>1, <1>8, <1>10
  <2> QED BY ONLY <1>8, <2>1, SumAtMost
<1>12. SumFunction(t.held) <= setup.blocks
  <2>1. SumFunctionOnSet(s.held, Requests) <= setup.blocks
    BY <1>6 DEF Batched
  <2>2. SumFunctionOnSet(t.held, Requests) \in Int
    BY <1>1, HeldSums
  <2> QED BY <1>6, <1>7, <1>11, <2>1, <2>2
<1>13. FreeBlocks(t) = FreeBlocks(s) + SumFunctionOnSet(s.held, A)
  BY <1>6, <1>7, <1>9
<1>14. Len(t.running) <= MaxRunning
  <2>1. Len(s.running) \in Nat /\ MaxRunning \in Nat /\ Len(s.running) <= MaxRunning
    BY <1>0, LenProperties DEF Batched, Numbers
  <2> QED BY <1>1, <1>2, <2>1
<1>15. \A q \in DOMAIN t.batch : /\ q \notin ToSet(t.preempted)
                                 /\ t.batch[q] \in 1..(total[q] - computed[q])
  BY <1>1, <1>4, <1>5 DEF Batched
<1>16. \A q \in Requests :
          t.held[q] = IF q \in ToSet(t.preempted) THEN 0 ELSE held[q] + Given(t.batch, q)
  BY <1>1, <1>4 DEF Batched
<1>17. t.budget \in Nat /\ SumFunction(t.batch) + t.budget = b
  BY <1>1 DEF Batched
<1> QED BY <1>1, <1>12, <1>13, <1>14, <1>15, <1>16, <1>17 DEF Batched, t, A, victims

(* The flags of a loop are not part of it.                                    *)
LEMMA SameBatched ==
    ASSUME NEW b, NEW s, Batched(s, b), NEW t \in LoopStates,
           t.running = s.running, t.held = s.held, t.batch = s.batch, t.budget = s.budget,
           t.preempted = s.preempted
    PROVE  Batched(t, b)
  BY DEF Batched

LEMMA StoppedIs ==
    ASSUME NEW s \in LoopStates
    PROVE  /\ Stopped(s) \in LoopStates
           /\ Stopped(s).running = s.running /\ Stopped(s).held = s.held
           /\ Stopped(s).batch = s.batch /\ Stopped(s).budget = s.budget
           /\ Stopped(s).preempted = s.preempted /\ Stopped(s).ignored = s.ignored
           /\ Stopped(s).failed = s.failed /\ Stopped(s).stop
  BY DEF Stopped, LoopStates

LEMMA RequestQueues == \A p, q, r \in Seq(Requests) : (p \o q) \o r = p \o (q \o r)
  BY QueueAssociative

(* Each request of the list decodes: it needs one token.                      *)
Whole(list) == \A r \in ToSet(list) : total[r] - computed[r] = 1

(* A loop over the running requests, after k turns: the running list is the   *)
(* first part of the list, what is preempted is the rest, and what is in the  *)
(* batch had its turn.                                                        *)
RunningUpto(loop, list, b, ig, k, s) ==
    /\ Batched(s, b)
    /\ s.running \o s.preempted = list
    /\ \A r \in DOMAIN s.batch : \E j \in 1..k : j <= Len(s.running) /\ s.running[j] = r
    /\ s.ignored = ig
    /\ loop = "running" \/ Whole(list) => ~s.failed

LEMMA GrowTurn ==
    ASSUME Numbers, held \in [Requests -> Nat], NEW loop, NEW list \in Seq(Requests),
           IsInjective(list), NEW b \in Int, NEW ig, NEW k \in 1..Len(list), NEW s,
           RunningUpto(loop, list, b, ig, k - 1, s), list[k] \in ToSet(s.running),
           NEW n \in 1..(total[list[k]] - computed[list[k]]), n <= s.budget
    PROVE  RunningUpto(loop, list, b, ig, k, Grow(s, list[k], n))
<1> DEFINE r == list[k]
           run == s.running
           pre == s.preempted
<1>1. /\ Batched(s, b) /\ s \in LoopStates /\ run \o pre = list
      /\ run \in Seq(Requests) /\ pre \in Seq(Requests)
  BY DEF RunningUpto, Batched, LoopStates
<1>2. r \in Requests /\ n \in Int
  BY ElementOfSeq
<1>3. PICK p \in 1..Len(run), m \in 0..Len(run) :
            /\ run[p] = r
            /\ \/ m = p - 1 /\ Grow(s, r, n) = Stopped(Cut(s, m))
               \/ /\ p <= m /\ Grow(s, r, n) = Give(Cut(s, m), r, n)
                  /\ n <= FreeBlocks(s) + SumFunctionOnSet(s.held, ToSet(Victims(s, m)))
  BY <1>1, <1>2, GrowIs DEF Grown
<1>4. /\ IsInjective(run) /\ IsInjective(pre) /\ ToSet(run) \cap ToSet(pre) = {}
  BY <1>1, QueueConcat
<1>5. /\ Len(run) \in Nat /\ Len(pre) \in Nat /\ Len(list) = Len(run) + Len(pre)
      /\ DOMAIN run = 1..Len(run) /\ DOMAIN list = 1..Len(list)
      /\ \A i \in 1..Len(run) : list[i] = run[i]
  <2>1. /\ Len(list) = Len(run) + Len(pre)
        /\ \A i \in 1..(Len(run) + Len(pre)) :
              list[i] = IF i <= Len(run) THEN run[i] ELSE pre[i - Len(run)]
    BY <1>1, ConcatProperties
  <2>2. Len(run) \in Nat /\ Len(pre) \in Nat /\ DOMAIN run = 1..Len(run) /\ DOMAIN list = 1..Len(list)
    BY <1>1, LenProperties
  <2> HIDE DEF run, pre
  <2> QED BY <2>1, <2>2
<1>6. p = k
  <2>1. list[p] = run[p] /\ p \in 1..Len(list) /\ run[p] = list[k]
    <3> HIDE DEF run, pre
    <3> QED BY <1>5, <1>3
  <2>2. list[p] = list[k] /\ p \in DOMAIN list /\ k \in DOMAIN list
    BY <1>5, <2>1
  <2> QED BY <2>2 DEF IsInjective
<1>7. k - 1 <= m /\ m \in Nat /\ k \in 1..Len(run) /\ run[k] = r
  BY <1>3, <1>5, <1>6
<1>8. \A q \in DOMAIN s.batch : \E j \in 1..(k - 1) : j \in 1..Len(run) /\ run[j] = q
  BY <1>5 DEF RunningUpto
<1>9. \A i \in k..Len(run) : run[i] \notin DOMAIN s.batch
  <2> SUFFICES ASSUME NEW i \in k..Len(run), run[i] \in DOMAIN s.batch
               PROVE  FALSE
    OBVIOUS
  <2>1. PICK j \in 1..(k - 1) : j \in 1..Len(run) /\ run[j] = run[i]
    BY <1>8
  <2>2. i \in DOMAIN run /\ j \in DOMAIN run /\ run[i] = run[j] /\ j < i
    BY <1>5, <1>7, <2>1
  <2>3. i = j
    <3> HIDE DEF run
    <3> QED BY <1>4, <2>2 DEF IsInjective
  <2> QED BY <2>2, <2>3
<1> DEFINE u == Cut(s, m)
<1>10. IsCut(s, m, u)
  BY <1>1, CutIs
<1>11. /\ Batched(u, b)
       /\ FreeBlocks(u) = FreeBlocks(s) + SumFunctionOnSet(s.held, ToSet(Victims(s, m)))
  <2>1. \A i \in (m + 1)..Len(s.running) : s.running[i] \notin DOMAIN s.batch
    BY <1>5, <1>7, <1>9
  <2> QED BY <1>1, <2>1, CutBatched
<1> HIDE DEF u
<1>12. /\ u \in LoopStates /\ u.running = SubSeq(run, 1, m) /\ u.batch = s.batch
       /\ u.budget = s.budget /\ u.ignored = s.ignored /\ u.failed = s.failed
       /\ u.preempted = Victims(s, m) \o pre
  BY <1>10 DEF IsCut
<1>13. /\ SubSeq(run, 1, m) \in Seq(Requests) /\ Len(SubSeq(run, 1, m)) = m
       /\ \A i \in 1..m : SubSeq(run, 1, m)[i] = run[i]
       /\ Victims(s, m) \in Seq(Requests)
       /\ SubSeq(run, 1, m) \o Victims(s, m) = run
  BY <1>1, QueueEnd DEF Victims
<1>14. u.running \o u.preempted = list
  <2>1. (SubSeq(run, 1, m) \o Victims(s, m)) \o pre = SubSeq(run, 1, m) \o (Victims(s, m) \o pre)
    BY ONLY <1>1, <1>13, RequestQueues, Zenon
  <2> QED BY <1>1, <1>12, <1>13, <2>1
<1>15. \A q \in DOMAIN u.batch : \E j \in 1..(k - 1) : j <= m /\ u.running[j] = q
  <2> TAKE q \in DOMAIN u.batch
  <2>1. PICK j \in 1..(k - 1) : j \in 1..Len(run) /\ run[j] = q
    BY <1>8, <1>12
  <2>2. j \in 1..m /\ j <= m
    BY <1>7, <2>1
  <2> QED BY <1>12, <1>13, <2>1, <2>2
<1>16. /\ u.ignored = ig /\ (loop = "running" \/ Whole(list) => ~u.failed)
       /\ 1..(k - 1) \subseteq 1..k
  BY <1>12 DEF RunningUpto
<1>17. CASE m = p - 1 /\ Grow(s, r, n) = Stopped(u)
  <2> DEFINE t == Stopped(u)
  <2>1. /\ t \in LoopStates /\ t.running = u.running /\ t.held = u.held
        /\ t.batch = u.batch /\ t.budget = u.budget /\ t.preempted = u.preempted
        /\ t.ignored = u.ignored /\ t.failed = u.failed
    BY <1>12, StoppedIs
  <2> HIDE DEF t
  <2>2. Batched(t, b)
    BY <1>11, <2>1, SameBatched
  <2>3. \A q \in DOMAIN t.batch : \E j \in 1..k : j <= Len(t.running) /\ t.running[j] = q
    <3> TAKE q \in DOMAIN t.batch
    <3>1. PICK j \in 1..(k - 1) : j <= m /\ u.running[j] = q
      BY <1>15, <2>1
    <3>2. Len(t.running) = m
      BY <1>12, <1>13, <2>1
    <3> QED BY <1>16, <2>1, <3>1, <3>2
  <2>4. RunningUpto(loop, list, b, ig, k, t)
    BY <1>14, <1>16, <2>1, <2>2, <2>3 DEF RunningUpto
  <2> QED BY <1>17, <2>4 DEF t
<1>18. CASE /\ p <= m /\ Grow(s, r, n) = Give(u, r, n)
            /\ n <= FreeBlocks(s) + SumFunctionOnSet(s.held, ToSet(Victims(s, m)))
  <2> DEFINE t == Give(u, r, n)
  <2>1. IsGiven(u, r, n, t)
    BY <1>2, <1>12, GiveIs
  <2>2. r \notin DOMAIN u.batch
    BY <1>7, <1>9, <1>12
  <2>3. k \in 1..m /\ u.running[k] = r
    BY <1>6, <1>7, <1>12, <1>13, <1>18
  <2>4. r \notin ToSet(u.preempted)
    <3>1. u.running \in Seq(Requests) /\ u.preempted \in Seq(Requests)
      BY <1>12 DEF LoopStates
    <3>2. ToSet(u.running) \cap ToSet(u.preempted) = {}
      BY <1>14, <3>1, QueueConcat
    <3>3. r \in ToSet(u.running)
      <4>1. DOMAIN u.running = 1..m
        BY <1>12, <1>13, LenProperties
      <4> QED BY <2>3, <4>1 DEF ToSet
    <3> QED BY <3>2, <3>3
  <2>5. n <= u.budget /\ n <= FreeBlocks(u)
    BY <1>11, <1>12, <1>18
  <2>6. Batched(t, b)
    BY <1>2, <1>11, <2>2, <2>4, <2>5, GiveBatched
  <2> HIDE DEF t
  <2>7. /\ DOMAIN t.batch = DOMAIN u.batch \cup {r}
        /\ t.running = u.running /\ t.preempted = u.preempted
        /\ t.ignored = u.ignored /\ t.failed = u.failed
    BY <2>1 DEF IsGiven
  <2>8. \A q \in DOMAIN t.batch : \E j \in 1..k : j <= Len(t.running) /\ t.running[j] = q
    <3> TAKE q \in DOMAIN t.batch
    <3>1. CASE q = r
      <4>1. k \in 1..k /\ k <= m
        BY <2>3
      <4> QED BY <1>12, <1>13, <2>3, <2>7, <3>1, <4>1
    <3>2. CASE q \in DOMAIN u.batch
      <4>1. PICK j \in 1..(k - 1) : j <= m /\ u.running[j] = q
        BY <1>15, <3>2
      <4>2. Len(t.running) = m
        BY <1>12, <1>13, <2>7
      <4> QED BY <1>16, <2>7, <4>1, <4>2
    <3> QED BY <2>7, <3>1, <3>2
  <2>9. RunningUpto(loop, list, b, ig, k, t)
    BY <1>14, <1>16, <2>6, <2>7, <2>8 DEF RunningUpto
  <2> QED BY <1>18, <2>9 DEF t
<1> QED BY <1>3, <1>17, <1>18 DEF u

LEMMA RunningTurns ==
    ASSUME Numbers, held \in [Requests -> Nat], NEW loop \in {"decode", "running"},
           NEW picked, NEW list \in Seq(Requests), IsInjective(list), NEW b \in Int, NEW ig,
           NEW k \in 1..Len(list), NEW s, RunningUpto(loop, list, b, ig, k - 1, s)
    PROVE  RunningUpto(loop, list, b, ig, k, Turn(loop, picked, s, list[k]))
<1> DEFINE r == list[k]
           Upto(j, t) == RunningUpto(loop, list, b, ig, j, t)
<1>1. s \in LoopStates /\ Batched(s, b) /\ s.budget \in Nat
  BY DEF RunningUpto, Batched
<1>2. r \in Requests /\ r \in ToSet(list) /\ Len(list) \in Nat
  BY ElementOfSeq, LenProperties DEF ToSet
<1>3. total[r] - computed[r] \in Nat
  BY <1>2 DEF Numbers
<1>4. /\ Chunk(total[r] - computed[r]) \in Nat
      /\ Chunk(total[r] - computed[r]) <= total[r] - computed[r]
      /\ (total[r] - computed[r] > 0 => Chunk(total[r] - computed[r]) > 0)
  BY <1>3, ChunkIs
<1>5. 1..(k - 1) \subseteq 1..k
  BY <1>2
<1>6. Upto(k, s)
  BY <1>5 DEF RunningUpto
<1>7. Upto(k, Stopped(s))
  <2> DEFINE t == Stopped(s)
  <2>1. /\ t \in LoopStates /\ t.running = s.running /\ t.held = s.held
        /\ t.batch = s.batch /\ t.budget = s.budget /\ t.preempted = s.preempted
        /\ t.ignored = s.ignored /\ t.failed = s.failed
    BY <1>1, StoppedIs
  <2> HIDE DEF t
  <2>2. Batched(t, b)
    BY <1>1, <2>1, SameBatched
  <2>3. Upto(k, t)
    BY <1>6, <2>1, <2>2 DEF RunningUpto
  <2> QED BY <2>3 DEF t
<1>8. ASSUME r \in ToSet(s.running), NEW n \in 1..(total[r] - computed[r]), n <= s.budget
      PROVE  Upto(k, Grow(s, r, n))
  BY <1>8, GrowTurn
<1>9. CASE loop = "running"
  <2> DEFINE left == Chunk(total[r] - computed[r])
             n    == IF left < s.budget THEN left ELSE s.budget
  <2>1. n \in Nat /\ n <= s.budget /\ n <= total[r] - computed[r]
    BY <1>1, <1>3, <1>4
  <2>2. n # 0 => n \in 1..(total[r] - computed[r])
    BY <1>3, <2>1
  <2>3. Turn(loop, picked, s, r) = RunningTurn(s, r, picked)
    BY <1>9 DEF Turn
  <2>4. RunningTurn(s, r, picked) =
          IF setup.policy = "mixed" /\ r \notin picked THEN Stopped(s)
          ELSE IF s.stop \/ n = 0 \/ r \notin ToSet(s.running) THEN s
          ELSE Grow(s, r, n)
    BY DEF RunningTurn
  <2> HIDE DEF n, r
  <2>5. n # 0 /\ r \in ToSet(s.running) => Upto(k, Grow(s, r, n))
    BY <1>8, <2>1, <2>2
  <2> HIDE DEF Upto
  <2>6. Upto(k, Turn(loop, picked, s, r))
    BY <1>6, <1>7, <2>3, <2>4, <2>5
  <2> QED BY <2>6 DEF Upto, r
<1>10. CASE loop = "decode"
  <2> DEFINE n == Chunk(total[r] - computed[r])
             t == [Stopped(s) EXCEPT !.failed = TRUE]
  <2>1. Turn(loop, picked, s, r) = DecodeTurn(s, r)
    BY <1>10 DEF Turn
  <2>2. DecodeTurn(s, r) =
          IF s.stop \/ s.budget = 0 \/ r \notin ToSet(s.running) THEN s
          ELSE IF n # 1 THEN t ELSE Grow(s, r, 1)
    BY DEF DecodeTurn
  <2>3. n # 1 => Upto(k, t)
    <3> SUFFICES ASSUME n # 1 PROVE Upto(k, t)
      OBVIOUS
    <3>1. ~Whole(list)
      <4> SUFFICES ASSUME Whole(list) PROVE FALSE
        OBVIOUS
      <4>1. total[r] - computed[r] = 1
        BY <1>2 DEF Whole
      <4>2. n \in Nat /\ n <= 1 /\ n > 0
        BY <1>4, <4>1
      <4> QED BY <4>2
    <3>2. /\ t \in LoopStates /\ t.running = s.running /\ t.held = s.held
          /\ t.batch = s.batch /\ t.budget = s.budget /\ t.preempted = s.preempted
          /\ t.ignored = s.ignored
      BY <1>1 DEF Stopped, LoopStates
    <3> HIDE DEF t
    <3>3. Batched(t, b)
      BY <1>1, <3>2, SameBatched
    <3> QED BY <1>6, <1>10, <3>1, <3>2, <3>3 DEF RunningUpto
  <2>4. ASSUME n = 1, s.budget # 0, r \in ToSet(s.running)
        PROVE  Upto(k, Grow(s, r, 1))
    <3>1. 1 \in 1..(total[r] - computed[r]) /\ 1 <= s.budget
      BY <1>1, <1>3, <1>4, <2>4
    <3> QED BY <1>8, <2>4, <3>1
  <2> HIDE DEF n, t, r, Upto
  <2>5. Upto(k, Turn(loop, picked, s, r))
    BY <1>6, <2>1, <2>2, <2>3, <2>4
  <2> QED BY <2>5 DEF Upto, r
<1> QED BY <1>9, <1>10

LEMMA RunningLoop ==
    ASSUME Numbers, held \in [Requests -> Nat], NEW loop \in {"decode", "running"},
           NEW picked, NEW list \in Seq(Requests), IsInjective(list), NEW b \in Int, NEW ig,
           NEW start, RunningUpto(loop, list, b, ig, 0, start)
    PROVE  RunningUpto(loop, list, b, ig, Len(list), Loop(loop, picked, start, list))
<1> DEFINE I == {p \in Nat \X LoopStates : RunningUpto(loop, list, b, ig, p[1], p[2])}
<1>1. start \in LoopStates /\ loop \in {"prefill", "decode", "running", "waiting"}
  BY DEF RunningUpto, Batched
<1>2. <<0, start>> \in I
  BY <1>1
<1>3. ASSUME NEW k \in 1..Len(list), NEW s \in LoopStates, <<k - 1, s>> \in I
      PROVE  <<k, Turn(loop, picked, s, list[k])>> \in I
  <2>1. RunningUpto(loop, list, b, ig, k - 1, s)
    BY <1>3
  <2>2. RunningUpto(loop, list, b, ig, k, Turn(loop, picked, s, list[k]))
    BY <2>1, RunningTurns
  <2>3. k \in Nat
    <3>1. Len(list) \in Nat
      BY LenProperties
    <3> QED BY <3>1
  <2>4. Turn(loop, picked, s, list[k]) \in LoopStates
    BY ONLY <2>2 DEF RunningUpto, Batched
  <2> QED BY <2>2, <2>3, <2>4
<1>4. <<Len(list), Loop(loop, picked, start, list)>> \in I
  <2> HIDE DEF I
  <2> QED BY <1>1, <1>2, <1>3, LoopRule
<1> QED BY <1>4

(* A loop over waiting requests, after k turns: those it has taken run, after *)
(* the list it began with; vLLM's takes them in the order of the queue.       *)
(* The prompts are within the limit, and in one piece.                        *)
Within(queue) == \A r \in ToSet(queue) : Chunk(total[r]) <= setup.limit
InOne(queue)  == \A r \in ToSet(queue) : Chunk(total[r]) = total[r]

(* Of the first k of the queue, those before one in the batch are in it too.  *)
InOrder(queue, k, s) ==
    /\ ~s.stop => Items(queue, 1, k) \subseteq DOMAIN s.batch
    /\ \A j \in 1..k : queue[j] \in DOMAIN s.batch =>
                          \A i \in 1..j : queue[i] \in DOMAIN s.batch

WaitingUpto(loop, list, queue, b, k, s) ==
    /\ Batched(s, b)
    /\ s.preempted = <<>> /\ ~s.failed
    /\ IsInjective(s.running)
    /\ ToSet(s.running) = ToSet(list) \cup DOMAIN s.batch
    /\ DOMAIN s.batch \subseteq ToSet(list) \cup Items(queue, 1, k)
    /\ s.ignored \subseteq Items(queue, 1, k) \ DOMAIN s.batch
    /\ DOMAIN s.batch = {} => s.running = list
    /\ loop = "waiting" \/ Within(queue) => s.ignored = {}
    /\ InOne(queue) => \A r \in DOMAIN s.batch \ ToSet(list) : s.batch[r] = total[r]
    /\ loop = "prefill" => DOMAIN s.batch \cap ToSet(list) = {}
    /\ loop = "waiting" => InOrder(queue, k, s)

(* A queue of requests that are not in the list and have nothing computed.    *)
Fresh(list, queue) ==
    /\ list \in Seq(Requests) /\ queue \in Seq(Requests) /\ IsInjective(queue)
    /\ ToSet(list) \cap ToSet(queue) = {}
    /\ \A r \in ToSet(queue) : computed[r] = 0

LEMMA TurnOf ==
    ASSUME NEW list, NEW queue, Fresh(list, queue), NEW k \in 1..Len(queue)
    PROVE  /\ queue[k] \in Requests /\ queue[k] \in ToSet(queue) /\ queue[k] \notin ToSet(list)
           /\ computed[queue[k]] = 0 /\ queue[k] \notin Items(queue, 1, k - 1)
           /\ Items(queue, 1, k) = Items(queue, 1, k - 1) \cup {queue[k]}
           /\ Items(queue, 1, k) \subseteq ToSet(queue)
<1>1. /\ Len(queue) \in Nat /\ DOMAIN queue = 1..Len(queue)
      /\ \A i \in 1..Len(queue) : queue[i] \in Requests
  BY LenProperties, ElementOfSeq DEF Fresh
<1>2. queue[k] \in ToSet(queue)
  BY <1>1 DEF ToSet
<1>3. \A i \in 1..(k - 1) : i \in 1..Len(queue) /\ i # k /\ i \in 1..k
  BY <1>1
<1>4. \A i \in 1..(k - 1) : queue[i] # queue[k]
  BY <1>1, <1>3 DEF Fresh, IsInjective
<1>5. 1..k = 1..(k - 1) \cup {k} /\ 1..k \subseteq 1..Len(queue)
  BY <1>1
<1>6. Items(queue, 1, k) = Items(queue, 1, k - 1) \cup {queue[k]}
  BY <1>5 DEF Items
<1>7. Items(queue, 1, k) \subseteq ToSet(queue)
  BY <1>1, <1>5 DEF Items, ToSet
<1> QED BY <1>1, <1>2, <1>4, <1>6, <1>7 DEF Fresh, Items

(* A turn that takes nothing into the batch and stops the loop.               *)
LEMMA StopTurn ==
    ASSUME NEW loop, NEW list, NEW queue, Fresh(list, queue), NEW b, NEW k \in 1..Len(queue),
           NEW s, WaitingUpto(loop, list, queue, b, k - 1, s)
    PROVE  WaitingUpto(loop, list, queue, b, k, Stopped(s))
<1> DEFINE t == Stopped(s)
           r == queue[k]
<1>1. Batched(s, b) /\ s \in LoopStates
  BY DEF WaitingUpto, Batched
<1>2. /\ t \in LoopStates /\ t.running = s.running /\ t.held = s.held
      /\ t.batch = s.batch /\ t.budget = s.budget /\ t.preempted = s.preempted
      /\ t.ignored = s.ignored /\ t.failed = s.failed /\ t.stop
  BY <1>1, StoppedIs
<1> HIDE DEF t
<1>3. Batched(t, b)
  BY <1>1, <1>2, SameBatched
<1>4. /\ Items(queue, 1, k) = Items(queue, 1, k - 1) \cup {r}
      /\ r \notin ToSet(list) /\ r \notin Items(queue, 1, k - 1)
      /\ 1..k = 1..(k - 1) \cup {k}
  <2>1. Len(queue) \in Nat
    BY LenProperties DEF Fresh
  <2>2. 1..k = 1..(k - 1) \cup {k}
    BY <2>1
  <2> QED BY <2>2, TurnOf
<1>5. r \notin DOMAIN t.batch
  BY <1>2, <1>4 DEF WaitingUpto
<1>6. loop = "waiting" => InOrder(queue, k, t)
  BY <1>2, <1>4, <1>5 DEF WaitingUpto, InOrder
<1>7. /\ t.preempted = <<>> /\ ~t.failed /\ IsInjective(t.running)
      /\ ToSet(t.running) = ToSet(list) \cup DOMAIN t.batch
      /\ DOMAIN t.batch \subseteq ToSet(list) \cup Items(queue, 1, k)
      /\ t.ignored \subseteq Items(queue, 1, k) \ DOMAIN t.batch
      /\ DOMAIN t.batch = {} => t.running = list
      /\ loop = "waiting" \/ Within(queue) => t.ignored = {}
      /\ InOne(queue) => \A q \in DOMAIN t.batch \ ToSet(list) : t.batch[q] = total[q]
      /\ loop = "prefill" => DOMAIN t.batch \cap ToSet(list) = {}
  BY <1>2, <1>4 DEF WaitingUpto
<1> QED BY <1>3, <1>6, <1>7 DEF WaitingUpto, t

LEMMA AdmitTurn ==
    ASSUME Numbers, held \in [Requests -> Nat], NEW loop, NEW list, NEW queue,
           Fresh(list, queue), NEW b \in Int, NEW k \in 1..Len(queue),
           NEW s, WaitingUpto(loop, list, queue, b, k - 1, s), ~Full(s),
           Chunk(total[queue[k]]) <= s.budget
    PROVE  WaitingUpto(loop, list, queue, b, k, Admit(s, queue[k]))
<1> DEFINE r == queue[k]
           n == Chunk(total[r])
           u == [s EXCEPT !.running = Append(@, r)]
           t == Give(u, r, n)
<1>1. /\ Batched(s, b) /\ s \in LoopStates /\ s.running \in Seq(Requests)
      /\ DOMAIN s.batch \subseteq ToSet(list) \cup Items(queue, 1, k - 1)
      /\ ToSet(s.running) = ToSet(list) \cup DOMAIN s.batch /\ IsInjective(s.running)
  BY DEF WaitingUpto, Batched, LoopStates
<1>2. /\ r \in Requests /\ r \in ToSet(queue) /\ r \notin ToSet(list)
      /\ computed[r] = 0 /\ r \notin Items(queue, 1, k - 1)
      /\ Items(queue, 1, k) = Items(queue, 1, k - 1) \cup {r}
  BY TurnOf
<1>3. r \notin DOMAIN s.batch /\ r \notin ToSet(s.running)
  BY <1>1, <1>2
<1>4. n \in 1..(total[r] - computed[r]) /\ n \in Int
  <2>1. total[r] \in Nat \ {0} /\ total[r] - computed[r] = total[r]
    BY <1>2 DEF Numbers
  <2>2. n \in 0..total[r] /\ n > 0
    BY <2>1, ChunkIs
  <2> QED BY <2>1, <2>2
<1>5. CASE n > FreeBlocks(s)
  BY <1>5, StopTurn DEF Admit
<1>6. CASE ~(n > FreeBlocks(s))
  <2>1. /\ Append(s.running, r) \in Seq(Requests)
        /\ ToSet(Append(s.running, r)) = ToSet(s.running) \cup {r}
        /\ IsInjective(Append(s.running, r))
        /\ Len(Append(s.running, r)) = Len(s.running) + 1 /\ Len(s.running) \in Nat
    BY <1>1, <1>2, <1>3, QueueAppend, AppendProperties, LenProperties
  <2>2. /\ u \in LoopStates /\ u.running = Append(s.running, r) /\ u.held = s.held
        /\ u.batch = s.batch /\ u.budget = s.budget /\ u.preempted = s.preempted
        /\ u.ignored = s.ignored /\ u.stop = s.stop /\ u.failed = s.failed
    BY <1>1, <2>1 DEF LoopStates
  <2> HIDE DEF u
  <2>3. Batched(u, b)
    <3>1. Len(s.running) <= MaxRunning /\ Len(s.running) # MaxRunning /\ MaxRunning \in Nat
      BY <1>1 DEF Full, Batched, Numbers
    <3>2. Len(u.running) <= MaxRunning
      BY <2>1, <2>2, <3>1
    <3> QED BY <1>1, <2>2, <3>2 DEF Batched
  <2>4. FreeBlocks(u) = FreeBlocks(s)
    BY <2>2 DEF FreeBlocks
  <2>5. n <= FreeBlocks(u)
    BY <1>1, <1>4, <1>6, <2>4, HeldSums
  <2>6. r \notin DOMAIN u.batch /\ r \notin ToSet(u.preempted) /\ n <= u.budget
    BY <1>3, <2>2, EmptyQueue DEF WaitingUpto
  <2>7. Batched(t, b)
    <3> HIDE DEF n
    <3> QED BY <1>2, <1>4, <2>3, <2>5, <2>6, GiveBatched
  <2>8. IsGiven(u, r, n, t)
    BY <1>2, <1>4, <2>2, GiveIs
  <2> HIDE DEF t
  <2>9. /\ DOMAIN t.batch = DOMAIN s.batch \cup {r}
        /\ \A q \in DOMAIN t.batch : t.batch[q] = IF q = r THEN n ELSE s.batch[q]
        /\ t.running = Append(s.running, r) /\ t.preempted = s.preempted
        /\ t.ignored = s.ignored /\ t.stop = s.stop /\ t.failed = s.failed
    <3> HIDE DEF n, r
    <3> QED BY <2>2, <2>8 DEF IsGiven
  <2>10. loop = "waiting" => InOrder(queue, k, t)
    <3> SUFFICES ASSUME loop = "waiting" PROVE InOrder(queue, k, t)
      OBVIOUS
    <3>1. Items(queue, 1, k - 1) \subseteq DOMAIN s.batch
      BY DEF Full, WaitingUpto, InOrder
    <3>2. Items(queue, 1, k) \subseteq DOMAIN t.batch
      BY <1>2, <2>9, <3>1
    <3>3. \A j \in 1..k : \A i \in 1..j : queue[i] \in Items(queue, 1, k)
      <4>1. k \in Nat
        BY LenProperties DEF Fresh
      <4>2. \A j \in 1..k : \A i \in 1..j : i \in 1..k
        BY <4>1
      <4> QED BY <4>2 DEF Items
    <3> QED BY <3>2, <3>3 DEF InOrder
  <2>11. /\ t.preempted = <<>> /\ ~t.failed /\ IsInjective(t.running)
         /\ ToSet(t.running) = ToSet(list) \cup DOMAIN t.batch
         /\ DOMAIN t.batch \subseteq ToSet(list) \cup Items(queue, 1, k)
         /\ DOMAIN t.batch # {}
         /\ loop = "prefill" => DOMAIN t.batch \cap ToSet(list) = {}
    BY <1>1, <1>2, <2>1, <2>9 DEF WaitingUpto
  <2>12. t.ignored \subseteq Items(queue, 1, k) \ DOMAIN t.batch
    BY <1>2, <2>9 DEF WaitingUpto
  <2>13. loop = "waiting" \/ Within(queue) => t.ignored = {}
    BY <2>9 DEF WaitingUpto
  <2>14. InOne(queue) => \A q \in DOMAIN t.batch \ ToSet(list) : t.batch[q] = total[q]
    BY <1>2, <2>9 DEF WaitingUpto, InOne
  <2>15. WaitingUpto(loop, list, queue, b, k, t)
    BY <2>7, <2>10, <2>11, <2>12, <2>13, <2>14 DEF WaitingUpto
  <2> QED BY <1>6, <2>15 DEF Admit, t, u
<1> QED BY <1>5, <1>6

LEMMA WaitingTurns ==
    ASSUME Numbers, held \in [Requests -> Nat], NEW loop \in {"prefill", "waiting"},
           NEW picked, NEW list, NEW queue, Fresh(list, queue), NEW b \in Int,
           NEW k \in 1..Len(queue), NEW s, WaitingUpto(loop, list, queue, b, k - 1, s)
    PROVE  WaitingUpto(loop, list, queue, b, k, Turn(loop, picked, s, queue[k]))
<1> DEFINE r == queue[k]
           n == Chunk(total[r])
           Upto(j, t) == WaitingUpto(loop, list, queue, b, j, t)
<1>1. Batched(s, b) /\ s \in LoopStates /\ s.budget \in Nat
  BY DEF WaitingUpto, Batched
<1>2. /\ r \in Requests /\ r \in ToSet(queue) /\ r \notin ToSet(list)
      /\ r \notin Items(queue, 1, k - 1)
      /\ Items(queue, 1, k) = Items(queue, 1, k - 1) \cup {r}
  BY TurnOf
<1>3. n \in Nat /\ setup.limit \in Nat
  <2>1. total[r] \in Nat /\ setup.limit \in Nat
    BY <1>2 DEF Numbers
  <2>2. n \in 0..total[r]
    BY <2>1, ChunkIs
  <2> QED BY <2>1, <2>2
<1>4. Upto(k, Stopped(s))
  BY StopTurn
<1>5. ~Full(s) /\ n <= s.budget => Upto(k, Admit(s, r))
  BY AdmitTurn
<1>6. CASE loop = "waiting"
  <2>1. Turn(loop, picked, s, r) = WaitingTurn(s, r, picked)
    BY <1>6 DEF Turn
  <2>2. WaitingTurn(s, r, picked) =
          IF r \notin picked \/ Full(s) \/ n > s.budget THEN Stopped(s) ELSE Admit(s, r)
    BY DEF WaitingTurn
  <2>3. n > s.budget \/ n <= s.budget
    BY <1>1, <1>3
  <2> HIDE DEF n, Upto, r
  <2>4. Upto(k, Turn(loop, picked, s, r))
    BY <1>4, <1>5, <2>1, <2>2, <2>3
  <2> QED BY <2>4 DEF Upto, r
<1>7. CASE loop = "prefill"
  <2> DEFINE t == [s EXCEPT !.ignored = @ \cup {r}]
  <2>1. Turn(loop, picked, s, r) = PrefillTurn(s, r)
    BY <1>7 DEF Turn
  <2>2. \/ PrefillTurn(s, r) = Stopped(s)
        \/ n > setup.limit /\ PrefillTurn(s, r) = t
        \/ PrefillTurn(s, r) = s
        \/ ~Full(s) /\ n <= s.budget /\ PrefillTurn(s, r) = Admit(s, r)
    <3>1. n > setup.limit \/ n <= setup.limit
      BY <1>3
    <3>2. n > s.budget \/ n <= s.budget
      BY <1>1, <1>3
    <3>3. PrefillTurn(s, r) =
            CASE Full(s)           -> Stopped(s)
              [] ~Full(s) /\ n > setup.limit -> t
              [] ~Full(s) /\ n <= setup.limit /\ n > s.budget -> s
              [] OTHER             -> Admit(s, r)
      BY DEF PrefillTurn
    <3>4. ~(n > setup.limit /\ n <= setup.limit)
      BY <1>3
    <3> HIDE DEF n, t, r
    <3>5. CASE Full(s)
      BY <3>3, <3>5
    <3>6. CASE ~Full(s) /\ n > setup.limit
      BY <3>3, <3>4, <3>6
    <3>7. CASE ~Full(s) /\ n <= setup.limit /\ n > s.budget
      BY <3>3, <3>4, <3>7
    <3>8. CASE ~Full(s) /\ n <= setup.limit /\ ~(n > s.budget)
      BY <3>2, <3>3, <3>4, <3>8
    <3> QED BY <3>1, <3>5, <3>6, <3>7, <3>8
  <2>3. Upto(k, s)
    BY <1>2, <1>7 DEF WaitingUpto
  <2>4. n > setup.limit => Upto(k, t)
    <3> SUFFICES ASSUME n > setup.limit PROVE Upto(k, t)
      OBVIOUS
    <3>1. /\ t \in LoopStates /\ t.running = s.running /\ t.held = s.held
          /\ t.batch = s.batch /\ t.budget = s.budget /\ t.preempted = s.preempted
          /\ t.ignored = s.ignored \cup {r} /\ t.failed = s.failed
      BY <1>1, <1>2 DEF LoopStates
    <3> HIDE DEF t
    <3>2. Batched(t, b)
      BY <1>1, <3>1, SameBatched
    <3>3. ~Within(queue)
      BY <1>2, <1>3 DEF Within
    <3>4. r \notin DOMAIN t.batch
      BY <1>2, <3>1 DEF WaitingUpto
    <3>5. t.ignored \subseteq Items(queue, 1, k) \ DOMAIN t.batch
      BY <1>2, <3>1, <3>4 DEF WaitingUpto
    <3>6. /\ t.preempted = <<>> /\ ~t.failed /\ IsInjective(t.running)
          /\ ToSet(t.running) = ToSet(list) \cup DOMAIN t.batch
          /\ DOMAIN t.batch \subseteq ToSet(list) \cup Items(queue, 1, k)
          /\ DOMAIN t.batch = {} => t.running = list
          /\ InOne(queue) => \A q \in DOMAIN t.batch \ ToSet(list) : t.batch[q] = total[q]
      BY <1>2, <3>1 DEF WaitingUpto
    <3>7. DOMAIN t.batch \cap ToSet(list) = {}
      BY <1>7, <3>1 DEF WaitingUpto
    <3> QED BY <1>7, <3>2, <3>3, <3>5, <3>6, <3>7 DEF WaitingUpto
  <2> HIDE DEF n, t, r, Upto
  <2>5. Upto(k, Turn(loop, picked, s, r))
    BY <1>4, <1>5, <2>1, <2>2, <2>3, <2>4
  <2> QED BY <2>5 DEF Upto, r
<1> QED BY <1>6, <1>7

LEMMA WaitingLoop ==
    ASSUME Numbers, held \in [Requests -> Nat], NEW loop \in {"prefill", "waiting"},
           NEW picked, NEW list, NEW queue, Fresh(list, queue), NEW b \in Int,
           NEW start, WaitingUpto(loop, list, queue, b, 0, start)
    PROVE  WaitingUpto(loop, list, queue, b, Len(queue), Loop(loop, picked, start, queue))
<1> DEFINE I == {p \in Nat \X LoopStates : WaitingUpto(loop, list, queue, b, p[1], p[2])}
<1>1. /\ start \in LoopStates /\ loop \in {"prefill", "decode", "running", "waiting"}
      /\ queue \in Seq(Requests)
  BY DEF WaitingUpto, Batched, Fresh
<1>2. <<0, start>> \in I
  BY <1>1
<1>3. ASSUME NEW k \in 1..Len(queue), NEW s \in LoopStates, <<k - 1, s>> \in I
      PROVE  <<k, Turn(loop, picked, s, queue[k])>> \in I
  <2>1. WaitingUpto(loop, list, queue, b, k - 1, s)
    BY <1>3
  <2>2. WaitingUpto(loop, list, queue, b, k, Turn(loop, picked, s, queue[k]))
    BY <2>1, WaitingTurns
  <2>3. k \in Nat
    <3>1. Len(queue) \in Nat
      BY <1>1, LenProperties
    <3> QED BY <3>1
  <2>4. Turn(loop, picked, s, queue[k]) \in LoopStates
    BY ONLY <2>2 DEF WaitingUpto, Batched
  <2> QED BY <2>2, <2>3, <2>4
<1>4. <<Len(queue), Loop(loop, picked, start, queue)>> \in I
  <2> HIDE DEF I
  <2> QED BY <1>1, <1>2, <1>3, LoopRule
<1> QED BY <1>4

----------------------------------------------------------------------------
(* What schedule() keeps *)

(* The end of the loops: the batch runs, with the requests of the list that   *)
(* are not preempted; it takes others only from the waiting queue, where the  *)
(* ignored are too.                                                           *)
Made(s, list, b) ==
    /\ Batched(s, b) /\ b \in Int /\ b <= MaxTokens
    /\ IsInjective(s.running) /\ IsInjective(s.preempted)
    /\ ToSet(s.running) \cap ToSet(s.preempted) = {}
    /\ DOMAIN s.batch \subseteq ToSet(s.running)
    /\ ToSet(s.running) \cup ToSet(s.preempted) = ToSet(list) \cup DOMAIN s.batch
    /\ DOMAIN s.batch \subseteq ToSet(list) \cup ToSet(waiting)
    /\ ToSet(s.preempted) \subseteq ToSet(list)
    /\ s.ignored \subseteq ToSet(waiting) \ DOMAIN s.batch

(* The list is part of the running one, the queue the waiting one in some     *)
(* order.                                                                     *)
Queues(list, queue) ==
    /\ list \in Seq(Requests) /\ IsInjective(list) /\ Len(list) <= MaxRunning
    /\ ToSet(list) \subseteq ToSet(running)
    /\ queue \in Seq(Requests) /\ IsInjective(queue) /\ ToSet(queue) = ToSet(waiting)

LEMMA QueuesFresh ==
    ASSUME SInv, NEW list, NEW queue, Queues(list, queue)
    PROVE  /\ Fresh(list, queue)
           /\ \A r \in ToSet(list) : status[r] = "running"
           /\ \A r \in ToSet(queue) : status[r] \in {"waiting", "preempted"} /\ computed[r] = 0
<1>1. ToSet(queue) \subseteq Requests
  BY QueueElements DEF Queues
<1>2. \A r \in ToSet(list) : status[r] = "running"
  BY DEF Queues, SInv, Queued
<1>3. \A r \in ToSet(queue) : status[r] \in {"waiting", "preempted"}
  BY <1>1 DEF Queues, SInv, Queued
<1>4. \A r \in ToSet(queue) : computed[r] = 0
  BY <1>1, <1>3 DEF SInv, Counted
<1>5. ToSet(list) \cap ToSet(queue) = {}
  BY <1>2, <1>3
<1> QED BY <1>2, <1>3, <1>4, <1>5 DEF Fresh, Queues

LEMMA FinishKeeps ==
    ASSUME SInv, NEW list, NEW queue, Queues(list, queue), NEW s, NEW b, Made(s, list, b),
           Finish(s, queue), UNCHANGED <<setup, total, old>>, scheduled' \subseteq Requests,
           Len(flight) < setup.depth
    PROVE  SInv'
<1>1. Numbers
  BY NumbersHold DEF SInv, Typing
<1>2. /\ \A r \in ToSet(list) : status[r] = "running"
      /\ \A r \in ToSet(waiting) : status[r] \in {"waiting", "preempted"} /\ computed[r] = 0
  BY QueuesFresh DEF Queues
<1> DEFINE B == DOMAIN s.batch
           P == ToSet(s.preempted)
           R == ToSet(s.running)
           G == s.ignored
           L == ToSet(list)
           W == ToSet(waiting)
<1>3. /\ s \in LoopStates /\ s.running \in Seq(Requests) /\ s.preempted \in Seq(Requests)
      /\ s.held \in [Requests -> Int] /\ s.failed \in BOOLEAN
  BY DEF Made, Batched, LoopStates
<1>4. /\ B \subseteq R /\ R \cup P = L \cup B /\ B \subseteq L \cup W /\ P \subseteq L
      /\ G \subseteq W \ B /\ R \cap P = {}
      /\ IsInjective(s.running) /\ IsInjective(s.preempted) /\ Len(s.running) <= MaxRunning
  BY DEF Made, Batched
<1>5. L \cap W = {}
  BY <1>2
<1>6. /\ B \subseteq Requests /\ R \subseteq Requests /\ P \subseteq Requests
      /\ W \subseteq Requests /\ L \subseteq Requests
  BY <1>3, <1>4, QueueElements DEF SInv, Typing, TypeOK, Queues
<1>7. \A r \in B : s.batch[r] \in 1..(total[r] - computed[r])
  BY DEF Made, Batched
<1>8. /\ running' = s.running /\ held' = s.held /\ crashed' = s.failed
      /\ waiting' = s.preempted \o Without(queue, B \cup G)
      /\ \A r \in Requests :
            computed'[r] = IF r \in P THEN 0
                           ELSE IF r \in B THEN computed[r] + s.batch[r] ELSE computed[r]
      /\ \A r \in Requests :
            status'[r] = CASE r \in B -> "running" [] r \in P -> "preempted"
                           [] r \in G -> "ignored" [] OTHER -> status[r]
      /\ flight' = IF s.batch = NoTokens THEN flight ELSE Append(flight, s.batch)
  BY DEF Finish
<1>9. status' \in [Requests -> {"new", "waiting", "preempted", "running", "finished", "ignored"}]
  <2>1. \A r \in Requests : status[r] \in {"new", "waiting", "preempted", "running", "finished",
                                            "ignored"}
    BY DEF SInv, Typing, TypeOK
  <2> QED BY <2>1 DEF Finish
<1> DEFINE w == Without(queue, B \cup G)
<1>10. w \in Seq(Requests) /\ IsInjective(w) /\ ToSet(w) = W \ (B \cup G)
  BY WithoutIs DEF Queues
<1>11. /\ waiting' \in Seq(Requests) /\ IsInjective(waiting')
       /\ ToSet(waiting') = P \cup (W \ (B \cup G))
  <2> HIDE DEF w
  <2>1. P \cap ToSet(w) = {}
    BY <1>4, <1>5, <1>10
  <2> DEFINE p == s.preempted
  <2>2. p \in Seq(Requests) /\ IsInjective(p) /\ ToSet(p) \cap ToSet(w) = {}
    BY <1>3, <1>4, <2>1
  <2> HIDE DEF p
  <2>3. /\ p \o w \in Seq(Requests) /\ ToSet(p \o w) = ToSet(p) \cup ToSet(w)
        /\ IsInjective(p \o w)
    BY ONLY <1>10, <2>2, QueueConcat
  <2>4. waiting' = p \o w
    BY <1>8 DEF p, w
  <2> HIDE DEF P, W, B, G
  <2> QED BY <1>10, <2>3, <2>4 DEF p, P
<1>12. /\ \A r \in B : status'[r] = "running" /\ r \notin P
       /\ \A r \in P : status'[r] = "preempted"
       /\ \A r \in G : status'[r] = "ignored" /\ r \notin B /\ r \notin P
       /\ \A r \in Requests \ (B \cup P \cup G) : status'[r] = status[r]
  <2>1. B \cap P = {} /\ G \cap B = {} /\ G \cap P = {} /\ G \subseteq Requests
    BY <1>4, <1>5, <1>6
  <2> HIDE DEF B, P, G
  <2> QED BY <1>6, <1>8, <2>1
<1> HIDE DEF B, P, R, G, L, W, w
<1>13. Queued'
  <2>1. IsInjective(waiting') /\ IsInjective(running')
    BY <1>4, <1>8, <1>11
  <2>2. ASSUME NEW r \in Requests
        PROVE  status'[r] \in {"waiting", "preempted"} <=> r \in ToSet(waiting')
    <3>1. r \in W <=> status[r] \in {"waiting", "preempted"}
      BY DEF SInv, Queued, W
    <3>2. CASE r \in B
      BY <1>11, <1>12, <3>2
    <3>3. CASE r \in P
      BY <1>11, <1>12, <3>3
    <3>4. CASE r \in G
      BY <1>11, <1>12, <3>4
    <3>5. CASE r \notin B \cup P \cup G
      BY <1>11, <1>12, <3>1, <3>5
    <3> QED BY <3>2, <3>3, <3>4, <3>5
  <2>3. ASSUME NEW r \in ToSet(running')
        PROVE  status'[r] = "running"
    <3>1. r \in R
      BY <1>8 DEF R
    <3>2. r \in B \/ (r \in L /\ r \notin P /\ r \notin G)
      BY <1>4, <1>5, <3>1
    <3>3. r \in L => status[r] = "running" /\ r \in Requests
      BY <1>2, <1>6 DEF L
    <3> QED BY <1>12, <3>2, <3>3
  <2> QED BY <2>1, <2>2, <2>3 DEF Queued
<1>14. \A r \in Requests : total'[r] = total[r]
  OBVIOUS
<1>15. /\ \A r \in P : computed'[r] = 0
       /\ \A r \in B : computed'[r] = computed[r] + s.batch[r]
       /\ \A r \in Requests \ (B \cup P) : computed'[r] = computed[r]
  BY <1>6, <1>8, <1>12
<1>16. ASSUME NEW r \in Requests
       PROVE  computed'[r] \in 0..total[r]
  <2>1. computed[r] \in Nat /\ total[r] \in Nat /\ computed[r] <= total[r]
    BY <1>1 DEF Numbers
  <2>2. CASE r \in P
    BY <1>15, <2>1, <2>2
  <2>3. CASE r \in B
    BY <1>7, <1>15, <2>1, <2>3
  <2>4. CASE r \notin B \cup P
    BY <1>15, <2>1, <2>4
  <2> QED BY <2>2, <2>3, <2>4
<1>17. Counted'
  <2>1. ASSUME NEW r \in Requests, status'[r] # "finished"
        PROVE  total[r] < Prompt[r] + setup.maxNew[r]
    <3>1. status[r] # "finished"
      <4>1. r \in B \cup P \cup G => r \in L \cup W
        BY <1>4
      <4>2. r \in L \cup W => status[r] # "finished"
        BY <1>2 DEF L, W
      <4> QED BY <1>12, <2>1, <4>1, <4>2
    <3> QED BY <3>1 DEF SInv, Counted
  <2>2. ASSUME NEW r \in Requests, status'[r] \notin {"running", "finished"}
        PROVE  computed'[r] = 0
    <3>1. CASE r \in P
      BY <1>15, <3>1
    <3>2. CASE r \in G
      <4>1. r \in W /\ r \notin B /\ r \notin P
        BY <1>4, <1>12, <3>2
      <4> QED BY <1>2, <1>15, <4>1 DEF W
    <3>3. CASE r \notin B \cup P \cup G
      <4>1. status[r] \notin {"running", "finished"}
        BY <1>12, <2>2, <3>3
      <4>2. computed[r] = 0
        BY <4>1 DEF SInv, Counted
      <4> QED BY <1>15, <3>3, <4>2
    <3> QED BY <1>12, <2>2, <3>1, <3>2, <3>3
  <2> QED BY <2>1, <2>2 DEF Counted
<1>18. ASSUME NEW r \in Requests
       PROVE  held'[r] = IF status'[r] = "running" THEN computed'[r] ELSE 0
  <2>1. held'[r] = IF r \in P THEN 0 ELSE held[r] + Given(s.batch, r)
    BY <1>8 DEF Made, Batched, P
  <2>2. held[r] = IF status[r] = "running" THEN computed[r] ELSE 0
    BY DEF SInv, BlocksAccounted
  <2>3. computed[r] \in Nat
    BY <1>1 DEF Numbers
  <2>4. CASE r \in P
    BY <1>12, <2>1, <2>4
  <2>5. CASE r \in B
    <3>1. held'[r] = held[r] + s.batch[r]
      BY <1>12, <2>1, <2>5 DEF Given, B
    <3>2. r \in L \/ r \in W
      BY <1>4, <2>5
    <3>3. held[r] = computed[r]
      BY <1>2, <2>2, <3>2 DEF L, W
    <3> QED BY <1>12, <1>15, <2>5, <3>1, <3>3
  <2>6. CASE r \notin B \cup P
    <3>1. held'[r] = held[r]
      BY <2>1, <2>2, <2>3, <2>6 DEF Given, B
    <3>2. computed'[r] = computed[r]
      BY <1>15, <2>6
    <3>3. CASE r \in G
      <4>1. status[r] \in {"waiting", "preempted"}
        BY <1>2, <1>4, <3>3 DEF W
      <4> QED BY <1>12, <2>2, <3>1, <3>3, <4>1
    <3>4. CASE r \notin G
      BY <1>12, <2>2, <2>6, <3>1, <3>2, <3>4
    <3> QED BY <3>3, <3>4
  <2> QED BY <2>4, <2>5, <2>6
<1>19. SumFunction(held') <= setup'.blocks
  BY <1>8 DEF Made, Batched
<1>20. held' \in [Requests -> Nat] /\ \A r \in Requests : held'[r] \in 0..setup.blocks
  <2>1. ASSUME NEW r \in Requests
        PROVE  held'[r] \in Nat
    <3>1. computed'[r] \in Nat
      <4>1. total[r] \in Nat
        BY <1>1 DEF Numbers
      <4> QED BY <1>16, <4>1
    <3> QED BY <1>18, <3>1
  <2>2. held' \in [Requests -> Nat]
    BY <1>3, <1>8, <2>1
  <2>3. ASSUME NEW r \in Requests
        PROVE  held'[r] <= setup.blocks
    <3>1. IsFiniteSet(Requests) /\ setup.blocks \in Nat
      BY <1>1 DEF Numbers
    <3>2. held'[r] <= SumFunctionOnSet(held', Requests) /\ SumFunctionOnSet(held', Requests) \in Nat
      BY <2>1, <3>1, SumCovers
    <3>3. SumFunction(held') = SumFunctionOnSet(held', Requests)
      BY <2>2 DEF SumFunction
    <3> QED BY <1>19, <2>1, <3>1, <3>2, <3>3
  <2> QED BY <1>1, <2>1, <2>2, <2>3 DEF Numbers
<1>21. /\ flight' \in Seq(BatchesOf(Nat)) /\ Len(flight') <= setup.depth
       /\ \A i \in DOMAIN flight' : /\ DOMAIN flight'[i] \in (SUBSET Requests) \ {{}}
                                    /\ SumFunction(flight'[i]) <= MaxTokens
  <2>1. /\ flight \in Seq(BatchesOf(Nat)) /\ Len(flight) \in Nat /\ DOMAIN flight = 1..Len(flight)
        /\ Len(flight) <= setup.depth /\ setup.depth \in Nat
        /\ \A i \in DOMAIN flight : /\ DOMAIN flight[i] \in (SUBSET Requests) \ {{}}
                                    /\ SumFunction(flight[i]) <= MaxTokens
    BY <1>1, LenProperties DEF SInv, Typing, TypeOK, Numbers
  <2>2. CASE s.batch = NoTokens
    BY <1>8, <2>1, <2>2
  <2>3. CASE s.batch # NoTokens
    <3>1. s.batch \in [B -> Nat]
      <4>1. s.batch \in [B -> Int]
        BY <1>3 DEF LoopStates, BatchesOf, B
      <4>2. \A r \in B : s.batch[r] \in Nat
        <5> TAKE r \in B
        <5>1. total[r] - computed[r] \in Int
          BY <1>1, <1>6 DEF Numbers
        <5> QED BY <1>7, <5>1
      <4> QED BY <4>1, <4>2
    <3>2. s.batch \in BatchesOf(Nat)
      BY <1>6, <3>1 DEF BatchesOf
    <3>3. B # {}
      <4> SUFFICES ASSUME B = {} PROVE s.batch = NoTokens
        BY <2>3
      <4> QED BY <3>1 DEF NoTokens
    <3>4. SumFunction(s.batch) <= MaxTokens
      <4>1. s.budget \in Nat /\ SumFunction(s.batch) + s.budget = b /\ b \in Int /\ b <= MaxTokens
        BY DEF Made, Batched
      <4>2. SumFunction(s.batch) \in Int
        BY <1>1, <1>3, BatchIs
      <4> QED BY <1>1, <4>1, <4>2 DEF Numbers
    <3> DEFINE f == Append(flight, s.batch)
    <3>5. /\ f \in Seq(BatchesOf(Nat)) /\ Len(f) = Len(flight) + 1
          /\ \A i \in 1..Len(flight) : f[i] = flight[i]
          /\ f[Len(flight) + 1] = s.batch
      BY <2>1, <3>2, AppendProperties
    <3> HIDE DEF f
    <3>6. DOMAIN f = 1..(Len(flight) + 1)
      BY <3>5, LenProperties
    <3>7. \A i \in DOMAIN f : /\ DOMAIN f[i] \in (SUBSET Requests) \ {{}}
                              /\ SumFunction(f[i]) <= MaxTokens
      <4> TAKE i \in DOMAIN f
      <4>1. CASE i \in 1..Len(flight)
        BY <2>1, <3>5, <4>1
      <4>2. CASE i \notin 1..Len(flight)
        <5>1. i = Len(flight) + 1
          BY <2>1, <3>6, <4>2
        <5> QED BY <1>6, <3>3, <3>4, <3>5, <5>1 DEF B
      <4> QED BY <4>1, <4>2
    <3>8. flight' = f
      BY <1>8, <2>3 DEF f
    <3> QED BY <2>1, <3>5, <3>7, <3>8
  <2> QED BY <2>2, <2>3
<1>22. Typing'
  <2>1. setup' \in Setups /\ setup' = setup
    BY <1>1 DEF Numbers
  <2>2. \A r \in Requests : total'[r] \in Prompt[r]..(Prompt[r] + setup'.maxNew[r])
    BY DEF SInv, Typing, TypeOK
  <2>3. running' \in Seq(Requests) /\ Len(running') <= MaxRunning
    BY <1>3, <1>4, <1>8
  <2>4. old' \subseteq Requests /\ scheduled' \subseteq Requests /\ crashed' \in BOOLEAN
    BY <1>3, <1>8 DEF SInv, Typing, TypeOK
  <2>5. TypeOK'
    BY <1>9, <1>11, <1>14, <1>16, <1>20, <1>21, <2>1, <2>2, <2>3, <2>4 DEF TypeOK
  <2> QED BY <1>20, <1>21, <2>5 DEF Typing
<1>23. BlocksAccounted'
  BY <1>18, <1>19 DEF BlocksAccounted
<1> QED BY <1>13, <1>17, <1>22, <1>23 DEF SInv

(* The state the loops start with.                                            *)
LEMMA StartIs ==
    ASSUME SInv, NEW b \in Nat, NEW list \in Seq(Requests), Len(list) <= MaxRunning,
           NEW s, s.running = list, s.held = held, s.batch = NoTokens, s.budget = b,
           s.preempted = <<>>, s.ignored = {}, s.stop = FALSE, s.failed = FALSE,
           s \in LoopStates
    PROVE  Batched(s, b) /\ DOMAIN s.batch = {}
<1>1. DOMAIN s.batch = {}
  BY DEF NoTokens
<1>2. SumFunction(s.batch) = 0
  <2>1. IsFiniteSet({}) /\ \A x \in {} : NoTokens[x] \in Int
    BY FS_EmptySet
  <2>2. SumFunctionOnSet(NoTokens, {}) = 0
    BY <2>1, SumOf
  <2> QED BY <1>1, <2>2 DEF SumFunction
<1>3. SumFunction(s.held) <= setup.blocks
  BY DEF SInv, BlocksAccounted
<1>4. \A r \in Requests :
         s.held[r] = IF r \in ToSet(s.preempted) THEN 0 ELSE held[r] + Given(s.batch, r)
  <2>1. \A r \in Requests : held[r] \in Nat
    BY DEF SInv, Typing
  <2> QED BY <1>1, <2>1, EmptyQueue DEF Given
<1>5. s.budget \in Nat /\ SumFunction(s.batch) + s.budget = b
  BY <1>2
<1> QED BY <1>1, <1>3, <1>4, <1>5 DEF Batched

LEMMA StartTyped ==
    ASSUME SInv, NEW b \in Nat, NEW list \in Seq(Requests)
    PROVE  /\ [Start(b) EXCEPT !.running = list] \in LoopStates
           /\ Start(b) \in LoopStates
<1>1. held \in [Requests -> Int] /\ running \in Seq(Requests)
  BY DEF SInv, Typing, TypeOK
<1>2. NoTokens \in BatchesOf(Int)
  <2>1. NoTokens \in [{} -> Int] /\ {} \in SUBSET Requests
    BY DEF NoTokens
  <2> QED BY <2>1 DEF BatchesOf
<1>3. <<>> \in Seq(Requests)
  BY EmptySeq
<1> DEFINE h == held
           l == running
           e == NoTokens
<1>4. Start(b) = [running |-> l, held |-> h, batch |-> e, budget |-> b, ignored |-> {},
                  preempted |-> <<>>, stop |-> FALSE, failed |-> FALSE]
  BY DEF Start
<1>5. h \in [Requests -> Int] /\ l \in Seq(Requests) /\ e \in BatchesOf(Int)
  BY <1>1, <1>2
<1> HIDE DEF h, l, e
<1>6. Start(b) \in LoopStates
  BY ONLY <1>3, <1>4, <1>5, b \in Nat DEF LoopStates
<1>7. [Start(b) EXCEPT !.running = list] \in LoopStates
  BY ONLY <1>6, list \in Seq(Requests) DEF LoopStates
<1> QED BY <1>6, <1>7

(* What a loop over the running requests leaves.                              *)
LEMMA RunningMade ==
    ASSUME SInv, NEW list, Queues(list, waiting), NEW loop, NEW b \in Int, b <= MaxTokens,
           NEW ig, ig \subseteq ToSet(waiting), NEW k, NEW s,
           RunningUpto(loop, list, b, ig, k, s)
    PROVE  Made(s, list, b) /\ DOMAIN s.batch \subseteq ToSet(list)
<1>1. /\ Batched(s, b) /\ s.running \o s.preempted = list /\ s.ignored = ig
      /\ s.running \in Seq(Requests) /\ s.preempted \in Seq(Requests)
  BY DEF RunningUpto, Batched, LoopStates
<1>2. ToSet(list) \cap ToSet(waiting) = {} /\ list \in Seq(Requests) /\ IsInjective(list)
  BY QueuesFresh DEF Fresh, Queues
<1>3. /\ ToSet(list) = ToSet(s.running) \cup ToSet(s.preempted)
      /\ IsInjective(s.running) /\ IsInjective(s.preempted)
      /\ ToSet(s.running) \cap ToSet(s.preempted) = {}
  <2> DEFINE x == s.running
             y == s.preempted
  <2>1. x \in Seq(Requests) /\ y \in Seq(Requests) /\ list = x \o y /\ IsInjective(x \o y)
    BY <1>1, <1>2
  <2> HIDE DEF x, y
  <2>2. /\ ToSet(list) = ToSet(x) \cup ToSet(y)
        /\ IsInjective(x) /\ IsInjective(y) /\ ToSet(x) \cap ToSet(y) = {}
    BY ONLY <2>1, QueueConcat
  <2> QED BY <2>2 DEF x, y
<1>4. DOMAIN s.batch \subseteq ToSet(s.running)
  <2>1. DOMAIN s.running = 1..Len(s.running) /\ Len(s.running) \in Nat
    BY <1>1, LenProperties
  <2>2. \A r \in DOMAIN s.batch : \E j \in 1..k : j <= Len(s.running) /\ s.running[j] = r
    BY DEF RunningUpto
  <2>3. \A j \in 1..k : j <= Len(s.running) => j \in DOMAIN s.running
    BY <2>1
  <2> QED BY <2>2, <2>3 DEF ToSet
<1> QED BY <1>1, <1>2, <1>3, <1>4 DEF Made

(* What a loop over the waiting requests leaves.                              *)
LEMMA WaitingMade ==
    ASSUME SInv, NEW list, NEW queue, Queues(list, queue), NEW loop, NEW b \in Int,
           b <= MaxTokens, NEW s, WaitingUpto(loop, list, queue, b, Len(queue), s)
    PROVE  Made(s, list, b)
<1>1. Items(queue, 1, Len(queue)) = ToSet(queue)
  <2>1. DOMAIN queue = 1..Len(queue)
    BY LenProperties DEF Queues
  <2> QED BY <2>1 DEF Items, ToSet
<1>2. ToSet(queue) = ToSet(waiting)
  BY DEF Queues
<1>3. /\ ToSet(s.preempted) = {} /\ IsInjective(s.preempted)
  BY EmptyQueue DEF WaitingUpto
<1> QED BY <1>1, <1>2, <1>3 DEF WaitingUpto, Made

(* Where the loops begin: a loop over the running requests with nothing in    *)
(* the batch, one over the waiting ones with none of them in it.              *)
LEMMA RunningBegins ==
    ASSUME NEW b, NEW s, Batched(s, b), DOMAIN s.batch = {}, s.preempted = <<>>, ~s.failed,
           NEW list \in Seq(Requests), s.running = list, NEW loop
    PROVE  RunningUpto(loop, list, b, s.ignored, 0, s)
<1>1. s.running \o s.preempted = list
  BY ConcatEmptySeq
<1> QED BY <1>1 DEF RunningUpto

LEMMA WaitingBegins ==
    ASSUME NEW b, NEW s, Batched(s, b), s.preempted = <<>>, ~s.failed, s.ignored = {},
           NEW list \in Seq(Requests), s.running = list, IsInjective(list),
           DOMAIN s.batch \subseteq ToSet(list), NEW loop, NEW queue,
           loop = "prefill" => DOMAIN s.batch = {}
    PROVE  WaitingUpto(loop, list, queue, b, 0, s)
<1>1. Items(queue, 1, 0) = {}
  BY DEF Items
<1>2. InOrder(queue, 0, s)
  BY <1>1 DEF InOrder
<1> QED BY <1>1, <1>2 DEF WaitingUpto

LEMMA SInvHas ==
    ASSUME SInv
    PROVE  /\ Numbers /\ held \in [Requests -> Nat]
           /\ running \in Seq(Requests) /\ waiting \in Seq(Requests)
           /\ IsInjective(running) /\ IsInjective(waiting) /\ Len(running) <= MaxRunning
           /\ Queues(running, waiting)
           /\ \A r \in ToSet(running) : r \in Requests /\ status[r] = "running"
           /\ \A r \in ToSet(waiting) : r \in Requests /\ status[r] \in {"waiting", "preempted"}
<1>1. Numbers /\ held \in [Requests -> Nat]
  BY NumbersHold DEF SInv, Typing
<1>2. /\ running \in Seq(Requests) /\ waiting \in Seq(Requests)
      /\ IsInjective(running) /\ IsInjective(waiting) /\ Len(running) <= MaxRunning
  BY DEF SInv, Typing, TypeOK, Queued
<1>3. ToSet(running) \subseteq Requests /\ ToSet(waiting) \subseteq Requests
  BY <1>2, QueueElements
<1>4. /\ \A r \in ToSet(running) : r \in Requests /\ status[r] = "running"
      /\ \A r \in ToSet(waiting) : r \in Requests /\ status[r] \in {"waiting", "preempted"}
  BY <1>3 DEF SInv, Queued
<1> QED BY <1>1, <1>2, <1>4 DEF Queues

(* A step of the hybrid scheduler: a batch of waiting requests, or one of     *)
(* running requests when none is in scheduled_req_ids.                        *)
Prefilled(s) ==
    /\ s.preempted = <<>> /\ ~s.failed
    /\ DOMAIN s.batch \cap ToSet(running) = {}
    /\ InOne(waiting) => \A r \in DOMAIN s.batch : s.batch[r] = total[r]

(* The other: nobody is in scheduled_req_ids, and no assertion fails if each  *)
(* needs one token.                                                           *)
Decoded(s) ==
    /\ scheduled = {} /\ DOMAIN s.batch \subseteq ToSet(running)
    /\ Whole(running) => ~s.failed

(* What a step of the hybrid scheduler has made.                              *)
HybridMade(s) ==
    /\ Finish(s, waiting) /\ scheduled' = scheduled \cup DOMAIN s.batch
    /\ Made(s, running, MaxTokens)
    /\ Within(waiting) => s.ignored = {}
    /\ Prefilled(s) \/ Decoded(s)

LEMMA HybridMakes ==
    ASSUME SInv, HybridSchedule
    PROVE  \E s : HybridMade(s)
<1> DEFINE start == Start(MaxTokens)
           p == Loop("prefill", {}, start, waiting)
           p0 == [p EXCEPT !.stop = FALSE]
           d == Loop("decode", {}, p0, running)
<1>1. /\ Numbers /\ held \in [Requests -> Nat] /\ Queues(running, waiting)
      /\ running \in Seq(Requests) /\ IsInjective(running) /\ Len(running) <= MaxRunning
      /\ Fresh(running, waiting) /\ ToSet(running) \cap ToSet(waiting) = {}
  BY SInvHas, QueuesFresh DEF Fresh
<1>2. MaxTokens \in Nat /\ MaxTokens \in Int /\ MaxTokens <= MaxTokens
  BY <1>1 DEF Numbers
<1>3. /\ start \in LoopStates /\ start.running = running /\ start.held = held
      /\ start.batch = NoTokens /\ start.budget = MaxTokens /\ start.ignored = {}
      /\ start.preempted = <<>> /\ start.stop = FALSE /\ start.failed = FALSE
  BY <1>1, <1>2, StartTyped DEF Start
<1>4. IF scheduled \cup DOMAIN p.batch = {}
      THEN Finish(d, waiting) /\ scheduled' = scheduled \cup DOMAIN d.batch
      ELSE Finish(p, waiting) /\ scheduled' = scheduled \cup DOMAIN p.batch
  BY DEF HybridSchedule
<1> HIDE DEF start
<1>5. Batched(start, MaxTokens) /\ DOMAIN start.batch = {}
  BY <1>1, <1>2, <1>3, StartIs
<1>6. WaitingUpto("prefill", running, waiting, MaxTokens, 0, start)
  BY <1>1, <1>3, <1>5, WaitingBegins
<1>7. WaitingUpto("prefill", running, waiting, MaxTokens, Len(waiting), p)
  BY <1>1, <1>2, <1>6, WaitingLoop
<1> HIDE DEF p
<1>8. CASE scheduled \cup DOMAIN p.batch # {}
  <2>1. Made(p, running, MaxTokens)
    BY <1>1, <1>2, <1>7, WaitingMade
  <2>2. Within(waiting) => p.ignored = {}
    BY <1>7 DEF WaitingUpto
  <2>3. Prefilled(p)
    BY <1>7 DEF WaitingUpto, Prefilled
  <2> QED BY <1>4, <1>8, <2>1, <2>2, <2>3 DEF HybridMade
<1>9. CASE scheduled \cup DOMAIN p.batch = {}
  <2>1. /\ p \in LoopStates /\ Batched(p, MaxTokens) /\ DOMAIN p.batch = {}
        /\ p.running = running /\ p.preempted = <<>> /\ ~p.failed
    BY <1>7, <1>9 DEF WaitingUpto, Batched
  <2>2. /\ p0 \in LoopStates /\ p0.running = p.running /\ p0.held = p.held
        /\ p0.batch = p.batch /\ p0.budget = p.budget /\ p0.preempted = p.preempted
        /\ p0.ignored = p.ignored /\ p0.failed = p.failed
    BY <2>1 DEF LoopStates
  <2> HIDE DEF p0
  <2>3. Batched(p0, MaxTokens) /\ DOMAIN p0.batch = {}
    BY <2>1, <2>2, SameBatched
  <2>4. RunningUpto("decode", running, MaxTokens, p0.ignored, 0, p0)
    BY <1>1, <2>1, <2>2, <2>3, RunningBegins
  <2>5. RunningUpto("decode", running, MaxTokens, p0.ignored, Len(running), d)
    BY <1>1, <1>2, <2>4, RunningLoop
  <2> HIDE DEF d
  <2>6. p0.ignored \subseteq ToSet(waiting)
    <3>1. p0.ignored \subseteq Items(waiting, 1, Len(waiting))
      BY <1>7, <2>2 DEF WaitingUpto
    <3>2. DOMAIN waiting = 1..Len(waiting)
      BY <1>1, LenProperties DEF Queues
    <3> QED BY <3>1, <3>2 DEF Items, ToSet
  <2>7. Made(d, running, MaxTokens) /\ DOMAIN d.batch \subseteq ToSet(running)
    BY <1>1, <1>2, <2>5, <2>6, RunningMade
  <2>8. Within(waiting) => d.ignored = {}
    BY <1>7, <2>2, <2>5 DEF WaitingUpto, RunningUpto
  <2>9. Decoded(d)
    BY <1>9, <2>5, <2>7 DEF Decoded, RunningUpto
  <2> QED BY <1>4, <1>9, <2>7, <2>8, <2>9 DEF HybridMade
<1> QED BY <1>8, <1>9

(* A step of vLLM's scheduler or of the sorting one: the loop over the list   *)
(* of running requests, then, if it has preempted none, that over the queue.  *)
LoopsMade(s, list, queue, b) ==
    /\ Queues(list, queue) /\ Finish(s, queue) /\ Made(s, list, b)
    /\ ~s.failed /\ s.ignored = {}
    /\ InOne(queue) => \A r \in DOMAIN s.batch \ ToSet(list) : s.batch[r] = total[r]
    /\ \/ DOMAIN s.batch \subseteq ToSet(list)
       \/ s.preempted = <<>> /\ InOrder(queue, Len(queue), s)

(* The two loops as the actions have them.                                    *)
LoopsRun(picked, start, list, queue, other) ==
    \E first \in {Loop("running", picked, start, list)} :
       IF first.preempted # <<>> THEN Finish(first, other)
       ELSE \E second \in {Loop("waiting", picked, [first EXCEPT !.stop = FALSE], queue)} :
               Finish(second, queue)

(* What the first of them starts from.                                        *)
Starts(start, list, b) ==
    /\ start \in LoopStates
    /\ start.running = list /\ start.held = held /\ start.batch = NoTokens
    /\ start.budget = b /\ start.preempted = <<>> /\ start.ignored = {}
    /\ start.stop = FALSE /\ start.failed = FALSE

LEMMA LoopsMake ==
    ASSUME SInv, NEW list, NEW queue, Queues(list, queue), NEW other, Queues(list, other),
           NEW b \in Nat, b <= MaxTokens, NEW picked, NEW start, Starts(start, list, b),
           LoopsRun(picked, start, list, queue, other)
    PROVE  \E s : \E q \in {other, queue} : LoopsMade(s, list, q, b)
<1> DEFINE f == Loop("running", picked, start, list)
           f0 == [f EXCEPT !.stop = FALSE]
           w == Loop("waiting", picked, f0, queue)
<1>1. /\ Numbers /\ held \in [Requests -> Nat] /\ b \in Int
      /\ list \in Seq(Requests) /\ IsInjective(list) /\ Len(list) <= MaxRunning
      /\ Queues(list, waiting) /\ Fresh(list, queue)
  BY SInvHas, QueuesFresh DEF Queues
<1>2. IF f.preempted # <<>> THEN Finish(f, other) ELSE Finish(w, queue)
  BY DEF LoopsRun
<1>3. Batched(start, b) /\ DOMAIN start.batch = {}
  BY <1>1, StartIs DEF Starts
<1>4. RunningUpto("running", list, b, start.ignored, 0, start) /\ start.ignored = {}
  BY <1>1, <1>3, RunningBegins DEF Starts
<1>5. RunningUpto("running", list, b, start.ignored, Len(list), f)
  BY <1>1, <1>4, RunningLoop
<1> HIDE DEF f
<1>6. Made(f, list, b) /\ DOMAIN f.batch \subseteq ToSet(list)
  BY <1>1, <1>4, <1>5, RunningMade
<1>7. f.ignored = {} /\ ~f.failed /\ Batched(f, b) /\ f \in LoopStates
  BY <1>4, <1>5 DEF RunningUpto, Batched
<1>8. CASE f.preempted # <<>>
  <2>1. DOMAIN f.batch \ ToSet(list) = {}
    BY <1>6
  <2>2. LoopsMade(f, list, other, b)
    BY <1>2, <1>6, <1>7, <1>8, <2>1 DEF LoopsMade
  <2> QED BY <2>2
<1>9. CASE f.preempted = <<>>
  <2>1. f.running = list
    <3>1. f.running \o <<>> = list /\ f.running \in Seq(Requests)
      BY <1>5, <1>7, <1>9 DEF RunningUpto, LoopStates
    <3> QED BY <3>1, ConcatEmptySeq
  <2>2. /\ f0 \in LoopStates /\ f0.running = f.running /\ f0.held = f.held
        /\ f0.batch = f.batch /\ f0.budget = f.budget /\ f0.preempted = f.preempted
        /\ f0.ignored = f.ignored /\ f0.failed = f.failed
    BY <1>7 DEF LoopStates
  <2> HIDE DEF f0
  <2>3. Batched(f0, b)
    BY <1>7, <2>2, SameBatched
  <2>4. WaitingUpto("waiting", list, queue, b, 0, f0)
    BY <1>1, <1>6, <1>7, <1>9, <2>1, <2>2, <2>3, WaitingBegins
  <2>5. WaitingUpto("waiting", list, queue, b, Len(queue), w)
    BY <1>1, <2>4, WaitingLoop
  <2> HIDE DEF w
  <2>6. Made(w, list, b)
    BY <1>1, <2>5, WaitingMade
  <2>7. LoopsMade(w, list, queue, b)
    BY <1>2, <1>9, <2>5, <2>6 DEF LoopsMade, WaitingUpto
  <2> QED BY <2>7
<1> QED BY <1>8, <1>9

(* What a step of the sorting scheduler has made.                             *)
SortedMade(s, list, queue) ==
    /\ LoopsMade(s, list, queue, MaxTokens)
    /\ \/ setup.policy = "mixed" /\ ToSet(list) = ToSet(running)
       \/ setup.policy = "sorted" /\ list = <<>>

LEMMA SortedMakes ==
    ASSUME SInv, SortedSchedule
    PROVE  \E s, list, queue : SortedMade(s, list, queue)
<1> DEFINE Mixed == setup.policy = "mixed"
           all == IF Mixed THEN running \o waiting ELSE waiting
           sorted == SortedBy(Length, all)
           picked == PreScheduled(sorted)
           Others == {r \in Requests : status[r] # "running"}
           Ours == {r \in Requests : status[r] = "running"}
           queue == Keep(sorted, Others)
           list == Keep(sorted, Ours)
           start == [Start(MaxTokens) EXCEPT !.running = list]
<1>1. /\ Numbers /\ running \in Seq(Requests) /\ waiting \in Seq(Requests)
      /\ IsInjective(running) /\ IsInjective(waiting) /\ Len(running) <= MaxRunning
      /\ \A r \in ToSet(running) : r \in Requests /\ status[r] = "running"
      /\ \A r \in ToSet(waiting) : r \in Requests /\ status[r] \in {"waiting", "preempted"}
  BY SInvHas
<1>2. MaxTokens \in Nat /\ MaxTokens <= MaxTokens
  BY <1>1 DEF Numbers
<1>3. /\ setup.policy \in {"sorted", "mixed"}
      /\ LoopsRun(picked, start, list, queue, waiting)
  BY DEF SortedSchedule, LoopsRun
<1> HIDE DEF picked
<1>4. /\ all \in Seq(Requests) /\ IsInjective(all)
      /\ ToSet(all) = IF Mixed THEN ToSet(running) \cup ToSet(waiting) ELSE ToSet(waiting)
  <2>1. ToSet(running) \cap ToSet(waiting) = {}
    BY <1>1
  <2>2. /\ running \o waiting \in Seq(Requests)
        /\ ToSet(running \o waiting) = ToSet(running) \cup ToSet(waiting)
        /\ IsInjective(running \o waiting)
    BY <1>1, <2>1, QueueConcat
  <2> HIDE DEF Mixed
  <2> QED BY <1>1, <2>2
<1>5. \A r \in Requests : Length[r] \in Int
  <2> TAKE r \in Requests
  <2>1. total[r] \in Nat /\ computed[r] \in Nat /\ Prompt[r] \in Nat
    BY <1>1 DEF Numbers
  <2> QED BY <2>1 DEF Length
<1> HIDE DEF all
<1>6. sorted \in Seq(Requests) /\ IsInjective(sorted) /\ ToSet(sorted) = ToSet(all)
  BY <1>4, <1>5, SortedIs
<1> HIDE DEF sorted
<1>7. /\ queue \in Seq(Requests) /\ IsInjective(queue) /\ ToSet(queue) = ToSet(sorted) \cap Others
      /\ list \in Seq(Requests) /\ IsInjective(list) /\ ToSet(list) = ToSet(sorted) \cap Ours
  <2> HIDE DEF Others, Ours
  <2> QED BY <1>6, KeepIs
<1> HIDE DEF queue, list
<1>8. ToSet(queue) = ToSet(waiting)
  BY <1>1, <1>4, <1>6, <1>7
<1>9. ToSet(list) = IF Mixed THEN ToSet(running) ELSE {}
  BY <1>1, <1>4, <1>6, <1>7
<1> HIDE DEF Others, Ours
<1>10. ~Mixed => list = <<>>
  BY <1>7, <1>9, QueueElements
<1>11. Len(list) <= MaxRunning
  <2>1. MaxRunning \in Nat
    BY <1>1 DEF Numbers
  <2>2. Len(list) = Cardinality(ToSet(list)) /\ IsFiniteSet(ToSet(list))
    BY <1>7, QueueLength
  <2>3. Len(running) = Cardinality(ToSet(running)) /\ IsFiniteSet(ToSet(running))
    BY <1>1, QueueLength
  <2>4. CASE ToSet(list) = ToSet(running)
    BY <1>1, <2>2, <2>3, <2>4
  <2>5. CASE ToSet(list) = {}
    <3>1. Len(list) = 0
      BY <1>7, <2>5, QueueElements
    <3> QED BY <2>1, <3>1
  <2> QED BY <1>9, <2>4, <2>5
<1>12. Queues(list, queue) /\ Queues(list, waiting)
  BY <1>1, <1>7, <1>8, <1>9, <1>11 DEF Queues
<1> DEFINE base == Start(MaxTokens)
<1>13. base \in LoopStates /\ start \in LoopStates
  BY <1>2, <1>7, StartTyped
<1>14. /\ base.held = held /\ base.batch = NoTokens /\ base.budget = MaxTokens
       /\ base.ignored = {} /\ base.preempted = <<>> /\ base.stop = FALSE
       /\ base.failed = FALSE
  BY DEF Start
<1>15. /\ start.running = list /\ start.held = held
       /\ start.batch = NoTokens /\ start.budget = MaxTokens /\ start.ignored = {}
       /\ start.preempted = <<>> /\ start.stop = FALSE /\ start.failed = FALSE
  <2>1. start = [base EXCEPT !.running = list]
    OBVIOUS
  <2> HIDE DEF base, start
  <2> QED BY <1>13, <1>14, <2>1 DEF LoopStates
<1> HIDE DEF start
<1>16. Starts(start, list, MaxTokens)
  BY <1>13, <1>15 DEF Starts
<1>17. PICK s, q : LoopsMade(s, list, q, MaxTokens)
  <2>1. \E s : \E q \in {waiting, queue} : LoopsMade(s, list, q, MaxTokens)
    BY <1>2, <1>3, <1>12, <1>16, LoopsMake
  <2> QED BY <2>1
<1>18. SortedMade(s, list, q)
  <2>1. Mixed \/ (setup.policy = "sorted" /\ ~Mixed)
    BY <1>3
  <2>2. CASE Mixed
    BY <1>9, <1>17, <2>2 DEF SortedMade
  <2>3. CASE setup.policy = "sorted" /\ ~Mixed
    BY <1>10, <1>17, <2>3 DEF SortedMade
  <2> QED BY <2>1, <2>2, <2>3
<1> QED BY <1>18

(* The bound of the batch is a number.                                        *)
LEMMA SumIsNat ==
    ASSUME NEW S, IsFiniteSet(S), NEW f, \A x \in S : f[x] \in Nat, NEW A \in SUBSET S
    PROVE  SumFunctionOnSet(f, A) \in Nat
<1>1. IsFiniteSet(A) /\ (\A x \in A : f[x] \in Nat) /\ (\A x \in S : f[x] \in Int)
  BY FS_Subset
<1>2. CASE A = {}
  BY <1>1, <1>2, SumOf
<1>3. CASE A # {}
  <2>1. PICK a \in A : TRUE
    BY <1>3
  <2> QED BY <1>1, <2>1, SumCovers
<1> QED BY <1>2, <1>3

LEMMA SqrtIs == ASSUME NEW n \in Nat PROVE Sqrt(n) \in 0..n
<1> DEFINE P == {k \in Nat : (k + 1) * (k + 1) > n}
<1>1. n \in P
  <2>1. (n + 1) * (n + 1) >= n + 1
    OBVIOUS
  <2> QED BY <2>1
<1>2. PICK k \in P : \A x \in P : k <= x
  <2>1. P \in SUBSET Nat /\ P # {}
    BY <1>1
  <2> HIDE DEF P
  <2> QED BY <2>1, LeastNumber
<1>3. k \in Nat /\ k <= n /\ (k + 1) * (k + 1) > n
  BY <1>1, <1>2
<1>4. k * k <= n
  <2>1. CASE k = 0
    BY <2>1
  <2>2. CASE k # 0
    <3>1. k - 1 \in Nat /\ k - 1 \notin P
      BY <1>2, <1>3, <2>2
    <3>2. ~((k - 1 + 1) * (k - 1 + 1) > n)
      BY <3>1
    <3>3. k - 1 + 1 = k
      BY <1>3
    <3>4. ~(k * k > n)
      BY <3>2, <3>3
    <3> QED BY <1>3, <3>4
  <2> QED BY <2>1, <2>2
<1>5. k \in 0..n
  BY <1>3
<1> QED BY <1>3, <1>4, <1>5 DEF Sqrt

LEMMA BoundIs ==
    ASSUME Numbers, waiting \in Seq(Requests), NEW queue \in Seq(Requests)
    PROVE  UntilBound(queue, UpperBound) \in Nat
<1>1. /\ IsFiniteSet(Requests) /\ TfasAdjust \in Nat /\ TfasBudget \in Nat
      /\ \A r \in Requests : Prompt[r] \in Nat
      /\ \A r \in Requests : total[r] \in Nat
  BY DEF Numbers
<1>2. UpperBound \in Nat
  <2> DEFINE tokens == SumFunctionOnSet(Prompt, ToSet(waiting))
             n == TfasAdjust * tokens
             k == Sqrt(n)
             bound == (9 * k) \div 10
  <2>1. tokens \in Nat
    <3>1. ToSet(waiting) \in SUBSET Requests
      BY QueueElements
    <3> QED BY <1>1, <3>1, SumIsNat
  <2> HIDE DEF tokens
  <2>2. n \in Nat
    BY <1>1, <2>1
  <2> HIDE DEF n
  <2>3. k \in Nat
    <3>1. k \in 0..n
      BY <2>2, SqrtIs
    <3> QED BY <2>2, <3>1
  <2> HIDE DEF k
  <2>4. bound \in Nat
    BY <2>3
  <2>5. UpperBound = IF bound > TfasBudget THEN bound ELSE TfasBudget
    BY DEF UpperBound, bound, k, n, tokens
  <2> HIDE DEF bound
  <2> QED BY <1>1, <2>4, <2>5
<1> DEFINE bound == UpperBound
           sum(n) == SumFunctionOnSet(total, ToSet(SubSeq(queue, 1, n)))
           past == {n \in DOMAIN queue : sum(n) > bound}
           least == CHOOSE n \in past : \A m \in past : n <= m
<1>3. DOMAIN queue = 1..Len(queue) /\ Len(queue) \in Nat
  BY LenProperties
<1>4. \A n \in DOMAIN queue : sum(n) \in Nat
  <2> TAKE n \in DOMAIN queue
  <2>1. n \in 0..Len(queue)
    BY <1>3
  <2>2. SubSeq(queue, 1, n) \in Seq(Requests)
    BY <2>1, QueueEnd
  <2>3. ToSet(SubSeq(queue, 1, n)) \in SUBSET Requests
    BY <2>2, QueueElements
  <2> QED BY <1>1, <2>3, SumIsNat
<1>5. past # {} => least \in DOMAIN queue
  <2>1. past \in SUBSET Nat /\ past \subseteq DOMAIN queue
    BY <1>3
  <2> HIDE DEF past
  <2>2. past # {} => \E n \in past : \A m \in past : n <= m
    BY <2>1, LeastNumber
  <2> QED BY <2>1, <2>2
<1>6. UntilBound(queue, bound) = IF past = {} THEN bound ELSE sum(least) + 1
  BY DEF UntilBound
<1> HIDE DEF past, least, sum, bound
<1>7. bound \in Nat
  BY <1>2 DEF bound
<1>8. past # {} => sum(least) \in Nat
  BY <1>4, <1>5
<1> QED BY <1>6, <1>7, <1>8 DEF bound

(* What a step under TFAS has made.                                           *)
TfasMade(s, queue) ==
    /\ \E b \in Nat : LoopsMade(s, running, queue, b)
    /\ \A m, n \in 1..Len(queue) : m < n => TimeDecay[queue[m]] <= TimeDecay[queue[n]]

LEMMA TfasMakes ==
    ASSUME SInv, TfasSchedule
    PROVE  \E s, queue : TfasMade(s, queue)
<1> DEFINE queue == SortedBy(TimeDecay, waiting)
           bound == UntilBound(queue, UpperBound)
           b == IF bound < MaxTokens THEN bound ELSE MaxTokens
           start == Start(b)
<1>1. /\ Numbers /\ running \in Seq(Requests) /\ waiting \in Seq(Requests)
      /\ IsInjective(waiting) /\ Queues(running, waiting)
  BY SInvHas
<1>2. LoopsRun(Requests, start, running, queue, queue)
  BY DEF TfasSchedule, LoopsRun
<1>3. \A r \in Requests : TimeDecay[r] \in Int
  <2> TAKE r \in Requests
  <2>1. Prompt[r] \in Nat
    BY <1>1 DEF Numbers
  <2> QED BY <2>1 DEF TimeDecay
<1>4. /\ queue \in Seq(Requests) /\ IsInjective(queue) /\ ToSet(queue) = ToSet(waiting)
      /\ Len(queue) = Len(waiting)
      /\ \A m, n \in 1..Len(waiting) : m < n => TimeDecay[queue[m]] <= TimeDecay[queue[n]]
  <2> DEFINE key == TimeDecay
  <2>1. \A r \in Requests : key[r] \in Int
    BY <1>3
  <2> HIDE DEF key
  <2>2. /\ SortedBy(key, waiting) \in Seq(Requests) /\ IsInjective(SortedBy(key, waiting))
        /\ ToSet(SortedBy(key, waiting)) = ToSet(waiting)
        /\ Len(SortedBy(key, waiting)) = Len(waiting)
        /\ \A m, n \in 1..Len(waiting) :
              m < n => key[SortedBy(key, waiting)[m]] <= key[SortedBy(key, waiting)[n]]
    BY ONLY <1>1, <2>1, SortedIs
  <2> QED BY <2>2 DEF key
<1> HIDE DEF queue
<1>5. b \in Nat /\ b <= MaxTokens
  <2>1. bound \in Nat
    BY <1>1, <1>4, BoundIs
  <2>2. MaxTokens \in Nat
    BY <1>1 DEF Numbers
  <2> HIDE DEF bound
  <2> QED BY <2>1, <2>2
<1> HIDE DEF b
<1>6. Starts(start, running, b)
  <2>1. start \in LoopStates
    BY <1>1, <1>5, StartTyped
  <2> QED BY <2>1 DEF Start, Starts
<1> HIDE DEF start
<1>7. Queues(running, queue)
  BY <1>1, <1>4 DEF Queues
<1>8. PICK s : LoopsMade(s, running, queue, b)
  <2>1. \E s : \E q \in {queue, queue} : LoopsMade(s, running, q, b)
    BY <1>2, <1>5, <1>6, <1>7, LoopsMake
  <2> QED BY <2>1
<1>9. TfasMade(s, queue)
  BY <1>4, <1>5, <1>8 DEF TfasMade
<1> QED BY <1>9

----------------------------------------------------------------------------
(* What every action keeps *)

LEMMA SomeMade ==
    ASSUME SInv, Schedule
    PROVE  \E s, list, queue, b :
              /\ Queues(list, queue) /\ Made(s, list, b) /\ Finish(s, queue)
              /\ scheduled' \subseteq Requests
<1>1. Queues(running, waiting) /\ scheduled \subseteq Requests /\ Numbers
  BY SInvHas DEF SInv, Typing, TypeOK
<1>2. CASE HybridSchedule
  <2>1. PICK s : HybridMade(s)
    BY <1>2, HybridMakes
  <2>2. DOMAIN s.batch \subseteq Requests
    <3>1. s \in LoopStates
      BY <2>1 DEF HybridMade, Made, Batched
    <3> QED BY <1>1, <3>1, BatchIs
  <2> QED BY <1>1, <2>1, <2>2 DEF HybridMade
<1>3. CASE SortedSchedule
  <2>1. PICK s, list, queue : SortedMade(s, list, queue)
    BY <1>3, SortedMakes
  <2>2. scheduled' \subseteq Requests
    BY <1>1, <1>3 DEF SortedSchedule
  <2> QED BY <2>1, <2>2 DEF SortedMade, LoopsMade
<1>4. CASE TfasSchedule
  <2>1. PICK s, queue : TfasMade(s, queue)
    BY <1>4, TfasMakes
  <2>2. PICK b \in Nat : LoopsMade(s, running, queue, b)
    BY <2>1 DEF TfasMade
  <2>3. scheduled' \subseteq Requests
    BY <1>1, <1>4 DEF TfasSchedule
  <2> QED BY <2>2, <2>3 DEF LoopsMade
<1> QED BY <1>2, <1>3, <1>4 DEF Schedule

LEMMA ScheduleKeeps ==
    ASSUME SInv, Schedule
    PROVE  SInv'
<1>1. PICK s, list, queue, b : /\ Queues(list, queue) /\ Made(s, list, b) /\ Finish(s, queue)
                               /\ scheduled' \subseteq Requests
  BY SomeMade
<1>2. UNCHANGED <<setup, total, old>> /\ Len(flight) < setup.depth
  BY DEF Schedule
<1> QED BY <1>1, <1>2, FinishKeeps

LEMMA InitHolds == Init => SInv
<1> SUFFICES ASSUME Init PROVE SInv
  OBVIOUS
<1>1. /\ setup \in Setups /\ IsFiniteSet(Requests) /\ setup.blocks \in Nat
      /\ setup.depth \in {1, 2} /\ setup.maxNew \in [Requests -> Nat \ {0}]
      /\ Prompt \in [Requests -> Nat \ {0}] /\ MaxRunning \in Nat
  BY EngineSchedulerAssumption DEF Init
<1>2. /\ waiting = <<>> /\ running = <<>> /\ flight = <<>> /\ old = {} /\ scheduled = {}
      /\ crashed = FALSE /\ total = Prompt /\ status = [r \in Requests |-> "new"]
      /\ computed = [r \in Requests |-> 0] /\ held = [r \in Requests |-> 0]
  BY DEF Init
<1>3. <<>> \in Seq(Requests) /\ Len(<<>>) = 0 /\ <<>> \in Seq(BatchesOf(Nat)) /\ DOMAIN <<>> = {}
  BY EmptySeq
<1>4. held \in [Requests -> Nat] /\ \A r \in Requests : held[r] = 0 /\ held[r] \in Int
  BY <1>2
<1>5. SumFunction(held) = 0
  <2>1. IsFiniteSet({}) /\ {} \in SUBSET Requests
    BY FS_EmptySet
  <2>2. SumFunctionOnSet(held, Requests) = SumFunctionOnSet(held, {})
    BY <1>1, <1>4, <2>1, SumOfPart
  <2>3. SumFunctionOnSet(held, {}) = 0
    BY <1>1, <1>4, SumOf
  <2> QED BY <1>4, <2>2, <2>3 DEF SumFunction
<1>6. \A r \in Requests : /\ total[r] \in Prompt[r]..(Prompt[r] + setup.maxNew[r])
                         /\ total[r] < Prompt[r] + setup.maxNew[r]
                         /\ computed[r] \in 0..total[r] /\ held[r] \in 0..setup.blocks
                         /\ held[r] = 0 /\ computed[r] = 0 /\ status[r] = "new"
  BY <1>1, <1>2
<1>7. Typing
  <2>1. status \in [Requests -> {"new", "waiting", "preempted", "running", "finished", "ignored"}]
    BY <1>2
  <2>2. /\ waiting \in Seq(Requests) /\ running \in Seq(Requests) /\ Len(running) <= MaxRunning
        /\ Len(flight) <= setup.depth /\ DOMAIN flight = {} /\ flight \in Seq(BatchesOf(Nat))
    BY <1>1, <1>2, <1>3
  <2> QED BY <1>1, <1>2, <1>4, <1>6, <2>1, <2>2 DEF Typing, TypeOK
<1>8. Queued
  <2>1. IsInjective(waiting) /\ IsInjective(running) /\ ToSet(waiting) = {} /\ ToSet(running) = {}
    BY <1>2, EmptyQueue
  <2> QED BY <1>6, <2>1 DEF Queued
<1>9. Counted
  BY <1>6 DEF Counted
<1>10. BlocksAccounted
  BY <1>1, <1>5, <1>6 DEF BlocksAccounted
<1> QED BY <1>7, <1>8, <1>9, <1>10 DEF SInv

LEMMA AddKeeps ==
    ASSUME SInv, NEW r \in Requests, AddRequest(r)
    PROVE  SInv'
<1>1. /\ status[r] = "new" /\ status' = [status EXCEPT ![r] = "waiting"]
      /\ waiting' = Append(waiting, r)
      /\ UNCHANGED <<setup, total, computed, held, old, running, scheduled, flight, crashed>>
  BY DEF AddRequest
<1>2. /\ waiting \in Seq(Requests) /\ IsInjective(waiting)
      /\ r \notin ToSet(waiting) /\ r \notin ToSet(running)
  BY <1>1, SInvHas
<1>3. /\ waiting' \in Seq(Requests) /\ ToSet(waiting') = ToSet(waiting) \cup {r}
      /\ IsInjective(waiting')
  BY <1>1, <1>2, QueueAppend
<1>4. /\ status \in [Requests -> {"new", "waiting", "preempted", "running", "finished", "ignored"}]
      /\ \A q \in Requests : status'[q] = IF q = r THEN "waiting" ELSE status[q]
  BY <1>1 DEF SInv, Typing, TypeOK
<1>5. Typing'
  <2>1. status' \in [Requests -> {"new", "waiting", "preempted", "running", "finished", "ignored"}]
    BY <1>1, <1>4
  <2> QED BY <1>1, <1>3, <2>1 DEF SInv, Typing, TypeOK
<1>6. Queued'
  BY <1>1, <1>2, <1>3, <1>4 DEF SInv, Queued
<1>7. Counted'
  BY <1>1, <1>4 DEF SInv, Counted
<1>8. BlocksAccounted'
  <2>1. /\ \A q \in Requests : held[q] = IF status[q] = "running" THEN computed[q] ELSE 0
        /\ SumFunction(held) <= setup.blocks
    BY DEF SInv, BlocksAccounted
  <2>2. \A q \in Requests : held'[q] = IF status'[q] = "running" THEN computed'[q] ELSE 0
    BY <1>1, <1>4, <2>1
  <2> QED BY <1>1, <2>1, <2>2 DEF BlocksAccounted
<1> QED BY <1>5, <1>6, <1>7, <1>8 DEF SInv

LEMMA OldKeeps ==
    ASSUME SInv, NEW r \in Requests, GrowOld(r)
    PROVE  SInv'
<1>1. /\ old' = old \cup {r}
      /\ UNCHANGED <<setup, status, total, computed, held, waiting, running, scheduled, flight,
                     crashed>>
  BY DEF GrowOld, rvars
<1>2. Typing' /\ Queued' /\ Counted' /\ BlocksAccounted'
  <2>1. Typing'
    BY <1>1 DEF SInv, Typing, TypeOK
  <2>2. Queued' /\ Counted'
    BY <1>1 DEF SInv, Queued, Counted
  <2>3. BlocksAccounted'
    BY <1>1 DEF SInv, BlocksAccounted
  <2> QED BY <2>1, <2>2, <2>3
<1> QED BY <1>2 DEF SInv

LEMMA StutterKeeps == SInv /\ UNCHANGED vars => SInv'
<1> SUFFICES ASSUME SInv, UNCHANGED vars PROVE SInv'
  OBVIOUS
<1>1. UNCHANGED <<setup, status, total, computed, held, old, waiting, running, scheduled, flight,
                  crashed>>
  BY DEF vars, rvars
<1>2. Typing'
  BY <1>1 DEF SInv, Typing, TypeOK
<1>3. Queued' /\ Counted'
  BY <1>1 DEF SInv, Queued, Counted
<1>4. BlocksAccounted'
  BY <1>1 DEF SInv, BlocksAccounted
<1> QED BY <1>2, <1>3, <1>4 DEF SInv

LEMMA HeldLess ==
    ASSUME SInv, held' \in [Requests -> Nat], \A r \in Requests : held'[r] <= held[r]
    PROVE  SumFunction(held') <= setup.blocks /\ \A r \in Requests : held'[r] \in 0..setup.blocks
<1>1. /\ IsFiniteSet(Requests) /\ setup.blocks \in Nat
      /\ held \in [Requests -> Nat] /\ SumFunction(held) <= setup.blocks
      /\ \A r \in Requests : held[r] \in 0..setup.blocks
  BY SInvHas DEF SInv, BlocksAccounted, Numbers, Typing, TypeOK
<1> DEFINE f == held'
           h == held
<1>2. /\ \A r \in Requests : f[r] \in Int /\ h[r] \in Int /\ f[r] <= h[r]
      /\ \A r \in Requests : f[r] \in Int
      /\ \A r \in Requests : h[r] \in Int
  BY <1>1
<1>3. SumFunction(f) = SumFunctionOnSet(f, Requests) /\ SumFunction(h) = SumFunctionOnSet(h, Requests)
  BY <1>1 DEF SumFunction
<1> HIDE DEF f, h
<1>4. SumFunctionOnSet(f, Requests) <= SumFunctionOnSet(h, Requests)
  BY <1>1, <1>2, SumAtMost
<1>5. SumFunctionOnSet(f, Requests) \in Int /\ SumFunctionOnSet(h, Requests) \in Int
  BY <1>1, <1>2, SumOf
<1>6. SumFunction(f) <= setup.blocks
  <2>1. SumFunctionOnSet(h, Requests) <= setup.blocks
    BY <1>1, <1>3 DEF h
  <2> QED BY <1>1, <1>3, <1>4, <1>5, <2>1
<1>7. \A r \in Requests : held'[r] \in 0..setup.blocks
  <2> TAKE r \in Requests
  <2>1. held'[r] \in Nat /\ held[r] \in 0..setup.blocks /\ held'[r] <= held[r]
    BY <1>1
  <2> QED BY <1>1, <2>1
<1> QED BY <1>6, <1>7 DEF f

LEMMA LeaveKeeps ==
    ASSUME SInv, NEW r \in Requests, FinishRequest(r)
    PROVE  SInv'
<1>1. UNCHANGED <<setup, total, computed, old, flight>> /\ crashed' \in BOOLEAN
  BY DEF FinishRequest, rvars
<1>2. CASE crashed'
  <2>1. UNCHANGED <<status, held, waiting, running, scheduled>>
    BY <1>2 DEF FinishRequest, rvars
  <2>2. Typing'
    BY <1>1, <2>1 DEF SInv, Typing, TypeOK
  <2>3. Queued' /\ Counted'
    BY <1>1, <2>1 DEF SInv, Queued, Counted
  <2>4. BlocksAccounted'
    BY <1>1, <2>1 DEF SInv, BlocksAccounted
  <2> QED BY <2>2, <2>3, <2>4 DEF SInv
<1>3. CASE ~crashed'
  <2>1. /\ status' = [status EXCEPT ![r] = "finished"] /\ held' = [held EXCEPT ![r] = 0]
        /\ running' = Without(running, {r}) /\ waiting' = Without(waiting, {r})
        /\ scheduled' = scheduled \ {r}
    BY <1>3 DEF FinishRequest
  <2>2. /\ status \in [Requests -> {"new", "waiting", "preempted", "running", "finished",
                                    "ignored"}]
        /\ held \in [Requests -> Nat] /\ scheduled \subseteq Requests
        /\ running \in Seq(Requests) /\ IsInjective(running) /\ Len(running) <= MaxRunning
        /\ waiting \in Seq(Requests) /\ IsInjective(waiting) /\ Numbers
    BY SInvHas DEF SInv, Typing, TypeOK
  <2>3. /\ running' \in Seq(Requests) /\ IsInjective(running')
        /\ ToSet(running') = ToSet(running) \ {r} /\ Len(running') <= Len(running)
    BY <2>1, <2>2, WithoutIs
  <2>4. /\ waiting' \in Seq(Requests) /\ IsInjective(waiting')
        /\ ToSet(waiting') = ToSet(waiting) \ {r}
    BY <2>1, <2>2, WithoutIs
  <2>5. /\ \A q \in Requests : status'[q] = IF q = r THEN "finished" ELSE status[q]
        /\ \A q \in Requests : held'[q] = IF q = r THEN 0 ELSE held[q]
        /\ held' \in [Requests -> Nat]
        /\ status' \in [Requests -> {"new", "waiting", "preempted", "running", "finished",
                                     "ignored"}]
    BY <2>1, <2>2
  <2>6. \A q \in Requests : held'[q] <= held[q]
    <3> TAKE q \in Requests
    <3>1. held[q] \in Nat
      BY <2>2
    <3> QED BY <2>5, <3>1
  <2>7. SumFunction(held') <= setup.blocks /\ \A q \in Requests : held'[q] \in 0..setup.blocks
    BY <2>5, <2>6, HeldLess
  <2>8. Len(running') <= MaxRunning
    <3>1. Len(running) \in Nat /\ Len(running') \in Nat /\ MaxRunning \in Nat
      BY <2>2, <2>3, LenProperties DEF Numbers
    <3> QED BY <2>2, <2>3, <3>1
  <2>9. Typing'
    <3>1. scheduled' \subseteq Requests
      BY <2>1, <2>2
    <3> QED BY <1>1, <2>3, <2>4, <2>5, <2>7, <2>8, <3>1 DEF SInv, Typing, TypeOK
  <2>10. Queued'
    <3>1. \A q \in Requests : status[q] \in {"waiting", "preempted"} <=> q \in ToSet(waiting)
      BY DEF SInv, Queued
    <3>2. \A q \in Requests : status'[q] \in {"waiting", "preempted"} <=> q \in ToSet(waiting')
      BY <2>4, <2>5, <3>1
    <3>3. \A q \in ToSet(running) : q \in Requests /\ status[q] = "running"
      BY SInvHas
    <3>4. \A q \in ToSet(running') : status'[q] = "running"
      BY <2>3, <2>5, <3>3
    <3> QED BY <2>3, <2>4, <3>2, <3>4 DEF Queued
  <2>11. Counted'
    BY <1>1, <2>5 DEF SInv, Counted
  <2>12. BlocksAccounted'
    <3>1. \A q \in Requests : held'[q] = IF status'[q] = "running" THEN computed'[q] ELSE 0
      BY <1>1, <2>5 DEF SInv, BlocksAccounted
    <3> QED BY <1>1, <2>7, <3>1 DEF BlocksAccounted
  <2> QED BY <2>9, <2>10, <2>11, <2>12 DEF SInv
<1> QED BY <1>1, <1>2, <1>3

(* The batch that comes back: the requests in it whose tokens are all         *)
(* computed, and those of them that get their last.                           *)
GrownOf(batch) == {r \in DOMAIN batch \cap ToSet(running) : computed[r] = total[r]}
EndedOf(batch) == {r \in GrownOf(batch) : total[r] + 1 = Prompt[r] + setup.maxNew[r]}

(* What update_from_output does for them.                                     *)
Updated(batch, G, E) ==
    /\ batch = Head(flight) /\ flight # <<>> /\ ~crashed
    /\ G = GrownOf(batch) /\ E = EndedOf(batch)
    /\ E \subseteq G /\ G \subseteq ToSet(running)
    /\ flight' = Tail(flight)
    /\ \A r \in Requests : total'[r] = IF r \in G THEN total[r] + 1 ELSE total[r]
    /\ \A r \in Requests : status'[r] = IF r \in E THEN "finished" ELSE status[r]
    /\ \A r \in Requests : held'[r] = IF r \in E THEN 0 ELSE held[r]
    /\ ToSet(running') = ToSet(running) \ E
    /\ IsInjective(running') /\ running' \in Seq(Requests) /\ Len(running') <= Len(running)
    /\ UNCHANGED <<setup, computed, old, waiting>>

LEMMA UpdatedIs ==
    ASSUME SInv, UpdateFromOutput
    PROVE  \E batch, G, E : Updated(batch, G, E)
<1> DEFINE batch == Head(flight)
           G == GrownOf(batch)
           E == EndedOf(batch)
<1>1. running' = Without(running, E)
  BY DEF UpdateFromOutput, GrownOf, EndedOf
<1>2. running \in Seq(Requests) /\ IsInjective(running)
  BY SInvHas
<1>3. /\ running' \in Seq(Requests) /\ IsInjective(running')
      /\ ToSet(running') = ToSet(running) \ E /\ Len(running') <= Len(running)
  <2> HIDE DEF E
  <2> QED BY <1>1, <1>2, WithoutIs
<1>4. E \subseteq G /\ G \subseteq ToSet(running)
  BY DEF EndedOf, GrownOf
<1>5. /\ \A r \in Requests : total'[r] = IF r \in G THEN total[r] + 1 ELSE total[r]
      /\ \A r \in Requests : status'[r] = IF r \in E THEN "finished" ELSE status[r]
      /\ \A r \in Requests : held'[r] = IF r \in E THEN 0 ELSE held[r]
      /\ flight' = Tail(flight) /\ flight # <<>> /\ ~crashed
      /\ UNCHANGED <<setup, computed, old, waiting>>
  BY DEF UpdateFromOutput, GrownOf, EndedOf
<1>6. Updated(batch, G, E)
  <2> HIDE DEF G, E
  <2>1. G = GrownOf(batch) /\ E = EndedOf(batch)
    BY DEF G, E
  <2> QED BY <1>3, <1>4, <1>5, <2>1 DEF Updated
<1> QED BY <1>6

LEMMA UpdateKeeps ==
    ASSUME SInv, UpdateFromOutput
    PROVE  SInv'
<1>1. PICK batch, G, E : Updated(batch, G, E)
  BY UpdatedIs
<1>2. /\ Numbers /\ held \in [Requests -> Nat] /\ running \in Seq(Requests)
      /\ Len(running) <= MaxRunning /\ IsInjective(waiting)
      /\ \A r \in ToSet(running) : r \in Requests /\ status[r] = "running"
  BY SInvHas
<1>3. \A r \in Requests : /\ total[r] \in Nat /\ computed[r] \in Nat /\ Prompt[r] \in Nat
                         /\ setup.maxNew[r] \in Nat /\ Prompt[r] <= total[r]
                         /\ total[r] <= Prompt[r] + setup.maxNew[r] /\ computed[r] <= total[r]
  BY <1>2 DEF Numbers
<1>4. \A r \in G : /\ r \in Requests /\ status[r] = "running" /\ computed[r] = total[r]
                  /\ total[r] < Prompt[r] + setup.maxNew[r]
  BY <1>1, <1>2 DEF Updated, GrownOf, SInv, Counted
<1>5. \A r \in Requests : /\ total'[r] \in Prompt[r]..(Prompt[r] + setup.maxNew[r])
                         /\ computed'[r] \in 0..total'[r]
  <2> TAKE r \in Requests
  <2>1. /\ total[r] \in Nat /\ computed[r] \in Nat /\ Prompt[r] \in Nat
        /\ setup.maxNew[r] \in Nat /\ Prompt[r] <= total[r]
        /\ total[r] <= Prompt[r] + setup.maxNew[r] /\ computed[r] <= total[r]
    BY <1>3
  <2>2. /\ total'[r] = IF r \in G THEN total[r] + 1 ELSE total[r]
        /\ computed'[r] = computed[r]
    BY <1>1 DEF Updated
  <2>3. r \in G => total[r] < Prompt[r] + setup.maxNew[r]
    BY <1>4
  <2> QED BY <2>1, <2>2, <2>3
<1>6. held' \in [Requests -> Nat] /\ \A r \in Requests : held'[r] <= held[r]
  <2>1. held' = [r \in Requests |-> IF r \in E THEN 0 ELSE held[r]]
    BY <1>1 DEF Updated, UpdateFromOutput, EndedOf, GrownOf
  <2>2. \A r \in Requests : held[r] \in Nat
    BY <1>2
  <2>3. \A r \in Requests : (IF r \in E THEN 0 ELSE held[r]) <= held[r]
    BY <2>2
  <2> QED BY <2>1, <2>2, <2>3
<1>7. SumFunction(held') <= setup.blocks /\ \A r \in Requests : held'[r] \in 0..setup.blocks
  BY <1>6, HeldLess
<1>8. status' \in [Requests -> {"new", "waiting", "preempted", "running", "finished", "ignored"}]
  <2>1. status \in [Requests -> {"new", "waiting", "preempted", "running", "finished", "ignored"}]
    BY DEF SInv, Typing, TypeOK
  <2> QED BY <2>1 DEF UpdateFromOutput
<1>9. /\ flight' \in Seq(BatchesOf(Nat)) /\ Len(flight') <= setup.depth
      /\ \A i \in DOMAIN flight' : /\ DOMAIN flight'[i] \in (SUBSET Requests) \ {{}}
                                   /\ SumFunction(flight'[i]) <= MaxTokens
  <2>1. /\ flight \in Seq(BatchesOf(Nat)) /\ Len(flight) <= setup.depth /\ setup.depth \in Nat
        /\ \A i \in DOMAIN flight : /\ DOMAIN flight[i] \in (SUBSET Requests) \ {{}}
                                    /\ SumFunction(flight[i]) <= MaxTokens
    BY <1>2 DEF SInv, Typing, TypeOK, Numbers
  <2>2. flight' = Tail(flight) /\ flight # <<>>
    BY <1>1 DEF Updated
  <2>3. /\ flight' \in Seq(BatchesOf(Nat)) /\ Len(flight') = Len(flight) - 1 /\ Len(flight) \in Nat
        /\ \A i \in 1..Len(flight') : flight'[i] = flight[i + 1]
    BY <2>1, <2>2, HeadTailProperties, LenProperties
  <2>4. \A i \in DOMAIN flight' : i + 1 \in DOMAIN flight /\ flight'[i] = flight[i + 1]
    <3>1. DOMAIN flight = 1..Len(flight) /\ DOMAIN flight' = 1..Len(flight')
      BY <2>1, <2>3, LenProperties
    <3> QED BY <2>3, <3>1
  <2> QED BY <2>1, <2>3, <2>4
<1>10. scheduled' \subseteq Requests /\ crashed' \in BOOLEAN
  BY DEF UpdateFromOutput, Taken, SInv, Typing, TypeOK
<1>11. Len(running') <= MaxRunning
  <2>1. Len(running) \in Nat /\ Len(running') \in Nat /\ MaxRunning \in Nat
    BY <1>1, <1>2, LenProperties DEF Numbers, Updated
  <2>2. Len(running') <= Len(running)
    BY <1>1 DEF Updated
  <2> QED BY <1>2, <2>1, <2>2
<1>12. Typing'
  <2>1. /\ setup' = setup /\ old' = old /\ waiting' = waiting /\ running' \in Seq(Requests)
    BY <1>1 DEF Updated
  <2> QED BY <1>5, <1>6, <1>7, <1>8, <1>9, <1>10, <1>11, <2>1 DEF SInv, Typing, TypeOK
<1>13. \A r \in E : r \in Requests /\ status[r] = "running" /\ r \in ToSet(running)
  BY <1>1, <1>4 DEF Updated
<1>14. Queued'
  <2>1. /\ ToSet(running') = ToSet(running) \ E /\ IsInjective(running') /\ waiting' = waiting
        /\ \A r \in Requests : status'[r] = IF r \in E THEN "finished" ELSE status[r]
    BY <1>1 DEF Updated
  <2> QED BY <1>2, <1>13, <2>1 DEF SInv, Queued
<1>15. Counted'
  <2>1. ASSUME NEW r \in Requests, status'[r] # "finished"
        PROVE  total'[r] < Prompt[r] + setup.maxNew[r]
    <3>1. r \notin E /\ status[r] # "finished"
      BY <1>1, <2>1 DEF Updated
    <3>2. total[r] < Prompt[r] + setup.maxNew[r]
      BY <3>1 DEF SInv, Counted
    <3>3. r \in G => total[r] + 1 # Prompt[r] + setup.maxNew[r]
      BY <1>1, <3>1 DEF Updated, EndedOf
    <3>4. total'[r] = IF r \in G THEN total[r] + 1 ELSE total[r]
      BY <1>1 DEF Updated
    <3>5. total[r] \in Nat /\ Prompt[r] \in Nat /\ setup.maxNew[r] \in Nat
      BY <1>3
    <3> QED BY <3>2, <3>3, <3>4, <3>5
  <2>2. ASSUME NEW r \in Requests, status'[r] \notin {"running", "finished"}
        PROVE  computed'[r] = 0
    <3>1. status'[r] = status[r] /\ computed'[r] = computed[r]
      BY <1>1, <2>2 DEF Updated
    <3> QED BY <2>2, <3>1 DEF SInv, Counted
  <2>3. setup' = setup
    BY <1>1 DEF Updated
  <2> QED BY <2>1, <2>2, <2>3 DEF Counted
<1>16. BlocksAccounted'
  <2>1. ASSUME NEW r \in Requests
        PROVE  held'[r] = IF status'[r] = "running" THEN computed'[r] ELSE 0
    BY <1>1 DEF Updated, SInv, BlocksAccounted
  <2>2. setup' = setup
    BY <1>1 DEF Updated
  <2> QED BY <1>7, <2>1, <2>2 DEF BlocksAccounted
<1> QED BY <1>12, <1>14, <1>15, <1>16 DEF SInv

LEMMA SInvHolds == Spec => []SInv
<1>1. SInv /\ [Next]_vars => SInv'
  BY ScheduleKeeps, UpdateKeeps, AddKeeps, OldKeeps, LeaveKeeps, StutterKeeps DEF Next
<1> QED BY <1>1, InitHolds, PTL DEF Spec

(* The state of the scheduler is what it should be, in any setup.             *)
THEOREM TypeCorrect == Spec => []TypeOK
<1>1. SInv => TypeOK
  BY DEF SInv, Typing
<1> QED BY <1>1, SInvHolds, PTL

(* The blocks of the cache are accounted for, in any setup: a running request *)
(* holds one for each token computed, no other holds any, and there are never *)
(* more held than there are, whatever is preempted, aborted or ended.         *)
THEOREM BlocksAccountedFor == Spec => []BlocksAccounted
<1>1. SInv => BlocksAccounted
  BY DEF SInv
<1> QED BY <1>1, SInvHolds, PTL

(* Under TFAS, what has waited too long goes first.                           *)
THEOREM OldFirst == Spec => OldGoFirst
<1>1. ASSUME SInv, Schedule, setup.policy = "tfas",
             NEW r \in ToSet(running') \ (ToSet(running) \cup old),
             NEW o \in old \cap ToSet(waiting)
      PROVE  o \notin ToSet(waiting')
  <2>1. TfasSchedule
    BY <1>1 DEF Schedule, HybridSchedule, SortedSchedule
  <2>2. PICK s, queue : TfasMade(s, queue)
    BY <1>1, <2>1, TfasMakes
  <2>3. PICK b \in Nat : LoopsMade(s, running, queue, b)
    BY <2>2 DEF TfasMade
  <2>4. /\ Finish(s, queue) /\ s \in LoopStates
        /\ ToSet(s.running) \cup ToSet(s.preempted) = ToSet(running) \cup DOMAIN s.batch
    BY <2>3 DEF LoopsMade, Made, Batched
  <2>5. r \in DOMAIN s.batch /\ r \notin ToSet(running)
    <3>1. running' = s.running
      BY <2>4 DEF Finish
    <3> QED BY <1>1, <2>4, <3>1
  <2>6. s.preempted = <<>> /\ InOrder(queue, Len(queue), s)
    BY <2>3, <2>5 DEF LoopsMade
  <2>7. /\ queue \in Seq(Requests) /\ IsInjective(queue) /\ ToSet(queue) = ToSet(waiting)
        /\ DOMAIN s.batch \subseteq ToSet(running) \cup ToSet(waiting)
    BY <2>3 DEF LoopsMade, Queues, Made
  <2>8. DOMAIN queue = 1..Len(queue) /\ Len(queue) \in Nat
    BY <2>7, LenProperties
  <2>9. PICK j \in 1..Len(queue) : queue[j] = r
    BY <2>5, <2>7, <2>8 DEF ToSet
  <2>10. PICK i \in 1..Len(queue) : queue[i] = o
    BY <1>1, <2>7, <2>8 DEF ToSet
  <2>11. r \in Requests /\ o \in Requests /\ Prompt[r] > 0 /\ Prompt[r] \in Nat
    <3>1. r \in Requests /\ o \in Requests
      BY <1>1, <2>7, <2>8, <2>9, <2>10, ElementOfSeq
    <3>2. Numbers
      BY <1>1, SInvHas
    <3> QED BY <3>1, <3>2 DEF Numbers
  <2>12. TimeDecay[r] = Prompt[r] /\ TimeDecay[o] = 0
    BY <1>1, <2>11 DEF TimeDecay
  <2>13. i < j
    <3>1. i # j
      BY <1>1, <2>9, <2>10
    <3>2. ~(j < i)
      <4>1. j < i => Prompt[r] <= 0
        BY <2>2, <2>9, <2>10, <2>12 DEF TfasMade
      <4> QED BY <2>11, <4>1
    <3> QED BY <2>8, <3>1, <3>2
  <2>14. o \in DOMAIN s.batch
    <3>1. i \in 1..j
      BY <2>8, <2>13
    <3> QED BY <2>5, <2>6, <2>9, <2>10, <3>1 DEF InOrder
  <2>15. ToSet(waiting') = ToSet(waiting) \ (DOMAIN s.batch \cup s.ignored)
    <3> DEFINE w == Without(queue, DOMAIN s.batch \cup s.ignored)
    <3>1. w \in Seq(Requests) /\ ToSet(w) = ToSet(queue) \ (DOMAIN s.batch \cup s.ignored)
      BY <2>7, WithoutIs
    <3>2. waiting' = <<>> \o w
      BY <2>4, <2>6 DEF Finish
    <3> HIDE DEF w
    <3>3. <<>> \o w = w
      BY <3>1, ConcatEmptySeq
    <3> QED BY <2>7, <3>1, <3>2, <3>3
  <2> QED BY <2>14, <2>15
<1>2. SInv /\ [Next]_vars => [setup.policy = "tfas" /\ Schedule =>
          \A r \in ToSet(running') \ (ToSet(running) \cup old) :
             old \cap ToSet(waiting) \cap ToSet(waiting') = {}]_vars
  BY <1>1
<1> QED BY <1>2, SInvHolds, PTL DEF Spec, OldGoFirst

----------------------------------------------------------------------------
(* What runs stays in the list *)

LEMMA FinishRuns ==
    ASSUME SInv, NEW list, NEW queue, Queues(list, queue), NEW s, NEW b, Made(s, list, b),
           Finish(s, queue), \A r \in Requests : status[r] = "running" => r \in ToSet(list)
    PROVE  \A r \in Requests : status'[r] = "running" => r \in ToSet(running')
<1> SUFFICES ASSUME NEW r \in Requests, status'[r] = "running"
             PROVE  r \in ToSet(running')
  OBVIOUS
<1>1. /\ status'[r] = CASE r \in DOMAIN s.batch     -> "running"
                        [] r \in ToSet(s.preempted) -> "preempted"
                        [] r \in s.ignored          -> "ignored"
                        [] OTHER                    -> status[r]
      /\ running' = s.running
  BY DEF Finish
<1>2. /\ DOMAIN s.batch \subseteq ToSet(s.running)
      /\ ToSet(s.running) \cup ToSet(s.preempted) = ToSet(list) \cup DOMAIN s.batch
  BY DEF Made
<1>3. CASE r \in DOMAIN s.batch
  BY <1>1, <1>2, <1>3
<1>4. CASE r \notin DOMAIN s.batch
  <2>1. r \notin ToSet(s.preempted) /\ status[r] = "running"
    BY <1>1, <1>4
  <2> QED BY <1>1, <1>2, <2>1
<1> QED BY <1>3, <1>4

(* The batch joins those under way.                                           *)
LEMMA FlightGrows ==
    ASSUME SInv, NEW s, NEW list, NEW b, Made(s, list, b), NEW queue, Finish(s, queue)
    PROVE  /\ Flying' = Flying \cup DOMAIN s.batch
           /\ \A S : Apart(S) /\ Flying \cap DOMAIN s.batch \cap S = {} => Apart(S)'
<1>1. /\ Numbers /\ flight \in Seq(BatchesOf(Nat)) /\ Len(flight) \in Nat
      /\ DOMAIN flight = 1..Len(flight)
  BY SInvHas, LenProperties DEF SInv, Typing
<1>2. flight' = IF s.batch = NoTokens THEN flight ELSE Append(flight, s.batch)
  BY DEF Finish
<1>3. s.batch \in BatchesOf(Nat)
  <2>1. s \in LoopStates /\ \A r \in DOMAIN s.batch : s.batch[r] \in 1..(total[r] - computed[r])
    BY DEF Made, Batched
  <2>2. PICK D \in SUBSET Requests : s.batch \in [D -> Int]
    BY <2>1 DEF LoopStates, BatchesOf
  <2>3. DOMAIN s.batch = D
    BY <2>2
  <2>4. \A r \in D : s.batch[r] \in Nat
    <3> TAKE r \in D
    <3>1. total[r] - computed[r] \in Int
      BY <1>1 DEF Numbers
    <3> QED BY <2>1, <2>3, <3>1
  <2> QED BY <2>2, <2>4 DEF BatchesOf
<1>4. CASE s.batch = NoTokens
  <2>1. DOMAIN s.batch = {}
    BY <1>4 DEF NoTokens
  <2> QED BY <1>2, <1>4, <2>1 DEF Flying, Apart
<1>5. CASE s.batch # NoTokens
  <2> DEFINE f == Append(flight, s.batch)
             n == Len(flight)
  <2>1. /\ f \in Seq(BatchesOf(Nat)) /\ Len(f) = n + 1
        /\ \A i \in 1..n : f[i] = flight[i]
        /\ f[n + 1] = s.batch
    BY <1>1, <1>3, AppendProperties
  <2>2. flight' = f
    BY <1>2, <1>5
  <2> HIDE DEF f
  <2>3. DOMAIN f = 1..(n + 1)
    BY <2>1, LenProperties
  <2> HIDE DEF n
  <2>4. n \in Nat /\ 1..(n + 1) = 1..n \cup {n + 1} /\ n + 1 \notin 1..n /\ DOMAIN flight = 1..n
    BY <1>1 DEF n
  <2>5. Flying' = Flying \cup DOMAIN s.batch
    <3>1. Flying' = UNION {DOMAIN f[i] : i \in DOMAIN f}
      BY <2>2 DEF Flying
    <3>2. Flying = UNION {DOMAIN flight[i] : i \in 1..n}
      BY <2>4 DEF Flying
    <3>3. \A i \in DOMAIN f : (i \in 1..n /\ f[i] = flight[i]) \/ (i = n + 1 /\ f[i] = s.batch)
      BY <2>1, <2>3, <2>4
    <3>4. \A i \in 1..n : i \in DOMAIN f /\ f[i] = flight[i]
      BY <2>1, <2>3, <2>4
    <3>5. n + 1 \in DOMAIN f /\ f[n + 1] = s.batch
      BY <2>1, <2>3, <2>4
    <3>6. ASSUME NEW r \in Flying' PROVE r \in Flying \cup DOMAIN s.batch
      BY <3>1, <3>2, <3>3
    <3>7. ASSUME NEW r \in Flying \cup DOMAIN s.batch PROVE r \in Flying'
      BY <3>1, <3>2, <3>4, <3>5
    <3> QED BY <3>6, <3>7
  <2>6. ASSUME NEW S, Apart(S), Flying \cap DOMAIN s.batch \cap S = {}
        PROVE  Apart(S)'
    <3> SUFFICES ASSUME NEW i \in DOMAIN f, NEW j \in DOMAIN f, i # j
                 PROVE  DOMAIN f[i] \cap DOMAIN f[j] \cap S = {}
      BY <2>2 DEF Apart
    <3>1. \A k \in 1..n : DOMAIN flight[k] \subseteq Flying
      BY <2>4 DEF Flying
    <3>2. CASE i \in 1..n /\ j \in 1..n
      BY <2>1, <2>4, <2>6, <3>2 DEF Apart
    <3>3. CASE i \in 1..n /\ j = n + 1
      BY <2>1, <2>6, <3>1, <3>3
    <3>4. CASE i = n + 1 /\ j \in 1..n
      BY <2>1, <2>6, <3>1, <3>4
    <3> QED BY <2>3, <2>4, <3>2, <3>3, <3>4
  <2> QED BY <2>5, <2>6
<1> QED BY <1>4, <1>5

LEMMA KeptBySchedule ==
    ASSUME SInv, KeptInv, Schedule
    PROVE  KeptInv'
<1>1. setup' = setup /\ Len(flight) < setup.depth
  BY DEF Schedule
<1> SUFFICES ASSUME PrefillsOnly(setup) PROVE KeptInv'
  BY <1>1 DEF KeptInv
<1>2. \A r \in Requests : status[r] = "running" => r \in ToSet(running)
  BY DEF KeptInv
<1>3. Queues(running, waiting) /\ Numbers
  BY SInvHas
<1>4. CASE HybridSchedule
  <2>1. PICK s : HybridMade(s)
    BY <1>4, HybridMakes
  <2>2. Made(s, running, MaxTokens) /\ Finish(s, waiting)
    BY <2>1 DEF HybridMade
  <2>3. \A r \in Requests : status'[r] = "running" => r \in ToSet(running')
    BY <1>2, <1>3, <2>2, FinishRuns
  <2>4. setup.policy = "hybrid"
    BY <1>4 DEF HybridSchedule
  <2> QED BY <1>1, <2>3, <2>4 DEF KeptInv
<1>5. CASE TfasSchedule
  <2>1. PICK s, queue : TfasMade(s, queue)
    BY <1>5, TfasMakes
  <2>2. PICK b \in Nat : LoopsMade(s, running, queue, b)
    BY <2>1 DEF TfasMade
  <2>3. Made(s, running, b) /\ Finish(s, queue) /\ Queues(running, queue)
    BY <2>2 DEF LoopsMade
  <2>4. \A r \in Requests : status'[r] = "running" => r \in ToSet(running')
    BY <1>2, <2>3, FinishRuns
  <2>5. setup.policy = "tfas"
    BY <1>5 DEF TfasSchedule
  <2> QED BY <1>1, <2>4, <2>5 DEF KeptInv
<1>6. CASE SortedSchedule
  <2>1. PICK s, list, queue : SortedMade(s, list, queue)
    BY <1>6, SortedMakes
  <2>2. Made(s, list, MaxTokens) /\ Finish(s, queue) /\ Queues(list, queue)
    BY <2>1 DEF SortedMade, LoopsMade
  <2>3. CASE setup.policy = "mixed"
    <3>1. ToSet(list) = ToSet(running)
      BY <2>1, <2>3 DEF SortedMade
    <3>2. \A r \in Requests : status'[r] = "running" => r \in ToSet(running')
      BY <1>2, <2>2, <3>1, FinishRuns
    <3> QED BY <1>1, <2>3, <3>2 DEF KeptInv
  <2>4. CASE setup.policy = "sorted"
    <3>1. list = <<>> /\ ToSet(list) = {}
      BY <2>1, <2>4, EmptyQueue DEF SortedMade
    <3>2. /\ setup.depth = 1
          /\ \A r \in Requests : /\ setup.maxNew[r] = 1
                                 /\ setup.threshold = 0 \/ Prompt[r] <= setup.threshold + Slack
      BY <2>4 DEF PrefillsOnly
    <3>3. Flying = {}
      <4>1. Len(flight) \in Nat /\ DOMAIN flight = 1..Len(flight)
        BY LenProperties DEF SInv, Typing
      <4>2. DOMAIN flight = {}
        BY <1>1, <3>2, <4>1
      <4> QED BY <4>2 DEF Flying
    <3>4. \A r \in Requests : status[r] # "running"
      BY <1>2, <2>4, <3>3 DEF KeptInv
    <3>5. \A r \in Requests : status'[r] = "running" => r \in ToSet(running')
      BY <2>2, <3>4, FinishRuns
    <3>6. InOne(queue)
      <4> SUFFICES ASSUME NEW r \in ToSet(queue) PROVE Chunk(total[r]) = total[r]
        BY DEF InOne
      <4>1. r \in Requests /\ status[r] # "finished"
        BY <2>2, SInvHas DEF Queues
      <4>2. total[r] < Prompt[r] + setup.maxNew[r]
        BY <4>1 DEF SInv, Counted
      <4>3. /\ total[r] \in Nat /\ Prompt[r] \in Nat /\ setup.threshold \in Nat /\ Slack \in Nat
            /\ Prompt[r] <= total[r]
        BY <1>3, <4>1 DEF Numbers
      <4>4. total[r] = Prompt[r]
        BY <3>2, <4>1, <4>2, <4>3
      <4> DEFINE n == total[r]
      <4>5. n \in Nat /\ (setup.threshold = 0 \/ n <= setup.threshold + Slack)
        BY <3>2, <4>1, <4>3, <4>4
      <4> HIDE DEF n
      <4>6. Chunk(n) = n
        BY <2>4, <4>3, <4>5 DEF Chunk
      <4> QED BY <4>6 DEF n
    <3>7. ASSUME NEW r \in ToSet(running')
          PROVE  r \in Flying' /\ computed'[r] = total'[r]
      <4>1. r \in DOMAIN s.batch /\ r \in ToSet(waiting) /\ r \notin ToSet(s.preempted)
        <5>1. running' = s.running
          BY <2>2 DEF Finish
        <5> QED BY <2>2, <3>1, <3>7, <5>1 DEF Made
      <4>2. r \in Flying'
        BY <2>2, <4>1, FlightGrows
      <4>3. s.batch[r] = total[r]
        BY <2>1, <3>1, <3>6, <4>1 DEF SortedMade, LoopsMade
      <4>4. r \in Requests /\ computed[r] = 0 /\ total[r] \in Nat
        <5>1. r \in Requests /\ status[r] \in {"waiting", "preempted"}
          BY <4>1, SInvHas
        <5> QED BY <1>3, <5>1 DEF SInv, Counted, Numbers
      <4>5. computed'[r] = total[r]
        <5>1. computed'[r] = computed[r] + s.batch[r]
          BY <2>2, <4>1, <4>4 DEF Finish
        <5> QED BY <4>3, <4>4, <5>1
      <4>6. total'[r] = total[r]
        BY DEF Schedule
      <4> QED BY <4>2, <4>5, <4>6
    <3> QED BY <1>1, <3>5, <3>7 DEF KeptInv
  <2> QED BY <1>6, <2>3, <2>4 DEF SortedSchedule
<1> QED BY <1>4, <1>5, <1>6 DEF Schedule

LEMMA KeptByUpdate ==
    ASSUME SInv, KeptInv, UpdateFromOutput
    PROVE  KeptInv'
<1>1. PICK batch, G, E : Updated(batch, G, E)
  BY UpdatedIs
<1>2. setup' = setup
  BY <1>1 DEF Updated
<1> SUFFICES ASSUME PrefillsOnly(setup) PROVE KeptInv'
  BY <1>2 DEF KeptInv
<1>3. \A r \in Requests : status[r] = "running" => r \in ToSet(running)
  BY DEF KeptInv
<1>4. /\ ToSet(running') = ToSet(running) \ E
      /\ \A r \in Requests : status'[r] = IF r \in E THEN "finished" ELSE status[r]
  BY <1>1 DEF Updated
<1>5. \A r \in Requests : status'[r] = "running" => r \in ToSet(running')
  BY <1>3, <1>4
<1>6. ASSUME setup.policy = "sorted"
      PROVE  ToSet(running') = {}
  <2>1. setup.depth = 1 /\ \A r \in Requests : setup.maxNew[r] = 1
    BY <1>6 DEF PrefillsOnly
  <2>2. \A r \in ToSet(running) : r \in Flying /\ computed[r] = total[r]
    BY <1>6 DEF KeptInv
  <2>3. Flying \subseteq DOMAIN batch
    <3>1. /\ Len(flight) \in Nat /\ DOMAIN flight = 1..Len(flight) /\ Len(flight) <= 1
          /\ flight[1] = batch
      BY <1>1, <2>1, LenProperties DEF SInv, Typing, TypeOK, Updated
    <3>2. \A i \in DOMAIN flight : flight[i] = batch
      BY <3>1
    <3> QED BY <3>2 DEF Flying
  <2>4. ToSet(running) \subseteq G
    BY <1>1, <2>2, <2>3 DEF Updated, GrownOf
  <2>5. ASSUME NEW r \in ToSet(running)
        PROVE  r \in E
    <3>1. r \in G /\ r \in Requests /\ status[r] = "running"
      BY <2>4, SInvHas
    <3>2. total[r] < Prompt[r] + setup.maxNew[r]
      BY <3>1 DEF SInv, Counted
    <3>3. setup.maxNew[r] = 1 /\ total[r] \in Nat /\ Prompt[r] \in Nat /\ Prompt[r] <= total[r]
      BY <2>1, <3>1, SInvHas DEF Numbers
    <3>4. total[r] + 1 = Prompt[r] + setup.maxNew[r]
      BY <3>2, <3>3
    <3> QED BY <1>1, <3>1, <3>4 DEF Updated, EndedOf
  <2> QED BY <1>4, <2>5
<1> QED BY <1>2, <1>5, <1>6 DEF KeptInv

LEMMA KeptByOthers ==
    ASSUME SInv, KeptInv,
           \/ \E r \in Requests : AddRequest(r) \/ GrowOld(r) \/ FinishRequest(r)
           \/ UNCHANGED vars
    PROVE  KeptInv'
<1>1. UNCHANGED <<setup, flight, total, computed>>
  BY DEF AddRequest, GrowOld, FinishRequest, vars, rvars
<1>2. Flying' = Flying
  BY <1>1 DEF Flying
<1> SUFFICES ASSUME PrefillsOnly(setup) PROVE KeptInv'
  BY <1>1 DEF KeptInv
<1>3. /\ \A r \in Requests : status[r] = "running" => r \in ToSet(running)
      /\ setup.policy = "sorted" =>
            \A r \in ToSet(running) : r \in Flying /\ computed[r] = total[r]
  BY DEF KeptInv
<1>4. /\ ToSet(running') \subseteq ToSet(running)
      /\ \A r \in Requests : status'[r] = "running" => r \in ToSet(running')
  <2>1. CASE UNCHANGED vars
    BY <1>3, <2>1 DEF vars, rvars
  <2>2. CASE \E r \in Requests : AddRequest(r)
    <3>1. running' = running /\ \A q \in Requests : status'[q] = "running" => status[q] = "running"
      BY <2>2 DEF AddRequest, SInv, Typing, TypeOK
    <3> QED BY <1>3, <3>1
  <2>3. CASE \E r \in Requests : GrowOld(r)
    BY <1>3, <2>3 DEF GrowOld, rvars
  <2>4. ASSUME NEW r \in Requests, FinishRequest(r)
        PROVE  /\ ToSet(running') \subseteq ToSet(running)
               /\ \A q \in Requests : status'[q] = "running" => q \in ToSet(running')
    <3>1. CASE crashed'
      BY <1>3, <2>4, <3>1 DEF FinishRequest, rvars
    <3>2. CASE ~crashed'
      <4>1. status' = [status EXCEPT ![r] = "finished"] /\ running' = Without(running, {r})
        BY <2>4, <3>2 DEF FinishRequest
      <4>2. ToSet(running') = ToSet(running) \ {r}
        BY <4>1, SInvHas, WithoutIs
      <4>3. \A q \in Requests : status'[q] = IF q = r THEN "finished" ELSE status[q]
        BY <4>1 DEF SInv, Typing, TypeOK
      <4> QED BY <1>3, <4>2, <4>3
    <3> QED BY <3>1, <3>2
  <2> QED BY <2>1, <2>2, <2>3, <2>4
<1> QED BY <1>1, <1>2, <1>3, <1>4 DEF KeptInv

LEMMA KeptHolds == Spec => []KeptInv
<1>1. Init => KeptInv
  <2> SUFFICES ASSUME Init PROVE KeptInv
    OBVIOUS
  <2>1. running = <<>> /\ ToSet(running) = {} /\ \A r \in Requests : status[r] = "new"
    BY EmptyQueue DEF Init
  <2> QED BY <2>1 DEF KeptInv
<1>2. SInv /\ KeptInv /\ [Next]_vars => KeptInv'
  BY KeptBySchedule, KeptByUpdate, KeptByOthers DEF Next
<1> QED BY <1>1, <1>2, SInvHolds, PTL DEF Spec

(* No request is lost or scheduled twice, in any setup in which the sorting   *)
(* scheduler without mixing is used as on a prefill instance: what a step     *)
(* takes from a queue, preempts, skips, sorts or ends is in the one queue its *)
(* status says, once.                                                         *)
THEOREM NoneIsLost == Spec => [](PrefillsOnly(setup) => NoneLost)
<1>1. SInv /\ KeptInv => (PrefillsOnly(setup) => NoneLost)
  <2> SUFFICES ASSUME SInv, KeptInv, PrefillsOnly(setup) PROVE NoneLost
    OBVIOUS
  <2>2. /\ running \in Seq(Requests) /\ waiting \in Seq(Requests)
        /\ IsInjective(running) /\ IsInjective(waiting)
        /\ \A r \in ToSet(running) : r \in Requests /\ status[r] = "running"
        /\ \A r \in ToSet(waiting) : r \in Requests /\ status[r] \in {"waiting", "preempted"}
    BY SInvHas
  <2>3. ToSet(waiting) \cap ToSet(running) = {}
    BY <2>2
  <2>4. waiting \o running \in Seq(Requests) /\ IsInjective(waiting \o running)
    BY <2>2, <2>3, QueueConcat
  <2>5. Len(waiting \o running) = Cardinality(ToSet(waiting \o running))
    BY <2>4, QueueLength
  <2>6. \A r \in Requests : status[r] = "running" => r \in ToSet(running)
    BY DEF KeptInv
  <2>7. \A r \in Requests : status[r] = "running" <=> r \in ToSet(running)
    BY <2>2, <2>6
  <2>8. \A r \in Requests : status[r] \in {"waiting", "preempted"} <=> r \in ToSet(waiting)
    BY DEF SInv, Queued
  <2> QED BY <2>5, <2>7, <2>8 DEF NoneLost
<1> QED BY <1>1, SInvHolds, KeptHolds, PTL

----------------------------------------------------------------------------
(* Nothing ends the engine *)

(* Where prompts fit, nothing is ignored, and a prompt is one piece.          *)
LEMMA PromptsAreWhole ==
    ASSUME SInv, PromptsFit(setup), setup.policy = "hybrid"
    PROVE  Within(waiting) /\ InOne(waiting)
<1> SUFFICES ASSUME NEW r \in ToSet(waiting)
             PROVE  Chunk(total[r]) = total[r] /\ total[r] <= setup.limit
  BY DEF Within, InOne
<1>1. Numbers /\ r \in Requests /\ status[r] # "finished"
  BY SInvHas
<1>2. total[r] < Prompt[r] + setup.maxNew[r]
  BY <1>1 DEF SInv, Counted
<1>3. /\ total[r] \in Nat /\ Prompt[r] \in Nat /\ setup.maxNew[r] \in Nat
      /\ setup.threshold \in Nat /\ setup.limit \in Nat
  BY <1>1 DEF Numbers
<1>4. /\ Prompt[r] + setup.maxNew[r] <= setup.limit + 1
      /\ setup.threshold = 0 \/ Prompt[r] + setup.maxNew[r] <= setup.threshold + 1
  BY <1>1 DEF PromptsFit
<1> DEFINE n == total[r]
<1>5. n \in Nat /\ n <= setup.limit /\ (setup.threshold = 0 \/ n <= setup.threshold)
  BY <1>2, <1>3, <1>4
<1> HIDE DEF n
<1>6. Chunk(n) = n
  BY <1>3, <1>5 DEF Chunk
<1> QED BY <1>5, <1>6 DEF n

(* What no crash rests on.                                                    *)
NInv == HybridInv /\ NoCrashInv

LEMMA HybridBySchedule ==
    ASSUME SInv, NInv, Schedule
    PROVE  HybridInv'
<1>1. /\ setup' = setup /\ \A r \in Requests : total'[r] = total[r]
  BY DEF Schedule
<1> SUFFICES ASSUME setup.policy = "hybrid", PromptsFit(setup)
             PROVE  HybridInv'
  BY <1>1 DEF HybridInv
<1> DEFINE R == ToSet(running)
           W == ToSet(waiting)
<1>2. /\ Flying \cap R \subseteq scheduled /\ Apart(R)
      /\ \A r \in Flying : status[r] \in {"running", "finished"}
      /\ \A r \in R : computed[r] = IF r \in Flying THEN total[r] ELSE total[r] - 1
  BY DEF NInv, HybridInv
<1>3. Within(waiting) /\ InOne(waiting)
  BY PromptsAreWhole
<1>4. HybridSchedule
  BY DEF Schedule, SortedSchedule, TfasSchedule
<1>5. PICK s : HybridMade(s)
  BY <1>4, HybridMakes
<1>6. /\ Made(s, running, MaxTokens) /\ Finish(s, waiting) /\ s.ignored = {}
      /\ scheduled' = scheduled \cup DOMAIN s.batch
  BY <1>3, <1>5 DEF HybridMade
<1> DEFINE B == DOMAIN s.batch
           P == ToSet(s.preempted)
           S == ToSet(s.running)
<1>7. /\ B \subseteq S /\ S \cup P = R \cup B /\ B \subseteq R \cup W /\ P \subseteq R
      /\ S \cap P = {}
      /\ \A r \in B : s.batch[r] \in 1..(total[r] - computed[r])
  BY <1>6 DEF Made, Batched
<1>8. /\ \A r \in R : r \in Requests /\ status[r] = "running"
      /\ \A r \in W : /\ r \in Requests /\ status[r] \in {"waiting", "preempted"}
                      /\ computed[r] = 0
      /\ Numbers
  BY SInvHas DEF SInv, Counted
<1>9. /\ ToSet(running') = S
      /\ \A r \in Requests : status'[r] = IF r \in B THEN "running"
                                          ELSE IF r \in P THEN "preempted" ELSE status[r]
      /\ \A r \in Requests : computed'[r] = IF r \in P THEN 0
                                            ELSE IF r \in B THEN computed[r] + s.batch[r]
                                            ELSE computed[r]
  <2>1. /\ ToSet(running') = S
        /\ \A r \in Requests : computed'[r] = IF r \in P THEN 0
                                              ELSE IF r \in B THEN computed[r] + s.batch[r]
                                              ELSE computed[r]
    BY <1>6 DEF Finish
  <2>2. ASSUME NEW r \in Requests
        PROVE  status'[r] = IF r \in B THEN "running"
                            ELSE IF r \in P THEN "preempted" ELSE status[r]
    <3>1. status'[r] = CASE r \in B -> "running" [] r \in P -> "preempted"
                         [] r \in s.ignored -> "ignored" [] OTHER -> status[r]
      BY <1>6 DEF Finish
    <3>2. r \notin s.ignored /\ ~(r \in B /\ r \in P)
      BY <1>6, <1>7
    <3> HIDE DEF B, P
    <3> QED BY <3>1, <3>2
  <2> QED BY <2>1, <2>2
<1>10. /\ Flying' = Flying \cup B
       /\ \A T : Apart(T) /\ Flying \cap B \cap T = {} => Apart(T)'
  BY <1>6, FlightGrows
<1>11. \A r \in Flying : r \in Requests
  <2>1. \A i \in DOMAIN flight : DOMAIN flight[i] \subseteq Requests
    BY DEF SInv, Typing, TypeOK
  <2> QED BY <2>1 DEF Flying
<1>12. Flying \cap W = {}
  BY <1>2, <1>8
<1>13. CASE Prefilled(s)
  <2>1. /\ P = {} /\ B \cap R = {}
        /\ \A r \in B : s.batch[r] = total[r]
    BY <1>3, <1>13, EmptyQueue DEF Prefilled
  <2> HIDE DEF B, P, S, R, W
  <2>2. B \subseteq W /\ S = R \cup B /\ Flying \cap B = {}
    BY <1>7, <1>12, <2>1
  <2>3. Flying' \cap S \subseteq scheduled'
    BY <1>2, <1>6, <1>10, <2>2 DEF B
  <2>4. Apart(S)'
    <3>1. Apart(S)
      <4>1. ASSUME NEW i \in DOMAIN flight, NEW j \in DOMAIN flight, i # j
            PROVE  DOMAIN flight[i] \cap DOMAIN flight[j] \cap S = {}
        <5>1. DOMAIN flight[i] \cap DOMAIN flight[j] \cap R = {}
          BY <1>2, <4>1 DEF Apart
        <5>2. DOMAIN flight[i] \cap B = {}
          BY <2>2 DEF Flying
        <5> QED BY <2>2, <5>1, <5>2
      <4> QED BY <4>1 DEF Apart
    <3> QED BY <1>10, <2>2, <3>1
  <2>5. \A r \in Flying' : status'[r] \in {"running", "finished"}
    BY <1>2, <1>9, <1>10, <1>11, <1>8, <2>1, <2>2
  <2>6. ASSUME NEW r \in S
        PROVE  computed'[r] = IF r \in Flying' THEN total[r] ELSE total[r] - 1
    <3>1. CASE r \in B
      <4>1. r \in W /\ r \in Requests /\ computed[r] = 0 /\ total[r] \in Nat
        BY <1>8, <2>2, <3>1 DEF Numbers
      <4>2. computed'[r] = 0 + total[r]
        BY <1>9, <2>1, <3>1, <4>1
      <4> QED BY <1>10, <3>1, <4>1, <4>2
    <3>2. CASE r \notin B
      <4>1. r \in R /\ r \in Requests
        BY <1>8, <2>2, <3>2
      <4>2. computed'[r] = computed[r]
        BY <1>9, <2>1, <3>2, <4>1
      <4> QED BY <1>2, <1>10, <3>2, <4>1, <4>2
    <3> QED BY <3>1, <3>2
  <2>7. \A r \in S : r \in Requests
    BY <1>8, <2>2
  <2> QED BY <1>1, <1>9, <2>3, <2>4, <2>5, <2>6, <2>7 DEF HybridInv
<1>14. CASE Decoded(s)
  <2>1. scheduled = {} /\ B \subseteq R
    BY <1>14 DEF Decoded
  <2> HIDE DEF B, P, S, R, W
  <2>2. Flying \cap R = {} /\ S \subseteq R /\ P \subseteq R
    BY <1>2, <1>7, <2>1
  <2>3. Flying' \cap S \subseteq scheduled'
    BY <1>6, <1>10, <2>2 DEF B
  <2>4. Apart(S)'
    <3>1. Apart(S)
      BY <1>2, <2>2 DEF Apart
    <3> QED BY <1>10, <2>1, <2>2, <3>1
  <2>5. \A r \in Flying' : status'[r] \in {"running", "finished"}
    <3> TAKE r \in Flying'
    <3>1. CASE r \in B
      BY <1>8, <1>9, <2>1, <3>1
    <3>2. CASE r \in Flying /\ r \notin B
      <4>1. r \notin P /\ r \in Requests
        BY <1>11, <2>2, <3>2
      <4> QED BY <1>2, <1>9, <3>2, <4>1
    <3> QED BY <1>10, <3>1, <3>2
  <2>6. ASSUME NEW r \in S
        PROVE  computed'[r] = IF r \in Flying' THEN total[r] ELSE total[r] - 1
    <3>1. /\ r \in R /\ r \in Requests /\ r \notin P /\ r \notin Flying
          /\ computed[r] = total[r] - 1 /\ total[r] \in Nat /\ computed[r] \in Nat
      BY <1>2, <1>7, <1>8, <2>2 DEF Numbers
    <3>2. CASE r \in B
      <4>1. s.batch[r] = 1
        BY <1>7, <3>1, <3>2
      <4>2. computed'[r] = computed[r] + 1
        BY <1>9, <3>1, <3>2, <4>1
      <4> QED BY <1>10, <3>1, <3>2, <4>2
    <3>3. CASE r \notin B
      BY <1>9, <1>10, <3>1, <3>3
    <3> QED BY <3>2, <3>3
  <2>7. \A r \in S : r \in Requests
    BY <1>8, <2>2
  <2> QED BY <1>1, <1>9, <2>3, <2>4, <2>5, <2>6, <2>7 DEF HybridInv
<1> QED BY <1>5, <1>13, <1>14 DEF HybridMade

LEMMA NoCrashBySchedule ==
    ASSUME SInv, NInv, Schedule
    PROVE  NoCrashInv'
<1>1. setup' = setup
  BY DEF Schedule
<1> SUFFICES ASSUME PromptsFit(setup) PROVE NoCrashInv'
  BY <1>1 DEF NoCrashInv
<1>2. \A r \in Requests : status[r] # "ignored"
  BY DEF NInv, NoCrashInv
<1>3. ASSUME NEW s, NEW queue, Finish(s, queue), s.ignored = {}, ~s.failed
      PROVE  NoCrashInv'
  <2>1. ~crashed' /\ \A r \in Requests : status'[r] # "ignored"
    BY <1>2, <1>3 DEF Finish
  <2> QED BY <2>1 DEF NoCrashInv
<1>4. CASE HybridSchedule
  <2>1. PICK s : HybridMade(s)
    BY <1>4, HybridMakes
  <2>2. setup.policy = "hybrid"
    BY <1>4 DEF HybridSchedule
  <2>3. Within(waiting)
    BY <2>2, PromptsAreWhole
  <2>4. ~s.failed
    <3>1. CASE Prefilled(s)
      BY <3>1 DEF Prefilled
    <3>2. CASE Decoded(s)
      <4>1. ASSUME NEW r \in ToSet(running)
            PROVE  total[r] - computed[r] = 1
        <5>1. r \notin Flying
          BY <2>2, <3>2 DEF NInv, HybridInv, Decoded
        <5>2. computed[r] = total[r] - 1
          BY <2>2, <5>1 DEF NInv, HybridInv
        <5>3. total[r] \in Nat
          BY SInvHas DEF Numbers
        <5> QED BY <5>2, <5>3
      <4> QED BY <3>2, <4>1 DEF Decoded, Whole
    <3> QED BY <2>1, <3>1, <3>2 DEF HybridMade
  <2> QED BY <1>3, <2>1, <2>3, <2>4 DEF HybridMade
<1>5. CASE SortedSchedule
  <2>1. PICK s, list, queue : SortedMade(s, list, queue)
    BY <1>5, SortedMakes
  <2> QED BY <1>3, <2>1 DEF SortedMade, LoopsMade
<1>6. CASE TfasSchedule
  <2>1. PICK s, queue : TfasMade(s, queue)
    BY <1>6, TfasMakes
  <2> QED BY <1>3, <2>1 DEF TfasMade, LoopsMade
<1> QED BY <1>4, <1>5, <1>6 DEF Schedule

LEMMA HybridByUpdate ==
    ASSUME SInv, NInv, UpdateFromOutput
    PROVE  NInv'
<1>1. PICK batch, G, E : Updated(batch, G, E)
  BY UpdatedIs
<1>2. /\ batch = Head(flight) /\ flight # <<>> /\ flight' = Tail(flight)
      /\ G = {r \in DOMAIN batch \cap ToSet(running) : computed[r] = total[r]}
      /\ E \subseteq G /\ ToSet(running') = ToSet(running) \ E
      /\ \A r \in Requests : total'[r] = IF r \in G THEN total[r] + 1 ELSE total[r]
      /\ \A r \in Requests : status'[r] = IF r \in E THEN "finished" ELSE status[r]
      /\ setup' = setup /\ computed' = computed
  BY <1>1 DEF Updated, GrownOf
<1>3. /\ Numbers /\ \A r \in ToSet(running) : r \in Requests /\ status[r] = "running"
  BY SInvHas
<1> SUFFICES ASSUME PromptsFit(setup) PROVE NInv'
  BY <1>2 DEF NInv, HybridInv, NoCrashInv
<1>4. /\ scheduled' = scheduled \ (DOMAIN batch \cap ToSet(running))
      /\ crashed' = (/\ setup.policy = "hybrid"
                     /\ ~(DOMAIN batch \cap ToSet(running) \subseteq scheduled))
  BY <1>2 DEF UpdateFromOutput, Taken
<1>5. /\ flight \in Seq(BatchesOf(Nat)) /\ Len(flight) \in Nat /\ DOMAIN flight = 1..Len(flight)
      /\ Len(flight') = Len(flight) - 1 /\ DOMAIN flight' = 1..Len(flight')
      /\ flight[1] = batch /\ 1 \in DOMAIN flight
      /\ \A i \in 1..Len(flight') : flight'[i] = flight[i + 1]
  <2>1. flight \in Seq(BatchesOf(Nat)) /\ Len(flight) \in Nat /\ DOMAIN flight = 1..Len(flight)
    BY LenProperties DEF SInv, Typing
  <2>2. /\ flight' \in Seq(BatchesOf(Nat)) /\ Len(flight') = Len(flight) - 1
        /\ \A i \in 1..Len(flight') : flight'[i] = flight[i + 1]
    BY <1>2, <2>1, HeadTailProperties
  <2>3. flight[1] = batch /\ 1 \in DOMAIN flight
    BY <1>2, <2>1, EmptySeq, LenProperties
  <2> QED BY <2>1, <2>2, <2>3, LenProperties
<1>6. \A i \in DOMAIN flight' : /\ i + 1 \in DOMAIN flight /\ i + 1 # 1
                               /\ flight'[i] = flight[i + 1]
  BY <1>5
<1>7. DOMAIN batch \subseteq Flying /\ Flying' \subseteq Flying
  <2>1. DOMAIN batch \subseteq Flying
    BY <1>5 DEF Flying
  <2>2. Flying' \subseteq Flying
    BY <1>6 DEF Flying
  <2> QED BY <2>1, <2>2
<1>8. ASSUME NEW r \in Flying, r \notin DOMAIN batch
      PROVE  r \in Flying'
  <2>1. PICK i \in DOMAIN flight : r \in DOMAIN flight[i]
    BY <1>8 DEF Flying
  <2>2. i # 1 /\ i \in 1..Len(flight)
    BY <1>5, <1>8, <2>1
  <2>3. i - 1 \in DOMAIN flight' /\ flight'[i - 1] = flight[i]
    <3>1. i - 1 \in 1..Len(flight') /\ i - 1 + 1 = i
      BY <1>5, <2>2
    <3> QED BY <1>5, <3>1
  <2> QED BY <2>1, <2>3 DEF Flying
<1>9. NoCrashInv'
  <2>1. \A r \in Requests : status[r] # "ignored"
    BY DEF NInv, NoCrashInv
  <2>2. \A r \in Requests : status'[r] # "ignored"
    BY <1>2, <2>1
  <2>3. ~crashed'
    <3> SUFFICES ASSUME setup.policy = "hybrid"
                 PROVE  DOMAIN batch \cap ToSet(running) \subseteq scheduled
      BY <1>4
    <3>1. Flying \cap ToSet(running) \subseteq scheduled
      BY DEF NInv, HybridInv
    <3> QED BY <1>7, <3>1
  <2> QED BY <2>2, <2>3 DEF NoCrashInv
<1>10. ASSUME setup.policy = "hybrid"
       PROVE  HybridInv'
  <2>1. /\ Flying \cap ToSet(running) \subseteq scheduled /\ Apart(ToSet(running))
        /\ \A r \in Flying : status[r] \in {"running", "finished"}
        /\ \A r \in ToSet(running) :
              computed[r] = IF r \in Flying THEN total[r] ELSE total[r] - 1
    BY <1>10 DEF NInv, HybridInv
  <2>2. Flying' \cap DOMAIN batch \cap ToSet(running) = {}
    <3> SUFFICES ASSUME NEW i \in DOMAIN flight'
                 PROVE  DOMAIN flight'[i] \cap DOMAIN batch \cap ToSet(running) = {}
      BY DEF Flying
    <3>1. DOMAIN flight[i + 1] \cap DOMAIN flight[1] \cap ToSet(running) = {}
      BY <1>5, <1>6, <2>1 DEF Apart
    <3> QED BY <1>5, <1>6, <3>1
  <2>3. Flying' \cap ToSet(running') \subseteq scheduled'
    BY <1>2, <1>4, <1>7, <2>1, <2>2
  <2>4. Apart(ToSet(running))'
    <3> SUFFICES ASSUME NEW i \in DOMAIN flight', NEW j \in DOMAIN flight', i # j
                 PROVE  DOMAIN flight'[i] \cap DOMAIN flight'[j] \cap ToSet(running') = {}
      BY DEF Apart
    <3>1. i + 1 # j + 1
      BY <1>5
    <3>2. DOMAIN flight[i + 1] \cap DOMAIN flight[j + 1] \cap ToSet(running) = {}
      BY <1>6, <2>1, <3>1 DEF Apart
    <3> QED BY <1>2, <1>6, <3>2
  <2>5. \A r \in Flying' : status'[r] \in {"running", "finished"}
    <3>1. \A i \in DOMAIN flight : DOMAIN flight[i] \subseteq Requests
      BY DEF SInv, Typing, TypeOK
    <3>2. \A r \in Flying : r \in Requests
      BY <3>1 DEF Flying
    <3> QED BY <1>2, <1>7, <2>1, <3>2
  <2>6. ASSUME NEW r \in ToSet(running')
        PROVE  computed'[r] = IF r \in Flying' THEN total'[r] ELSE total'[r] - 1
    <3>1. r \in ToSet(running) /\ r \in Requests /\ total[r] \in Nat
      BY <1>2, <1>3, <2>6 DEF Numbers
    <3>2. CASE r \in DOMAIN batch
      <4>1. computed[r] = total[r] /\ r \in G /\ r \notin Flying'
        BY <1>2, <1>7, <2>1, <2>2, <3>1, <3>2
      <4>2. total'[r] = total[r] + 1 /\ computed'[r] = computed[r]
        BY <1>2, <3>1, <4>1
      <4> QED BY <3>1, <4>1, <4>2
    <3>3. CASE r \notin DOMAIN batch
      <4>1. r \in Flying <=> r \in Flying'
        BY <1>7, <1>8, <3>3
      <4>2. total'[r] = total[r] /\ computed'[r] = computed[r]
        BY <1>2, <3>1, <3>3
      <4> QED BY <2>1, <3>1, <4>1, <4>2
    <3> QED BY <3>2, <3>3
  <2> QED BY <2>3, <2>4, <2>5, <2>6 DEF HybridInv
<1> QED BY <1>2, <1>9, <1>10 DEF NInv, HybridInv

LEMMA HybridByOthers ==
    ASSUME SInv, NInv,
           \/ \E r \in Requests : AddRequest(r) \/ GrowOld(r) \/ FinishRequest(r)
           \/ UNCHANGED vars
    PROVE  NInv'
<1>1. UNCHANGED <<setup, flight, total, computed>>
  BY DEF AddRequest, GrowOld, FinishRequest, vars, rvars
<1>2. Flying' = Flying /\ \A S : Apart(S)' <=> Apart(S)
  BY <1>1 DEF Flying, Apart
<1> SUFFICES ASSUME PromptsFit(setup) PROVE NInv'
  BY <1>1 DEF NInv, HybridInv, NoCrashInv
<1>3. ~crashed /\ \A r \in Requests : status[r] # "ignored"
  BY DEF NInv, NoCrashInv
<1>4. \A r \in Flying : r \in Requests
  <2>1. \A i \in DOMAIN flight : DOMAIN flight[i] \subseteq Requests
    BY DEF SInv, Typing, TypeOK
  <2> QED BY <2>1 DEF Flying
<1>5. status \in [Requests -> {"new", "waiting", "preempted", "running", "finished", "ignored"}]
  BY DEF SInv, Typing, TypeOK
<1>6. ASSUME ~crashed', \A r \in Requests : status'[r] # "ignored",
             ToSet(running') \subseteq ToSet(running),
             Flying \cap ToSet(running') \cap scheduled \subseteq scheduled',
             \A r \in Requests : status[r] \in {"running", "finished"}
                                    => status'[r] \in {"running", "finished"}
      PROVE  NInv'
  <2>1. NoCrashInv'
    BY <1>6 DEF NoCrashInv
  <2>2. ASSUME setup.policy = "hybrid"
        PROVE  HybridInv'
    <3>1. /\ Flying \cap ToSet(running) \subseteq scheduled /\ Apart(ToSet(running))
          /\ \A r \in Flying : status[r] \in {"running", "finished"}
          /\ \A r \in ToSet(running) :
                computed[r] = IF r \in Flying THEN total[r] ELSE total[r] - 1
      BY <2>2 DEF NInv, HybridInv
    <3>2. Flying' \cap ToSet(running') \subseteq scheduled'
      BY <1>2, <1>6, <3>1
    <3> DEFINE R == ToSet(running)
               Q == ToSet(running')
    <3>3. Q \subseteq R /\ Apart(R)
      BY <1>6, <3>1
    <3> HIDE DEF R, Q
    <3>4. \A i, j \in DOMAIN flight' :
             i # j => DOMAIN flight'[i] \cap DOMAIN flight'[j] \cap Q = {}
      BY <1>1, <3>3 DEF Apart
    <3>5. Apart(ToSet(running))'
      BY <3>4 DEF Apart, Q
    <3>6. \A r \in Flying' : status'[r] \in {"running", "finished"}
      BY <1>2, <1>4, <1>6, <3>1
    <3>7. \A r \in ToSet(running') :
             computed'[r] = IF r \in Flying' THEN total'[r] ELSE total'[r] - 1
      BY <1>1, <1>2, <1>6, <3>1
    <3> QED BY <3>2, <3>5, <3>6, <3>7 DEF HybridInv
  <2> QED BY <1>1, <2>1, <2>2 DEF NInv, HybridInv
<1>7. CASE UNCHANGED vars
  <2>1. UNCHANGED <<status, running, scheduled, crashed>>
    BY <1>7 DEF vars, rvars
  <2> QED BY <1>3, <1>6, <2>1
<1>8. ASSUME NEW r \in Requests, AddRequest(r)
      PROVE  NInv'
  <2>1. /\ status[r] = "new" /\ status' = [status EXCEPT ![r] = "waiting"]
        /\ UNCHANGED <<running, scheduled, crashed>>
    BY <1>8 DEF AddRequest
  <2>2. \A q \in Requests : status'[q] = IF q = r THEN "waiting" ELSE status[q]
    BY <1>5, <2>1
  <2> QED BY <1>3, <1>6, <2>1, <2>2
<1>9. ASSUME NEW r \in Requests, GrowOld(r)
      PROVE  NInv'
  <2>1. UNCHANGED <<status, running, scheduled, crashed>>
    BY <1>9 DEF GrowOld, rvars
  <2> QED BY <1>3, <1>6, <2>1
<1>10. ASSUME NEW r \in Requests, FinishRequest(r)
       PROVE  NInv'
  <2>1. ~crashed'
    <3>1. status[r] \in {"waiting", "preempted", "running", "ignored"}
      BY <1>10 DEF FinishRequest
    <3>2. status[r] # "running" => r \in ToSet(waiting)
      BY <1>3, <3>1 DEF SInv, Queued
    <3>3. crashed' = (status[r] # "running" /\ r \notin ToSet(waiting))
      BY <1>10 DEF FinishRequest
    <3> QED BY <3>2, <3>3
  <2>2. /\ status' = [status EXCEPT ![r] = "finished"] /\ running' = Without(running, {r})
        /\ scheduled' = scheduled \ {r}
    BY <1>10, <2>1 DEF FinishRequest
  <2>3. ToSet(running') = ToSet(running) \ {r}
    BY <2>2, SInvHas, WithoutIs
  <2>4. \A q \in Requests : status'[q] = IF q = r THEN "finished" ELSE status[q]
    BY <1>5, <2>2
  <2> QED BY <1>3, <1>6, <2>1, <2>2, <2>3, <2>4
<1> QED BY <1>7, <1>8, <1>9, <1>10

LEMMA NInvHolds == Spec => []NInv
<1>1. Init => NInv
  <2> SUFFICES ASSUME Init PROVE NInv
    OBVIOUS
  <2>1. /\ running = <<>> /\ ToSet(running) = {} /\ flight = <<>> /\ DOMAIN flight = {}
        /\ ~crashed /\ \A r \in Requests : status[r] = "new"
    BY EmptyQueue DEF Init
  <2>2. Flying = {}
    BY <2>1 DEF Flying
  <2> QED BY <2>1, <2>2 DEF NInv, HybridInv, NoCrashInv, Apart
<1>2. SInv /\ NInv /\ [Next]_vars => NInv'
  <2>1. SInv /\ NInv /\ Schedule => NInv'
    BY HybridBySchedule, NoCrashBySchedule DEF NInv
  <2> QED BY <2>1, HybridByUpdate, HybridByOthers DEF Next
<1> QED BY <1>1, <1>2, SInvHolds, PTL DEF Spec

(* What the queues, the blocks, the batches under way and scheduled_req_ids   *)
(* say of each other, in any setup.                                           *)
THEOREM InductiveInvariant == Spec => []IInv
<1>1. SInv /\ KeptInv /\ NInv => IInv
  BY DEF NInv, IInv
<1> QED BY <1>1, SInvHolds, KeptHolds, NInvHolds, PTL

(* No assertion of the scheduler fails and no exception ends the engine, in   *)
(* any setup in which the hybrid scheduler's prompts, with all they grow by,  *)
(* exceed neither its limit nor its threshold: what it decodes needs one      *)
(* token, what an output takes from scheduled_req_ids is in it, with two      *)
(* batches under way too, and what is aborted is where its status says.       *)
THEOREM NoCrash == Spec => [](PromptsFit(setup) => NeverCrashes)
<1>1. IInv => (PromptsFit(setup) => NeverCrashes)
  BY DEF IInv, NoCrashInv, NeverCrashes
<1> QED BY <1>1, InductiveInvariant, PTL
=============================================================================
