------------------------- MODULE SharedMemoryProofs -------------------------
(* What the two structures in the shared memory of Omni Proxy guarantee.      *)
(* The request pool, for any number of words and any width of a word: its     *)
(* types with any workers, and all it promises with one, that is where        *)
(* nothing interleaves with a free.  The queue of the requests that wait for  *)
(* prefill, for any requests, sizes and waiting times: what a scheduling pass *)
(* does to it.                                                                *)
EXTENDS RequestPool, PrefillQueue, DataFacts, FiniteSetTheorems, TLAPS

----------------------------------------------------------------------------
(***************************************************************************)
(* The request pool                                                        *)
(***************************************************************************)

(* The slot that the search looks at when it has passed n slots.              *)
Passed(n) == (head + n) % Total

Used == {s \in Slots : IsSet(s)}

(* The registers of a call agree with the pool.                               *)
CallInv(w) ==
    /\ pc[w] = "scan" =>
          /\ num < Total
          /\ idx[w] = Passed(checked[w])
          /\ \A n \in 0 .. checked[w] - 1 : IsSet(Passed(n))
    /\ pc[w] = "mark" => ~ IsSet(idx[w])
    /\ pc[w] = "counted" => idx[w] \notin held[w]
    /\ pc[w] \in {"clear", "cleared"} => idx[w] \in held[w]
    /\ pc[w] \in {"mark", "clear"} => bits[w] = bitmap[WordOf(idx[w])]
    /\ pc[w] \in {"counted", "cleared"} => count[w] = num

(* The bitmap says what the worker holds, but for the slot that a call has    *)
(* marked or cleared and not yet counted.                                     *)
BitmapInv(w) ==
    /\ pc[w] = "counted" => Used = held[w] \cup {idx[w]}
    /\ pc[w] = "cleared" => Used = held[w] \ {idx[w]}
    /\ pc[w] \notin {"counted", "cleared"} => Used = held[w]
    /\ num = Cardinality(held[w])

IInv == TypeOK /\ \A w \in Workers : CallInv(w) /\ BitmapInv(w)

----------------------------------------------------------------------------
(* Slots, words and offsets *)

(* The pool has words, and words have bits.                                   *)
LEMMA PoolSizes == Total \in Nat \ {0} /\ NumWords \in Nat \ {0} /\ WordBits \in Nat \ {0}
BY PoolAssumption DEF Total

(* A slot has a word and an offset in it.                                     *)
LEMMA WordsAndOffsets ==
    ASSUME NEW s \in Slots
    PROVE  WordOf(s) \in Words /\ OffsetOf(s) \in Offsets
BY PoolAssumption DEF Slots, Total, Words, Offsets, WordOf, OffsetOf

(* A word and an offset are those of one slot.                                *)
LEMMA SlotsDiffer ==
    ASSUME NEW s \in Slots, NEW t \in Slots,
           WordOf(s) = WordOf(t), OffsetOf(s) = OffsetOf(t)
    PROVE  s = t
<1>1. s = WordBits * WordOf(s) + OffsetOf(s)
  BY PoolAssumption DEF Slots, Total, WordOf, OffsetOf
<1>2. t = WordBits * WordOf(t) + OffsetOf(t)
  BY PoolAssumption DEF Slots, Total, WordOf, OffsetOf
<1> QED BY <1>1, <1>2

(* The slots that follow s in its word, to the end of the word.               *)
LEMMA SameWord ==
    ASSUME NEW s \in Slots, NEW n \in Nat, n < WordBits - OffsetOf(s)
    PROVE  s + n \in Slots /\ WordOf(s + n) = WordOf(s)
<1> USE PoolAssumption
<1> DEFINE q == WordOf(s)  r == OffsetOf(s)
<1>1. s = WordBits * q + r /\ q \in Words /\ r \in Offsets
  <2>1. s = WordBits * q + r
    BY DEF Slots, Total, WordOf, OffsetOf
  <2> QED BY <2>1, WordsAndOffsets
<1>2. s + n = WordBits * q + (r + n) /\ r + n \in 0 .. WordBits - 1
  <2>1. r \in Nat /\ WordBits \in Nat /\ n < WordBits - r
    BY <1>1 DEF Offsets
  <2>2. WordBits * q \in Nat
    BY <1>1 DEF Words
  <2> HIDE DEF q, r
  <2> QED BY <1>1, <2>1, <2>2
<1>3. (s + n) \div WordBits = q
  <2> HIDE DEF q, r
  <2> QED BY <1>1, <1>2 DEF Words
<1>4. s + n < WordBits * (q + 1)
  <2> HIDE DEF q, r
  <2> QED BY <1>1, <1>2 DEF Words
<1>5. WordBits * (q + 1) <= Total
  <2> HIDE DEF q, r
  <2> QED BY <1>1 DEF Words, Total
<1> QED BY <1>1, <1>2, <1>3, <1>4, <1>5, PoolSizes DEF Slots, WordOf

(* A search wraps once.                                                       *)
LEMMA Wraps ==
    ASSUME NEW h \in Slots, NEW n \in 0 .. Total
    PROVE  /\ (h + n) % Total \in Slots
           /\ (h + n) % Total = IF h + n < Total THEN h + n ELSE h + n - Total
<1>1. Total \in Nat \ {0} /\ h \in 0 .. Total - 1
  BY PoolSizes DEF Slots
<1> HIDE DEF Total
<1> QED BY <1>1 DEF Slots

(* A full round of the search passes every slot.                              *)
LEMMA PassesAll ==
    ASSUME NEW h \in Slots, NEW s \in Slots
    PROVE  \E n \in 0 .. Total - 1 : (h + n) % Total = s
<1>1. Total \in Nat \ {0} /\ h \in 0 .. Total - 1 /\ s \in 0 .. Total - 1
  BY PoolSizes DEF Slots
<1> DEFINE n == IF h <= s THEN s - h ELSE s - h + Total
<1>2. n \in 0 .. Total - 1
  BY <1>1
<1>3. (h + n) % Total = s
  BY <1>1, <1>2, Wraps
<1> QED BY <1>2, <1>3

(* There are as many slots as bits.                                           *)
LEMMA SlotsFinite == IsFiniteSet(Slots) /\ Cardinality(Slots) = Total
<1>1. Total \in Nat \ {0}
  BY PoolSizes
<1>2. IsFiniteSet(0 .. Total - 1) /\ Cardinality(0 .. Total - 1) = Total
  BY <1>1, FS_Interval
<1> QED BY <1>2 DEF Slots

(* Fewer slots than there are are not all of them.                            *)
LEMMA FullWhenAll ==
    ASSUME NEW S \in SUBSET Slots
    PROVE  /\ IsFiniteSet(S) /\ Cardinality(S) \in Nat
           /\ Cardinality(S) >= Total <=> S = Slots
BY SlotsFinite, FS_Subset, FS_CardinalityType, PoolSizes

(* What a store to the bitmap changes.                                        *)
LEMMA BitChanges ==
    ASSUME TypeOK, NEW s \in Slots, NEW word \in SUBSET Offsets,
           bitmap' = [bitmap EXCEPT ![WordOf(s)] = word],
           \A o \in Offsets \ {OffsetOf(s)} : o \in word <=> o \in bitmap[WordOf(s)]
    PROVE  /\ \A t \in Slots \ {s} : IsSet(t)' <=> IsSet(t)
           /\ IsSet(s)' <=> OffsetOf(s) \in word
<1>1. ASSUME NEW t \in Slots \ {s} PROVE IsSet(t)' <=> IsSet(t)
  <2>1. WordOf(t) \in Words /\ OffsetOf(t) \in Offsets /\ WordOf(s) \in Words
    BY WordsAndOffsets
  <2>2. WordOf(t) # WordOf(s) \/ OffsetOf(t) # OffsetOf(s)
    BY SlotsDiffer
  <2> QED BY <2>1, <2>2 DEF IsSet, TypeOK
<1>2. IsSet(s)' <=> OffsetOf(s) \in word
  BY WordsAndOffsets DEF IsSet, TypeOK
<1> QED BY <1>1, <1>2

(* The search moves on, and not past its end.                                 *)
LEMMA Skips ==
    ASSUME NEW s \in Slots, NEW n \in 0 .. Total - 1, NEW word
    PROVE  /\ SkipFrom(s, n, word) \in 1 .. Total - n
           /\ word = Offsets => SkipFrom(s, n, word) <= WordBits - OffsetOf(s)
           /\ word # Offsets => SkipFrom(s, n, word) = 1
<1>1. Total \in Nat \ {0} /\ WordBits \in Nat \ {0} /\ OffsetOf(s) \in 0 .. WordBits - 1
  BY PoolSizes, WordsAndOffsets DEF Offsets
<1> QED BY <1>1 DEF SkipFrom, Minimum

----------------------------------------------------------------------------
(* The types, with any workers *)

LEMMA InitType == ASSUME Init PROVE TypeOK
<1>1. 0 \in Slots /\ 0 \in 0 .. Total
  BY PoolSizes DEF Slots
<1> QED BY <1>1 DEF Init, TypeOK

LEMMA ScanType == ASSUME TypeOK, NEW w \in Workers, Scan(w) PROVE TypeOK'
<1> DEFINE word == bitmap[WordOf(idx[w])]
           skip == SkipFrom(idx[w], checked[w], word)
<1>1. idx[w] \in Slots /\ checked[w] \in 0 .. Total - 1 /\ Total \in Nat
  BY PoolSizes DEF TypeOK, Scan
<1>2. word \in SUBSET Offsets
  BY <1>1, WordsAndOffsets DEF TypeOK
<1>3. skip \in 1 .. Total - checked[w]
  BY <1>1, Skips
<1>4. (idx[w] + skip) % Total \in Slots /\ checked[w] + skip \in 0 .. Total
  <2> HIDE DEF skip
  <2>1. skip \in 0 .. Total
    BY <1>1, <1>3
  <2>2. (idx[w] + skip) % Total \in Slots
    BY ONLY <1>1, <2>1, Wraps
  <2>3. checked[w] + skip \in 0 .. Total
    BY <1>1, <1>3
  <2> QED BY <2>2, <2>3
<1>5. idx' \in [Workers -> Slots] /\ checked' \in [Workers -> 0 .. Total]
  BY <1>4 DEF TypeOK, Scan
<1>6. pc' \in [Workers -> {"out", "scan", "mark", "counted", "clear", "cleared"}]
  BY DEF TypeOK, Scan
<1>7. bits' \in [Workers -> SUBSET Offsets]
  BY <1>2 DEF TypeOK, Scan
<1> QED BY <1>5, <1>6, <1>7 DEF TypeOK, Scan, pool

LEMMA TypeStep == ASSUME TypeOK, [Next]_vars PROVE TypeOK'
<1> USE DEF TypeOK, pool, regs
<1>1. ASSUME NEW w \in Workers, AllocFull(w) \/ AllocStart(w) PROVE TypeOK'
  BY <1>1, PoolSizes DEF AllocFull, AllocStart
<1>2. ASSUME NEW w \in Workers, AllocMark(w) \/ FreeClear(w) PROVE TypeOK'
  <2>1. WordOf(idx[w]) \in Words /\ OffsetOf(idx[w]) \in Offsets
    BY WordsAndOffsets
  <2>2. \A word \in Reload(bitmap[WordOf(idx[w])], bits[w]) : word \in SUBSET Offsets
    BY <2>1 DEF Reload
  <2> QED BY <1>2, <2>1, <2>2 DEF AllocMark, FreeClear
<1>3. ASSUME NEW w \in Workers, AllocReturn(w) PROVE TypeOK'
  <2>1. After(idx[w]) \in Slots
    <3>1. idx[w] \in Slots /\ 1 \in 0 .. Total
      BY PoolSizes
    <3> QED BY <3>1, Wraps DEF After
  <2> QED BY <1>3, <2>1 DEF AllocReturn, Reload
<1>4. ASSUME NEW w \in Workers, FreeStart(w) PROVE TypeOK'
  <2>1. PICK s \in held[w] : /\ idx' = [idx EXCEPT ![w] = s]
                             /\ bits' = [bits EXCEPT ![w] = bitmap[WordOf(s)]]
    BY <1>4 DEF FreeStart
  <2>2. s \in Slots /\ bitmap[WordOf(s)] \in SUBSET Offsets
    BY WordsAndOffsets
  <2> QED BY <1>4, <2>1, <2>2 DEF FreeStart
<1>5. ASSUME NEW w \in Workers, FreeReturn(w) PROVE TypeOK'
  BY <1>5 DEF FreeReturn, Reload
<1>6. ASSUME UNCHANGED vars PROVE TypeOK'
  BY <1>6 DEF vars
<1> QED BY <1>1, <1>2, <1>3, <1>4, <1>5, <1>6, ScanType DEF Next

(* Every variable has its type with any number of workers, however their      *)
(* calls interleave: no search and no free leaves the bitmap.                 *)
THEOREM TypeCorrect == Spec => []TypeOK
<1>1. Init => TypeOK
  BY InitType
<1>2. TypeOK /\ [Next]_vars => TypeOK'
  BY TypeStep
<1> QED BY <1>1, <1>2, PTL DEF Spec

----------------------------------------------------------------------------
(* One worker *)

LEMMA InitSolo == ASSUME Init PROVE IInv
<1>1. Used = {}
  BY WordsAndOffsets DEF Init, Used, IsSet
<1>2. Cardinality({}) = 0
  BY FS_EmptySet
<1> QED BY <1>1, <1>2, InitType DEF Init, IInv, CallInv, BitmapInv

(* What a step that leaves the bitmap alone leaves as it is.                  *)
LEMMA SameBits ==
    ASSUME UNCHANGED bitmap
    PROVE  Used' = Used /\ \A s \in Slots : IsSet(s)' <=> IsSet(s)
BY DEF Used, IsSet

LEMMA AllocSolo ==
    ASSUME IInv, NEW w \in Workers, Workers = {w}, AllocFull(w) \/ AllocStart(w)
    PROVE  IInv'
<1>1. TypeOK'
  BY TypeStep DEF IInv, Next
<1>2. Used' = Used /\ UNCHANGED <<bitmap, num, head, held>>
  BY SameBits DEF AllocFull, AllocStart, pool
<1>3. BitmapInv(w)'
  BY <1>2 DEF IInv, TypeOK, BitmapInv, AllocFull, AllocStart
<1>4. CASE AllocFull(w)
  BY <1>1, <1>3, <1>4 DEF IInv, CallInv, AllocFull, pool, regs, Passed, IsSet
<1>5. CASE AllocStart(w)
  <2>1. pc'[w] = "scan" /\ num' < Total /\ idx'[w] = head /\ checked'[w] = 0
    BY <1>5, PoolSizes DEF IInv, TypeOK, AllocStart, PoolFull, pool
  <2>2. Passed(0)' = head
    <3>1. head \in Slots /\ 0 \in 0 .. Total
      BY PoolSizes DEF IInv, TypeOK
    <3>2. (head + 0) % Total = head
      <4>1. head \in 0 .. Total - 1 /\ Total \in Nat \ {0}
        BY <3>1, PoolSizes DEF Slots
      <4> HIDE DEF Total
      <4> QED BY <4>1
    <3> QED BY <1>2, <3>2 DEF Passed
  <2>3. CallInv(w)'
    BY <2>1, <2>2 DEF CallInv
  <2> QED BY <1>1, <1>3, <2>3 DEF IInv
<1> QED BY <1>4, <1>5

(* The search sees only set bits where it has been.                           *)
LEMMA ScanSolo ==
    ASSUME IInv, NEW w \in Workers, Workers = {w}, Scan(w)
    PROVE  IInv'
<1> DEFINE word == bitmap[WordOf(idx[w])]
           skip == SkipFrom(idx[w], checked[w], word)
<1>1. TypeOK'
  BY TypeStep DEF IInv, Next
<1>2. Used' = Used /\ UNCHANGED <<bitmap, num, head, held, count>> /\ pc[w] = "scan"
  BY SameBits DEF Scan, pool
<1>3. pc'[w] \in {"scan", "mark"} /\ BitmapInv(w)'
  BY <1>2 DEF IInv, TypeOK, BitmapInv, Scan
<1>4. /\ idx[w] \in Slots /\ head \in Slots /\ checked[w] \in 0 .. Total - 1
      /\ idx[w] = Passed(checked[w]) /\ num < Total
      /\ \A n \in 0 .. checked[w] - 1 : IsSet(Passed(n))
      /\ checked[w] \in 0 .. Total
  BY PoolSizes DEF IInv, TypeOK, CallInv, Scan
<1>5. CASE OffsetOf(idx[w]) \notin word
  BY <1>1, <1>2, <1>3, <1>5 DEF IInv, TypeOK, CallInv, Scan, IsSet
<1>6. CASE OffsetOf(idx[w]) \in word
  <2>1. /\ pc' = pc
        /\ idx' = [idx EXCEPT ![w] = (@ + skip) % Total]
        /\ checked' = [checked EXCEPT ![w] = @ + skip]
    BY <1>6 DEF Scan
  <2>2. skip \in 1 .. Total - checked[w]
    BY <1>4, Skips
  <2>3. ASSUME NEW n \in 0 .. skip - 1
        PROVE  IsSet(Passed(checked[w] + n)) /\ Passed(checked[w] + n) = idx[w] + n
    <3>1. n < WordBits - OffsetOf(idx[w]) /\ n \in Nat
      <4>1. WordBits \in Nat \ {0} /\ OffsetOf(idx[w]) \in 0 .. WordBits - 1
        BY <1>4, PoolSizes, WordsAndOffsets DEF Offsets
      <4>2. CASE word = Offsets
        BY <1>4, <2>2, <4>1, <4>2, Skips
      <4>3. CASE word # Offsets
        BY <1>4, <4>1, <4>3, Skips
      <4> QED BY <4>2, <4>3
    <3>2. idx[w] + n \in Slots /\ WordOf(idx[w] + n) = WordOf(idx[w])
      BY <1>4, <3>1, SameWord
    <3>3. Passed(checked[w] + n) = idx[w] + n
      <4>1. Total \in Nat /\ checked[w] + n \in 0 .. Total
        BY <1>4, <2>2, PoolSizes
      <4>2. Passed(checked[w] + n) = IF head + (checked[w] + n) < Total
                                     THEN head + (checked[w] + n)
                                     ELSE head + (checked[w] + n) - Total
        BY <1>4, <4>1, Wraps DEF Passed
      <4>3. idx[w] = IF head + checked[w] < Total THEN head + checked[w]
                     ELSE head + checked[w] - Total
        BY <1>4, Wraps DEF Passed
      <4> QED BY <1>4, <2>2, <3>2, <4>1, <4>2, <4>3 DEF Slots
    <3>4. OffsetOf(idx[w] + n) \in word
      <4>1. CASE word = Offsets
        BY <3>2, <4>1, WordsAndOffsets
      <4>2. CASE word # Offsets
        <5>1. n = 0
          BY <1>4, <4>2, Skips
        <5>2. idx[w] + n = idx[w]
          BY <1>4, <5>1 DEF Slots
        <5> QED BY <1>6, <5>2
      <4> QED BY <4>1, <4>2
    <3> QED BY <3>2, <3>3, <3>4 DEF IsSet
  <2>4. idx'[w] = Passed(checked[w])'
    <3>1. (idx[w] + skip) % Total = (head + (checked[w] + skip)) % Total
      <4> HIDE DEF skip
      <4>1. skip \in 0 .. Total /\ checked[w] + skip \in 0 .. Total /\ Total \in Nat \ {0}
        BY <1>4, <2>2, PoolSizes
      <4>2. idx[w] = IF head + checked[w] < Total THEN head + checked[w]
                     ELSE head + checked[w] - Total
        BY <1>4, Wraps DEF Passed
      <4>3. (idx[w] + skip) % Total = IF idx[w] + skip < Total THEN idx[w] + skip
                                      ELSE idx[w] + skip - Total
        BY <1>4, <4>1, Wraps
      <4>4. (head + (checked[w] + skip)) % Total
              = IF head + (checked[w] + skip) < Total THEN head + (checked[w] + skip)
                ELSE head + (checked[w] + skip) - Total
        BY <1>4, <4>1, Wraps
      <4>5. skip >= 1
        BY <1>4, <2>2
      <4> QED BY <1>4, <2>2, <4>1, <4>2, <4>3, <4>4, <4>5 DEF Slots
    <3> QED BY <1>2, <2>1, <3>1 DEF IInv, TypeOK, Passed
  <2>5. \A n \in 0 .. checked'[w] - 1 : IsSet(Passed(n))'
    <3> SUFFICES ASSUME NEW n \in 0 .. (checked[w] + skip) - 1 PROVE IsSet(Passed(n))
      BY <1>2, <2>1 DEF IInv, TypeOK, IsSet, Passed
    <3>1. CASE n < checked[w]
      BY <1>4, <3>1
    <3>2. CASE n >= checked[w]
      <4>1. n - checked[w] \in 0 .. skip - 1 /\ checked[w] + (n - checked[w]) = n
        BY <1>4, <2>2, <3>2
      <4> QED BY <2>3, <4>1
    <3> QED BY <1>4, <2>2, <3>1, <3>2
  <2>6. CallInv(w)'
    BY <1>2, <1>4, <2>1, <2>4, <2>5 DEF CallInv, Passed, IsSet
  <2> QED BY <1>1, <1>3, <2>6 DEF IInv
<1> QED BY <1>5, <1>6

(* It ends before it has passed every slot.                                   *)
LEMMA ScanEnds ==
    ASSUME IInv, NEW w \in Workers, pc[w] = "scan"
    PROVE  checked[w] < Total
<1> SUFFICES ASSUME checked[w] = Total PROVE FALSE
  BY PoolSizes DEF IInv, TypeOK
<1>1. \A s \in Slots : IsSet(s)
  BY PassesAll DEF IInv, TypeOK, CallInv, Passed
<1>2. held[w] = Slots
  BY <1>1 DEF IInv, BitmapInv, Used
<1>3. num = Total
  BY <1>2, SlotsFinite DEF IInv, BitmapInv
<1> QED BY <1>3, PoolSizes DEF IInv, CallInv

LEMMA MarkSolo ==
    ASSUME IInv, NEW w \in Workers, Workers = {w}, AllocMark(w)
    PROVE  IInv'
<1> DEFINE word == bitmap[WordOf(idx[w])]
<1>1. TypeOK'
  BY TypeStep DEF IInv, Next
<1>2. /\ idx[w] \in Slots /\ word \in SUBSET Offsets /\ bits[w] = word
      /\ WordOf(idx[w]) \in Words /\ OffsetOf(idx[w]) \in Offsets
  BY WordsAndOffsets DEF IInv, TypeOK, CallInv, AllocMark
<1>3. bitmap' = [bitmap EXCEPT ![WordOf(idx[w])] = word \cup {OffsetOf(idx[w])}]
  BY <1>2 DEF AllocMark, Reload
<1>4. (\A s \in Slots \ {idx[w]} : IsSet(s)' <=> IsSet(s)) /\ IsSet(idx[w])'
  <2> HIDE DEF word
  <2> DEFINE store == word \cup {OffsetOf(idx[w])}
  <2>1. store \in SUBSET Offsets /\ OffsetOf(idx[w]) \in store
    BY <1>2
  <2>2. \A o \in Offsets \ {OffsetOf(idx[w])} : o \in store <=> o \in bitmap[WordOf(idx[w])]
    BY DEF word
  <2>3. PICK s \in Slots : s = idx[w]
    BY <1>2
  <2>4. bitmap' = [bitmap EXCEPT ![WordOf(s)] = store]
    BY <1>3, <2>3
  <2> HIDE DEF store
  <2>5. /\ \A t \in Slots \ {s} : IsSet(t)' <=> IsSet(t)
        /\ IsSet(s)' <=> OffsetOf(s) \in store
    BY <2>1, <2>2, <2>3, <2>4, BitChanges DEF IInv
  <2>6. idx' = idx
    BY DEF AllocMark
  <2> QED BY <2>1, <2>3, <2>5, <2>6
<1>5. /\ UNCHANGED <<num, head, idx, checked, held>> /\ pc[w] = "mark"
      /\ pc'[w] = "counted" /\ count'[w] = num
  BY DEF IInv, TypeOK, AllocMark
<1>6. Used' = held[w] \cup {idx[w]}
  BY <1>2, <1>4, <1>5 DEF IInv, BitmapInv, Used
<1>7. idx[w] \notin held[w]
  BY <1>2, <1>5 DEF IInv, BitmapInv, CallInv, Used
<1> QED BY <1>1, <1>5, <1>6, <1>7 DEF IInv, CallInv, BitmapInv

LEMMA ReturnSolo ==
    ASSUME IInv, NEW w \in Workers, Workers = {w}, AllocReturn(w)
    PROVE  IInv'
<1>1. TypeOK'
  BY TypeStep DEF IInv, Next
<1>2. /\ Used = held[w] \cup {idx[w]} /\ idx[w] \notin held[w] /\ num = Cardinality(held[w])
      /\ count[w] = num /\ held[w] \in SUBSET Slots
  BY DEF IInv, TypeOK, CallInv, BitmapInv, AllocReturn
<1>3. num' = num + 1 /\ held'[w] = held[w] \cup {idx[w]} /\ pc'[w] = "out" /\ Used' = Used
  BY <1>2, SameBits DEF IInv, TypeOK, AllocReturn, Reload
<1>4. Cardinality(held[w] \cup {idx[w]}) = Cardinality(held[w]) + 1
  BY <1>2, FullWhenAll, FS_AddElement
<1> QED BY <1>1, <1>2, <1>3, <1>4 DEF IInv, CallInv, BitmapInv

LEMMA FreeStartSolo ==
    ASSUME IInv, NEW w \in Workers, Workers = {w}, FreeStart(w)
    PROVE  IInv'
<1>1. TypeOK'
  BY TypeStep DEF IInv, Next
<1>2. Used' = Used /\ UNCHANGED <<bitmap, num, held>> /\ pc[w] = "out" /\ pc'[w] = "clear"
  BY SameBits DEF IInv, TypeOK, FreeStart, pool
<1>3. idx'[w] \in held[w] /\ bits'[w] = bitmap[WordOf(idx'[w])]
  BY DEF IInv, TypeOK, FreeStart
<1> QED BY <1>1, <1>2, <1>3 DEF IInv, CallInv, BitmapInv

LEMMA FreeClearSolo ==
    ASSUME IInv, NEW w \in Workers, Workers = {w}, FreeClear(w)
    PROVE  IInv'
<1> DEFINE word == bitmap[WordOf(idx[w])]
<1>1. TypeOK'
  BY TypeStep DEF IInv, Next
<1>2. /\ idx[w] \in Slots /\ word \in SUBSET Offsets /\ bits[w] = word
      /\ WordOf(idx[w]) \in Words /\ OffsetOf(idx[w]) \in Offsets
  BY WordsAndOffsets DEF IInv, TypeOK, CallInv, FreeClear
<1>3. bitmap' = [bitmap EXCEPT ![WordOf(idx[w])] = word \ {OffsetOf(idx[w])}]
  BY <1>2 DEF FreeClear, Reload
<1>4. (\A s \in Slots \ {idx[w]} : IsSet(s)' <=> IsSet(s)) /\ ~ IsSet(idx[w])'
  <2> HIDE DEF word
  <2> DEFINE store == word \ {OffsetOf(idx[w])}
  <2>1. store \in SUBSET Offsets /\ OffsetOf(idx[w]) \notin store
    BY <1>2
  <2>2. \A o \in Offsets \ {OffsetOf(idx[w])} : o \in store <=> o \in bitmap[WordOf(idx[w])]
    BY DEF word
  <2>3. PICK s \in Slots : s = idx[w]
    BY <1>2
  <2>4. bitmap' = [bitmap EXCEPT ![WordOf(s)] = store]
    BY <1>3, <2>3
  <2> HIDE DEF store
  <2>5. /\ \A t \in Slots \ {s} : IsSet(t)' <=> IsSet(t)
        /\ IsSet(s)' <=> OffsetOf(s) \in store
    BY <2>1, <2>2, <2>3, <2>4, BitChanges DEF IInv
  <2>6. idx' = idx
    BY DEF FreeClear
  <2> QED BY <2>1, <2>3, <2>5, <2>6
<1>5. /\ UNCHANGED <<num, head, idx, checked, held>> /\ pc[w] = "clear"
      /\ pc'[w] = "cleared" /\ count'[w] = num
  BY DEF IInv, TypeOK, FreeClear
<1>6. Used' = held[w] \ {idx[w]}
  BY <1>2, <1>4, <1>5 DEF IInv, BitmapInv, Used
<1>7. idx[w] \in held[w]
  BY <1>5 DEF IInv, CallInv
<1> QED BY <1>1, <1>5, <1>6, <1>7 DEF IInv, CallInv, BitmapInv

LEMMA FreeReturnSolo ==
    ASSUME IInv, NEW w \in Workers, Workers = {w}, FreeReturn(w)
    PROVE  IInv'
<1>1. TypeOK'
  BY TypeStep DEF IInv, Next
<1>2. /\ Used = held[w] \ {idx[w]} /\ idx[w] \in held[w] /\ num = Cardinality(held[w])
      /\ count[w] = num /\ held[w] \in SUBSET Slots
  BY DEF IInv, TypeOK, CallInv, BitmapInv, FreeReturn
<1>3. num' = num - 1 /\ held'[w] = held[w] \ {idx[w]} /\ pc'[w] = "out" /\ Used' = Used
  BY <1>2, SameBits DEF IInv, TypeOK, FreeReturn, Reload
<1>4. Cardinality(held[w] \ {idx[w]}) = Cardinality(held[w]) - 1
  BY <1>2, FullWhenAll, FS_RemoveElement
<1> QED BY <1>1, <1>2, <1>3, <1>4 DEF IInv, CallInv, BitmapInv

LEMMA SoloStep ==
    ASSUME NEW w, Workers = {w}, IInv, [Next]_vars
    PROVE  IInv'
<1>1. CASE UNCHANGED vars
  BY <1>1 DEF vars, pool, regs, IInv, TypeOK, CallInv, BitmapInv, Passed, Used, IsSet
<1>2. w \in Workers
  OBVIOUS
<1> QED BY <1>1, <1>2, AllocSolo, ScanSolo, MarkSolo, ReturnSolo, FreeStartSolo, FreeClearSolo,
           FreeReturnSolo DEF Next

(* With one worker the bitmap, the counter and the slots held agree, up to    *)
(* the call under way, for any number of words and any width of a word.       *)
THEOREM InductiveInvariant ==
    ASSUME \E w : Workers = {w}
    PROVE  Spec => []IInv
<1>1. Init => IInv
  BY InitSolo
<1>2. IInv /\ [Next]_vars => IInv'
  BY SoloStep
<1> QED BY <1>1, <1>2, PTL DEF Spec

(* The search finds a free slot whenever the counter says that there is one,  *)
(* however full words are skipped and wherever it wraps.                      *)
THEOREM SearchAlwaysFinds ==
    ASSUME \E w : Workers = {w}
    PROVE  Spec => []SearchFinds
<1>1. IInv => SearchFinds
  BY ScanEnds DEF SearchFinds
<1> QED BY <1>1, InductiveInvariant, PTL

(* The bit of a slot that is being freed is still set.                        *)
THEOREM FreesWhatIsInUse ==
    ASSUME \E w : Workers = {w}
    PROVE  Spec => []FreedWasInUse
<1>1. IInv => FreedWasInUse
  BY DEF IInv, CallInv, BitmapInv, FreedWasInUse, Used, IsSet
<1> QED BY <1>1, InductiveInvariant, PTL

(* Between two calls num_requests is the number of bits set.                  *)
THEOREM CounterExact ==
    ASSUME \E w : Workers = {w}
    PROVE  Spec => []CounterMatchesBitmap
<1>1. IInv => CounterMatchesBitmap
  <2> SUFFICES ASSUME IInv, \A w \in Workers : pc[w] = "out"
               PROVE  num = Cardinality({s \in Slots : IsSet(s)})
    BY DEF CounterMatchesBitmap
  <2>1. PICK w : w \in Workers
    OBVIOUS
  <2> QED BY <2>1 DEF IInv, BitmapInv, Used
<1> QED BY <1>1, InductiveInvariant, PTL

----------------------------------------------------------------------------
(* The bitmap implements the set of slots *)

LEMMA PoolStep ==
    ASSUME NEW w, Workers = {w}, IInv, [Next]_vars
    PROVE  [Promise!Next]_<<held, refused>>
<1> USE DEF Promise!Next, Promise!Taken
<1>1. w \in Workers /\ Promise!Taken = held[w]
  OBVIOUS
<1>2. CASE AllocFull(w)
  <2>1. held[w] = Slots
    BY <1>2, FullWhenAll DEF IInv, TypeOK, BitmapInv, AllocFull, PoolFull
  <2> QED BY <1>1, <1>2, <2>1 DEF Promise!Refuse, AllocFull
<1>3. CASE AllocReturn(w)
  <2>1. idx[w] \in Slots \ Promise!Taken
    BY <1>1, <1>3 DEF IInv, TypeOK, CallInv, AllocReturn
  <2> QED BY <1>1, <1>3, <2>1 DEF Promise!Allocate, AllocReturn
<1>4. CASE FreeReturn(w)
  <2>1. idx[w] \in held[w]
    BY <1>4 DEF IInv, CallInv, FreeReturn
  <2> QED BY <1>1, <1>4, <2>1 DEF Promise!Free, FreeReturn
<1>5. CASE UNCHANGED <<held, refused>>
  BY <1>5
<1> QED BY <1>2, <1>3, <1>4, <1>5
        DEF Next, AllocStart, Scan, AllocMark, FreeStart, FreeClear, vars

(* Word by word, load by load, the pool behaves like a set of slots: a slot   *)
(* has one holder, and an allocation fails exactly when every slot is held.   *)
THEOREM Refinement ==
    ASSUME \E w : Workers = {w}
    PROVE  Spec => ImplementsSlotPool
<1>1. Init => Promise!Init
  BY DEF Init, Promise!Init
<1>2. IInv /\ [Next]_vars => [Promise!Next]_<<held, refused>>
  BY PoolStep
<1> QED BY <1>1, <1>2, InductiveInvariant, PTL DEF Spec, ImplementsSlotPool, Promise!Spec

----------------------------------------------------------------------------
(***************************************************************************)
(* The queue of waiting requests                                           *)
(***************************************************************************)

Entries == [slot : Requests, weight : Nat]

SlotsOf(E) == {entry.slot : entry \in E}

(* The entries at least as heavy as v.                                        *)
Heavy(E, v) == {entry \in E : entry.weight >= v}

Decreasing(g) == \A k, l \in DOMAIN g : k < l => g[k].weight >= g[l].weight

(* A request is queued once.                                                  *)
OneEntryEach == \A k, l \in DOMAIN queue : queue[k].slot = queue[l].slot => k = l

(* Between two passes nothing is left of the last one.                        *)
IdleInv == ~ passing => i = 1 /\ start = {} /\ chosen = {}

(* Each round of the loop takes one request and moves its index past one      *)
(* entry: the index has passed as many entries as there are requests taken,   *)
(* and of any weight v as many are taken as are left, or one in each round.   *)
PassInv == passing =>
    /\ i \in 1 .. Len(queue) + 2
    /\ IsFiniteSet(chosen) /\ IsFiniteSet(SlotsOf(chosen))
    /\ Cardinality(SlotsOf(chosen)) = i - 1
    /\ start = SlotsOf(chosen) \cup Waiting /\ SlotsOf(chosen) \cap Waiting = {}
    /\ Decreasing(queue)
    /\ \A v \in Nat :
        \/ Cardinality(Heavy(chosen, v)) >= i - 1
        \/ Cardinality(Heavy(chosen, v)) >= Cardinality(Heavy(Range(queue), v))

QueueInv == QueueTypeOK /\ OneEntryEach /\ IdleInv /\ PassInv

----------------------------------------------------------------------------
(* Arrays of entries *)

(* A sorted array holds exactly the entries it was made of.                   *)
LEMMA SortedArrays ==
    ASSUME NEW E, IsFiniteSet(E), NEW g \in Sorted(E)
    PROVE  /\ Cardinality(E) \in Nat /\ g \in [1 .. Cardinality(E) -> E]
           /\ g \in Seq(E) /\ Len(g) = Cardinality(E)
           /\ IsInjective(g) /\ Range(g) = E /\ Decreasing(g)
<1>1. Cardinality(E) \in Nat
  BY FS_CardinalityType
<1>2. g \in [1 .. Cardinality(E) -> E] /\ IsInjective(g) /\ Decreasing(g)
  BY DEF Sorted, Decreasing
<1>3. PICK n \in Nat : n = Cardinality(E)
  BY <1>1
<1>4. g \in Seq(E) /\ Len(g) = n
  BY <1>2, <1>3
<1>5. Range(g) = E
  <2>1. IsFiniteSet(1 .. n) /\ Cardinality(1 .. n) = n
    BY FS_Interval
  <2>2. g \in Injection(1 .. n, E)
    BY <1>2, <1>3 DEF Injection, IsInjective
  <2>3. g \in Surjection(1 .. n, E)
    BY <1>3, <2>1, <2>2, FS_Injection
  <2> QED BY <1>2, <1>3, <2>3 DEF Surjection, Range
<1> QED BY <1>1, <1>2, <1>3, <1>4, <1>5

(* In a decreasing array, at least k entries are as heavy as the k-th, and    *)
(* only those before the k-th may be heavier.                                 *)
LEMMA HeavyPrefix ==
    ASSUME NEW n \in Nat, NEW g \in [1 .. n -> Entries], IsInjective(g), Decreasing(g),
           NEW k \in 1 .. n
    PROVE  /\ Cardinality(Heavy(Range(g), g[k].weight)) >= k
           /\ \A v \in Nat : g[k].weight < v => Cardinality(Heavy(Range(g), v)) <= k - 1
<1>1. \A j \in 1 .. n : g[j].weight \in Nat
  BY DEF Entries
<1>2. \A a, b \in 1 .. n : a < b => g[a].weight >= g[b].weight
  BY DEF Decreasing
<1>3. IsFiniteSet(Range(g)) /\ \A v : Heavy(Range(g), v) \in SUBSET Range(g)
  <2>1. Range(g) = {g[j] : j \in 1 .. n}
    BY DEF Range
  <2> QED BY <2>1, ArrayItems DEF Heavy
<1>4. \A v : IsFiniteSet(Heavy(Range(g), v)) /\ Cardinality(Heavy(Range(g), v)) \in Nat
  BY <1>3, FS_Subset, FS_CardinalityType
<1>5. Cardinality(Heavy(Range(g), g[k].weight)) >= k
  <2> DEFINE h == [j \in 1 .. k |-> g[j]]
             T == {h[j] : j \in 1 .. k}
  <2>1. h \in [1 .. k -> Entries] /\ IsInjective(h) /\ k \in Nat
    BY DEF IsInjective
  <2>2. IsFiniteSet(T) /\ Cardinality(T) = k
    <3> HIDE DEF h
    <3> QED BY <2>1, ArrayItems
  <2>3. T \in SUBSET Heavy(Range(g), g[k].weight)
    <3> SUFFICES ASSUME NEW j \in 1 .. k PROVE g[j] \in Heavy(Range(g), g[k].weight)
      OBVIOUS
    <3>1. g[j].weight >= g[k].weight
      BY <1>1, <1>2
    <3> QED BY <3>1 DEF Heavy, Range
  <2> HIDE DEF T
  <2>4. Cardinality(T) <= Cardinality(Heavy(Range(g), g[k].weight))
    BY <1>4, <2>3, FS_Subset
  <2> QED BY <1>4, <2>2, <2>4
<1>6. ASSUME NEW v \in Nat, g[k].weight < v
      PROVE  Cardinality(Heavy(Range(g), v)) <= k - 1
  <2> DEFINE h == [j \in 1 .. k - 1 |-> g[j]]
             T == {h[j] : j \in 1 .. k - 1}
  <2>1. h \in [1 .. k - 1 -> Entries] /\ IsInjective(h) /\ k - 1 \in Nat
    BY DEF IsInjective
  <2>2. IsFiniteSet(T) /\ Cardinality(T) = k - 1
    <3> HIDE DEF h
    <3> QED BY <2>1, ArrayItems
  <2>3. Heavy(Range(g), v) \in SUBSET T
    <3> SUFFICES ASSUME NEW j \in 1 .. n, g[j].weight >= v PROVE g[j] \in T
      BY DEF Heavy, Range
    <3>1. j < k
      <4>1. CASE j = k
        BY <1>1, <1>6, <4>1
      <4>2. CASE j > k
        BY <1>1, <1>2, <1>6, <4>2
      <4> QED BY <4>1, <4>2
    <3> QED BY <3>1
  <2> HIDE DEF T
  <2> QED BY <2>2, <2>3, FS_Subset
<1> QED BY <1>5, <1>6

(* The queue is an array of different entries, one for each request in it.    *)
LEMMA QueueEntries ==
    ASSUME QueueTypeOK, OneEntryEach
    PROVE  /\ Len(queue) \in Nat /\ queue \in [1 .. Len(queue) -> Entries]
           /\ DOMAIN queue = 1 .. Len(queue) /\ IsInjective(queue)
           /\ IsFiniteSet(Range(queue)) /\ Cardinality(Range(queue)) = Len(queue)
           /\ Range(queue) \subseteq Entries /\ Waiting = SlotsOf(Range(queue))
           /\ Waiting \subseteq Requests
           /\ IsFiniteSet(Waiting) /\ Cardinality(Waiting) = Len(queue)
           /\ \A e, f \in Range(queue) : e.slot = f.slot => e = f
<1>1. Len(queue) \in Nat /\ queue \in [1 .. Len(queue) -> Entries] /\ DOMAIN queue = 1 .. Len(queue)
  BY LenProperties DEF QueueTypeOK, Entries
<1>2. PICK n \in Nat, q \in Seq(Entries) :
          n = Len(queue) /\ q = queue /\ q \in [1 .. n -> Entries]
  BY <1>1 DEF QueueTypeOK, Entries
<1>3. /\ \A k, l \in 1 .. n : q[k].slot = q[l].slot => k = l
      /\ \A k \in 1 .. n : q[k].slot \in Requests
  BY <1>1, <1>2 DEF OneEntryEach, Entries
<1>4. IsInjective(q) /\ \A e, f \in Range(q) : e.slot = f.slot => e = f
  BY <1>2, <1>3 DEF IsInjective, Range
<1>5. Range(q) = {q[k] : k \in 1 .. n} /\ Range(q) \subseteq Entries
  BY <1>2 DEF Range
<1>6. IsFiniteSet(Range(q)) /\ Cardinality(Range(q)) = n
  <2>1. n \in Nat /\ q \in [1 .. n -> Entries] /\ IsInjective(q)
    BY <1>2, <1>4
  <2>2. IsFiniteSet({q[k] : k \in 1 .. n}) /\ Cardinality({q[k] : k \in 1 .. n}) = n
    BY ONLY <2>1, ArrayItems
  <2> QED BY <1>5, <2>2
<1>7. Waiting = SlotsOf(Range(q)) /\ Waiting = {q[k].slot : k \in 1 .. n}
  BY <1>1, <1>2, <1>5 DEF Waiting, SlotsOf
<1>8. IsFiniteSet(Waiting) /\ Cardinality(Waiting) = n /\ Waiting \subseteq Requests
  <2> DEFINE h == [k \in 1 .. n |-> q[k].slot]
  <2>1. h \in [1 .. n -> Requests] /\ IsInjective(h)
    BY <1>2, <1>3 DEF IsInjective
  <2>2. Waiting = {h[k] : k \in 1 .. n}
    BY <1>7
  <2>3. \A k \in 1 .. n : h[k] \in Requests
    BY <2>1
  <2> HIDE DEF h
  <2> QED BY <2>1, <2>2, <2>3, ArrayItems
<1> QED BY <1>1, <1>2, <1>4, <1>5, <1>6, <1>7, <1>8

(* What sorting a set of entries leaves in the queue.                         *)
LEMMA SortedQueue ==
    ASSUME NEW E \in SUBSET Entries, IsFiniteSet(E), queue' \in Sorted(E),
           \A e, f \in E : e.slot = f.slot => e = f
    PROVE  /\ queue' \in Seq(Entries) /\ OneEntryEach' /\ Decreasing(queue')
           /\ Len(queue') = Cardinality(E) /\ Cardinality(E) \in Nat
           /\ Range(queue') = E /\ Waiting' = SlotsOf(E)
<1>1. PICK g \in Sorted(E) : g = queue'
  OBVIOUS
<1>2. PICK n \in Nat : n = Cardinality(E)
  BY FS_CardinalityType
<1>3. /\ g \in [1 .. n -> E] /\ g \in Seq(E) /\ Len(g) = n
      /\ IsInjective(g) /\ Range(g) = E /\ Decreasing(g)
  BY <1>2, SortedArrays
<1>4. g \in Seq(Entries)
  BY <1>3
<1>5. \A k, l \in DOMAIN g : g[k].slot = g[l].slot => k = l
  <2>1. \A k \in DOMAIN g : g[k] \in E
    BY <1>3
  <2> QED BY <1>3, <2>1 DEF IsInjective
<1>6. {g[k].slot : k \in DOMAIN g} = SlotsOf(E)
  <2>1. E = {g[k] : k \in DOMAIN g}
    BY <1>3 DEF Range
  <2> QED BY <2>1 DEF SlotsOf
<1> QED BY <1>1, <1>2, <1>3, <1>4, <1>5, <1>6 DEF OneEntryEach, Waiting

----------------------------------------------------------------------------
(* Steps *)

(* The greatest of the numbers of the waiting requests.                       *)
LEMMA LargestNumber ==
    ASSUME NEW f \in [Requests -> Nat], IsFiniteSet(Waiting), Waiting # {}, Waiting \subseteq Requests
    PROVE  Largest(f) \in Nat /\ \A s \in Waiting : f[s] <= Largest(f)
<1> DEFINE S == {f[s] : s \in Waiting}
<1>1. S \in SUBSET Nat /\ S # {}
  OBVIOUS
<1>2. IsFiniteSet(S)
  <2> DEFINE h == [s \in Waiting |-> f[s]]
  <2>1. h \in Surjection(Waiting, S)
    BY DEF Surjection
  <2> HIDE DEF h, S
  <2> QED BY <2>1, FS_Surjection
<1>3. \E m \in S : \A x \in S : x <= m
  <2> HIDE DEF S
  <2>1. Max(S) \in S /\ \A x \in S : x <= Max(S)
    BY <1>1, <1>2, FiniteMax
  <2> QED BY <2>1
<1>4. \E m \in S : \A s \in Waiting : f[s] <= m
  BY <1>3
<1> QED BY <1>1, <1>4 DEF Largest

(* A weight is a natural number: nothing waits longer than the oldest, and no *)
(* prompt is longer than the longest.                                         *)
LEMMA WeightType ==
    ASSUME QueueTypeOK, OneEntryEach, NEW s \in Waiting PROVE Weight(s) \in Nat
<1>1. IsFiniteSet(Waiting) /\ Waiting \subseteq Requests
  BY QueueEntries
<1>2. tokens \in [Requests -> Nat] /\ age \in [Requests -> Nat]
  <2>1. \A n \in Sizes : n \in Nat
    BY QueueAssumption
  <2>2. \A n \in 0 .. MaxAge : n \in Nat
    BY QueueAssumption
  <2>3. \A r \in Requests : tokens[r] \in Sizes /\ age[r] \in 0 .. MaxAge
    BY DEF QueueTypeOK
  <2> QED BY <2>1, <2>2, <2>3 DEF QueueTypeOK
<1>3. /\ Largest(tokens) \in Nat /\ Largest(age) \in Nat
      /\ tokens[s] \in Nat /\ age[s] \in Nat /\ tokens[s] <= Largest(tokens)
  BY <1>1, <1>2, LargestNumber
<1>4. PICK max \in Nat : max = Largest(tokens)
  BY <1>3
<1>5. PICK oldest \in Nat : oldest = IF Largest(age) < MinWait THEN MinWait ELSE Largest(age)
  BY <1>3, QueueAssumption
<1>6. max - tokens[s] \in Nat
  BY <1>3, <1>4
<1>7. (max - tokens[s]) * oldest \in Nat /\ age[s] * max \in Nat
  <2>1. \A a, b \in Nat : a * b \in Nat
    OBVIOUS
  <2> QED BY <1>3, <1>6, <2>1
<1>8. 8 * (max - tokens[s]) * oldest \in Nat /\ 2 * age[s] * max \in Nat
  <2>1. \A a, b \in Nat : a * b \in Nat
    OBVIOUS
  <2>2. 8 * (max - tokens[s]) \in Nat /\ 2 * age[s] \in Nat
    BY <1>3, <1>6
  <2> QED BY <2>1, <2>2
<1>9. Weight(s) = 8 * (max - tokens[s]) * oldest + 2 * age[s] * max
  BY <1>4, <1>5 DEF Weight
<1> QED BY <1>8, <1>9

LEMMA ArriveStep ==
    ASSUME QueueInv, NEW s \in Requests, Arrive(s) PROVE QueueInv'
<1>0. Entry(s, 0) \in Entries
  BY DEF Entry, Entries
<1>1. PICK n \in Nat, q \in Seq(Entries), x \in Entries :
          n = Len(queue) /\ q = queue /\ x = Entry(s, 0) /\ DOMAIN q = 1 .. n
  BY <1>0, LenProperties DEF QueueInv, QueueTypeOK, Entries
<1>2. /\ queue' \in Seq(Entries) /\ DOMAIN queue' = 1 .. n + 1
      /\ \A k \in 1 .. n : queue'[k] = queue[k] /\ queue'[n + 1] = x
      /\ queue'[n + 1] = x
  BY <1>1, AppendProperties, LenProperties DEF Arrive
<1>3. OneEntryEach'
  <2>1. x.slot = s /\ \A k \in 1 .. n : queue[k].slot # s
    BY <1>1 DEF Arrive, Waiting, Entry
  <2>2. \A k, l \in 1 .. n : queue[k].slot = queue[l].slot => k = l
    BY <1>1 DEF QueueInv, OneEntryEach
  <2> QED BY <1>2, <2>1, <2>2 DEF OneEntryEach
<1>4. QueueTypeOK'
  <2>1. tokens' \in [Requests -> Sizes] /\ age' \in [Requests -> 0 .. MaxAge]
    <3>1. PICK m \in Sizes : tokens' = [tokens EXCEPT ![s] = m]
      BY DEF Arrive
    <3>2. age' = [age EXCEPT ![s] = 0] /\ 0 \in 0 .. MaxAge
      BY QueueAssumption DEF Arrive
    <3> QED BY <3>1, <3>2 DEF QueueInv, QueueTypeOK
  <2> QED BY <1>2, <2>1 DEF Arrive, QueueInv, QueueTypeOK, Entries
<1>5. IdleInv' /\ PassInv'
  BY DEF Arrive, QueueInv, IdleInv, PassInv
<1> QED BY <1>3, <1>4, <1>5 DEF QueueInv

LEMMA LeaveStep ==
    ASSUME QueueInv, NEW s \in Requests, Leave(s) PROVE QueueInv'
<1> DEFINE E == {entry \in Range(queue) : entry.slot # s}
<1>1. /\ IsFiniteSet(Range(queue)) /\ Range(queue) \subseteq Entries
      /\ \A e, f \in Range(queue) : e.slot = f.slot => e = f
  BY QueueEntries DEF QueueInv
<1>2. E \in SUBSET Entries /\ IsFiniteSet(E) /\ \A e, f \in E : e.slot = f.slot => e = f
  BY <1>1, FS_Subset
<1>3. queue' \in Sorted(E)
  BY DEF Leave, Without
<1> HIDE DEF E
<1>4. queue' \in Seq(Entries) /\ OneEntryEach'
  BY <1>2, <1>3, SortedQueue
<1>5. QueueTypeOK' /\ IdleInv' /\ PassInv'
  BY <1>4 DEF Leave, QueueInv, QueueTypeOK, IdleInv, PassInv, Entries
<1> QED BY <1>4, <1>5 DEF QueueInv

LEMMA PassBeginStep == ASSUME QueueInv, PassBegin PROVE QueueInv'
<1> DEFINE E == Weighed(queue)
<1>1. /\ IsFiniteSet(Range(queue)) /\ Range(queue) \subseteq Entries
      /\ \A e, f \in Range(queue) : e.slot = f.slot => e = f
      /\ Waiting = SlotsOf(Range(queue))
  BY QueueEntries DEF QueueInv
<1>2. \A e \in Range(queue) : e.slot \in Requests /\ Weight(e.slot) \in Nat
  BY <1>1, WeightType DEF QueueInv, SlotsOf, Entries
<1>3. E \in SUBSET Entries /\ \A e, f \in E : e.slot = f.slot => e = f
  BY <1>2 DEF Weighed, Entry, Entries
<1>4. IsFiniteSet(E)
  <2> DEFINE h == [e \in Range(queue) |-> Entry(e.slot, Weight(e.slot))]
  <2>1. h \in Surjection(Range(queue), E)
    BY DEF Surjection, Weighed
  <2> HIDE DEF h, E
  <2> QED BY <1>1, <2>1, FS_Surjection
<1>5. SlotsOf(E) = Waiting
  <2>1. \A e : Entry(e.slot, Weight(e.slot)).slot = e.slot
    BY DEF Entry
  <2> QED BY <1>1, <2>1 DEF SlotsOf, Weighed
<1>6. queue' \in Sorted(E)
  BY DEF PassBegin
<1> HIDE DEF E
<1>7. /\ queue' \in Seq(Entries) /\ OneEntryEach' /\ Decreasing(queue')
      /\ Len(queue') \in Nat /\ Waiting' = Waiting
  BY <1>3, <1>4, <1>5, <1>6, SortedQueue
<1>8. /\ passing' = TRUE /\ start' = Waiting /\ i' = 1 /\ chosen' = {}
      /\ UNCHANGED <<tokens, age>>
  BY DEF PassBegin, QueueInv, IdleInv
<1>9. QueueTypeOK'
  <2>1. Waiting \subseteq Requests
    BY QueueEntries DEF QueueInv
  <2> QED BY <1>7, <1>8, <2>1 DEF QueueInv, QueueTypeOK, Entries
<1>10. PassInv'
  <2>1. SlotsOf({}) = {} /\ \A v : Heavy({}, v) = {}
    BY DEF SlotsOf, Heavy
  <2>2. IsFiniteSet({}) /\ Cardinality({}) = 0
    BY FS_EmptySet
  <2>3. i' \in 1 .. Len(queue') + 2 /\ i' - 1 = 0
    BY <1>7, <1>8
  <2>4. \A v \in Nat : Cardinality(Heavy(chosen', v)) >= i' - 1
    BY <1>8, <2>1, <2>2
  <2>5. start' = SlotsOf(chosen') \cup Waiting' /\ SlotsOf(chosen') \cap Waiting' = {}
    BY <1>7, <1>8, <2>1
  <2>6. IsFiniteSet(chosen') /\ IsFiniteSet(SlotsOf(chosen')) /\ Cardinality(SlotsOf(chosen')) = i' - 1
    BY <1>8, <2>1, <2>2, <2>3
  <2> QED BY <1>7, <2>3, <2>4, <2>5, <2>6 DEF PassInv
<1>11. IdleInv'
  BY <1>8 DEF IdleInv
<1> QED BY <1>7, <1>9, <1>10, <1>11 DEF QueueInv

LEMMA PassVisitStep == ASSUME QueueInv, PassVisit PROVE QueueInv'
<1>q. /\ Len(queue) \in Nat /\ queue \in [1 .. Len(queue) -> Entries]
      /\ IsInjective(queue) /\ DOMAIN queue = 1 .. Len(queue)
      /\ IsFiniteSet(Range(queue)) /\ Cardinality(Range(queue)) = Len(queue)
      /\ Range(queue) \subseteq Entries /\ Waiting = SlotsOf(Range(queue))
      /\ \A e, f \in Range(queue) : e.slot = f.slot => e = f
  BY QueueEntries DEF QueueInv
<1>p. /\ i \in 1 .. Len(queue)
      /\ IsFiniteSet(chosen) /\ IsFiniteSet(SlotsOf(chosen))
      /\ Cardinality(SlotsOf(chosen)) = i - 1
      /\ start = SlotsOf(chosen) \cup Waiting /\ SlotsOf(chosen) \cap Waiting = {}
      /\ Decreasing(queue) /\ chosen \subseteq Entries
      /\ \A v \in Nat :
          \/ Cardinality(Heavy(chosen, v)) >= i - 1
          \/ Cardinality(Heavy(chosen, v)) >= Cardinality(Heavy(Range(queue), v))
  BY <1>q DEF PassVisit, QueueInv, PassInv, QueueTypeOK, Entries
<1>1. PICK n \in Nat, q \in Seq(Entries), c \in Range(queue) :
          q \in [1 .. n -> Entries] /\ n = Len(queue) /\ q = queue /\ c = queue[i]
  BY <1>q, <1>p DEF Range, QueueInv, QueueTypeOK, Entries
<1> DEFINE E == Range(queue) \ {c}
<1>2. /\ chosen' = chosen \cup {c} /\ i' = i + 1 /\ passing' = TRUE
      /\ start' = start /\ UNCHANGED <<tokens, age>>
  BY <1>1 DEF PassVisit
<1>3. queue' \in Sorted(E)
  <2>1. {entry \in Range(queue) : entry.slot # c.slot} = E
    BY <1>q
  <2> QED BY <1>1, <2>1 DEF PassVisit, Without
<1>4. /\ E \in SUBSET Entries /\ IsFiniteSet(E) /\ Cardinality(E) = n - 1
      /\ \A e, f \in E : e.slot = f.slot => e = f
  BY <1>q, <1>1, FS_RemoveElement
<1>5. SlotsOf(E) = Waiting \ {c.slot} /\ c.slot \in Waiting
  BY <1>q DEF SlotsOf
<1>e. Range(queue) = E \cup {c} /\ c \notin E
  OBVIOUS
<1>6. /\ queue' \in Seq(Entries) /\ OneEntryEach' /\ Decreasing(queue')
      /\ Len(queue') = n - 1 /\ Range(queue') = E /\ Waiting' = Waiting \ {c.slot}
  <2> HIDE DEF E
  <2> QED BY <1>3, <1>4, <1>5, SortedQueue
<1>7. SlotsOf(chosen') = SlotsOf(chosen) \cup {c.slot} /\ c \notin chosen
  BY <1>p, <1>2, <1>5 DEF SlotsOf
<1>8. /\ IsFiniteSet(chosen') /\ IsFiniteSet(SlotsOf(chosen'))
      /\ Cardinality(SlotsOf(chosen')) = i
  <2>1. c.slot \notin SlotsOf(chosen)
    BY <1>p, <1>5
  <2>2. IsFiniteSet(chosen')
    BY <1>p, <1>2, FS_AddElement
  <2>3. PICK S : S = SlotsOf(chosen) /\ IsFiniteSet(S) /\ Cardinality(S) = i - 1 /\ c.slot \notin S
    BY <1>p, <2>1
  <2>4. IsFiniteSet(S \cup {c.slot}) /\ Cardinality(S \cup {c.slot}) = i - 1 + 1
    BY <2>3, FS_AddElement
  <2>5. i - 1 + 1 = i
    BY <1>p
  <2> QED BY <1>7, <2>2, <2>3, <2>4, <2>5
<1>9. ASSUME NEW v \in Nat
      PROVE  \/ Cardinality(Heavy(chosen', v)) >= i
             \/ Cardinality(Heavy(chosen', v)) >= Cardinality(Heavy(E, v))
  <2>1. /\ IsFiniteSet(Heavy(chosen, v)) /\ Cardinality(Heavy(chosen, v)) \in Nat
        /\ IsFiniteSet(Heavy(Range(queue), v)) /\ Cardinality(Heavy(Range(queue), v)) \in Nat
    <3>1. Heavy(chosen, v) \in SUBSET chosen /\ Heavy(Range(queue), v) \in SUBSET Range(queue)
      BY DEF Heavy
    <3> QED BY <1>q, <1>p, <3>1, FS_Subset, FS_CardinalityType
  <2>2. CASE c.weight >= v
    <3>1. /\ Heavy(chosen', v) = Heavy(chosen, v) \cup {c} /\ c \notin Heavy(chosen, v)
          /\ Heavy(E, v) = Heavy(Range(queue), v) \ {c} /\ c \in Heavy(Range(queue), v)
      BY <1>2, <1>7, <2>2 DEF Heavy
    <3>2. /\ Cardinality(Heavy(chosen', v)) = Cardinality(Heavy(chosen, v)) + 1
          /\ Cardinality(Heavy(E, v)) = Cardinality(Heavy(Range(queue), v)) - 1
      <4> HIDE DEF E
      <4>1. PICK A, B : A = Heavy(chosen, v) /\ B = Heavy(Range(queue), v)
        OBVIOUS
      <4>2. Cardinality(A \cup {c}) = Cardinality(A) + 1
        BY <2>1, <3>1, <4>1, FS_AddElement
      <4>3. Cardinality(B \ {c}) = Cardinality(B) - 1
        BY <2>1, <3>1, <4>1, FS_RemoveElement
      <4> QED BY <3>1, <4>1, <4>2, <4>3
    <3> QED BY <1>p, <2>1, <3>2
  <2>3. CASE ~ (c.weight >= v)
    <3>1. Heavy(chosen', v) = Heavy(chosen, v) /\ Heavy(E, v) = Heavy(Range(queue), v)
      BY <1>2, <2>3 DEF Heavy
    <3>2. Cardinality(Heavy(Range(queue), v)) <= i - 1
      <4>1. q[i].weight < v
        <5>1. c.weight \in Nat
          BY <1>q DEF Entries
        <5> QED BY <1>1, <2>3, <5>1
      <4> QED BY <1>q, <1>p, <1>1, <4>1, HeavyPrefix
    <3> QED BY <1>p, <2>1, <3>1, <3>2
  <2> QED BY <2>2, <2>3
<1>10. QueueTypeOK'
  <2>1. c \in Entries /\ i + 1 \in Nat
    BY <1>q, <1>p
  <2> QED BY <1>2, <1>6, <2>1 DEF QueueInv, QueueTypeOK, Entries
<1>11. PassInv'
  <2>1. i' \in 1 .. Len(queue') + 2
    BY <1>p, <1>1, <1>2, <1>6
  <2>2. start' = SlotsOf(chosen') \cup Waiting' /\ SlotsOf(chosen') \cap Waiting' = {}
    BY <1>p, <1>2, <1>5, <1>6, <1>7
  <2>3. i' - 1 = i
    BY <1>p, <1>2
  <2> HIDE DEF E
  <2> QED BY <1>2, <1>6, <1>8, <1>9, <2>1, <2>2, <2>3 DEF PassInv
<1>12. IdleInv'
  BY <1>2 DEF IdleInv
<1> QED BY <1>6, <1>10, <1>11, <1>12 DEF QueueInv

LEMMA PassEndStep == ASSUME QueueInv, PassEnd PROVE QueueInv'
<1>1. QueueTypeOK'
  <2>1. age' \in [Requests -> 0 .. MaxAge]
    BY QueueAssumption DEF PassEnd, QueueInv, QueueTypeOK
  <2> QED BY <2>1 DEF PassEnd, QueueInv, QueueTypeOK
<1> QED BY <1>1 DEF PassEnd, QueueInv, OneEntryEach, IdleInv, PassInv

LEMMA QueueInitially == QueueInit => QueueInv
<1> SUFFICES ASSUME QueueInit PROVE QueueInv
  OBVIOUS
<1>1. queue = <<>> /\ queue \in Seq(Entries)
  BY DEF QueueInit
<1>2. tokens \in [Requests -> Sizes]
  BY QueueAssumption DEF QueueInit
<1>3. QueueTypeOK
  <2>1. age \in [Requests -> 0 .. MaxAge]
    BY QueueAssumption DEF QueueInit
  <2> QED BY <1>1, <1>2, <2>1 DEF QueueInit, QueueTypeOK, Entries
<1> QED BY <1>1, <1>3 DEF QueueInit, QueueInv, OneEntryEach, IdleInv, PassInv

LEMMA QueueStep == QueueInv /\ [QueueNext]_queueVars => QueueInv'
<1> SUFFICES ASSUME QueueInv, [QueueNext]_queueVars PROVE QueueInv'
  OBVIOUS
<1>1. CASE UNCHANGED queueVars
  BY <1>1 DEF queueVars, QueueInv, QueueTypeOK, OneEntryEach, IdleInv, PassInv, Waiting
<1>2. CASE Pass
  BY <1>2, PassBeginStep, PassVisitStep, PassEndStep DEF Pass
<1>3. ASSUME NEW s \in Requests, Arrive(s) \/ Leave(s) PROVE QueueInv'
  BY <1>3, ArriveStep, LeaveStep
<1> QED BY <1>1, <1>2, <1>3 DEF QueueNext

----------------------------------------------------------------------------
(* Theorems *)

(* The array holds each waiting request once, and what a pass has taken, left *)
(* and still to visit makes up what waited when it began.                     *)
THEOREM QueueInvariant == QueueSpec => []QueueInv
BY QueueInitially, QueueStep, PTL DEF QueueSpec

(* The loop index, the weights and the slots in the array keep their types.   *)
THEOREM QueueTypes == QueueSpec => []QueueTypeOK
<1>1. QueueInv => QueueTypeOK
  BY DEF QueueInv
<1> QED BY <1>1, QueueInvariant, PTL

(* A pass, which shortens the array it walks, assigns half of what waits,     *)
(* rounded up, and nobody twice.                                              *)
THEOREM TakesHalf == QueueSpec => []PassTakesHalf
<1>1. QueueInv => PassTakesHalf
  <2> SUFFICES ASSUME QueueInv PROVE PassTakesHalf
    OBVIOUS
  <2>1. /\ Cardinality(Waiting) = Len(queue) /\ Len(queue) \in Nat /\ IsFiniteSet(Waiting)
    BY QueueEntries DEF QueueInv
  <2>2. {c.slot : c \in chosen} = SlotsOf(chosen)
    BY DEF SlotsOf
  <2>3. ASSUME passing
        PROVE  start = SlotsOf(chosen) \cup Waiting /\ SlotsOf(chosen) \cap Waiting = {}
    BY <2>3 DEF QueueInv, PassInv
  <2>4. ASSUME passing, i > Len(queue)
        PROVE  2 * Cardinality(SlotsOf(chosen)) \in {Cardinality(start), Cardinality(start) + 1}
    <3>1. /\ i \in {Len(queue) + 1, Len(queue) + 2} /\ Cardinality(SlotsOf(chosen)) = i - 1
          /\ IsFiniteSet(SlotsOf(chosen))
      BY <2>1, <2>4 DEF QueueInv, PassInv
    <3>2. Cardinality(start) = Cardinality(SlotsOf(chosen)) + Len(queue)
      <4>1. SlotsOf(chosen) \cap Waiting = {} /\ start = SlotsOf(chosen) \cup Waiting
        BY <2>3, <2>4
      <4>2. Cardinality(start) = Cardinality(SlotsOf(chosen)) + Cardinality(Waiting)
                                 - Cardinality(SlotsOf(chosen) \cap Waiting)
        <5>1. PICK S, W : S = SlotsOf(chosen) /\ W = Waiting
          OBVIOUS
        <5>2. Cardinality(S \cup W) = Cardinality(S) + Cardinality(W) - Cardinality(S \cap W)
          BY <2>1, <3>1, <5>1, FS_Union
        <5> QED BY <4>1, <5>1, <5>2
      <4>3. Cardinality(SlotsOf(chosen)) \in Nat /\ Cardinality(SlotsOf(chosen) \cap Waiting) = 0
        BY <3>1, <4>1, FS_EmptySet, FS_CardinalityType
      <4> QED BY <2>1, <4>2, <4>3
    <3> QED BY <2>1, <3>1, <3>2
  <2> QED BY <2>1, <2>2, <2>3, <2>4 DEF PassTakesHalf
<1> QED BY <1>1, QueueInvariant, PTL

(* The k-th request that a pass leaves behind has seen at least k requests    *)
(* assigned in it that are no lighter than itself.                            *)
THEOREM OvertakenOnlyByHeavier == QueueSpec => []OvertakenByHeavier
<1>1. QueueInv => OvertakenByHeavier
  <2> SUFFICES ASSUME QueueInv, passing, i > Len(queue), NEW k \in DOMAIN queue
               PROVE  Cardinality({c \in chosen : c.weight >= queue[k].weight}) >= k
    BY DEF OvertakenByHeavier
  <2>1. PICK n \in Nat, q \in Seq(Entries) :
            q \in [1 .. n -> Entries] /\ n = Len(queue) /\ q = queue /\ DOMAIN queue = 1 .. n /\ IsInjective(q)
    BY QueueEntries DEF QueueInv, QueueTypeOK, Entries
  <2>2. k \in 1 .. n /\ Decreasing(q) /\ q[k].weight \in Nat
    BY <2>1 DEF QueueInv, PassInv, Entries
  <2>3. Cardinality(Heavy(Range(q), q[k].weight)) >= k
    BY <2>1, <2>2, HeavyPrefix
  <2>4. i \in Nat /\ i - 1 >= n /\ IsFiniteSet(chosen) /\ IsFiniteSet(Range(q))
    BY <2>1, QueueEntries DEF QueueInv, PassInv, QueueTypeOK
  <2>5. /\ Cardinality(Heavy(chosen, q[k].weight)) \in Nat
        /\ Cardinality(Heavy(Range(q), q[k].weight)) \in Nat
    <3>1. \A E, v : Heavy(E, v) \in SUBSET E
      BY DEF Heavy
    <3> QED BY <2>4, <3>1, FS_Subset, FS_CardinalityType
  <2>6. \/ Cardinality(Heavy(chosen, q[k].weight)) >= i - 1
        \/ Cardinality(Heavy(chosen, q[k].weight)) >= Cardinality(Heavy(Range(q), q[k].weight))
    BY <2>1, <2>2 DEF QueueInv, PassInv
  <2>7. Cardinality(Heavy(chosen, q[k].weight)) >= k
    BY <2>2, <2>3, <2>4, <2>5, <2>6
  <2> QED BY <2>1, <2>7 DEF Heavy
<1> QED BY <1>1, QueueInvariant, PTL
=============================================================================
