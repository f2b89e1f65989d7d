--------------------------- MODULE KVTransferProofs ---------------------------
(* What KVTransfer guarantees for any set of requests, any clusters of P and  *)
(* any setups of D; where a theorem needs more of the setups, it says so.     *)
EXTENDS KVTransfer, DataFacts, FiniteSetTheorems

----------------------------------------------------------------------------
(* Lemmas about the ordered dicts of P *)

(* Without keeps, in their order, the items that are not taken out.           *)
LEMMA WithoutItems ==
    ASSUME NEW S, NEW s \in Seq(S), NEW D
    PROVE  /\ Without(s, D) \in Seq(S)
           /\ \A n \in DOMAIN Without(s, D) :
                 \E i \in DOMAIN s : Without(s, D)[n] = s[i] /\ s[i] \notin D
           /\ \A m, n \in DOMAIN Without(s, D) : m < n =>
                 \E i, j \in DOMAIN s : /\ i < j
                                        /\ Without(s, D)[m] = s[i]
                                        /\ Without(s, D)[n] = s[j]
<1> DEFINE kept    == {i \in DOMAIN s : s[i] \notin D}
           upTo(i) == {j \in kept : j <= i}
           count   == [i \in kept |-> Cardinality(upTo(i))]
           K       == Cardinality(kept)
           nth(n)  == CHOOSE i \in kept : Cardinality(upTo(i)) = n
<1>1. DOMAIN s = 1..Len(s) /\ Len(s) \in Nat /\ \A i \in DOMAIN s : s[i] \in S
  BY LenProperties, ElementOfSeq
<1>2. kept \subseteq 1..Len(s)
  BY <1>1
<1>3. IsFiniteSet(kept) /\ K \in Nat
  <2>1. IsFiniteSet(1..Len(s))
    BY <1>1, FS_Interval
  <2> HIDE DEF kept
  <2>2. IsFiniteSet(kept)
    BY <1>2, <2>1, FS_Subset
  <2> QED
    BY <2>2, FS_CardinalityType
<1>4. Without(s, D) = [n \in 1..K |-> s[nth(n)]]
  BY DEF Without
<1> HIDE DEF kept, K
<1>5. \A i \in kept : /\ IsFiniteSet(upTo(i)) /\ upTo(i) \in SUBSET kept
                      /\ Cardinality(upTo(i)) \in 1..K
  <2> SUFFICES ASSUME NEW i \in kept
               PROVE  /\ IsFiniteSet(upTo(i)) /\ upTo(i) \in SUBSET kept
                      /\ Cardinality(upTo(i)) \in 1..K
    OBVIOUS
  <2>1. upTo(i) \in SUBSET kept /\ i \in upTo(i)
    BY <1>1, <1>2
  <2> HIDE DEF upTo
  <2>2. IsFiniteSet(upTo(i)) /\ Cardinality(upTo(i)) <= K
    BY <1>3, <2>1, FS_Subset DEF K
  <2>3. Cardinality(upTo(i)) \in Nat /\ Cardinality(upTo(i)) # 0
    BY <2>1, <2>2, FS_CardinalityType, FS_EmptySet
  <2> QED
    BY <1>3, <2>1, <2>2, <2>3
<1>6. \A i, j \in kept : i < j => Cardinality(upTo(i)) < Cardinality(upTo(j))
  <2> SUFFICES ASSUME NEW i \in kept, NEW j \in kept, i < j
               PROVE  Cardinality(upTo(i)) < Cardinality(upTo(j))
    OBVIOUS
  <2>1. upTo(i) \in SUBSET upTo(j) /\ upTo(i) # upTo(j)
    <3>1. \A k \in kept : k \in Nat
      BY <1>1, <1>2
    <3>2. upTo(i) \subseteq upTo(j)
      BY <3>1
    <3>3. j \in upTo(j) /\ j \notin upTo(i)
      BY <3>1
    <3> QED
      BY <3>2, <3>3
  <2>2. /\ IsFiniteSet(upTo(j))
        /\ Cardinality(upTo(i)) \in 1..K /\ Cardinality(upTo(j)) \in 1..K
    BY <1>5
  <2> HIDE DEF upTo
  <2> QED
    BY <1>3, <2>1, <2>2, FS_Subset
<1>7. count \in Injection(kept, 1..K)
  <2>1. count \in [kept -> 1..K]
    BY <1>5
  <2>2. ASSUME NEW i \in kept, NEW j \in kept, count[i] = count[j]
        PROVE  i = j
    <3>1. i \in Nat /\ j \in Nat
      BY <1>1, <1>2
    <3>2. Cardinality(upTo(i)) = Cardinality(upTo(j)) /\ Cardinality(upTo(i)) \in 1..K
      BY <1>5, <2>2
    <3> QED
      BY <1>3, <1>6, <3>1, <3>2
  <2> QED
    BY <2>1, <2>2 DEF Injection, IsInjective
<1>8. count \in Surjection(kept, 1..K)
  <2>1. IsFiniteSet(1..K) /\ Cardinality(1..K) = K
    BY <1>3, FS_Interval
  <2> HIDE DEF count
  <2> QED
    BY <1>7, <2>1, FS_Injection DEF K
<1>9. \A n \in 1..K : nth(n) \in kept /\ Cardinality(upTo(nth(n))) = n
  <2> SUFFICES ASSUME NEW n \in 1..K
               PROVE  \E i \in kept : Cardinality(upTo(i)) = n
    OBVIOUS
  <2> QED
    BY <1>8 DEF Surjection
<1>10. \A m, n \in 1..K : m < n => nth(m) < nth(n)
  <2> SUFFICES ASSUME NEW m \in 1..K, NEW n \in 1..K, m < n
               PROVE  nth(m) < nth(n)
    OBVIOUS
  <2>1. PICK i \in kept : i = nth(m) /\ Cardinality(upTo(i)) = m
    BY <1>9
  <2>2. PICK j \in kept : j = nth(n) /\ Cardinality(upTo(j)) = n
    BY <1>9
  <2> HIDE DEF nth, upTo
  <2>3. i \in Nat /\ j \in Nat
    BY <1>1, <1>2
  <2>4. j < i => n < m
    BY <1>6, <2>1, <2>2
  <2>5. i # j
    BY <1>3, <2>1, <2>2
  <2> QED
    BY <1>3, <2>1, <2>2, <2>3, <2>4, <2>5
<1>11. \A n \in 1..K : nth(n) \in DOMAIN s /\ s[nth(n)] \notin D
  BY <1>9 DEF kept
<1> HIDE DEF nth
<1>12. Without(s, D) \in Seq(S)
  BY <1>1, <1>3, <1>4, <1>11
<1>13. \A n \in DOMAIN Without(s, D) :
          \E i \in DOMAIN s : Without(s, D)[n] = s[i] /\ s[i] \notin D
  BY <1>4, <1>11
<1>14. \A m, n \in DOMAIN Without(s, D) : m < n =>
          \E i, j \in DOMAIN s : /\ i < j
                                 /\ Without(s, D)[m] = s[i]
                                 /\ Without(s, D)[n] = s[j]
  BY <1>4, <1>10, <1>11
<1> QED
  BY <1>12, <1>13, <1>14

----------------------------------------------------------------------------
(* Types, for every setup *)

(* The parts of a setup are of the kinds that the constants allow.            *)
LEMMA SetupType ==
    ASSUME setup \in Setups
    PROVE  /\ setup.ranks \in {{0}, {0, 1}}
           /\ setup.mode \in {"single", "threads", "ranks"}
           /\ setup.mayFail \in BOOLEAN
           /\ setup.home \in [Requests -> {1, 2}]
  BY KVTransferAssumption

(* FinishPrefill is the next in the order of finishing.                       *)
LEMMA CountAfterFinish ==
    ASSUME TypeOK, NEW r \in Requests, finishTime[r] = 0, FinishPrefill(r)
    PROVE  /\ FinishedCount \in Nat
           /\ FinishedCount' = FinishedCount + 1
           /\ FinishedCount + 1 \in 0..Cardinality(Requests)
<1> DEFINE F == {x \in Requests : finishTime[x] > 0}
<1>1. IsFiniteSet(Requests) /\ F \in SUBSET Requests /\ r \notin F
  BY KVTransferAssumption
<1>2. FinishedCount' = Cardinality(F \cup {r})
  <2>1. FinishedCount + 1 > 0
    <3>1. F \in SUBSET Requests
      OBVIOUS
    <3> HIDE DEF F
    <3>2. IsFiniteSet(F) /\ Cardinality(F) \in Nat
      BY <1>1, <3>1, FS_Subset, FS_CardinalityType
    <3>3. FinishedCount = Cardinality(F)
      BY DEF FinishedCount, F
    <3> QED
      BY <3>2, <3>3
  <2>2. {x \in Requests : finishTime'[x] > 0} = F \cup {r}
    BY <2>1 DEF FinishPrefill, TypeOK
  <2> QED
    BY <2>2 DEF FinishedCount
<1>3. FinishedCount = Cardinality(F)
  BY DEF FinishedCount
<1> HIDE DEF F
<1>4. IsFiniteSet(F)
  BY <1>1, FS_Subset
<1>5. Cardinality(F) \in Nat /\ Cardinality(F \cup {r}) = Cardinality(F) + 1
  BY <1>1, <1>4, FS_AddElement, FS_CardinalityType
<1>6. Cardinality(F \cup {r}) <= Cardinality(Requests) /\ Cardinality(Requests) \in Nat
  <2>1. F \cup {r} \in SUBSET Requests
    BY <1>1
  <2> QED
    BY <1>1, <2>1, FS_Subset, FS_CardinalityType
<1> QED
  BY <1>2, <1>3, <1>5, <1>6

(* P's dicts one after the other, as the worker scans them.                   *)
Dict == MergedTimes(pTimes, pSched)

(* P's worker sees requests in the order in which they were finished, and only *)
(* finished ones are past the delay.                                          *)
FinishOrder ==
    /\ horizon <= FinishedCount
    /\ \A r \in Requests : /\ pPhase[r] = "prefill" => finishTime[r] = 0
                           /\ finishTime[r] <= FinishedCount
    /\ \A r, x \in Requests : finishTime[r] > 0 /\ finishTime[r] = finishTime[x] => r = x
    /\ \A i \in DOMAIN Dict : finishTime[Dict[i]] > 0
    /\ \A i, j \in DOMAIN Dict : i < j => finishTime[Dict[i]] < finishTime[Dict[j]]

(* The dict with what is merged into it is a sequence of requests.            *)
LEMMA DictType ==
    ASSUME TypeOK
    PROVE  /\ Dict \in Seq(Requests) /\ DOMAIN Dict = 1..Len(Dict) /\ Len(Dict) \in Nat
           /\ \A i \in DOMAIN Dict : Dict[i] \in Requests
<1>1. Dict \in Seq(Requests)
  BY ConcatProperties DEF Dict, MergedTimes, TypeOK
<1> QED
  BY <1>1, LenProperties, ElementOfSeq

(* What a step of P's engine leaves in the dicts.                             *)
LEMMA PStepDict ==
    ASSUME TypeOK, PStep
    PROVE  /\ pTimes' = Without(Dict, Expired(Dict) \cup receiveList)
           /\ pTimes' \in Seq(Requests) /\ pSched' = <<>>
           /\ Dict' = pTimes'
           /\ \A n \in DOMAIN pTimes' :
                 \E i \in DOMAIN Dict : pTimes'[n] = Dict[i] /\ Dict[i] \notin Expired(Dict)
           /\ \A m, n \in DOMAIN pTimes' : m < n =>
                 \E i, j \in DOMAIN Dict :
                    i < j /\ pTimes'[m] = Dict[i] /\ pTimes'[n] = Dict[j]
<1>1. pTimes' = Without(Dict, Expired(Dict) \cup receiveList) /\ pSched' = <<>>
  BY DEF PStep, Dict
<1>2. pTimes' \in Seq(Requests)
  BY <1>1, DictType, WithoutItems
<1>3. Dict' = pTimes'
  BY <1>1, <1>2, ConcatEmptySeq DEF Dict, MergedTimes
<1>4. PICK d \in Seq(Requests) : \E D : d = Dict /\ D = Expired(Dict) \cup receiveList
  BY DictType
<1>d. PICK D : d = Dict /\ D = Expired(Dict) \cup receiveList
  BY <1>4
<1>5. /\ \A n \in DOMAIN Without(d, D) :
            \E i \in DOMAIN d : Without(d, D)[n] = d[i] /\ d[i] \notin D
      /\ \A m, n \in DOMAIN Without(d, D) : m < n =>
            \E i, j \in DOMAIN d :
               i < j /\ Without(d, D)[m] = d[i] /\ Without(d, D)[n] = d[j]
  BY WithoutItems
<1>6. pTimes' = Without(d, D)
  BY <1>1, <1>d
<1>7. \A n \in DOMAIN pTimes' :
         \E i \in DOMAIN Dict : pTimes'[n] = Dict[i] /\ Dict[i] \notin Expired(Dict)
  <2>1. \A i \in DOMAIN d : d[i] \notin D => d[i] \notin Expired(Dict)
    BY <1>d
  <2> QED
    BY <1>d, <1>5, <1>6, <2>1
<1>8. \A m, n \in DOMAIN pTimes' : m < n =>
         \E i, j \in DOMAIN Dict :
            i < j /\ pTimes'[m] = Dict[i] /\ pTimes'[n] = Dict[j]
  <2> SUFFICES ASSUME NEW m \in DOMAIN pTimes', NEW n \in DOMAIN pTimes', m < n
               PROVE  \E i, j \in DOMAIN Dict :
                         i < j /\ pTimes'[m] = Dict[i] /\ pTimes'[n] = Dict[j]
    OBVIOUS
  <2>1. PICK i \in DOMAIN d, j \in DOMAIN d :
           i < j /\ Without(d, D)[m] = d[i] /\ Without(d, D)[n] = d[j]
    BY <1>5, <1>6
  <2> QED
    BY <1>d, <1>6, <2>1
<1> QED
  BY <1>1, <1>2, <1>3, <1>7, <1>8

LEMMA TypeInit == Init => TypeOK
<1> SUFFICES ASSUME Init
             PROVE  TypeOK
  OBVIOUS
<1>1. 0 \in 0..Cardinality(Requests)
  BY KVTransferAssumption, FS_CardinalityType
<1> QED
  BY <1>1 DEF Init, TypeOK

(* What moves in D's lanes keeps its type.                                    *)
LEMMA LaneTypes ==
    ASSUME TypeOK, NEW w \in Workers
    PROVE  /\ \A r \in Requests : Append(queue[w], r) \in Seq(Requests)
           /\ queue[w] # <<>> => /\ Tail(queue[w]) \in Seq(Requests)
                                 /\ <<Head(queue[w]), "pull">> \in Requests \X {"pull", "barrier"}
           /\ pull[w] # NoTask => /\ pull[w][1] \in Requests
                                  /\ pull[w] = <<pull[w][1], pull[w][2]>>
                                  /\ pull[w][2] \in {"pull", "barrier"}
                                  /\ <<pull[w][1], "barrier">> \in Requests \X {"pull", "barrier"}
<1>1. queue[w] \in Seq(Requests) /\ pull[w] \in (Requests \X {"pull", "barrier"}) \cup {NoTask}
  BY DEF TypeOK
<1> QED
  BY <1>1, QueueAppend, QueueTail

LEMMA TypeStep ==
    ASSUME TypeOK, FinishOrder, [Next]_vars
    PROVE  TypeOK'
<1> USE DEF pvars, dvars, lvars
<1>1. ASSUME NEW r \in Requests, FinishPrefill(r)
      PROVE  TypeOK'
  <2>1. finishTime[r] = 0
    BY <1>1 DEF FinishPrefill, FinishOrder
  <2>2. FinishedCount + 1 \in 0..Cardinality(Requests)
    BY <1>1, <2>1, CountAfterFinish
  <2>3. Append(pSched, r) \in Seq(Requests)
    BY QueueAppend DEF TypeOK
  <2> QED
    BY <1>1, <2>2, <2>3 DEF FinishPrefill, TypeOK, Workers, Lanes
<1>2. ASSUME NEW r \in Requests, StopPrefill(r) \/ Arrive(r) \/ Preempt(r) \/ Resume(r)
      PROVE  TypeOK'
  BY <1>2 DEF StopPrefill, Arrive, Preempt, Resume, TypeOK, Workers, Lanes
<1>3. ASSUME NEW m \in inbox, Listen(m)
      PROVE  TypeOK'
  BY <1>3 DEF Listen, TypeOK, Workers, Lanes
<1>4. CASE PStep
  <2>1. pTimes' \in Seq(Requests) /\ pSched' \in Seq(Requests)
    BY <1>4, PStepDict
  <2> QED
    BY <1>4, <2>1 DEF PStep, TypeOK, Workers, Lanes
<1>5. ASSUME NEW r \in Requests, StartLoad(r)
      PROVE  TypeOK'
  <2>1. queue' \in [Workers -> Seq(Requests)]
    BY <1>5, LaneTypes DEF StartLoad, StartLoadKV, TypeOK
  <2> QED
    BY <1>5, <2>1 DEF StartLoad, UpdateStateAfterAlloc, BuildConnectorMetadata, TypeOK,
                      Workers, Lanes
<1>6. ASSUME NEW r \in Requests, NEW aborted \in BOOLEAN, EndRequest(r, aborted)
      PROVE  TypeOK'
  BY <1>6 DEF EndRequest, TypeOK, Workers, Lanes
<1>7. ASSUME NEW w \in Workers, BeginPull(w)
      PROVE  TypeOK'
  <2>1. /\ queue' \in [Workers -> Seq(Requests)]
        /\ pull' \in [Workers -> (Requests \X {"pull", "barrier"}) \cup {NoTask}]
    BY <1>7, LaneTypes DEF BeginPull, TypeOK
  <2> QED
    BY <1>7, <2>1 DEF BeginPull, TypeOK, Workers, Lanes
<1>8. ASSUME NEW w \in Workers,
             EndPullAlone(w) \/ EndPullSync(w) \/ ReachBarrier(w) \/ PullFails(w)
      PROVE  TypeOK'
  <2>1. pull[w] # NoTask
    BY <1>8 DEF EndPullAlone, EndPullSync, ReachBarrier, PullFails
  <2>2. pull[w][1] \in Requests /\ <<pull[w][1], "barrier">> \in Requests \X {"pull", "barrier"}
    BY <2>1, LaneTypes
  <2>3. pull' \in [Workers -> (Requests \X {"pull", "barrier"}) \cup {NoTask}]
    BY <1>8, <2>2 DEF EndPullAlone, EndPullSync, ReachBarrier, PullFails, TypeOK
  <2> QED
    BY <1>8, <2>2, <2>3 DEF EndPullAlone, EndPullSync, ReachBarrier, PullFails, TypeOK,
                             Workers, Lanes
<1>9. CASE PassBarrier
  <2>1. PICK w \in Workers : inbox' = inbox \cup {pull[w][1]} /\ recving' = recving \cup {pull[w][1]}
    BY <1>9 DEF PassBarrier
  <2>2. pull[w][1] \in Requests
    BY <1>9, LaneTypes DEF PassBarrier
  <2> QED
    BY <1>9, <2>1, <2>2 DEF PassBarrier, TypeOK, Workers, Lanes
<1>10. CASE DReport
  BY <1>10 DEF DReport, TypeOK, Workers, Lanes
<1>11. CASE TimePasses
  BY <1>11 DEF TimePasses, TypeOK, Workers, Lanes
<1>12. CASE UNCHANGED vars
  BY <1>12 DEF vars, TypeOK, Workers, Lanes
<1> QED
  BY <1>1, <1>2, <1>3, <1>4, <1>5, <1>6, <1>7, <1>8, <1>9, <1>10, <1>11, <1>12 DEF Next

LEMMA OrderInit == Init => FinishOrder
<1> SUFFICES ASSUME Init
             PROVE  FinishOrder
  OBVIOUS
<1>1. FinishedCount \in Nat
  <2>1. {x \in Requests : finishTime[x] > 0} \in SUBSET Requests
    OBVIOUS
  <2>2. IsFiniteSet({x \in Requests : finishTime[x] > 0})
    BY <2>1, KVTransferAssumption, FS_Subset
  <2> QED
    BY <2>2, FS_CardinalityType DEF FinishedCount
<1>2. Dict = <<>>
  BY DEF Init, Dict, MergedTimes
<1>3. DOMAIN Dict = {}
  BY <1>2
<1> QED
  BY <1>1, <1>3 DEF Init, FinishOrder

LEMMA OrderStep ==
    ASSUME TypeOK, FinishOrder, [Next]_vars
    PROVE  FinishOrder'
<1> USE DEF pvars
<1>1. ASSUME NEW r \in Requests, FinishPrefill(r)
      PROVE  FinishOrder'
  <2>1. finishTime[r] = 0
    BY <1>1 DEF FinishPrefill, FinishOrder
  <2>2. FinishedCount \in Nat /\ FinishedCount' = FinishedCount + 1
    BY <1>1, <2>1, CountAfterFinish
  <2>3. \A x \in Requests : finishTime'[x] = IF x = r THEN FinishedCount + 1 ELSE finishTime[x]
    BY <1>1 DEF FinishPrefill, TypeOK
  <2>4. \A x \in Requests : finishTime[x] \in Nat
    BY KVTransferAssumption, FS_CardinalityType DEF TypeOK
  <2>5. \A x \in Requests : pPhase'[x] = "prefill" => x # r /\ pPhase[x] = "prefill"
    BY <1>1 DEF FinishPrefill, TypeOK
  <2>6. Dict' = Append(Dict, r)
    <3>1. /\ pTimes \in Seq(Requests) /\ pSched \in Seq(Requests)
          /\ <<r>> \in Seq(Requests)
      BY DEF TypeOK
    <3>2. pSched' = pSched \o <<r>>
      BY <1>1, <3>1, AppendIsConcat DEF FinishPrefill
    <3>3. Dict' = pTimes \o (pSched \o <<r>>)
      BY <1>1, <3>2 DEF FinishPrefill, Dict, MergedTimes
    <3>4. Dict' = Dict \o <<r>>
      BY <3>1, <3>3, ConcatAssociative DEF Dict, MergedTimes
    <3> QED
      BY <3>4, DictType, AppendIsConcat
  <2>7. /\ DOMAIN Dict' = 1..Len(Dict) + 1 /\ Dict'[Len(Dict) + 1] = r
        /\ \A i \in 1..Len(Dict) : Dict'[i] = Dict[i]
    BY <2>6, DictType, AppendProperties, LenProperties
  <2>8. /\ DOMAIN Dict = 1..Len(Dict) /\ Len(Dict) \in Nat
        /\ \A i \in 1..Len(Dict) : Dict[i] \in Requests /\ Dict[i] # r
    BY <2>1, DictType DEF FinishOrder
  <2>9. \A i \in 1..Len(Dict) : /\ finishTime'[Dict'[i]] = finishTime[Dict[i]]
                               /\ finishTime[Dict[i]] > 0
                               /\ finishTime[Dict[i]] <= FinishedCount
    BY <2>3, <2>7, <2>8 DEF FinishOrder
  <2>10. \A x \in Requests : /\ pPhase'[x] = "prefill" => finishTime'[x] = 0
                             /\ finishTime'[x] <= FinishedCount'
    BY <2>2, <2>3, <2>4, <2>5 DEF FinishOrder
  <2>11. \A i \in DOMAIN Dict' : finishTime'[Dict'[i]] > 0
    BY <2>2, <2>3, <2>7, <2>8, <2>9
  <2>12. ASSUME NEW i \in 1..Len(Dict) + 1, NEW j \in 1..Len(Dict) + 1, i < j
         PROVE  finishTime'[Dict'[i]] < finishTime'[Dict'[j]]
    <3>1. i \in 1..Len(Dict)
      BY <2>8, <2>12
    <3>2. CASE j \in 1..Len(Dict)
      BY <2>8, <2>9, <2>12, <3>1, <3>2 DEF FinishOrder
    <3>3. CASE j = Len(Dict) + 1
      <4>1. finishTime'[Dict'[j]] = FinishedCount + 1
        BY <2>3, <2>7, <3>3
      <4>2. finishTime[Dict[i]] \in Nat
        BY <2>4, <2>8, <3>1
      <4> QED
        BY <2>2, <2>9, <3>1, <4>1, <4>2
    <3> QED
      BY <2>8, <3>2, <3>3
  <2>13. horizon' <= FinishedCount'
    <3>1. horizon \in Nat /\ horizon' = horizon
      BY <1>1, KVTransferAssumption, FS_CardinalityType DEF FinishPrefill, TypeOK
    <3> QED
      BY <2>2, <3>1 DEF FinishOrder
  <2>14. \A x, y \in Requests : finishTime'[x] > 0 /\ finishTime'[x] = finishTime'[y]
                                   => x = y
    BY <2>2, <2>3, <2>4 DEF FinishOrder
  <2> QED
    BY <2>7, <2>10, <2>11, <2>12, <2>13, <2>14 DEF FinishOrder
<1>2. CASE PStep
  <2>1. UNCHANGED <<finishTime, horizon, FinishedCount>>
    BY <1>2 DEF PStep, FinishedCount
  <2>2. \A r \in Requests : pPhase'[r] = "prefill" => pPhase[r] = "prefill"
    BY <1>2 DEF PStep
  <2>3. Dict' = pTimes'
    BY <1>2, PStepDict
  <2>4. /\ \A n \in DOMAIN Dict' : \E i \in DOMAIN Dict : Dict'[n] = Dict[i]
        /\ \A m, n \in DOMAIN Dict' : m < n =>
              \E i, j \in DOMAIN Dict : i < j /\ Dict'[m] = Dict[i] /\ Dict'[n] = Dict[j]
    <3>1. \A n \in DOMAIN pTimes' : \E i \in DOMAIN Dict : pTimes'[n] = Dict[i]
      BY <1>2, PStepDict
    <3>2. \A m, n \in DOMAIN pTimes' : m < n =>
             \E i, j \in DOMAIN Dict : i < j /\ pTimes'[m] = Dict[i] /\ pTimes'[n] = Dict[j]
      BY <1>2, PStepDict
    <3> QED
      BY <2>3, <3>1, <3>2
  <2> QED
    BY <2>1, <2>2, <2>4 DEF FinishOrder
<1>3. ASSUME UNCHANGED <<finishTime, pTimes, pSched>>, horizon' <= FinishedCount,
             \A r \in Requests : pPhase'[r] = "prefill" => pPhase[r] = "prefill"
      PROVE  FinishOrder'
  <2>1. UNCHANGED <<finishTime, FinishedCount, Dict>>
    BY <1>3 DEF FinishedCount, Dict, MergedTimes
  <2> QED
    BY <1>3, <2>1 DEF FinishOrder
<1>4. ASSUME NEW r \in Requests, StopPrefill(r)
      PROVE  FinishOrder'
  <2>1. \A x \in Requests : pPhase'[x] = "prefill" => pPhase[x] = "prefill"
    BY <1>4 DEF StopPrefill, TypeOK
  <2> QED
    BY <1>3, <1>4, <2>1 DEF StopPrefill, FinishOrder
<1>5. ASSUME NEW r \in Requests,
             \/ Arrive(r) \/ StartLoad(r) \/ Preempt(r) \/ Resume(r)
             \/ \E aborted \in BOOLEAN : EndRequest(r, aborted)
      PROVE  FinishOrder'
  BY <1>3, <1>5 DEF Arrive, StartLoad, Preempt, Resume, EndRequest, FinishOrder
<1>6. ASSUME NEW w \in Workers,
             \/ BeginPull(w) \/ EndPullAlone(w) \/ EndPullSync(w) \/ ReachBarrier(w)
             \/ PullFails(w)
      PROVE  FinishOrder'
  BY <1>3, <1>6 DEF BeginPull, EndPullAlone, EndPullSync, ReachBarrier, PullFails,
                   FinishOrder
<1>7. CASE PassBarrier \/ DReport \/ (\E m \in inbox : Listen(m))
  BY <1>3, <1>7 DEF PassBarrier, DReport, Listen, FinishOrder
<1>8. CASE TimePasses
  <2>1. horizon' <= FinishedCount
    BY <1>8 DEF TimePasses, FinishOrder
  <2> QED
    BY <1>3, <1>8, <2>1 DEF TimePasses
<1>9. CASE UNCHANGED vars
  BY <1>3, <1>9 DEF vars, FinishOrder
<1> QED
  BY <1>1, <1>2, <1>4, <1>5, <1>6, <1>7, <1>8, <1>9 DEF Next

(* The types hold, and the dict of finish times stays in the order in which   *)
(* the requests finished: the scan may stop at the first that is not late.    *)
THEOREM OrderInvariant == Spec => [](TypeOK /\ FinishOrder)
<1>1. TypeOK /\ FinishOrder /\ [Next]_vars => (TypeOK /\ FinishOrder)'
  BY TypeStep, OrderStep
<1> QED
  BY <1>1, TypeInit, OrderInit, PTL DEF Spec

(* Every variable keeps its type, whatever the setups.                        *)
THEOREM TypeCorrect == Spec => []TypeOK
  BY OrderInvariant, PTL

(* The early end of the scan leaves no request behind that is past the delay, *)
(* since the dict stays in the order of finishing.                            *)
THEOREM ScanIsComplete == Spec => ScanMissesNone
<1>1. ASSUME TypeOK, FinishOrder, PStep, NEW n \in DOMAIN pTimes'
      PROVE  finishTime[pTimes'[n]] > horizon
  <2>1. PICK i \in DOMAIN Dict : pTimes'[n] = Dict[i] /\ Dict[i] \notin Expired(Dict)
    BY <1>1, PStepDict
  <2>2. PICK j \in 1..i : ~(finishTime[Dict[j]] <= horizon)
    BY <2>1 DEF Expired
  <2>3. /\ i \in 1..Len(Dict) /\ Len(Dict) \in Nat /\ j \in DOMAIN Dict
        /\ Dict[i] \in Requests /\ Dict[j] \in Requests
    BY <1>1, <2>1, DictType
  <2>4. /\ finishTime[Dict[i]] \in Nat /\ finishTime[Dict[j]] \in Nat /\ horizon \in Nat
    BY <1>1, <2>3, KVTransferAssumption, FS_CardinalityType DEF TypeOK
  <2>5. finishTime[Dict[j]] <= finishTime[Dict[i]]
    <3>1. CASE j = i
      BY <2>4, <3>1
    <3>2. CASE j < i
      BY <1>1, <2>3, <2>4, <3>2 DEF FinishOrder
    <3> QED
      BY <2>3, <3>1, <3>2
  <2> QED
    BY <2>1, <2>2, <2>4, <2>5
<1>2. TypeOK /\ FinishOrder /\ [Next]_vars
        => [PStep => \A i \in DOMAIN pTimes' : finishTime[pTimes'[i]] > horizon]_vars
  BY <1>1
<1> QED
  <2>1. Spec => [][PStep => \A i \in DOMAIN pTimes' : finishTime[pTimes'[i]] > horizon]_vars
    BY <1>2, OrderInvariant, PTL DEF Spec
  <2> QED
    BY <2>1 DEF ScanMissesNone

----------------------------------------------------------------------------
(* The lanes of D, where a request is pulled whole and the ranks stay abreast *)

(* No request is pulled in halves; and ranks that meet at a barrier do not    *)
(* fail, or there is one.                                                     *)
WholeInStep(s) ==
    s.mode # "ranks" /\ (s.mode = "single" => s.ranks = {0} \/ ~s.mayFail)

(* What a lane has to do, as a set and in order.                              *)
Todo(w) == ToSet(queue[w]) \cup (IF pull[w] = NoTask THEN {} ELSE {pull[w][1]})
Line(w) == IF pull[w] = NoTask THEN queue[w] ELSE <<pull[w][1]>> \o queue[w]

(* Requests that P or D's engine has been told, or is to be told, are pulled. *)
Reported == (inbox \cup receiveList \cup recving) \ {NoId}

OnceEach ==
    \A w \in Workers :
       /\ IsInjective(queue[w])
       /\ pull[w] # NoTask => w \in alive /\ pull[w][1] \notin ToSet(queue[w])

(* Executors of the ranks work off the same line, and only they meet.         *)
SameLine ==
    /\ setup.mode = "single" => \A v, w \in Workers : Line(v) = Line(w)
    /\ \A w \in Workers : pull[w] # NoTask /\ pull[w][2] = "barrier"
                             => setup.mode = "single"

(* A task is of a request that D loads, or has given up while it loaded, and  *)
(* of which nothing has been reported.                                        *)
TodoUnreported ==
    \A w \in Workers : \A r \in Todo(w) :
       /\ w[2] \in Parts(r)
       /\ r \notin hasParams \cup Reported
       /\ dPhase[r] \in {"loading", "over"}

(* Parameters are cleared when D schedules the load, and never come back.     *)
ParamsCleared ==
    /\ Reported \cup processed \subseteq Requests \ hasParams
    /\ \A r \in Requests :
          /\ pPhase[r] = "prefill" => dPhase[r] = "idle"
          /\ dPhase[r] = "idle" => r \in hasParams
          /\ dPhase[r] \in {"loading", "ready"} => r \notin hasParams

(* P lets go of nothing that is being pulled or may still be.                 *)
FreedIsPulled ==
    \A r \in Requests :
       pPhase[r] = "free" \/ (0 < finishTime[r] /\ finishTime[r] <= horizon)
         => Outstanding(r) = {} /\ (r \notin hasParams \/ dPhase[r] = "over")

IInv ==
    /\ TypeOK /\ FinishOrder /\ WholeInStep(setup)
    /\ OnceEach /\ SameLine /\ TodoUnreported /\ ParamsCleared /\ FreedIsPulled

(* One lane of each rank has the task of a request.                           *)
LEMMA OnePart ==
    ASSUME TypeOK, WholeInStep(setup), NEW r \in Requests
    PROVE  \E l \in Lanes : Parts(r) = {l}
<1>1. setup.mode \in {"single", "threads", "ranks"} /\ setup.home[r] \in {1, 2}
  BY SetupType DEF TypeOK
<1> QED
  BY <1>1 DEF WholeInStep, Parts, Lanes

(* A worker of D is a lane of a rank.                                         *)
LEMMA WorkerParts ==
    ASSUME TypeOK, NEW w \in Workers
    PROVE  w[1] \in setup.ranks /\ w[2] \in Lanes /\ w = <<w[1], w[2]>>
  BY DEF Workers

(* With one rank there is one worker for a request.                           *)
LEMMA OneWorker ==
    ASSUME TypeOK, WholeInStep(setup), setup.ranks = {0}, NEW r \in Requests,
           NEW v \in Workers, NEW w \in Workers, v[2] \in Parts(r), w[2] \in Parts(r)
    PROVE  v = w
<1>1. v[2] = w[2] /\ v[1] = w[1]
  BY OnePart, WorkerParts
<1> QED
  BY <1>1, WorkerParts

(* With one rank and one executor D has one worker.                           *)
LEMMA OneExecutor ==
    ASSUME TypeOK, setup.ranks = {0}, setup.mode = "single",
           NEW v \in Workers, NEW w \in Workers
    PROVE  v = w
<1>1. v[1] = 0 /\ w[1] = 0 /\ v[2] = 1 /\ w[2] = 1
  BY WorkerParts DEF Lanes
<1> QED
  BY <1>1, WorkerParts

(* A request in the line of no worker is neither outstanding nor stranded.    *)
LEMMA NothingTodo ==
    ASSUME NEW r, \A w \in Workers : r \notin Todo(w), alive \subseteq Workers
    PROVE  Outstanding(r) = {} /\ ~Stranded(r)
<1>1. \A w \in Workers : r \notin ToSet(queue[w]) /\ pull[w] # <<r, "pull">>
  BY DEF Todo, NoTask
<1> QED
  BY <1>1 DEF Outstanding, Stranded

(* Steps that leave the lanes alone.                                          *)
LEMMA LanesKept ==
    ASSUME IInv, UNCHANGED <<setup, queue, pull, alive>>
    PROVE  /\ Workers' = Workers /\ \A r : Parts(r)' = Parts(r)
           /\ \A w : Todo(w)' = Todo(w)
           /\ \A r : Outstanding(r)' = Outstanding(r) /\ Stranded(r)' = Stranded(r)
           /\ WholeInStep(setup)' /\ OnceEach' /\ SameLine'
<1>1. Workers' = Workers /\ \A r : Parts(r)' = Parts(r)
  BY DEF Workers, Lanes, Parts
<1>2. \A w : Todo(w)' = Todo(w) /\ Line(w)' = Line(w)
  BY DEF Todo, Line
<1>3. \A r : Outstanding(r)' = Outstanding(r) /\ Stranded(r)' = Stranded(r)
  BY <1>1 DEF Outstanding, Stranded
<1>4. WholeInStep(setup)' /\ OnceEach' /\ SameLine'
  BY <1>1, <1>2 DEF IInv, WholeInStep, OnceEach, SameLine
<1> QED
  BY <1>1, <1>2, <1>3, <1>4

(* A lane ends the task it works on, for better or worse.                     *)
TaskEnds(w) ==
    /\ pull[w] # NoTask
    /\ pull' = [pull EXCEPT ![w] = NoTask]
    /\ alive' \in {alive, alive \ {w}}
    /\ setup.mode = "single" => setup.ranks = {0}
    /\ UNCHANGED <<setup, pPhase, finishTime, horizon, hasParams, dPhase, processed,
                   queue, receiveList>>

(* A task that ends leaves the line of its worker, and nothing else changes.  *)
LEMMA AfterTask ==
    ASSUME IInv, NEW w \in Workers, TaskEnds(w)
    PROVE  /\ pull[w][1] \in Todo(w)
           /\ Workers' = Workers /\ \A r : Parts(r)' = Parts(r)
           /\ \A v \in Workers : Todo(v)' = IF v = w THEN Todo(v) \ {pull[w][1]} ELSE Todo(v)
           /\ \A r : Outstanding(r)' \subseteq Outstanding(r)
           /\ WholeInStep(setup)' /\ OnceEach' /\ SameLine' /\ FreedIsPulled'
<1> USE DEF TaskEnds
<1>1. Workers' = Workers /\ \A r : Parts(r)' = Parts(r)
  BY DEF Workers, Lanes, Parts
<1>2. \A v \in Workers : pull'[v] = IF v = w THEN NoTask ELSE pull[v]
  BY DEF IInv, TypeOK
<1>3. \A v \in Workers : Todo(v)' = IF v = w THEN Todo(v) \ {pull[w][1]} ELSE Todo(v)
  BY <1>2 DEF IInv, OnceEach, Todo
<1>4. \A r : Outstanding(r)' \subseteq Outstanding(r)
  BY <1>2 DEF Outstanding, IInv, TypeOK, NoTask
<1>5. OnceEach'
  BY <1>1, <1>2 DEF IInv, OnceEach
<1>6. SameLine'
  BY <1>1, <1>2, OneExecutor DEF IInv, SameLine
<1>7. FreedIsPulled'
  BY <1>4 DEF IInv, FreedIsPulled
<1>8. WholeInStep(setup)' /\ pull[w][1] \in Todo(w)
  BY DEF IInv, WholeInStep, Todo
<1> QED
  BY <1>1, <1>3, <1>4, <1>5, <1>6, <1>7, <1>8

(* Equal lines have equal heads and equal rests.                              *)
LEMMA QueueHead ==
    ASSUME NEW S, NEW p \in Seq(S), NEW q \in Seq(S), NEW x \in S, NEW y \in S,
           <<x>> \o p = <<y>> \o q
    PROVE  x = y /\ p = q
<1>1. PICK u \in Seq(S), v \in Seq(S) : /\ u = <<x>> /\ v = <<y>>
                                       /\ Len(u) = 1 /\ u[1] = x /\ Len(v) = 1 /\ v[1] = y
  <2>1. <<x>> \in Seq(S) /\ Len(<<x>>) = 1 /\ <<x>>[1] = x
    OBVIOUS
  <2>2. <<y>> \in Seq(S) /\ Len(<<y>>) = 1 /\ <<y>>[1] = y
    OBVIOUS
  <2> QED
    BY <2>1, <2>2, Zenon
<1>2. PICK a, b : a = u \o p /\ b = v \o q
  OBVIOUS
<1>3. a = b
  BY <1>1, <1>2
<1>4. /\ Len(a) = 1 + Len(p) /\ \A i \in 1..1 + Len(p) : a[i] = IF i <= 1 THEN u[i] ELSE p[i - 1]
      /\ Len(b) = 1 + Len(q) /\ \A i \in 1..1 + Len(q) : b[i] = IF i <= 1 THEN v[i] ELSE q[i - 1]
      /\ Len(p) \in Nat /\ Len(q) \in Nat
  <2>1. /\ Len(a) = Len(u) + Len(p)
        /\ \A i \in 1..Len(u) + Len(p) : a[i] = IF i <= Len(u) THEN u[i] ELSE p[i - Len(u)]
    BY <1>2, ConcatProperties
  <2>2. /\ Len(b) = Len(v) + Len(q)
        /\ \A i \in 1..Len(v) + Len(q) : b[i] = IF i <= Len(v) THEN v[i] ELSE q[i - Len(v)]
    BY <1>2, ConcatProperties
  <2>3. Len(p) \in Nat /\ Len(q) \in Nat
    BY LenProperties
  <2> QED
    BY <1>1, <2>1, <2>2, <2>3
<1>5. Len(p) = Len(q) /\ x = y
  BY <1>1, <1>3, <1>4
<1>6. ASSUME NEW i \in 1..Len(p)
      PROVE  p[i] = q[i]
  <2>1. a[i + 1] = p[i] /\ b[i + 1] = q[i]
    BY <1>4, <1>5
  <2> QED
    BY <1>3, <2>1
<1> QED
  BY <1>5, <1>6, SeqEqual

(* Taking from the front of a line commutes with appending to it.             *)
LEMMA HeadThenAppend ==
    ASSUME NEW S, NEW q \in Seq(S), NEW x \in S, NEW r \in S
    PROVE  <<x>> \o Append(q, r) = Append(<<x>> \o q, r)
<1>1. PICK u \in Seq(S) : u = <<x>>
  <2>1. <<x>> \in Seq(S)
    OBVIOUS
  <2> QED
    BY <2>1, Zenon
<1>2. PICK v \in Seq(S) : v = <<r>>
  <2>1. <<r>> \in Seq(S)
    OBVIOUS
  <2> QED
    BY <2>1, Zenon
<1>3. u \o (q \o v) = (u \o q) \o v /\ u \o q \in Seq(S)
  BY ConcatAssociative, ConcatProperties
<1>4. Append(q, r) = q \o v /\ Append(u \o q, r) = (u \o q) \o v
  BY <1>2, <1>3, AppendIsConcat
<1> QED
  BY <1>1, <1>3, <1>4

LEMMA InitInv ==
    ASSUME Init, \A s \in Setups : WholeInStep(s)
    PROVE  IInv
<1>1. TypeOK /\ FinishOrder
  BY TypeInit, OrderInit
<1>2. \A w \in Workers : Todo(w) = {} /\ IsInjective(queue[w]) /\ pull[w] = NoTask
  BY EmptyQueue DEF Init, Todo
<1>3. \A w \in Workers : Line(w) = <<>>
  BY DEF Init, Line
<1>4. OnceEach /\ SameLine /\ TodoUnreported
  BY <1>2, <1>3 DEF OnceEach, SameLine, TodoUnreported
<1>5. WholeInStep(setup) /\ ParamsCleared /\ FreedIsPulled
  BY DEF Init, ParamsCleared, Reported, FreedIsPulled
<1> QED
  BY <1>1, <1>4, <1>5 DEF IInv

(* A request on which a lane still works is not freed nor reported.           *)
LEMMA EngineSteps ==
    ASSUME IInv, [Next]_vars,
           \/ \E r \in Requests :
                 \/ FinishPrefill(r) \/ StopPrefill(r) \/ Arrive(r) \/ Preempt(r)
                 \/ Resume(r) \/ \E aborted \in BOOLEAN : EndRequest(r, aborted)
           \/ \E m \in inbox : Listen(m)
           \/ PStep \/ DReport \/ TimePasses
    PROVE  IInv'
<1> USE DEF pvars, dvars, lvars
<1>1. TypeOK /\ TypeOK' /\ FinishOrder /\ FinishOrder'
  BY TypeStep, OrderStep DEF IInv
<1>2. SUFFICES UNCHANGED <<setup, queue, pull, alive>>
                 /\ TodoUnreported' /\ ParamsCleared' /\ FreedIsPulled'
  BY <1>1, LanesKept DEF IInv
<1>3. UNCHANGED <<setup, queue, pull, alive>>
  BY DEF FinishPrefill, StopPrefill, Arrive, Preempt, Resume, EndRequest, Listen, PStep,
         DReport, TimePasses
<1>4. /\ Workers' = Workers
      /\ \A r : Parts(r)' = Parts(r) /\ Outstanding(r)' = Outstanding(r)
      /\ \A w : Todo(w)' = Todo(w)
  BY <1>3, LanesKept
<1>5. \A r \in Requests : finishTime[r] \in Nat
  BY <1>1, KVTransferAssumption, FS_CardinalityType DEF TypeOK
<1>6. horizon \in Nat
  BY <1>1, KVTransferAssumption, FS_CardinalityType DEF TypeOK
<1>7. \A w \in Workers : Todo(w) \subseteq Requests
  <2>1. ASSUME NEW w \in Workers
        PROVE  ToSet(queue[w]) \subseteq Requests
    BY <1>1, QueueElements DEF TypeOK
  <2> QED
    BY <1>1, <2>1, LaneTypes DEF Todo
<1>8. ASSUME NEW r \in Requests, FinishPrefill(r)
      PROVE  TodoUnreported' /\ ParamsCleared' /\ FreedIsPulled'
  <2>1. UNCHANGED <<Reported, hasParams, dPhase, processed, horizon>>
    BY <1>8 DEF FinishPrefill, Reported
  <2>2. TodoUnreported'
    BY <1>4, <2>1 DEF IInv, TodoUnreported
  <2>3. /\ \A x \in Requests : pPhase'[x] = "prefill" => pPhase[x] = "prefill"
        /\ \A x \in Requests : pPhase'[x] = "free" => pPhase[x] = "free"
    BY <1>1, <1>8 DEF FinishPrefill, TypeOK
  <2>4. ParamsCleared'
    BY <2>1, <2>3 DEF IInv, ParamsCleared
  <2>5. /\ finishTime'[r] > horizon
        /\ \A x \in Requests : x # r => finishTime'[x] = finishTime[x]
    <3>1. finishTime[r] = 0
      BY <1>1, <1>8 DEF FinishPrefill, FinishOrder
    <3>2. FinishedCount \in Nat
      BY <1>1, <1>8, <3>1, CountAfterFinish
    <3> QED
      BY <1>1, <1>6, <1>8, <3>2 DEF FinishPrefill, FinishOrder, TypeOK
  <2>6. FreedIsPulled'
    <3> SUFFICES ASSUME NEW x \in Requests,
                        pPhase'[x] = "free" \/ (0 < finishTime'[x] /\ finishTime'[x] <= horizon)
                 PROVE  Outstanding(x) = {} /\ (x \notin hasParams \/ dPhase[x] = "over")
      BY <1>4, <2>1 DEF FreedIsPulled
    <3>1. CASE x = r
      <4>1. finishTime'[r] \in Nat
        BY <1>1, KVTransferAssumption, FS_CardinalityType DEF TypeOK
      <4>2. pPhase'[r] # "free"
        BY <1>1, <1>8 DEF FinishPrefill, TypeOK
      <4> QED
        BY <1>6, <2>5, <3>1, <4>1, <4>2
    <3>2. CASE x # r
      BY <2>3, <2>5, <3>2 DEF IInv, FreedIsPulled
    <3> QED
      BY <3>1, <3>2
  <2> QED
    BY <2>2, <2>4, <2>6
<1>9. ASSUME NEW r \in Requests, StopPrefill(r)
      PROVE  TodoUnreported' /\ ParamsCleared' /\ FreedIsPulled'
  <2>1. UNCHANGED <<Reported, hasParams, processed, horizon, finishTime>>
    BY <1>9 DEF StopPrefill, Reported
  <2>2. /\ pPhase[r] = "prefill" /\ dPhase[r] = "idle" /\ finishTime[r] = 0
        /\ \A w \in Workers : r \notin Todo(w)
    BY <1>1, <1>9 DEF StopPrefill, IInv, ParamsCleared, TodoUnreported, FinishOrder
  <2>3. /\ pPhase'[r] = "free" /\ dPhase'[r] = "over"
        /\ \A x \in Requests : x # r => pPhase'[x] = pPhase[x] /\ dPhase'[x] = dPhase[x]
    BY <1>1, <1>9 DEF StopPrefill, TypeOK
  <2>4. Outstanding(r) = {}
    BY <1>1, <2>2, NothingTodo DEF TypeOK
  <2>5. TodoUnreported'
    BY <1>4, <1>7, <2>1, <2>2, <2>3 DEF IInv, TodoUnreported
  <2>6. ParamsCleared'
    BY <2>1, <2>3 DEF IInv, ParamsCleared
  <2>7. FreedIsPulled'
    BY <1>4, <2>1, <2>3, <2>4 DEF IInv, FreedIsPulled
  <2> QED
    BY <2>5, <2>6, <2>7
<1>10. ASSUME NEW r \in Requests,
              Arrive(r) \/ Preempt(r) \/ Resume(r)
              \/ \E aborted \in BOOLEAN : EndRequest(r, aborted)
       PROVE  TodoUnreported' /\ ParamsCleared' /\ FreedIsPulled'
  <2>1. /\ Reported' = Reported /\ processed' \subseteq processed
        /\ UNCHANGED <<pPhase, hasParams, horizon, finishTime>>
    BY <1>10, KVTransferAssumption DEF Arrive, Preempt, Resume, EndRequest, Reported
  <2>2. /\ dPhase'[r] \in {"waiting", "over", "ready"}
        /\ dPhase[r] # "over"
        /\ dPhase'[r] = "ready" => r \notin hasParams
        /\ \A x \in Requests : x # r => dPhase'[x] = dPhase[x]
    <3>1. Resume(r) => r \notin hasParams
      <4>1. \A x \in processed : x \notin hasParams
        BY DEF IInv, ParamsCleared
      <4> QED
        BY <4>1 DEF Resume, NeedsLoad
    <3>2. Arrive(r) => dPhase[r] = "idle" /\ dPhase'[r] \in {"waiting", "over"}
      BY <1>1 DEF Arrive, TypeOK
    <3>3. Preempt(r) => dPhase[r] = "ready" /\ dPhase'[r] = "waiting"
      BY <1>1 DEF Preempt, TypeOK
    <3>4. Resume(r) => dPhase[r] = "waiting" /\ dPhase'[r] = "ready"
      BY <1>1 DEF Resume, TypeOK
    <3>5. (\E aborted \in BOOLEAN : EndRequest(r, aborted))
             => dPhase[r] \in {"waiting", "loading", "ready"} /\ dPhase'[r] = "over"
      BY <1>1 DEF EndRequest, TypeOK
    <3>6. \A x \in Requests : x # r => dPhase'[x] = dPhase[x]
      BY <1>1, <1>10 DEF Arrive, Preempt, Resume, EndRequest, TypeOK
    <3> QED
      BY <1>10, <3>1, <3>2, <3>3, <3>4, <3>5, <3>6
  <2>3. pPhase[r] # "prefill"
    <3>1. CASE Arrive(r)
      BY <1>1, <1>5, <3>1 DEF Arrive, FinishOrder
    <3>2. CASE dPhase[r] # "idle"
      BY <3>2 DEF IInv, ParamsCleared
    <3> QED
      BY <1>10, <3>1, <3>2 DEF Preempt, Resume, EndRequest
  <2>4. \A w \in Workers : r \in Todo(w) => dPhase'[r] = "over"
    <3>1. \A w \in Workers : r \in Todo(w) => dPhase[r] = "loading"
      BY <2>2 DEF IInv, TodoUnreported
    <3>2. dPhase[r] = "loading" => dPhase'[r] = "over"
      BY <1>1, <1>10 DEF Arrive, Preempt, Resume, EndRequest, TypeOK
    <3> QED
      BY <3>1, <3>2
  <2>5. TodoUnreported'
    BY <1>4, <1>7, <2>1, <2>2, <2>4 DEF IInv, TodoUnreported
  <2>6. ParamsCleared'
    BY <2>1, <2>2, <2>3 DEF IInv, ParamsCleared
  <2>7. FreedIsPulled'
    BY <1>4, <2>1, <2>2 DEF IInv, FreedIsPulled
  <2> QED
    BY <2>5, <2>6, <2>7
<1>11. ASSUME NEW m \in inbox, Listen(m)
       PROVE  TodoUnreported' /\ ParamsCleared' /\ FreedIsPulled'
  <2>1. Reported' = Reported /\ UNCHANGED <<pPhase, hasParams, processed, dPhase, horizon, finishTime>>
    BY <1>11 DEF Listen, Reported
  <2> QED
    BY <1>4, <2>1 DEF IInv, TodoUnreported, ParamsCleared, FreedIsPulled
<1>12. CASE PStep
  <2>1. /\ Reported' \subseteq Reported
        /\ UNCHANGED <<hasParams, processed, dPhase, horizon, finishTime>>
    BY <1>12 DEF PStep, Reported
  <2>2. \A r \in Requests : /\ pPhase'[r] = "prefill" => pPhase[r] = "prefill"
                            /\ pPhase'[r] = "free" => \/ pPhase[r] = "free"
                                                      \/ r \in Expired(Dict)
                                                      \/ r \in receiveList
    BY <1>12 DEF PStep, Dict
  <2>3. \A r \in Expired(Dict) : 0 < finishTime[r] /\ finishTime[r] <= horizon
    <3> SUFFICES ASSUME NEW i \in DOMAIN Dict, \A j \in 1..i : finishTime[Dict[j]] <= horizon
                 PROVE  0 < finishTime[Dict[i]] /\ finishTime[Dict[i]] <= horizon
      BY DEF Expired
    <3>1. i \in 1..i
      BY <1>1, DictType
    <3> QED
      BY <1>1, <3>1 DEF FinishOrder
  <2>4. \A r \in Requests : r \in receiveList => Outstanding(r) = {} /\ r \notin hasParams
    <3> SUFFICES ASSUME NEW r \in Requests, r \in receiveList
                 PROVE  Outstanding(r) = {} /\ r \notin hasParams
      OBVIOUS
    <3>1. r \in Reported
      BY KVTransferAssumption DEF Reported
    <3>2. \A w \in Workers : r \notin Todo(w)
      BY <3>1 DEF IInv, TodoUnreported
    <3> QED
      BY <1>1, <3>1, <3>2, NothingTodo DEF IInv, ParamsCleared, TypeOK
  <2>5. FreedIsPulled'
    BY <1>4, <2>1, <2>2, <2>3, <2>4 DEF IInv, FreedIsPulled
  <2>6. TodoUnreported' /\ ParamsCleared'
    BY <1>4, <2>1, <2>2 DEF IInv, TodoUnreported, ParamsCleared
  <2> QED
    BY <1>3, <2>5, <2>6
<1>13. CASE DReport
  <2>1. Reported' \subseteq Reported /\ UNCHANGED <<pPhase, hasParams, processed, horizon, finishTime>>
    BY <1>13 DEF DReport, Reported
  <2>2. \A r \in Requests : \/ dPhase'[r] = dPhase[r]
                            \/ /\ dPhase'[r] = "ready" /\ dPhase[r] = "loading"
                               /\ r \in Reported
    BY <1>13, KVTransferAssumption DEF DReport, Reported
  <2>3. TodoUnreported'
    <3> SUFFICES ASSUME NEW w \in Workers, NEW r \in Todo(w)
                 PROVE  /\ w[2] \in Parts(r) /\ r \notin hasParams \cup Reported'
                        /\ dPhase'[r] \in {"loading", "over"}
      BY <1>4, <2>1 DEF TodoUnreported
    <3>1. /\ w[2] \in Parts(r) /\ r \notin hasParams \cup Reported
          /\ dPhase[r] \in {"loading", "over"} /\ r \in Requests
      BY <1>7 DEF IInv, TodoUnreported
    <3> QED
      BY <2>1, <2>2, <3>1
  <2>4. ParamsCleared'
    BY <2>1, <2>2 DEF IInv, ParamsCleared
  <2>5. FreedIsPulled'
    BY <1>4, <2>1, <2>2 DEF IInv, FreedIsPulled
  <2> QED
    BY <1>3, <2>3, <2>4, <2>5
<1>14. CASE TimePasses
  <2>1. UNCHANGED <<Reported, pPhase, hasParams, processed, dPhase, finishTime>>
    BY <1>14 DEF TimePasses, Reported
  <2>2. PICK p \in Requests : /\ finishTime[p] = horizon + 1 /\ Outstanding(p) = {}
                              /\ dPhase[p] \in {"ready", "over"} \/ p \notin hasParams
    BY <1>14 DEF TimePasses
  <2>3. p \notin hasParams \/ dPhase[p] = "over"
    BY <2>2 DEF IInv, ParamsCleared
  <2>4. \A x \in Requests : finishTime[x] <= horizon' => finishTime[x] <= horizon \/ x = p
    BY <1>1, <1>5, <1>6, <1>14, <2>2 DEF TimePasses, FinishOrder
  <2>5. FreedIsPulled'
    BY <1>4, <2>1, <2>2, <2>3, <2>4 DEF IInv, FreedIsPulled
  <2>6. TodoUnreported' /\ ParamsCleared'
    BY <1>4, <2>1 DEF IInv, TodoUnreported, ParamsCleared
  <2> QED
    BY <1>3, <2>5, <2>6
<1> QED
  BY <1>3, <1>8, <1>9, <1>10, <1>11, <1>12, <1>13, <1>14

LEMMA StartLoadStep ==
    ASSUME IInv, NEW r \in Requests, StartLoad(r)
    PROVE  IInv'
<1> USE DEF pvars, dvars, lvars
<1>1. TypeOK /\ TypeOK' /\ FinishOrder'
  BY TypeStep, OrderStep DEF IInv, Next
<1>2. /\ setup' = setup /\ Workers' = Workers /\ \A x : Parts(x)' = Parts(x)
      /\ WholeInStep(setup)'
  BY DEF StartLoad, Workers, Lanes, Parts, IInv, WholeInStep
<1>3. r \in hasParams /\ dPhase[r] = "waiting" /\ \A w \in Workers : r \notin Todo(w)
  BY DEF StartLoad, NeedsLoad, IInv, TodoUnreported
<1>4. \A w \in Workers :
         /\ queue'[w] = IF w[2] \in Parts(r) THEN Append(queue[w], r) ELSE queue[w]
         /\ pull'[w] = pull[w]
  BY DEF StartLoad, StartLoadKV
<1>5. \A w \in Workers :
         /\ ToSet(queue'[w]) = IF w[2] \in Parts(r) THEN ToSet(queue[w]) \cup {r}
                               ELSE ToSet(queue[w])
         /\ IsInjective(queue[w]) => IsInjective(queue'[w])
  <2> SUFFICES ASSUME NEW w \in Workers
               PROVE  /\ ToSet(queue'[w]) = IF w[2] \in Parts(r) THEN ToSet(queue[w]) \cup {r}
                                            ELSE ToSet(queue[w])
                      /\ IsInjective(queue[w]) => IsInjective(queue'[w])
    OBVIOUS
  <2>1. queue[w] \in Seq(Requests) /\ r \notin ToSet(queue[w])
    BY <1>1, <1>3 DEF TypeOK, Todo
  <2>2. /\ ToSet(Append(queue[w], r)) = ToSet(queue[w]) \cup {r}
        /\ IsInjective(queue[w]) => IsInjective(Append(queue[w], r))
    BY <2>1, QueueAppend
  <2> QED
    BY <1>4, <2>2
<1>6. \A w \in Workers : Todo(w)' = IF w[2] \in Parts(r) THEN Todo(w) \cup {r} ELSE Todo(w)
  BY <1>4, <1>5 DEF Todo
<1>7. OnceEach'
  <2>1. \A w \in Workers : pull[w] # NoTask => pull[w][1] # r
    BY <1>3 DEF Todo
  <2> QED
    BY <1>2, <1>4, <1>5, <2>1 DEF StartLoad, IInv, OnceEach
<1>8. SameLine'
  <2>1. ASSUME setup.mode = "single", NEW w \in Workers
        PROVE  Line(w)' = Append(Line(w), r)
    <3>1. queue[w] \in Seq(Requests) /\ queue'[w] = Append(queue[w], r)
      BY <1>1, <1>4, <2>1 DEF TypeOK, Parts, Workers
    <3>2. CASE pull[w] = NoTask
      BY <1>4, <3>1, <3>2 DEF Line
    <3>3. CASE pull[w] # NoTask
      <4>1. pull[w][1] \in Requests
        BY <1>1, <3>3, LaneTypes
      <4>2. /\ Line(w) = <<pull[w][1]>> \o queue[w]
            /\ Line(w)' = <<pull[w][1]>> \o Append(queue[w], r)
        BY <1>4, <3>1, <3>3 DEF Line
      <4>3. PICK x \in Requests, q \in Seq(Requests) : x = pull[w][1] /\ q = queue[w]
        BY <3>1, <4>1
      <4>4. <<x>> \o Append(q, r) = Append(<<x>> \o q, r)
        BY HeadThenAppend
      <4> QED
        BY <4>2, <4>3, <4>4
    <3> QED
      BY <3>2, <3>3
  <2> QED
    BY <1>2, <1>4, <2>1 DEF IInv, SameLine
<1>9. UNCHANGED <<Reported, pPhase, finishTime, horizon, alive>>
  BY DEF StartLoad, Reported
<1>10. /\ dPhase'[r] = "loading" /\ \A x \in Requests : x # r => dPhase'[x] = dPhase[x]
       /\ hasParams' = hasParams \ {r} /\ processed' = processed \cup {r}
  BY <1>1 DEF StartLoad, UpdateStateAfterAlloc, BuildConnectorMetadata, TypeOK
<1>11. r \notin Reported /\ pPhase[r] # "prefill"
  BY <1>3 DEF IInv, ParamsCleared
<1>12. TodoUnreported'
  <2>1. \A w \in Workers : \A x \in Todo(w) : x # r /\ dPhase'[x] = dPhase[x]
    <3> SUFFICES ASSUME NEW w \in Workers, NEW x \in Todo(w)
                 PROVE  x # r /\ dPhase'[x] = dPhase[x]
      OBVIOUS
    <3>1. x # r
      BY <1>3
    <3>2. dPhase' = [dPhase EXCEPT ![r] = "loading"]
      BY DEF StartLoad
    <3>3. x \in Requests
      <4>1. ToSet(queue[w]) \subseteq Requests
        BY <1>1, QueueElements DEF TypeOK
      <4> QED
        BY <1>1, <4>1, LaneTypes DEF Todo
    <3> QED
      BY <1>10, <3>1, <3>3
  <2> QED
    BY <1>2, <1>6, <1>9, <1>10, <1>11, <2>1 DEF IInv, TodoUnreported
<1>13. ParamsCleared'
  BY <1>9, <1>10, <1>11 DEF IInv, ParamsCleared
<1>14. FreedIsPulled'
  <2>1. ASSUME NEW x \in Requests, x # r
        PROVE  Outstanding(x)' = Outstanding(x)
    <3>1. \A w \in Workers : (x \in ToSet(queue'[w]) \/ pull'[w] = <<x, "pull">>)
                              <=> (x \in ToSet(queue[w]) \/ pull[w] = <<x, "pull">>)
      BY <1>4, <1>5, <2>1
    <3> QED
      BY <1>1, <1>9, <3>1 DEF Outstanding, TypeOK
  <2> QED
    BY <1>3, <1>9, <1>10, <2>1 DEF IInv, FreedIsPulled
<1> QED
  BY <1>1, <1>2, <1>7, <1>8, <1>12, <1>13, <1>14 DEF IInv

LEMMA BeginPullStep ==
    ASSUME IInv, NEW w \in Workers, BeginPull(w)
    PROVE  /\ IInv'
           /\ \A r \in Requests : Outstanding(r)' = Outstanding(r) /\ Stranded(r)' = Stranded(r)
<1> USE DEF pvars, dvars, lvars
<1>1. TypeOK /\ TypeOK' /\ FinishOrder'
  BY TypeStep, OrderStep DEF IInv, Next
<1>2. /\ setup' = setup /\ Workers' = Workers /\ \A x : Parts(x)' = Parts(x)
      /\ WholeInStep(setup)'
  BY DEF BeginPull, Workers, Lanes, Parts, IInv, WholeInStep
<1>3. /\ w \in alive /\ alive' = alive /\ pull[w] = NoTask
      /\ pull'[w] = <<Head(queue[w]), "pull">> /\ queue'[w] = Tail(queue[w])
      /\ \A v \in Workers : v # w => pull'[v] = pull[v] /\ queue'[v] = queue[v]
  BY <1>1 DEF BeginPull, TypeOK
<1>4. /\ queue[w] \in Seq(Requests) /\ queue[w] # <<>> /\ IsInjective(queue[w])
  BY <1>1 DEF BeginPull, TypeOK, IInv, OnceEach
<1>5. /\ Tail(queue[w]) \in Seq(Requests) /\ Head(queue[w]) \in Requests
      /\ ToSet(queue[w]) = ToSet(Tail(queue[w])) \cup {Head(queue[w])}
      /\ IsInjective(Tail(queue[w]))
      /\ ToSet(Tail(queue[w])) = ToSet(queue[w]) \ {Head(queue[w])}
  BY <1>4, QueueTail
<1>6. \A v \in Workers : Todo(v)' = Todo(v)
  BY <1>3, <1>5 DEF Todo, NoTask
<1>7. OnceEach'
  BY <1>2, <1>3, <1>5 DEF IInv, OnceEach
<1>8. SameLine'
  <2>1. Line(w)' = Line(w)
    <3>1. Line(w)' = <<Head(queue[w])>> \o Tail(queue[w])
      BY <1>3 DEF Line, NoTask
    <3>2. queue[w] = <<Head(queue[w])>> \o Tail(queue[w])
      BY <1>4, HeadTailProperties
    <3> QED
      BY <1>3, <3>1, <3>2 DEF Line
  <2>2. \A v \in Workers : Line(v)' = Line(v)
    BY <1>3, <2>1 DEF Line
  <2> QED
    BY <1>2, <1>3, <2>2 DEF IInv, SameLine
<1>9. UNCHANGED <<Reported, pPhase, finishTime, horizon, dPhase, hasParams, processed>>
  BY DEF BeginPull, Reported
<1>10. \A r \in Requests : Outstanding(r)' = Outstanding(r) /\ Stranded(r)' = Stranded(r)
  <2> SUFFICES ASSUME NEW r \in Requests
               PROVE  Outstanding(r)' = Outstanding(r) /\ Stranded(r)' = Stranded(r)
    OBVIOUS
  <2>1. \A v \in Workers : (r \in ToSet(queue'[v]) \/ pull'[v] = <<r, "pull">>)
                            <=> (r \in ToSet(queue[v]) \/ pull[v] = <<r, "pull">>)
    BY <1>3, <1>5 DEF NoTask
  <2> QED
    BY <1>1, <1>2, <1>3, <2>1 DEF Outstanding, Stranded, TypeOK
<1>11. TodoUnreported' /\ ParamsCleared' /\ FreedIsPulled'
  BY <1>2, <1>6, <1>9, <1>10 DEF IInv, TodoUnreported, ParamsCleared, FreedIsPulled
<1> QED
  BY <1>1, <1>2, <1>7, <1>8, <1>10, <1>11 DEF IInv

(* A pull that ends is reported when nothing of the request is left, or is    *)
(* not reported under its name.                                               *)
LEMMA PullEndsStep ==
    ASSUME IInv, NEW w \in Workers, EndPullAlone(w) \/ EndPullSync(w) \/ PullFails(w)
    PROVE  TaskEnds(w) /\ IInv'
<1> USE DEF pvars, dvars, lvars
<1>1. TypeOK /\ TypeOK' /\ FinishOrder'
  BY TypeStep, OrderStep DEF IInv, Next
<1>2. TaskEnds(w)
  <2>1. PullFails(w) /\ setup.mode = "single" => setup.ranks = {0}
    BY DEF PullFails, IInv, WholeInStep
  <2> QED
    BY <2>1 DEF EndPullAlone, EndPullSync, PullFails, TaskEnds
<1>3. /\ pull[w][1] \in Todo(w)
      /\ Workers' = Workers /\ \A r : Parts(r)' = Parts(r)
      /\ \A v \in Workers : Todo(v)' = IF v = w THEN Todo(v) \ {pull[w][1]} ELSE Todo(v)
      /\ WholeInStep(setup)' /\ OnceEach' /\ SameLine' /\ FreedIsPulled'
  BY <1>2, AfterTask
<1>4. /\ UNCHANGED <<hasParams, dPhase, pPhase, processed>>
      /\ pull[w][1] \in Requests /\ pull[w][1] \notin hasParams
  BY <1>1, <1>2, <1>3, LaneTypes DEF TaskEnds, IInv, TodoUnreported
<1>5. CASE EndPullAlone(w)
  <2>1. Reported' \subseteq Reported \cup {pull[w][1]}
    BY <1>5 DEF EndPullAlone, Reported
  <2>2. \A v \in Workers : pull[w][1] \in Todo(v) => v = w
    BY <1>1, <1>3, <1>4, <1>5, OneWorker DEF EndPullAlone, IInv, TodoUnreported
  <2>3. TodoUnreported'
    BY <1>3, <1>4, <2>1, <2>2 DEF IInv, TodoUnreported
  <2>4. ParamsCleared'
    BY <1>4, <2>1 DEF IInv, ParamsCleared
  <2> QED
    BY <1>1, <1>2, <1>3, <2>3, <2>4 DEF IInv
<1>6. CASE EndPullSync(w) \/ PullFails(w)
  <2>1. Reported' = Reported
    BY <1>6 DEF EndPullSync, PullFails, Reported
  <2>2. TodoUnreported' /\ ParamsCleared'
    BY <1>3, <1>4, <2>1 DEF IInv, TodoUnreported, ParamsCleared
  <2> QED
    BY <1>1, <1>2, <1>3, <2>2 DEF IInv
<1> QED
  BY <1>5, <1>6

LEMMA ReachBarrierStep ==
    ASSUME IInv, NEW w \in Workers, ReachBarrier(w)
    PROVE  /\ IInv'
           /\ \A r : Outstanding(r)' \subseteq Outstanding(r) /\ Stranded(r)' = Stranded(r)
<1> USE DEF pvars, dvars, lvars
<1>1. TypeOK /\ TypeOK' /\ FinishOrder'
  BY TypeStep, OrderStep DEF IInv, Next
<1>2. /\ setup' = setup /\ Workers' = Workers /\ \A x : Parts(x)' = Parts(x)
      /\ WholeInStep(setup)'
  BY DEF ReachBarrier, Workers, Lanes, Parts, IInv, WholeInStep
<1>3. /\ UNCHANGED <<queue, alive>> /\ pull[w] # NoTask
      /\ pull'[w] = <<pull[w][1], "barrier">> /\ setup.mode = "single"
      /\ \A v \in Workers : v # w => pull'[v] = pull[v]
  BY <1>1 DEF ReachBarrier, TypeOK
<1>4. \A v \in Workers : Todo(v)' = Todo(v) /\ Line(v)' = Line(v)
  BY <1>3 DEF Todo, Line, NoTask
<1>5. OnceEach' /\ SameLine'
  BY <1>2, <1>3, <1>4 DEF IInv, OnceEach, SameLine
<1>6. UNCHANGED <<Reported, pPhase, finishTime, horizon, dPhase, hasParams, processed>>
  BY DEF ReachBarrier, Reported
<1>7. \A r : Outstanding(r)' \subseteq Outstanding(r) /\ Stranded(r)' = Stranded(r)
  <2>1. \A v \in Workers : \A r : pull'[v] = <<r, "pull">> => pull[v] = <<r, "pull">>
    BY <1>3
  <2> QED
    BY <1>1, <1>2, <1>3, <2>1 DEF Outstanding, Stranded, TypeOK
<1>8. TodoUnreported' /\ ParamsCleared' /\ FreedIsPulled'
  BY <1>2, <1>4, <1>6, <1>7 DEF IInv, TodoUnreported, ParamsCleared, FreedIsPulled
<1> QED
  BY <1>1, <1>2, <1>5, <1>7, <1>8 DEF IInv

(* The ranks that meet at the barrier hold tasks of the same request.         *)
LEMMA PassBarrierStep ==
    ASSUME IInv, PassBarrier
    PROVE  /\ IInv'
           /\ \A r : Outstanding(r)' = Outstanding(r) /\ Stranded(r)' = Stranded(r)
<1> USE DEF pvars, dvars, lvars
<1>1. TypeOK /\ TypeOK' /\ FinishOrder'
  BY TypeStep, OrderStep DEF IInv, Next
<1>2. /\ setup' = setup /\ Workers' = Workers /\ \A x : Parts(x)' = Parts(x)
      /\ WholeInStep(setup)'
  BY DEF PassBarrier, Workers, Lanes, Parts, IInv, WholeInStep
<1>3. PICK w \in Workers : inbox' = inbox \cup {pull[w][1]} /\ recving' = recving \cup {pull[w][1]}
  BY DEF PassBarrier
<1>4. /\ UNCHANGED <<queue, alive>>
      /\ \A v \in Workers : /\ pull[v] # NoTask /\ pull[v][2] = "barrier"
                            /\ pull'[v] = NoTask
  BY DEF PassBarrier
<1>5. setup.mode = "single"
  BY <1>4 DEF IInv, SameLine
<1>6. \A v \in Workers : pull[v][1] = pull[w][1] /\ queue[v] = queue[w]
  <2> SUFFICES ASSUME NEW v \in Workers
               PROVE  pull[v][1] = pull[w][1] /\ queue[v] = queue[w]
    OBVIOUS
  <2>1. <<pull[v][1]>> \o queue[v] = <<pull[w][1]>> \o queue[w]
    BY <1>4, <1>5 DEF IInv, SameLine, Line
  <2>2. /\ pull[v][1] \in Requests /\ pull[w][1] \in Requests
        /\ queue[v] \in Seq(Requests) /\ queue[w] \in Seq(Requests)
    BY <1>1, <1>4, LaneTypes DEF TypeOK
  <2>3. PICK x \in Requests, y \in Requests, p \in Seq(Requests), q \in Seq(Requests) :
           x = pull[v][1] /\ y = pull[w][1] /\ p = queue[v] /\ q = queue[w]
    BY <2>2
  <2>4. <<x>> \o p = <<y>> \o q
    BY <2>1, <2>3
  <2>5. x = y /\ p = q
    BY <2>4, QueueHead
  <2> QED
    BY <2>3, <2>5
<1>7. \A v \in Workers : Todo(v)' = Todo(v) \ {pull[w][1]}
  BY <1>4, <1>6 DEF IInv, OnceEach, Todo
<1>8. Reported' \subseteq Reported \cup {pull[w][1]}
  BY <1>3 DEF PassBarrier, Reported
<1>9. /\ UNCHANGED <<pPhase, finishTime, horizon, dPhase, hasParams, processed>>
      /\ pull[w][1] \in Requests /\ pull[w][1] \notin hasParams
  BY <1>1, <1>4, LaneTypes DEF PassBarrier, IInv, TodoUnreported, Todo
<1>10. \A r : Outstanding(r)' = Outstanding(r) /\ Stranded(r)' = Stranded(r)
  <2>1. \A v \in Workers : \A r : pull'[v] # <<r, "pull">> /\ pull[v] # <<r, "pull">>
    BY <1>4 DEF NoTask
  <2>2. alive \subseteq Workers
    BY <1>1 DEF TypeOK
  <2>3. \A r : Outstanding(r)' = Outstanding(r)
    <3> SUFFICES ASSUME NEW r
                 PROVE  Outstanding(r)' = Outstanding(r)
      OBVIOUS
    <3>1. \A v \in alive : (r \in ToSet(queue'[v]) \/ pull'[v] = <<r, "pull">>)
                            <=> (r \in ToSet(queue[v]) \/ pull[v] = <<r, "pull">>)
      BY <1>4, <2>1, <2>2
    <3>2. alive' = alive
      BY <1>4
    <3> QED
      BY <3>1, <3>2 DEF Outstanding
  <2>4. \A r : Stranded(r)' = Stranded(r)
    BY <1>2, <1>4 DEF Stranded
  <2> QED
    BY <2>3, <2>4
<1>11. OnceEach'
  BY <1>2, <1>4 DEF IInv, OnceEach
<1>12. SameLine'
  BY <1>2, <1>4, <1>6 DEF SameLine, Line
<1>13. TodoUnreported' /\ ParamsCleared'
  BY <1>2, <1>7, <1>8, <1>9 DEF IInv, TodoUnreported, ParamsCleared
<1>14. FreedIsPulled'
  BY <1>9, <1>10 DEF IInv, FreedIsPulled
<1> QED
  BY <1>1, <1>2, <1>10, <1>11, <1>12, <1>13, <1>14 DEF IInv

LEMMA NextInv ==
    ASSUME IInv, [Next]_vars
    PROVE  IInv'
<1>1. CASE UNCHANGED vars
  <2>1. UNCHANGED <<setup, queue, pull, alive>>
    BY <1>1 DEF vars, lvars
  <2>2. TypeOK' /\ FinishOrder' /\ WholeInStep(setup)' /\ OnceEach' /\ SameLine'
    BY <2>1, TypeStep, OrderStep, LanesKept DEF IInv
  <2>3. UNCHANGED <<Reported, pPhase, finishTime, horizon, dPhase, hasParams, processed>>
    BY <1>1 DEF vars, pvars, dvars, Reported
  <2>4. TodoUnreported' /\ ParamsCleared' /\ FreedIsPulled'
    BY <2>1, <2>3, LanesKept DEF IInv, TodoUnreported, ParamsCleared, FreedIsPulled
  <2> QED
    BY <2>2, <2>4 DEF IInv
<1>2. CASE Next
  BY <1>2, EngineSteps, StartLoadStep, BeginPullStep, PullEndsStep, ReachBarrierStep,
     PassBarrierStep DEF Next
<1> QED
  BY <1>1, <1>2

(* Where each request is pulled whole by one lane of each rank, and ranks     *)
(* that meet at a barrier do not fail.                                        *)
THEOREM InductiveInvariant ==
    ASSUME \A s \in Setups : WholeInStep(s)
    PROVE  Spec => []IInv
<1>1. Init => IInv
  BY InitInv
<1> QED
  BY <1>1, NextInv, PTL DEF Spec

(* Under that condition D computes with r, and P is told that r was pulled,   *)
(* only when no rank has a part of r left to pull.                            *)
THEOREM PulledWhenDone ==
    ASSUME \A s \in Setups : WholeInStep(s)
    PROVE  Spec => []DoneMeansPulled
<1>1. ASSUME IInv
      PROVE  DoneMeansPulled
  <2> SUFFICES ASSUME NEW r \in Requests,
                      dPhase[r] = "ready" \/ r \in inbox \cup receiveList \cup recving
               PROVE  Outstanding(r) = {}
    BY DEF DoneMeansPulled
  <2>1. dPhase[r] = "ready" \/ r \in Reported
    BY KVTransferAssumption DEF Reported
  <2>2. \A w \in Workers : r \notin Todo(w)
    BY <1>1, <2>1 DEF IInv, TodoUnreported
  <2> QED
    BY <1>1, <2>2, NothingTodo DEF IInv, TypeOK
<1> QED
  BY <1>1, InductiveInvariant, PTL

(* Under that condition P holds the blocks of a request for as long as a lane *)
(* has a pull of it ahead or under way.                                       *)
THEOREM PullsOnlyHeld ==
    ASSUME \A s \in Setups : WholeInStep(s)
    PROVE  Spec => [](\A r \in Requests : Outstanding(r) # {} => pPhase[r] = "held")
<1>1. ASSUME IInv, NEW r \in Requests, Outstanding(r) # {}
      PROVE  pPhase[r] = "held"
  <2>1. pPhase[r] # "free"
    BY <1>1 DEF IInv, FreedIsPulled
  <2>2. \E w \in Workers : r \in Todo(w)
    BY <1>1, NothingTodo DEF IInv, TypeOK
  <2>3. r \notin hasParams
    BY <1>1, <2>2 DEF IInv, TodoUnreported
  <2>4. pPhase[r] # "prefill"
    BY <1>1, <2>3 DEF IInv, ParamsCleared
  <2> QED
    BY <1>1, <2>1, <2>4 DEF IInv, TypeOK
<1>2. IInv => \A r \in Requests : Outstanding(r) # {} => pPhase[r] = "held"
  BY <1>1
<1> QED
  BY <1>2, InductiveInvariant, PTL

----------------------------------------------------------------------------
(* The refinement of KVHandoff, under the same condition on the setups *)

(* What a state of the connector is as a state of the hand-over.              *)
DstOf(r) == IF Outstanding(r) # {} THEN "reading"
            ELSE IF Stranded(r) THEN "gone"
            ELSE IF r \notin hasParams THEN "read"
            ELSE IF dPhase[r] = "over" THEN "gone" ELSE "none"
SrcBar == [r \in Requests |-> IF pPhase[r] = "prefill" THEN "computing" ELSE pPhase[r]]
DstBar == [r \in Requests |-> DstOf(r)]
UseBar == {r \in Requests : dPhase[r] = "ready"}

(* The steps of the hand-over in terms of the mapping.                        *)
LEMMA StepKinds ==
    /\ UNCHANGED <<SrcBar, DstBar, UseBar>> => UNCHANGED Handoff!hvars
    /\ \A r \in Requests :
          SrcBar[r] = "computing" /\ SrcBar' = [SrcBar EXCEPT ![r] = "held"]
            /\ UNCHANGED <<DstBar, UseBar>> => Handoff!Hold(r)
    /\ \A r \in Requests :
          SrcBar[r] = "computing" /\ SrcBar' = [SrcBar EXCEPT ![r] = "free"]
            /\ DstBar' = [DstBar EXCEPT ![r] = "gone"]
            /\ UNCHANGED UseBar => Handoff!Drop(r)
    /\ \A r \in Requests :
          SrcBar[r] = "held" /\ DstBar[r] = "none"
            /\ DstBar' = [DstBar EXCEPT ![r] = "reading"]
            /\ UNCHANGED <<SrcBar, UseBar>> => Handoff!Read(r)
    /\ \A r \in Requests :
          DstBar[r] = "none" /\ DstBar' = [DstBar EXCEPT ![r] = "gone"]
            /\ UNCHANGED <<SrcBar, UseBar>> => Handoff!GiveUp(r)
    /\ \A r \in Requests :
          UseBar' = UseBar \ {r} /\ UNCHANGED <<SrcBar, DstBar>> => Handoff!StopUse(r)
    /\ \A S \in SUBSET Requests :
          S # {} /\ (\A r \in S : DstBar[r] = "read") /\ UseBar' = UseBar \cup S
            /\ UNCHANGED <<SrcBar, DstBar>> => Handoff!Use(S)
    /\ \A S \in SUBSET Requests :
          S # {} /\ (\A r \in S : SrcBar[r] = "held" /\ DstBar[r] \in {"read", "gone"})
            /\ SrcBar' = [r \in Requests |-> IF r \in S THEN "free" ELSE SrcBar[r]]
            /\ UNCHANGED <<DstBar, UseBar>> => Handoff!Release(S)
    /\ \A S, lost \in SUBSET Requests :
          S \cup lost # {} /\ (\A r \in S \cup lost : DstBar[r] = "reading")
            /\ DstBar' = [r \in Requests |-> IF r \in S THEN "read"
                                             ELSE IF r \in lost THEN "gone" ELSE DstBar[r]]
            /\ UNCHANGED <<SrcBar, UseBar>> => Handoff!ReadDone(S, lost)
<1> USE DEF SrcBar, DstBar, DstOf, UseBar
<1>1. UNCHANGED <<SrcBar, DstBar, UseBar>> => UNCHANGED Handoff!hvars
  BY DEF Handoff!hvars
<1>2. ASSUME NEW r \in Requests
      PROVE  SrcBar[r] = "computing" /\ SrcBar' = [SrcBar EXCEPT ![r] = "held"]
               /\ UNCHANGED <<DstBar, UseBar>> => Handoff!Hold(r)
  BY DEF Handoff!Hold
<1>3. ASSUME NEW r \in Requests
      PROVE  SrcBar[r] = "computing" /\ SrcBar' = [SrcBar EXCEPT ![r] = "free"]
               /\ DstBar' = [DstBar EXCEPT ![r] = "gone"]
               /\ UNCHANGED UseBar => Handoff!Drop(r)
  BY DEF Handoff!Drop
<1>4. ASSUME NEW r \in Requests
      PROVE  SrcBar[r] = "held" /\ DstBar[r] = "none"
               /\ DstBar' = [DstBar EXCEPT ![r] = "reading"]
               /\ UNCHANGED <<SrcBar, UseBar>> => Handoff!Read(r)
  BY DEF Handoff!Read
<1>5. ASSUME NEW r \in Requests
      PROVE  DstBar[r] = "none" /\ DstBar' = [DstBar EXCEPT ![r] = "gone"]
               /\ UNCHANGED <<SrcBar, UseBar>> => Handoff!GiveUp(r)
  BY DEF Handoff!GiveUp
<1>6. ASSUME NEW r \in Requests
      PROVE  UseBar' = UseBar \ {r} /\ UNCHANGED <<SrcBar, DstBar>>
               => Handoff!StopUse(r)
  BY DEF Handoff!StopUse
<1>7. ASSUME NEW S \in SUBSET Requests
      PROVE  S # {} /\ (\A r \in S : DstBar[r] = "read") /\ UseBar' = UseBar \cup S
               /\ UNCHANGED <<SrcBar, DstBar>> => Handoff!Use(S)
  BY DEF Handoff!Use
<1>8. ASSUME NEW S \in SUBSET Requests
      PROVE  S # {} /\ (\A r \in S : SrcBar[r] = "held" /\ DstBar[r] \in {"read", "gone"})
               /\ SrcBar' = [r \in Requests |-> IF r \in S THEN "free" ELSE SrcBar[r]]
               /\ UNCHANGED <<DstBar, UseBar>> => Handoff!Release(S)
  BY DEF Handoff!Release
<1>9. ASSUME NEW S \in SUBSET Requests, NEW lost \in SUBSET Requests
      PROVE  S \cup lost # {} /\ (\A r \in S \cup lost : DstBar[r] = "reading")
               /\ DstBar' = [r \in Requests |-> IF r \in S THEN "read"
                                                ELSE IF r \in lost THEN "gone" ELSE DstBar[r]]
               /\ UNCHANGED <<SrcBar, UseBar>> => Handoff!ReadDone(S, lost)
  BY DEF Handoff!ReadDone
<1> QED
  BY <1>1, <1>2, <1>3, <1>4, <1>5, <1>6, <1>7, <1>8, <1>9

(* Before its load a request is on no lane.                                   *)
LEMMA BeforeLoad ==
    ASSUME IInv, NEW r \in Requests, r \in hasParams
    PROVE  /\ \A w \in Workers : r \notin Todo(w)
           /\ Outstanding(r) = {} /\ ~Stranded(r)
           /\ DstBar[r] = IF dPhase[r] = "over" THEN "gone" ELSE "none"
<1>1. \A w \in Workers : r \notin Todo(w)
  BY DEF IInv, TodoUnreported
<1>2. Outstanding(r) = {} /\ ~Stranded(r)
  BY <1>1, NothingTodo DEF IInv, TypeOK
<1> QED
  BY <1>1, <1>2 DEF DstBar, DstOf

(* After it, and on no lane any more, it has been read.                       *)
LEMMA AfterLoad ==
    ASSUME IInv, NEW r \in Requests, r \notin hasParams, r \in Reported
                                       \/ dPhase[r] \in {"waiting", "ready"}
    PROVE  DstBar[r] = "read"
<1>1. \A w \in Workers : r \notin Todo(w)
  BY DEF IInv, TodoUnreported
<1>2. Outstanding(r) = {} /\ ~Stranded(r)
  BY <1>1, NothingTodo DEF IInv, TypeOK
<1> QED
  BY <1>2 DEF DstBar, DstOf

(* A step that leaves P's and D's phases alone, and at most ends pulls, is    *)
(* the end of their reads; what a dead lane leaves undone is gone.            *)
LEMMA PullsEnd ==
    ASSUME IInv, UNCHANGED <<pPhase, dPhase, hasParams>>,
           \A r \in Requests :
              /\ Outstanding(r)' \subseteq Outstanding(r)
              /\ Outstanding(r) = {} => Stranded(r)' = Stranded(r)
    PROVE  [Handoff!HNext]_(Handoff!hvars)
<1> DEFINE E    == {r \in Requests : Outstanding(r) # {} /\ Outstanding(r)' = {}}
           S    == {r \in E : ~Stranded(r)'}
           lost == {r \in E : Stranded(r)'}
<1>1. UNCHANGED <<SrcBar, UseBar>>
  BY DEF SrcBar, UseBar
<1>2. \A r \in Requests : Outstanding(r) # {} => r \notin hasParams
  BY BeforeLoad
<1>3. \A r \in Requests : DstOf(r)' = IF r \in S THEN "read"
                                      ELSE IF r \in lost THEN "gone" ELSE DstBar[r]
  BY <1>2 DEF DstBar, DstOf
<1>4. DstBar' = [r \in Requests |-> IF r \in S THEN "read"
                                    ELSE IF r \in lost THEN "gone" ELSE DstBar[r]]
  BY <1>3 DEF DstBar
<1>5. \A r \in S \cup lost : DstBar[r] = "reading"
  BY DEF DstBar, DstOf
<1>6. CASE S \cup lost = {}
  <2>1. \A r \in Requests : DstOf(r)' = DstBar[r]
    BY <1>3, <1>6
  <2>2. UNCHANGED DstBar
    BY <2>1 DEF DstBar
  <2> QED
    BY <1>1, <2>2, StepKinds
<1>7. CASE S \cup lost # {}
  <2>1. PICK T \in SUBSET Requests, L \in SUBSET Requests : T = S /\ L = lost
    OBVIOUS
  <2> HIDE DEF S, lost
  <2>2. Handoff!ReadDone(T, L)
    BY <1>1, <1>4, <1>5, <1>7, <2>1, StepKinds
  <2> QED
    BY <2>2 DEF Handoff!HNext
<1> QED
  BY <1>6, <1>7

LEMMA InitRefines ==
    ASSUME Init, \A s \in Setups : WholeInStep(s)
    PROVE  Handoff!HInit
<1>1. \A r \in Requests : DstOf(r) = "none"
  BY InitInv, BeforeLoad DEF Init, DstBar
<1>2. SrcBar = [r \in Requests |-> "computing"]
  BY DEF Init, SrcBar
<1>3. DstBar = [r \in Requests |-> "none"]
  BY <1>1 DEF DstBar
<1>4. UseBar = {}
  BY DEF Init, UseBar
<1> QED
  BY <1>2, <1>3, <1>4 DEF Handoff!HInit, SrcBar, DstBar, DstOf, UseBar

(* Steps that leave the lanes alone, and what D knows of the parameters.      *)
LEMMA DstKept ==
    ASSUME IInv, UNCHANGED <<setup, queue, pull, alive, hasParams>>, NEW r \in Requests
    PROVE  /\ Outstanding(r)' = Outstanding(r)
           /\ r \notin hasParams \/ (dPhase'[r] = "over" <=> dPhase[r] = "over")
                 => DstOf(r)' = DstOf(r)
  BY LanesKept DEF DstOf

LEMMA NextRefines ==
    ASSUME IInv, IInv', [Next]_vars
    PROVE  [Handoff!HNext]_(Handoff!hvars)
<1> USE DEF pvars, dvars, lvars
<1>1. TypeOK /\ TypeOK'
  BY DEF IInv
<1>2. ASSUME NEW r \in Requests, FinishPrefill(r)
      PROVE  Handoff!HNext
  <2>1. UNCHANGED <<DstBar, UseBar>>
    BY <1>2, DstKept DEF FinishPrefill, DstBar, UseBar
  <2>2. SrcBar[r] = "computing" /\ SrcBar' = [SrcBar EXCEPT ![r] = "held"]
    BY <1>1, <1>2 DEF FinishPrefill, SrcBar, TypeOK
  <2> QED
    BY <2>1, <2>2, StepKinds DEF Handoff!HNext
<1>3. ASSUME NEW r \in Requests, StopPrefill(r)
      PROVE  Handoff!HNext
  <2>1. SrcBar[r] = "computing" /\ SrcBar' = [SrcBar EXCEPT ![r] = "free"]
    BY <1>1, <1>3 DEF StopPrefill, SrcBar, TypeOK
  <2>2. dPhase[r] = "idle" /\ r \in hasParams
    BY <1>3 DEF StopPrefill, IInv, ParamsCleared
  <2>3. /\ UNCHANGED <<setup, queue, pull, alive, hasParams>> /\ dPhase'[r] = "over"
        /\ \A x \in Requests : x # r => dPhase'[x] = dPhase[x]
    BY <1>1, <1>3 DEF StopPrefill, TypeOK
  <2>4. DstBar'[r] = "gone"
    BY <2>2, <2>3, BeforeLoad, LanesKept DEF DstBar, DstOf
  <2>5. \A x \in Requests : DstOf(x)' = IF x = r THEN "gone" ELSE DstOf(x)
    BY <2>3, <2>4, DstKept DEF DstBar
  <2>6. DstBar' = [DstBar EXCEPT ![r] = "gone"]
    BY <2>5 DEF DstBar
  <2>7. UNCHANGED UseBar
    BY <2>2, <2>3 DEF UseBar
  <2> QED
    BY <2>1, <2>6, <2>7, StepKinds DEF Handoff!HNext
<1>4. ASSUME NEW r \in Requests, Arrive(r)
      PROVE  [Handoff!HNext]_(Handoff!hvars)
  <2>1. /\ UNCHANGED <<setup, queue, pull, alive, hasParams, pPhase>>
        /\ dPhase[r] = "idle" /\ dPhase'[r] \in {"waiting", "over"} /\ r \in hasParams
        /\ \A x \in Requests : x # r => dPhase'[x] = dPhase[x]
    BY <1>1, <1>4 DEF Arrive, TypeOK, IInv, ParamsCleared
  <2>2. UNCHANGED <<SrcBar, UseBar>>
    BY <2>1 DEF SrcBar, UseBar
  <2>3. DstBar[r] = "none"
    BY <2>1, BeforeLoad
  <2>4. CASE dPhase'[r] = "waiting"
    <3>1. \A x \in Requests : DstOf(x)' = DstOf(x)
      BY <2>1, <2>4, DstKept
    <3> QED
      BY <2>2, <3>1, StepKinds DEF DstBar
  <2>5. CASE dPhase'[r] = "over"
    <3>1. DstOf(r)' = "gone"
      BY <2>1, <2>5, BeforeLoad, LanesKept DEF DstOf
    <3>2. \A x \in Requests : DstOf(x)' = IF x = r THEN "gone" ELSE DstOf(x)
      BY <2>1, <3>1, DstKept
    <3>3. DstBar' = [DstBar EXCEPT ![r] = "gone"]
      BY <3>2 DEF DstBar
    <3> QED
      BY <2>2, <2>3, <3>3, StepKinds DEF Handoff!HNext
  <2> QED
    BY <2>1, <2>4, <2>5
<1>5. ASSUME NEW r \in Requests, StartLoad(r)
      PROVE  Handoff!HNext
  <2>1. /\ UNCHANGED <<setup, pull, alive, pPhase>> /\ r \in hasParams
        /\ dPhase[r] = "waiting" /\ dPhase'[r] = "loading" /\ hasParams' = hasParams \ {r}
        /\ \A x \in Requests : x # r => dPhase'[x] = dPhase[x]
    BY <1>1, <1>5 DEF StartLoad, NeedsLoad, BuildConnectorMetadata, TypeOK
  <2>2. UNCHANGED <<SrcBar, UseBar>>
    BY <2>1 DEF SrcBar, UseBar
  <2>3. DstBar[r] = "none"
    BY <2>1, BeforeLoad
  <2>4. SrcBar[r] = "held"
    BY <1>1, <2>1 DEF IInv, ParamsCleared, FreedIsPulled, SrcBar, TypeOK
  <2>5. Workers' = Workers /\ alive \subseteq Workers
    BY <1>1, <2>1 DEF Workers, Lanes, TypeOK
  <2>6. \A w \in Workers :
           ToSet(queue'[w]) = IF w[2] \in Parts(r) THEN ToSet(queue[w]) \cup {r}
                              ELSE ToSet(queue[w])
    <3> SUFFICES ASSUME NEW w \in Workers
                 PROVE  ToSet(queue'[w]) = IF w[2] \in Parts(r) THEN ToSet(queue[w]) \cup {r}
                                           ELSE ToSet(queue[w])
      OBVIOUS
    <3>1. queue[w] \in Seq(Requests)
      BY <1>1 DEF TypeOK
    <3>2. ToSet(Append(queue[w], r)) = ToSet(queue[w]) \cup {r}
      BY <3>1, QueueAppend
    <3> QED
      BY <1>5, <3>2 DEF StartLoad, StartLoadKV
  <2>7. ASSUME NEW x \in Requests, x # r
        PROVE  DstOf(x)' = DstOf(x)
    <3>1. \A w \in Workers : (x \in ToSet(queue'[w]) <=> x \in ToSet(queue[w]))
      BY <2>6, <2>7
    <3>2. Outstanding(x)' = Outstanding(x) /\ Stranded(x)' = Stranded(x)
      BY <2>1, <2>5, <3>1 DEF Outstanding, Stranded
    <3> QED
      BY <2>1, <2>7, <3>2 DEF DstOf
  <2>8. DstOf(r)' \in {"reading", "gone"}
    <3>1. PICK w \in Workers : w[2] \in Parts(r)
      <4>1. PICK l \in Lanes : Parts(r) = {l}
        BY <1>1, OnePart DEF IInv
      <4>2. <<0, l>> \in Workers
        BY <1>1, SetupType DEF Workers, TypeOK
      <4> QED
        BY <4>1, <4>2
    <3>2. r \in ToSet(queue'[w])
      BY <2>6, <3>1
    <3>3. w \in Outstanding(r)' \/ Stranded(r)'
      BY <2>1, <2>5, <3>1, <3>2 DEF Outstanding, Stranded
    <3> QED
      BY <3>3 DEF DstOf
  <2>9. \A x \in Requests : DstOf(x)' = IF x = r THEN DstOf(r)' ELSE DstOf(x)
    BY <2>7
  <2>10. CASE DstOf(r)' = "reading"
    <3>1. DstBar' = [DstBar EXCEPT ![r] = "reading"]
      BY <2>9, <2>10 DEF DstBar
    <3> QED
      BY <2>2, <2>3, <2>4, <3>1, StepKinds DEF Handoff!HNext
  <2>11. CASE DstOf(r)' = "gone"
    <3>1. DstBar' = [DstBar EXCEPT ![r] = "gone"]
      BY <2>9, <2>11 DEF DstBar
    <3> QED
      BY <2>2, <2>3, <3>1, StepKinds DEF Handoff!HNext
  <2> QED
    BY <2>8, <2>10, <2>11
<1>6. ASSUME NEW r \in Requests, Preempt(r)
      PROVE  Handoff!HNext
  <2>1. /\ UNCHANGED <<setup, queue, pull, alive, hasParams, pPhase>>
        /\ dPhase[r] = "ready" /\ dPhase' = [dPhase EXCEPT ![r] = "waiting"]
    BY <1>6 DEF Preempt
  <2>2. UseBar' = UseBar \ {r}
    BY <1>1, <2>1 DEF UseBar, TypeOK
  <2>3. \A x \in Requests : DstOf(x)' = DstOf(x)
    BY <1>1, <2>1, DstKept DEF TypeOK
  <2>4. UNCHANGED <<SrcBar, DstBar>>
    BY <2>1, <2>3 DEF SrcBar, DstBar
  <2> QED
    BY <2>2, <2>4, StepKinds DEF Handoff!HNext
<1>7. ASSUME NEW r \in Requests, Resume(r)
      PROVE  Handoff!HNext
  <2>1. /\ UNCHANGED <<setup, queue, pull, alive, hasParams, pPhase>>
        /\ dPhase[r] = "waiting" /\ dPhase' = [dPhase EXCEPT ![r] = "ready"]
        /\ r \notin hasParams
    BY <1>7 DEF Resume, NeedsLoad, IInv, ParamsCleared
  <2>2. DstBar[r] = "read"
    BY <2>1, AfterLoad
  <2>3. UseBar' = UseBar \cup {r}
    BY <1>1, <2>1 DEF UseBar, TypeOK
  <2>4. \A x \in Requests : DstOf(x)' = DstOf(x)
    BY <1>1, <2>1, DstKept DEF TypeOK
  <2>5. UNCHANGED <<SrcBar, DstBar>>
    BY <2>1, <2>4 DEF SrcBar, DstBar
  <2>6. PICK T \in SUBSET Requests : T = {r}
    OBVIOUS
  <2>7. Handoff!Use(T)
    BY <2>2, <2>3, <2>5, <2>6, StepKinds
  <2> QED
    BY <2>7 DEF Handoff!HNext
<1>8. ASSUME NEW r \in Requests, NEW aborted \in BOOLEAN, EndRequest(r, aborted)
      PROVE  [Handoff!HNext]_(Handoff!hvars)
  <2>1. /\ UNCHANGED <<setup, queue, pull, alive, hasParams, pPhase>>
        /\ dPhase[r] \in {"waiting", "loading", "ready"}
        /\ dPhase' = [dPhase EXCEPT ![r] = "over"]
    BY <1>8 DEF EndRequest
  <2>2. UNCHANGED SrcBar /\ UseBar' = UseBar \ {r}
    BY <1>1, <2>1 DEF SrcBar, UseBar, TypeOK
  <2>3. CASE r \notin hasParams
    <3>1. \A x \in Requests : DstOf(x)' = DstOf(x)
      BY <1>1, <2>1, <2>3, DstKept DEF TypeOK
    <3>2. UNCHANGED DstBar
      BY <3>1 DEF DstBar
    <3> QED
      BY <2>2, <3>2, StepKinds DEF Handoff!HNext
  <2>4. CASE r \in hasParams
    <3>1. dPhase[r] = "waiting" /\ DstBar[r] = "none"
      BY <2>1, <2>4, BeforeLoad DEF IInv, ParamsCleared
    <3>2. UNCHANGED UseBar
      BY <2>2, <3>1 DEF UseBar
    <3>3. DstOf(r)' = "gone"
      BY <1>1, <2>1, <2>4, BeforeLoad, LanesKept DEF DstOf, TypeOK
    <3>4. \A x \in Requests : DstOf(x)' = IF x = r THEN "gone" ELSE DstOf(x)
      BY <1>1, <2>1, <3>3, DstKept DEF TypeOK
    <3>5. DstBar' = [DstBar EXCEPT ![r] = "gone"]
      BY <3>4 DEF DstBar
    <3> QED
      BY <2>2, <3>1, <3>2, <3>5, StepKinds DEF Handoff!HNext
  <2> QED
    BY <2>3, <2>4
<1>9. ASSUME UNCHANGED <<setup, queue, pull, alive, hasParams, pPhase, dPhase>>
      PROVE  UNCHANGED Handoff!hvars
  <2>1. \A x \in Requests : DstOf(x)' = DstOf(x)
    BY <1>9, DstKept
  <2>2. UNCHANGED <<SrcBar, DstBar, UseBar>>
    BY <1>9, <2>1 DEF SrcBar, DstBar, UseBar
  <2> QED
    BY <2>2, StepKinds
<1>10. CASE (\E m \in inbox : Listen(m)) \/ TimePasses \/ UNCHANGED vars
  BY <1>9, <1>10 DEF Listen, TimePasses, vars
<1>11. CASE PStep
  <2> DEFINE done == Expired(Dict) \cup receiveList
             S    == {r \in Requests : r \in done /\ SrcBar[r] = "held"}
  <2>1. /\ UNCHANGED <<setup, queue, pull, alive, hasParams, dPhase>>
        /\ pPhase' = [r \in Requests |-> IF r \in done THEN "free" ELSE pPhase[r]]
    BY <1>11 DEF PStep, Dict
  <2>2. \A x \in Requests : DstOf(x)' = DstOf(x)
    BY <2>1, DstKept
  <2>3. UNCHANGED <<DstBar, UseBar>>
    BY <2>1, <2>2 DEF DstBar, UseBar
  <2>4. \A r \in Requests : r \in done => pPhase[r] # "prefill"
    <3>1. \A r \in Requests : r \in receiveList => pPhase[r] # "prefill"
      BY KVTransferAssumption DEF Reported, IInv, ParamsCleared
    <3>2. \A r \in Requests : r \in Expired(Dict) => pPhase[r] # "prefill"
      BY <1>1, DictType DEF Expired, IInv, FinishOrder
    <3> QED
      BY <3>1, <3>2
  <2>5. \A r \in S : SrcBar[r] = "held" /\ DstBar[r] \in {"read", "gone"}
    <3> SUFFICES ASSUME NEW r \in S
                 PROVE  DstBar[r] \in {"read", "gone"}
      OBVIOUS
    <3>1. pPhase'[r] = "free"
      BY <2>1
    <3>2. Outstanding(r)' = {} /\ (r \notin hasParams \/ dPhase[r] = "over")
      BY <2>1, <3>1 DEF IInv, FreedIsPulled
    <3>3. Outstanding(r) = {}
      BY <2>1, <3>2, DstKept
    <3> QED
      BY <3>2, <3>3 DEF DstBar, DstOf
  <2>6. SrcBar' = [r \in Requests |-> IF r \in S THEN "free" ELSE SrcBar[r]]
    <3>1. \A r \in Requests : pPhase[r] \in {"prefill", "held", "free"}
      BY <1>1 DEF TypeOK
    <3>2. \A r \in Requests : (IF pPhase[r] = "prefill" THEN "computing" ELSE pPhase[r])'
                               = IF r \in S THEN "free" ELSE SrcBar[r]
      BY <2>1, <2>4, <3>1 DEF SrcBar
    <3> QED
      BY <3>2 DEF SrcBar
  <2>7. CASE S = {}
    <3>1. \A r \in Requests : SrcBar'[r] = SrcBar[r]
      BY <2>6, <2>7
    <3>2. SrcBar' = SrcBar
      BY <3>1 DEF SrcBar
    <3> QED
      BY <2>3, <3>2, StepKinds
  <2>8. CASE S # {}
    <3>1. PICK T \in SUBSET Requests : T = S
      OBVIOUS
    <3> HIDE DEF S
    <3>2. Handoff!Release(T)
      BY <2>3, <2>5, <2>6, <2>8, <3>1, StepKinds
    <3> QED
      BY <3>2 DEF Handoff!HNext
  <2> QED
    BY <2>7, <2>8
<1>12. ASSUME NEW w \in Workers, BeginPull(w)
       PROVE  [Handoff!HNext]_(Handoff!hvars)
  BY <1>12, BeginPullStep, PullsEnd DEF BeginPull
<1>13. ASSUME NEW w \in Workers, ReachBarrier(w)
       PROVE  [Handoff!HNext]_(Handoff!hvars)
  BY <1>13, ReachBarrierStep, PullsEnd DEF ReachBarrier
<1>14. CASE PassBarrier
  BY <1>14, PassBarrierStep, PullsEnd DEF PassBarrier
<1>15. ASSUME NEW w \in Workers, EndPullAlone(w) \/ EndPullSync(w) \/ PullFails(w)
       PROVE  [Handoff!HNext]_(Handoff!hvars)
  <2>1. TaskEnds(w)
    BY <1>15, PullEndsStep
  <2>2. \A r : Outstanding(r)' \subseteq Outstanding(r)
    BY <2>1, AfterTask
  <2>3. ASSUME NEW r \in Requests, Outstanding(r) = {}
        PROVE  Stranded(r)' = Stranded(r)
    <3>1. w \in alive /\ r \notin ToSet(queue[w])
      BY <2>1, <2>3 DEF TaskEnds, IInv, OnceEach, Outstanding
    <3>2. Workers' = Workers /\ queue' = queue
      BY <2>1, AfterTask DEF TaskEnds
    <3> QED
      BY <2>1, <3>1, <3>2 DEF TaskEnds, Stranded
  <2> QED
    BY <2>1, <2>2, <2>3, PullsEnd DEF TaskEnds
<1>16. CASE DReport
  <2> DEFINE S == {r \in Requests : r \in recving /\ dPhase[r] = "loading"}
  <2>1. /\ UNCHANGED <<setup, queue, pull, alive, hasParams, pPhase>>
        /\ \A r \in Requests : dPhase'[r] = IF r \in S THEN "ready" ELSE dPhase[r]
    BY <1>16 DEF DReport
  <2>2. \A x \in Requests : DstOf(x)' = DstOf(x)
    BY <2>1, DstKept
  <2>3. UNCHANGED <<SrcBar, DstBar>> /\ UseBar' = UseBar \cup S
    BY <2>1, <2>2 DEF SrcBar, DstBar, UseBar
  <2>4. \A r \in S : DstBar[r] = "read"
    <3>1. \A r \in S : r \in Reported /\ r \notin hasParams
      BY KVTransferAssumption DEF Reported, IInv, ParamsCleared
    <3> QED
      BY <3>1, AfterLoad
  <2>5. CASE S = {}
    BY <2>3, <2>5, StepKinds
  <2>6. CASE S # {}
    <3>1. PICK T \in SUBSET Requests : T = S
      OBVIOUS
    <3> HIDE DEF S
    <3>2. Handoff!Use(T)
      BY <2>3, <2>4, <2>6, <3>1, StepKinds
    <3> QED
      BY <3>2 DEF Handoff!HNext
  <2> QED
    BY <2>5, <2>6
<1> QED
  BY <1>2, <1>3, <1>4, <1>5, <1>6, <1>7, <1>8, <1>10, <1>11, <1>12, <1>13, <1>14, <1>15,
     <1>16 DEF Next

(* The connector implements the hand-over where every request is pulled whole *)
(* and the ranks stay abreast.                                                *)
THEOREM Refinement ==
    ASSUME \A s \in Setups : WholeInStep(s)
    PROVE  Spec => ImplementsHandoff
<1>1. Init => Handoff!HInit
  BY InitRefines
<1>2. IInv /\ IInv' /\ [Next]_vars => [Handoff!HNext]_(Handoff!hvars)
  BY NextRefines
<1> QED
  BY <1>1, <1>2, InductiveInvariant, PTL DEF Spec, ImplementsHandoff, Handoff!HSpec
=============================================================================
