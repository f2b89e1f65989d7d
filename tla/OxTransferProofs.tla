--------------------------- MODULE OxTransferProofs ---------------------------
(* What OxTransfer guarantees for any set of requests, any length of _h2d_q   *)
(* and any setups.                                                            *)
EXTENDS OxTransfer, DataFacts

(* The request a thread has in its hands, and those with an answer.           *)
Held(t)  == IF t \in {Idle, Dead} THEN {} ELSE {t[1]}
Answered == {a[1] : a \in resp}

(* A request is in one place at a time on its way through the threads, and    *)
(* once in it.                                                                *)
OnePlace ==
    /\ IsInjective(exec) /\ IsInjective(sendQ) /\ IsInjective(h2dQ)
    /\ \A a, b \in resp : a[1] = b[1] => a = b
    /\ \A r \in ToSet(exec) :
          r \notin ToSet(sendQ) \cup wire \cup Answered \cup ToSet(h2dQ)
                     \cup Held(copier) \cup Held(io)
    /\ \A r \in ToSet(sendQ) :
          r \notin wire \cup Answered \cup ToSet(h2dQ) \cup Held(copier) \cup Held(io)
    /\ \A r \in wire :
          r \notin Answered \cup ToSet(h2dQ) \cup Held(copier) \cup Held(io)
    /\ \A r \in Answered : r \notin ToSet(h2dQ) \cup Held(copier) \cup Held(io)
    /\ \A r \in ToSet(h2dQ) : r \notin Held(copier) \cup Held(io)
    /\ \A r \in Held(copier) : r \notin Held(io)

(* A request is fetched after D has scheduled it, which it does once.         *)
ScheduledOnce ==
    /\ UnderWay \cup recving \cup inbox \subseteq processed
    /\ \A r \in Requests : dPhase[r] \in {"idle", "waiting"} => r \notin processed
    /\ \A r \in Requests : dPhase[r] \in {"loading", "ready"} => r \in processed

(* The server refuses nothing where nothing fails.                             *)
AnswersSucceed == ~setup.mayFail => \A a \in resp : a[2]

(* P has finished what D knows of, keeps what it has a finish time of, and    *)
(* lets go of nothing that is being fetched or may still be.                  *)
FreedIsFetched ==
    /\ \A r \in Requests : pPhase[r] = "prefill" => dPhase[r] = "idle"
    /\ \A r \in pTimes : pPhase[r] = "held"
    /\ \A r \in inbox : r \notin Fetching
    /\ \A r \in Requests :
          r \in old \/ pPhase[r] = "free"
            => r \notin Fetching /\ (r \in processed \/ dPhase[r] = "over")

IInv ==
    /\ TypeOK /\ OnePlace /\ ScheduledOnce /\ AnswersSucceed /\ FreedIsFetched
    /\ DoneMeansLoaded /\ PendingIsUnderWay

----------------------------------------------------------------------------
(* Lemmas about the places a request can be in *)

(* What a thread holds: nothing, or the request of its task.                  *)
LEMMA HeldValues ==
    /\ Held(Idle) = {} /\ Held(Dead) = {}
    /\ \A r, x : /\ <<r, x>> \notin {Idle, Dead}
                 /\ Held(<<r, x>>) = {r}
  BY DEF Held, Idle, Dead

(* Two threads hold what either holds.                                        *)
LEMMA HeldByBoth ==
    ASSUME NEW s, NEW t
    PROVE  {u[1] : u \in {s, t} \ {Idle, Dead}} = Held(s) \cup Held(t)
  BY DEF Held

(* A thread with a task holds its request.                                    *)
LEMMA HeldTask ==
    ASSUME NEW t \in Busy
    PROVE  /\ t \notin {Idle, Dead} /\ Held(t) = {t[1]} /\ t[1] \in Requests
           /\ <<t[1], "copy">> \in Busy /\ t[2] \in {"wait", "copy"}
<1>1. PICK r \in Requests, x \in {"wait", "copy"} : t = <<r, x>>
  BY DEF Busy
<1> QED
  BY <1>1, HeldValues DEF Busy

(* An answer of the server adds its request to those answered.                *)
LEMMA AnswerAdded ==
    ASSUME NEW R, NEW r, NEW ok
    PROVE  {a[1] : a \in R \cup {<<r, ok>>}} = {a[1] : a \in R} \cup {r}
<1>1. <<r, ok>>[1] = r
  OBVIOUS
<1>2. {a[1] : a \in R \cup {<<r, ok>>}} = {a[1] : a \in R} \cup {<<r, ok>>[1]}
  OBVIOUS
<1> QED
  BY <1>1, <1>2

(* Taking an answer removes no other request.                                 *)
LEMMA AnswerTaken ==
    ASSUME NEW R, NEW b \in R, \A a, c \in R : a[1] = c[1] => a = c
    PROVE  {a[1] : a \in R \ {b}} = {a[1] : a \in R} \ {b[1]}
  OBVIOUS

(* UnderWay is the union of the places.                                       *)
LEMMA Places ==
    /\ UnderWay = ToSet(exec) \cup ToSet(sendQ) \cup wire \cup Answered
                    \cup ToSet(h2dQ) \cup Held(copier) \cup Held(io)
    /\ UnderWay' = ToSet(exec') \cup ToSet(sendQ') \cup wire' \cup Answered'
                    \cup ToSet(h2dQ') \cup Held(copier') \cup Held(io')
<1>1. {t[1] : t \in {copier, io} \ {Idle, Dead}} = Held(copier) \cup Held(io)
  BY HeldByBoth
<1>2. {t[1] : t \in {copier', io'} \ {Idle, Dead}} = Held(copier') \cup Held(io')
  BY HeldByBoth
<1>3. UnderWay = ToSet(exec) \cup ToSet(sendQ) \cup wire \cup Answered
                    \cup ToSet(h2dQ) \cup Held(copier) \cup Held(io)
  BY <1>1 DEF UnderWay, Fetching, Answered
<1>4. UnderWay' = ToSet(exec') \cup ToSet(sendQ') \cup wire' \cup Answered'
                    \cup ToSet(h2dQ') \cup Held(copier') \cup Held(io')
  BY <1>2 DEF UnderWay, Fetching, Answered, Idle, Dead
<1> QED
  BY <1>3, <1>4

----------------------------------------------------------------------------
(* The invariant holds at first, and every action keeps it. *)

LEMMA InitInv == Init => IInv
<1> SUFFICES ASSUME Init
             PROVE  IInv
  OBVIOUS
<1>1. /\ ToSet(exec) = {} /\ ToSet(sendQ) = {} /\ ToSet(h2dQ) = {}
      /\ IsInjective(exec) /\ IsInjective(sendQ) /\ IsInjective(h2dQ)
  BY EmptyQueue DEF Init
<1>2. Held(copier) = {} /\ Held(io) = {} /\ Answered = {}
  BY HeldValues DEF Init, Answered
<1>3. UnderWay = {} /\ Fetching = {}
  BY <1>1, <1>2, Places DEF Fetching, Init
<1>4. TypeOK
  BY OxTransferAssumption DEF Init, TypeOK
<1>5. OnePlace
  BY <1>1, <1>2 DEF OnePlace, Init
<1> QED
  BY <1>1, <1>3, <1>4, <1>5
     DEF Init, IInv, ScheduledOnce, AnswersSucceed, FreedIsFetched, DoneMeansLoaded,
         PendingIsUnderWay

(* What the engine of P does leaves the places alone.                         *)
LEMMA EngineStep ==
    ASSUME IInv, UNCHANGED <<setup, exec, pending, sendQ, wire, resp, h2dQ, copier, io>>
    PROVE  /\ UnderWay' = UnderWay /\ Fetching' = Fetching /\ Answered' = Answered
           /\ OnePlace' /\ AnswersSucceed' /\ PendingIsUnderWay'
<1>1. Held(copier') = Held(copier) /\ Held(io') = Held(io)
  OBVIOUS
<1>2. /\ ToSet(exec') = ToSet(exec) /\ ToSet(sendQ') = ToSet(sendQ)
      /\ ToSet(h2dQ') = ToSet(h2dQ)
  OBVIOUS
<1>3. Answered' = Answered
  BY DEF Answered
<1>4. UnderWay' = UnderWay /\ Fetching' = Fetching
  BY <1>1, <1>2, <1>3, Places DEF Fetching
<1>5. OnePlace'
  BY <1>1, <1>2, <1>3 DEF IInv, OnePlace
<1>6. AnswersSucceed'
  BY DEF IInv, AnswersSucceed
<1>7. PendingIsUnderWay'
  BY <1>2, <1>4 DEF IInv, PendingIsUnderWay
<1> QED
  BY <1>3, <1>4, <1>5, <1>6, <1>7

LEMMA FinishPrefillStep ==
    ASSUME IInv, NEW r \in Requests, FinishPrefill(r)
    PROVE  IInv'
<1> USE DEF FinishPrefill, pvars, dvars
<1>1. /\ UnderWay' = UnderWay /\ Fetching' = Fetching
      /\ OnePlace' /\ AnswersSucceed' /\ PendingIsUnderWay'
  BY EngineStep
<1>2. TypeOK'
  BY DEF IInv, TypeOK
<1>3. ScheduledOnce' /\ DoneMeansLoaded'
  BY <1>1 DEF IInv, ScheduledOnce, DoneMeansLoaded
<1>4. FreedIsFetched'
  BY <1>1 DEF IInv, TypeOK, FreedIsFetched
<1> QED
  BY <1>1, <1>2, <1>3, <1>4 DEF IInv

LEMMA PStepStep ==
    ASSUME IInv, PStep
    PROVE  IInv'
<1> USE DEF PStep, pvars, dvars
<1>1. /\ UnderWay' = UnderWay /\ Fetching' = Fetching
      /\ OnePlace' /\ AnswersSucceed' /\ PendingIsUnderWay'
  BY EngineStep
<1>2. TypeOK'
  BY DEF IInv, TypeOK
<1>3. ScheduledOnce' /\ DoneMeansLoaded'
  BY <1>1 DEF IInv, ScheduledOnce, DoneMeansLoaded
<1>4. \A r \in Done : r \notin Fetching /\ (r \in processed \/ dPhase[r] = "over")
  BY DEF IInv, TypeOK, FreedIsFetched, ScheduledOnce, Done
<1>5. FreedIsFetched'
  BY <1>1, <1>4 DEF IInv, TypeOK, FreedIsFetched
<1> QED
  BY <1>1, <1>2, <1>3, <1>5 DEF IInv

LEMMA TimePassesStep ==
    ASSUME IInv, NEW r \in Requests, TimePasses(r)
    PROVE  IInv'
<1> USE DEF TimePasses, dvars
<1>1. /\ UnderWay' = UnderWay /\ Fetching' = Fetching
      /\ OnePlace' /\ AnswersSucceed' /\ PendingIsUnderWay'
  BY EngineStep
<1>2. TypeOK'
  BY DEF IInv, TypeOK
<1>3. ScheduledOnce' /\ DoneMeansLoaded'
  BY <1>1 DEF IInv, ScheduledOnce, DoneMeansLoaded
<1>4. FreedIsFetched'
  BY <1>1 DEF IInv, TypeOK, FreedIsFetched, ScheduledOnce
<1> QED
  BY <1>1, <1>2, <1>3, <1>4 DEF IInv

LEMMA ArriveStep ==
    ASSUME IInv, NEW r \in Requests, Arrive(r)
    PROVE  IInv'
<1> USE DEF Arrive, pvars
<1>1. /\ UnderWay' = UnderWay /\ Fetching' = Fetching
      /\ OnePlace' /\ AnswersSucceed' /\ PendingIsUnderWay'
  BY EngineStep
<1>2. TypeOK'
  BY DEF IInv, TypeOK
<1>3. ScheduledOnce' /\ DoneMeansLoaded'
  BY <1>1 DEF IInv, TypeOK, ScheduledOnce, DoneMeansLoaded
<1>4. FreedIsFetched'
  BY <1>1 DEF IInv, TypeOK, FreedIsFetched
<1> QED
  BY <1>1, <1>2, <1>3, <1>4 DEF IInv

LEMMA EndRequestStep ==
    ASSUME IInv, NEW r \in Requests, EndRequest(r)
    PROVE  IInv'
<1> USE DEF EndRequest, pvars
<1>1. /\ UnderWay' = UnderWay /\ Fetching' = Fetching
      /\ OnePlace' /\ AnswersSucceed' /\ PendingIsUnderWay'
  BY EngineStep
<1>2. TypeOK'
  BY DEF IInv, TypeOK
<1>3. ScheduledOnce' /\ DoneMeansLoaded'
  BY <1>1 DEF IInv, TypeOK, ScheduledOnce, DoneMeansLoaded
<1>4. FreedIsFetched'
  BY <1>1 DEF IInv, TypeOK, FreedIsFetched
<1> QED
  BY <1>1, <1>2, <1>3, <1>4 DEF IInv

(* StartLoad puts a request into exec that is in no place yet.                *)
LEMMA StartLoadStep ==
    ASSUME IInv, NEW r \in Requests, StartLoad(r)
    PROVE  IInv'
<1> USE DEF StartLoad, pvars
<1>1. r \notin UnderWay \cup recving \cup inbox
  BY DEF IInv, ScheduledOnce
<1>2. /\ exec' \in Seq(Requests) /\ ToSet(exec') = ToSet(exec) \cup {r}
      /\ IsInjective(exec')
  BY <1>1, QueueAppend, Places DEF IInv, TypeOK, OnePlace
<1>3. /\ ToSet(sendQ') = ToSet(sendQ) /\ ToSet(h2dQ') = ToSet(h2dQ)
      /\ Held(copier') = Held(copier) /\ Held(io') = Held(io)
      /\ Answered' = Answered
  BY DEF Answered
<1>4. UnderWay' = UnderWay \cup {r} /\ Fetching' = Fetching \cup {r}
  BY <1>2, <1>3, Places DEF Fetching
<1>5. TypeOK'
  BY <1>2 DEF IInv, TypeOK
<1>6. OnePlace'
  BY <1>1, <1>2, <1>3, Places DEF IInv, OnePlace
<1>7. ScheduledOnce' /\ DoneMeansLoaded'
  BY <1>1, <1>4 DEF IInv, TypeOK, ScheduledOnce, DoneMeansLoaded
<1>8. AnswersSucceed'
  BY DEF IInv, AnswersSucceed
<1>9. FreedIsFetched'
  BY <1>1, <1>4 DEF IInv, TypeOK, FreedIsFetched
<1>10. PendingIsUnderWay'
  BY <1>1, <1>2, <1>4 DEF IInv, PendingIsUnderWay
<1> QED
  BY <1>5, <1>6, <1>7, <1>8, <1>9, <1>10 DEF IInv

(* ReadBlocks moves a request from exec to sendQ.                             *)
LEMMA ReadBlocksStep ==
    ASSUME IInv, ReadBlocks
    PROVE  IInv'
<1> USE DEF ReadBlocks, pvars, dvars
<1> DEFINE r == Head(exec)
<1>1. /\ exec' \in Seq(Requests) /\ r \in Requests /\ r \in ToSet(exec)
      /\ ToSet(exec') = ToSet(exec) \ {r} /\ IsInjective(exec')
  BY QueueTail DEF IInv, TypeOK, OnePlace
<1>2. /\ sendQ' \in Seq(Requests) /\ ToSet(sendQ') = ToSet(sendQ) \cup {r}
      /\ IsInjective(sendQ')
  BY <1>1, QueueAppend DEF IInv, TypeOK, OnePlace
<1>3. Held(io') = Held(io)
  BY HeldValues
<1>4. /\ ToSet(h2dQ') = ToSet(h2dQ) /\ Held(copier') = Held(copier)
      /\ Answered' = Answered /\ pending' = pending \cup {r}
  BY DEF Answered
<1> HIDE DEF r
<1>5. UnderWay' = UnderWay /\ Fetching' = Fetching
  BY <1>1, <1>2, <1>3, <1>4, Places DEF Fetching
<1>6. TypeOK'
  BY <1>1, <1>2, <1>4 DEF IInv, TypeOK
<1>7. OnePlace'
  BY <1>1, <1>2, <1>3, <1>4 DEF IInv, OnePlace
<1>8. ScheduledOnce' /\ DoneMeansLoaded'
  BY <1>5 DEF IInv, ScheduledOnce, DoneMeansLoaded
<1>9. AnswersSucceed' /\ FreedIsFetched'
  BY <1>5 DEF IInv, AnswersSucceed, FreedIsFetched
<1>10. PendingIsUnderWay'
  BY <1>1, <1>4, <1>5, Places DEF IInv, PendingIsUnderWay
<1> QED
  BY <1>6, <1>7, <1>8, <1>9, <1>10 DEF IInv

(* Send moves a request from sendQ to the server, or loses it.                *)
LEMMA SendStep ==
    ASSUME IInv, Send
    PROVE  IInv'
<1> USE DEF Send, pvars, dvars
<1> DEFINE r == Head(sendQ)
<1>1. /\ sendQ' \in Seq(Requests) /\ r \in Requests /\ r \in ToSet(sendQ)
      /\ ToSet(sendQ') = ToSet(sendQ) \ {r} /\ IsInjective(sendQ')
  BY QueueTail DEF IInv, TypeOK, OnePlace
<1>2. /\ ToSet(exec') = ToSet(exec) /\ ToSet(h2dQ') = ToSet(h2dQ)
      /\ Held(copier') = Held(copier) /\ Held(io') = Held(io)
      /\ Answered' = Answered
  BY DEF Answered
<1>3. \/ wire' = wire \cup {r} /\ pending' = pending
      \/ wire' = wire /\ pending' = pending \ {r} /\ setup.mayFail
  OBVIOUS
<1> HIDE DEF r
<1>4. UnderWay' \subseteq UnderWay /\ Fetching' \subseteq Fetching
  BY <1>1, <1>2, <1>3, Places DEF Fetching
<1>5. TypeOK'
  BY <1>1, <1>3 DEF IInv, TypeOK
<1>6. OnePlace'
  BY <1>1, <1>2, <1>3 DEF IInv, OnePlace
<1>7. ScheduledOnce' /\ DoneMeansLoaded'
  BY <1>4 DEF IInv, ScheduledOnce, DoneMeansLoaded
<1>8. AnswersSucceed' /\ FreedIsFetched'
  BY <1>4 DEF IInv, AnswersSucceed, FreedIsFetched
<1>9. PendingIsUnderWay'
  <2>1. CASE wire' = wire \cup {r} /\ pending' = pending
    <3>1. UnderWay' = UnderWay
      BY <1>1, <1>2, <2>1, Places
    <3> QED
      BY <1>2, <2>1, <3>1 DEF IInv, PendingIsUnderWay
  <2>2. CASE wire' = wire /\ pending' = pending \ {r} /\ setup.mayFail
    <3>1. UnderWay' \ ToSet(exec') \subseteq UnderWay \ ToSet(exec)
      BY <1>2, <1>4
    <3>2. r \notin UnderWay'
      BY <1>1, <1>2, <2>2, Places DEF IInv, OnePlace
    <3> QED
      BY <2>2, <3>1, <3>2 DEF IInv, PendingIsUnderWay
  <2> QED
    BY <1>3, <2>1, <2>2
<1> QED
  BY <1>5, <1>6, <1>7, <1>8, <1>9 DEF IInv

LEMMA AnswerStep ==
    ASSUME IInv, NEW r \in Requests, Answer(r)
    PROVE  IInv'
<1> USE DEF Answer, pvars, dvars
<1>1. PICK ok \in BOOLEAN : (~ok => setup.mayFail) /\ resp' = resp \cup {<<r, ok>>}
  OBVIOUS
<1>2. Answered' = Answered \cup {r}
  BY <1>1, AnswerAdded DEF Answered
<1>3. /\ ToSet(exec') = ToSet(exec) /\ ToSet(sendQ') = ToSet(sendQ)
      /\ ToSet(h2dQ') = ToSet(h2dQ)
      /\ Held(copier') = Held(copier) /\ Held(io') = Held(io)
  OBVIOUS
<1>4. UnderWay' = UnderWay /\ Fetching' \subseteq Fetching
  BY <1>2, <1>3, Places DEF Fetching
<1>5. TypeOK'
  BY <1>1 DEF IInv, TypeOK
<1>6. \A a \in resp : a[1] # r
  BY DEF IInv, OnePlace, Answered
<1>7. OnePlace'
  <2>1. \A a, b \in resp' : a[1] = b[1] => a = b
    BY <1>1, <1>6 DEF IInv, OnePlace
  <2> QED
    BY <1>2, <1>3, <2>1 DEF IInv, OnePlace
<1>8. ScheduledOnce' /\ DoneMeansLoaded' /\ FreedIsFetched'
  BY <1>4 DEF IInv, ScheduledOnce, DoneMeansLoaded, FreedIsFetched
<1>9. AnswersSucceed'
  BY <1>1 DEF IInv, AnswersSucceed
<1>10. PendingIsUnderWay'
  BY <1>3, <1>4 DEF IInv, PendingIsUnderWay
<1> QED
  BY <1>5, <1>7, <1>8, <1>9, <1>10 DEF IInv

(* Receive drops an answer or moves its request to the copier's queue, or,    *)
(* when that is full, into the hands of the receiving thread.                 *)
LEMMA ReceiveStep ==
    ASSUME IInv, NEW a \in resp, Receive(a)
    PROVE  IInv'
<1> USE DEF Receive, pvars, dvars
<1> DEFINE r == a[1]
<1>1. /\ r \in Requests /\ r \in Answered /\ a[2] \in BOOLEAN
      /\ Answered' = Answered \ {r} /\ io = Idle /\ Held(io) = {}
  <2>1. Answered' = Answered \ {r}
    BY AnswerTaken DEF IInv, OnePlace, Answered
  <2> QED
    BY <2>1, HeldValues DEF IInv, TypeOK, Answered
<1>2. /\ ToSet(exec') = ToSet(exec) /\ ToSet(sendQ') = ToSet(sendQ)
      /\ Held(copier') = Held(copier)
  OBVIOUS
<1>3. \A b, c \in resp' : b[1] = c[1] => b = c
  BY DEF IInv, OnePlace
<1>4. r \in pending
  BY <1>1, Places DEF IInv, OnePlace, PendingIsUnderWay
<1>5. \/ /\ h2dQ' = Append(h2dQ, r) /\ Len(h2dQ) < Cap /\ io' = io /\ pending' = pending
      \/ /\ h2dQ' = h2dQ /\ io' = <<r, "wait">> /\ pending' = pending
      \/ /\ h2dQ' = h2dQ /\ io' = io /\ pending' = pending \ {r} /\ setup.mayFail
  BY <1>4 DEF IInv, AnswersSucceed
<1>6. /\ h2dQ' \in Seq(Requests) /\ Len(h2dQ') <= Cap /\ IsInjective(h2dQ')
      /\ io' \in {Dead, Idle} \cup Busy
      /\ \/ ToSet(h2dQ') = ToSet(h2dQ) \cup {r} /\ Held(io') = {} /\ pending' = pending
         \/ ToSet(h2dQ') = ToSet(h2dQ) /\ Held(io') = {r} /\ pending' = pending
         \/ /\ ToSet(h2dQ') = ToSet(h2dQ) /\ Held(io') = {}
            /\ pending' = pending \ {r} /\ setup.mayFail
  <2>1. h2dQ \in Seq(Requests) /\ Len(h2dQ) <= Cap /\ IsInjective(h2dQ)
    BY DEF IInv, TypeOK, OnePlace
  <2>2. r \notin ToSet(h2dQ)
    BY <1>1 DEF IInv, OnePlace
  <2>3. CASE /\ h2dQ' = Append(h2dQ, r) /\ Len(h2dQ) < Cap /\ io' = io
             /\ pending' = pending
    <3>1. Len(h2dQ') = Len(h2dQ) + 1 /\ Len(h2dQ) \in Nat
      BY <1>1, <2>1, <2>3, AppendProperties, LenProperties
    <3>2. Len(h2dQ') <= Cap
      BY <2>3, <3>1, OxTransferAssumption
    <3> QED
      BY <1>1, <2>1, <2>2, <2>3, <3>2, QueueAppend
  <2>4. CASE h2dQ' = h2dQ /\ io' = <<r, "wait">> /\ pending' = pending
    BY <1>1, <2>1, <2>4, HeldValues DEF Busy
  <2>5. CASE /\ h2dQ' = h2dQ /\ io' = io /\ pending' = pending \ {r}
             /\ setup.mayFail
    BY <1>1, <2>1, <2>5
  <2> QED
    BY <1>5, <2>3, <2>4, <2>5
<1> HIDE DEF r
<1>7. UnderWay' \subseteq UnderWay /\ Fetching' = Fetching
  BY <1>1, <1>2, <1>6, Places DEF Fetching
<1>8. TypeOK'
  BY <1>6 DEF IInv, TypeOK
<1>9. OnePlace'
  BY <1>1, <1>2, <1>3, <1>6 DEF IInv, OnePlace
<1>10. ScheduledOnce' /\ DoneMeansLoaded' /\ FreedIsFetched' /\ AnswersSucceed'
  BY <1>7 DEF IInv, ScheduledOnce, DoneMeansLoaded, FreedIsFetched, AnswersSucceed
<1>11. PendingIsUnderWay'
  <2>1. CASE UnderWay' = UnderWay /\ pending' = pending
    BY <1>2, <2>1 DEF IInv, PendingIsUnderWay
  <2>2. CASE ToSet(h2dQ') = ToSet(h2dQ) /\ Held(io') = {}
             /\ pending' = pending \ {r} /\ setup.mayFail
    <3>1. r \notin UnderWay'
      BY <1>1, <1>2, <2>2, Places DEF IInv, OnePlace
    <3> QED
      BY <1>2, <1>7, <2>2, <3>1 DEF IInv, PendingIsUnderWay
  <2> QED
    BY <1>1, <1>2, <1>6, <2>1, <2>2, Places
<1> QED
  BY <1>8, <1>9, <1>10, <1>11 DEF IInv

LEMMA H2DTakeStep ==
    ASSUME IInv, H2DTake
    PROVE  IInv'
<1> USE DEF H2DTake, pvars, dvars
<1> DEFINE r == Head(h2dQ)
<1>1. /\ h2dQ' \in Seq(Requests) /\ r \in Requests /\ r \in ToSet(h2dQ)
      /\ ToSet(h2dQ') = ToSet(h2dQ) \ {r} /\ IsInjective(h2dQ')
  BY QueueTail DEF IInv, TypeOK, OnePlace
<1>2. Len(h2dQ') <= Cap
  <2>1. Len(h2dQ') = Len(h2dQ) - 1 /\ Len(h2dQ) \in Nat
    BY HeadTailProperties, LenProperties DEF IInv, TypeOK
  <2> QED
    BY <2>1, OxTransferAssumption DEF IInv, TypeOK
<1>3. copier' \in Busy /\ Held(copier) = {} /\ Held(copier') = {r}
  BY <1>1, HeldValues DEF Busy
<1>4. /\ ToSet(exec') = ToSet(exec) /\ ToSet(sendQ') = ToSet(sendQ)
      /\ Held(io') = Held(io) /\ Answered' = Answered
  BY DEF Answered
<1> HIDE DEF r
<1>5. UnderWay' = UnderWay /\ Fetching' = Fetching
  BY <1>1, <1>3, <1>4, Places DEF Fetching
<1>6. TypeOK'
  BY <1>1, <1>2, <1>3 DEF IInv, TypeOK
<1>7. OnePlace'
  <2>1. \A x \in ToSet(h2dQ') : x \notin Held(copier') \cup Held(io')
    BY <1>1, <1>3, <1>4 DEF IInv, OnePlace
  <2>2. \A x \in Held(copier') : x \notin Held(io')
    BY <1>1, <1>3, <1>4 DEF IInv, OnePlace
  <2>3. ToSet(h2dQ') \cup Held(copier') = ToSet(h2dQ) \cup Held(copier)
    BY <1>1, <1>3
  <2> QED
    BY <1>1, <1>4, <2>1, <2>2, <2>3 DEF IInv, OnePlace
<1>8. ScheduledOnce' /\ DoneMeansLoaded' /\ FreedIsFetched' /\ AnswersSucceed'
  BY <1>5 DEF IInv, ScheduledOnce, DoneMeansLoaded, FreedIsFetched, AnswersSucceed
<1>9. PendingIsUnderWay'
  BY <1>4, <1>5 DEF IInv, PendingIsUnderWay
<1> QED
  BY <1>6, <1>7, <1>8, <1>9 DEF IInv

(* H2DCopy ends the way of the copier's request.                              *)
LEMMA H2DCopyStep ==
    ASSUME IInv, H2DCopy
    PROVE  IInv'
<1> USE DEF H2DCopy, dvars
<1> DEFINE r == copier[1]
<1>1. /\ r \in Requests /\ Held(copier) = {r} /\ Held(copier') = {}
      /\ copier' \in {Idle} \cup Busy
  BY HeldTask, HeldValues DEF IInv, TypeOK
<1>2. /\ inbox' \in {inbox, inbox \cup {r}} /\ recving' \in {recving, recving \cup {r}}
      /\ pending' = pending \ {r}
  BY DEF PostSuccess
<1>3. /\ ToSet(exec') = ToSet(exec) /\ ToSet(sendQ') = ToSet(sendQ)
      /\ ToSet(h2dQ') = ToSet(h2dQ) /\ Held(io') = Held(io) /\ Answered' = Answered
  BY DEF Answered
<1> HIDE DEF r
<1>4. r \in UnderWay /\ UnderWay' = UnderWay \ {r} /\ Fetching' = Fetching
  BY <1>1, <1>3, Places DEF IInv, OnePlace, Fetching
<1>5. TypeOK'
  BY <1>1, <1>2 DEF IInv, TypeOK, pvars
<1>6. OnePlace'
  BY <1>1, <1>3 DEF IInv, OnePlace
<1>7. ScheduledOnce' /\ DoneMeansLoaded'
  BY <1>2, <1>4 DEF IInv, ScheduledOnce, DoneMeansLoaded
<1>8. r \notin Fetching
  BY <1>1 DEF IInv, OnePlace, Fetching
<1>9. FreedIsFetched' /\ AnswersSucceed'
  BY <1>2, <1>4, <1>8 DEF IInv, FreedIsFetched, AnswersSucceed, pvars
<1>10. PendingIsUnderWay'
  BY <1>2, <1>3, <1>4 DEF IInv, PendingIsUnderWay
<1> QED
  BY <1>5, <1>6, <1>7, <1>9, <1>10 DEF IInv

(* InlineCopy does the same, or ends the thread and what was on its socket.   *)
LEMMA InlineCopyStep ==
    ASSUME IInv, InlineCopy
    PROVE  IInv'
<1> USE DEF InlineCopy, dvars
<1> DEFINE r == io[1]
<1>1. /\ r \in Requests /\ Held(io) = {r} /\ Held(io') = {}
      /\ io' \in {Dead, Idle} \cup Busy
  BY HeldTask, HeldValues DEF IInv, TypeOK
<1>2. /\ inbox' \in {inbox, inbox \cup {r}} /\ recving' \in {recving, recving \cup {r}}
      /\ wire' \subseteq wire /\ resp' \subseteq resp
      /\ \/ pending' = pending \ {r} /\ wire' = wire /\ resp' = resp
         \/ pending' = pending /\ setup.mayFail
  BY DEF PostSuccess
<1>3. /\ ToSet(exec') = ToSet(exec) /\ ToSet(sendQ') = ToSet(sendQ)
      /\ ToSet(h2dQ') = ToSet(h2dQ) /\ Held(copier') = Held(copier)
      /\ Answered' \subseteq Answered /\ (resp' = resp => Answered' = Answered)
  BY <1>2 DEF Answered
<1> HIDE DEF r
<1>4. /\ r \in UnderWay /\ UnderWay' \subseteq UnderWay \ {r}
      /\ Fetching' \subseteq Fetching
  BY <1>1, <1>2, <1>3, Places DEF IInv, OnePlace, Fetching
<1>5. TypeOK'
  BY <1>1, <1>2 DEF IInv, TypeOK, pvars
<1>6. OnePlace'
  BY <1>1, <1>2, <1>3 DEF IInv, OnePlace
<1>7. ScheduledOnce' /\ DoneMeansLoaded'
  BY <1>2, <1>4 DEF IInv, ScheduledOnce, DoneMeansLoaded
<1>8. r \notin Fetching
  BY <1>1 DEF IInv, OnePlace, Fetching
<1>9. FreedIsFetched' /\ AnswersSucceed'
  BY <1>2, <1>4, <1>8 DEF IInv, FreedIsFetched, AnswersSucceed, pvars
<1>10. PendingIsUnderWay'
  <2>1. CASE pending' = pending \ {r} /\ wire' = wire /\ resp' = resp
    <3>1. UnderWay' = UnderWay \ {r}
      BY <1>1, <1>3, <2>1, Places DEF IInv, OnePlace
    <3> QED
      BY <1>3, <2>1, <3>1 DEF IInv, PendingIsUnderWay
  <2>2. CASE pending' = pending /\ setup.mayFail
    BY <1>3, <1>4, <2>2 DEF IInv, PendingIsUnderWay
  <2> QED
    BY <1>2, <2>1, <2>2
<1> QED
  BY <1>5, <1>6, <1>7, <1>9, <1>10 DEF IInv

(* A step of D's engine wakes who waits, and takes what was received.         *)
LEMMA WokenTask ==
    ASSUME NEW t \in {Dead, Idle} \cup Busy
    PROVE  /\ Held(Woken(t)) = Held(t) /\ Woken(t) \in {Dead, Idle} \cup Busy
           /\ t # Dead => Woken(t) # Dead
<1>1. CASE t \in {Dead, Idle}
  BY <1>1 DEF Woken
<1>2. CASE t \in Busy
  BY <1>2, HeldTask, HeldValues DEF Woken
<1> QED
  BY <1>1, <1>2

LEMMA DStepStep ==
    ASSUME IInv, DStep
    PROVE  IInv'
<1> USE DEF DStep, pvars
<1>1. /\ Held(copier') = Held(copier) /\ Held(io') = Held(io)
      /\ copier' \in {Idle} \cup Busy /\ io' \in {Dead, Idle} \cup Busy
  <2>1. Dead # Idle /\ Dead \notin Busy
    BY HeldTask DEF Dead, Idle
  <2>2. copier \in {Idle} \cup Busy /\ io \in {Dead, Idle} \cup Busy
    BY DEF IInv, TypeOK
  <2> QED
    BY <2>1, <2>2, WokenTask
<1>2. /\ ToSet(exec') = ToSet(exec) /\ ToSet(sendQ') = ToSet(sendQ)
      /\ ToSet(h2dQ') = ToSet(h2dQ) /\ Answered' = Answered
  BY DEF Answered
<1>3. UnderWay' = UnderWay /\ Fetching' = Fetching
  BY <1>1, <1>2, Places DEF Fetching
<1>4. TypeOK'
  BY <1>1 DEF IInv, TypeOK
<1>5. OnePlace'
  BY <1>1, <1>2 DEF IInv, OnePlace
<1>6. ScheduledOnce' /\ DoneMeansLoaded'
  BY <1>3 DEF IInv, TypeOK, ScheduledOnce, DoneMeansLoaded
<1>7. FreedIsFetched' /\ AnswersSucceed'
  BY <1>3 DEF IInv, TypeOK, FreedIsFetched, AnswersSucceed
<1>8. PendingIsUnderWay'
  BY <1>2, <1>3 DEF IInv, PendingIsUnderWay
<1> QED
  BY <1>4, <1>5, <1>6, <1>7, <1>8 DEF IInv

LEMMA NextInv == IInv /\ [Next]_vars => IInv'
<1> SUFFICES ASSUME IInv, [Next]_vars
             PROVE  IInv'
  OBVIOUS
<1>1. CASE UNCHANGED vars
  <2>1. UNCHANGED <<setup, pvars, inbox, dvars, exec, pending, sendQ, wire, resp, h2dQ,
                    copier, io, recving>>
    BY <1>1 DEF vars
  <2>2. /\ UnderWay' = UnderWay /\ Fetching' = Fetching
        /\ OnePlace' /\ AnswersSucceed' /\ PendingIsUnderWay'
    BY <2>1, EngineStep
  <2> QED
    BY <2>1, <2>2
       DEF IInv, TypeOK, ScheduledOnce, DoneMeansLoaded, FreedIsFetched, pvars, dvars
<1>2. CASE Next
  BY <1>2, FinishPrefillStep, TimePassesStep, ArriveStep, StartLoadStep, EndRequestStep,
     AnswerStep, PStepStep, ReadBlocksStep, SendStep, H2DTakeStep, H2DCopyStep,
     InlineCopyStep, DStepStep, ReceiveStep DEF Next
<1> QED
  BY <1>1, <1>2

(* A request is in one place at a time: waiting to be read, under way to the  *)
(* server, answered, queued for the copy or being copied; and what follows.   *)
THEOREM InductiveInvariant == Spec => []IInv
  BY InitInv, NextInv, PTL DEF Spec

(* Every variable keeps its type.                                             *)
THEOREM TypeCorrect == Spec => []TypeOK
<1>1. IInv => TypeOK
  BY DEF IInv
<1> QED
  BY <1>1, InductiveInvariant, PTL

(* What D computes with, or is told to be received, is nowhere under way.     *)
THEOREM LoadedWhenDone == Spec => []DoneMeansLoaded
<1>1. IInv => DoneMeansLoaded
  BY DEF IInv
<1> QED
  BY <1>1, InductiveInvariant, PTL

(* _pending holds what is under way, and nothing else where nothing fails.    *)
THEOREM PendingExact == Spec => []PendingIsUnderWay
<1>1. IInv => PendingIsUnderWay
  BY DEF IInv
<1> QED
  BY <1>1, InductiveInvariant, PTL

(* P holds the blocks of a request for as long as its fetch is on its way.    *)
THEOREM FetchesOnlyHeld == Spec => [](\A r \in Fetching : pPhase[r] = "held")
<1>1. ASSUME IInv, NEW r \in Fetching
      PROVE  pPhase[r] = "held"
  <2>1. r \in processed /\ r \in Requests
    BY <1>1, Places DEF IInv, ScheduledOnce, Fetching, UnderWay, TypeOK
  <2>2. pPhase[r] # "prefill"
    BY <1>1, <2>1 DEF IInv, ScheduledOnce, FreedIsFetched
  <2>3. pPhase[r] # "free"
    BY <1>1, <2>1 DEF IInv, FreedIsFetched
  <2> QED
    BY <1>1, <2>1, <2>2, <2>3 DEF IInv, TypeOK
<1>2. IInv => \A r \in Fetching : pPhase[r] = "held"
  BY <1>1
<1> QED
  BY <1>2, InductiveInvariant, PTL

----------------------------------------------------------------------------
(* The refinement of KVHandoff *)

(* What a state of the connector is as a state of the hand-over.              *)
DstOf(r) == IF r \in Fetching THEN "reading"
            ELSE IF r \in processed THEN "read"
            ELSE IF dPhase[r] = "over" THEN "gone" ELSE "none"
SrcBar == [r \in Requests |-> IF pPhase[r] = "prefill" THEN "computing" ELSE pPhase[r]]
DstBar == [r \in Requests |-> DstOf(r)]
UseBar == {r \in Requests : dPhase[r] = "ready"}

(* The mapped variables have the types of the hand-over.                      *)
LEMMA BarType ==
    ASSUME TypeOK
    PROVE  /\ SrcBar \in [Requests -> {"computing", "held", "free"}]
           /\ DstBar \in [Requests -> {"none", "reading", "read", "gone"}]
           /\ UseBar \subseteq Requests
  BY DEF TypeOK, SrcBar, DstBar, DstOf, UseBar

(* The steps of the hand-over in terms of the mapping.                        *)
LEMMA StepKinds ==
    /\ UNCHANGED <<SrcBar, DstBar, UseBar>> => UNCHANGED Handoff!hvars
    /\ \A r \in Requests :
          SrcBar[r] = "computing" /\ SrcBar' = [SrcBar EXCEPT ![r] = "held"]
            /\ UNCHANGED <<DstBar, UseBar>> => Handoff!Hold(r)
    /\ \A r \in Requests :
          SrcBar[r] = "held" /\ DstBar[r] = "none"
            /\ DstBar' = [DstBar EXCEPT ![r] = "reading"]
            /\ UNCHANGED <<SrcBar, UseBar>> => Handoff!Read(r)
    /\ \A r \in Requests :
          DstBar[r] = "none" /\ DstBar' = [DstBar EXCEPT ![r] = "gone"]
            /\ UNCHANGED <<SrcBar, UseBar>> => Handoff!GiveUp(r)
    /\ \A r \in Requests :
          UseBar' = UseBar \ {r} /\ UNCHANGED <<SrcBar, DstBar>> => Handoff!StopUse(r)
    /\ \A S \in SUBSET Requests :
          S # {} /\ (\A r \in S : DstBar[r] = "read") /\ UseBar' = UseBar \cup S
            /\ UNCHANGED <<SrcBar, DstBar>> => Handoff!Use(S)
    /\ \A S \in SUBSET Requests :
          S # {} /\ (\A r \in S : SrcBar[r] = "held" /\ DstBar[r] \in {"read", "gone"})
            /\ SrcBar' = [r \in Requests |-> IF r \in S THEN "free" ELSE SrcBar[r]]
            /\ UNCHANGED <<DstBar, UseBar>> => Handoff!Release(S)
    /\ \A S \in SUBSET Requests :
          S # {} /\ (\A r \in S : DstBar[r] = "reading")
            /\ DstBar' = [r \in Requests |-> IF r \in S THEN "read" ELSE DstBar[r]]
            /\ UNCHANGED <<SrcBar, UseBar>> => Handoff!ReadDone(S, {})
<1> USE DEF SrcBar, DstBar, DstOf, UseBar
<1>1. UNCHANGED <<SrcBar, DstBar, UseBar>> => UNCHANGED Handoff!hvars
  BY DEF Handoff!hvars
<1>2. ASSUME NEW r \in Requests
      PROVE  SrcBar[r] = "computing" /\ SrcBar' = [SrcBar EXCEPT ![r] = "held"]
               /\ UNCHANGED <<DstBar, UseBar>> => Handoff!Hold(r)
  BY DEF Handoff!Hold
<1>3. ASSUME NEW r \in Requests
      PROVE  SrcBar[r] = "held" /\ DstBar[r] = "none"
               /\ DstBar' = [DstBar EXCEPT ![r] = "reading"]
               /\ UNCHANGED <<SrcBar, UseBar>> => Handoff!Read(r)
  BY DEF Handoff!Read
<1>4. ASSUME NEW r \in Requests
      PROVE  DstBar[r] = "none" /\ DstBar' = [DstBar EXCEPT ![r] = "gone"]
               /\ UNCHANGED <<SrcBar, UseBar>> => Handoff!GiveUp(r)
  BY DEF Handoff!GiveUp
<1>5. ASSUME NEW r \in Requests
      PROVE  UseBar' = UseBar \ {r} /\ UNCHANGED <<SrcBar, DstBar>>
               => Handoff!StopUse(r)
  BY DEF Handoff!StopUse
<1>6. ASSUME NEW S \in SUBSET Requests
      PROVE  S # {} /\ (\A r \in S : DstBar[r] = "read") /\ UseBar' = UseBar \cup S
               /\ UNCHANGED <<SrcBar, DstBar>> => Handoff!Use(S)
  BY DEF Handoff!Use
<1>7. ASSUME NEW S \in SUBSET Requests
      PROVE  S # {} /\ (\A r \in S : SrcBar[r] = "held" /\ DstBar[r] \in {"read", "gone"})
               /\ SrcBar' = [r \in Requests |-> IF r \in S THEN "free" ELSE SrcBar[r]]
               /\ UNCHANGED <<DstBar, UseBar>> => Handoff!Release(S)
  BY DEF Handoff!Release
<1>8. ASSUME NEW S \in SUBSET Requests
      PROVE  S # {} /\ (\A r \in S : DstBar[r] = "reading")
               /\ DstBar' = [r \in Requests |-> IF r \in S THEN "read" ELSE DstBar[r]]
               /\ UNCHANGED <<SrcBar, UseBar>> => Handoff!ReadDone(S, {})
  BY DEF Handoff!ReadDone
<1> QED
  BY <1>1, <1>2, <1>3, <1>4, <1>5, <1>6, <1>7, <1>8

(* A step that leaves P's and D's phases alone, and at most ends fetches of   *)
(* requests that D has scheduled, is the end of their reads.                  *)
LEMMA FetchesEnd ==
    ASSUME IInv, UNCHANGED <<pPhase, dPhase, processed>>, Fetching' \subseteq Fetching
    PROVE  [Handoff!HNext]_(Handoff!hvars)
<1> DEFINE S == {r \in Requests : r \in Fetching \ Fetching'}
<1>1. Fetching \subseteq Requests /\ Fetching \subseteq processed
  BY Places DEF IInv, TypeOK, ScheduledOnce, Fetching, UnderWay
<1>2. UNCHANGED <<SrcBar, UseBar>>
  BY DEF SrcBar, UseBar
<1>3. CASE S = {}
  <2>1. Fetching' = Fetching
    BY <1>1, <1>3
  <2>2. UNCHANGED DstBar
    BY <2>1 DEF DstBar, DstOf
  <2> QED
    BY <1>2, <2>2, StepKinds
<1>4. CASE S # {}
  <2>1. \A r \in S : DstBar[r] = "reading"
    BY DEF DstBar, DstOf
  <2>2. \A r \in Requests : DstOf(r)' = IF r \in S THEN "read" ELSE DstBar[r]
    BY <1>1 DEF DstBar, DstOf
  <2>3. DstBar' = [r \in Requests |-> IF r \in S THEN "read" ELSE DstBar[r]]
    BY <2>2 DEF DstBar
  <2>4. PICK T \in SUBSET Requests : T = S
    OBVIOUS
  <2> HIDE DEF S
  <2>5. Handoff!ReadDone(T, {})
    BY <1>2, <1>4, <2>1, <2>3, <2>4, StepKinds
  <2> QED
    BY <2>4, <2>5 DEF Handoff!HNext
<1> QED
  BY <1>3, <1>4

LEMMA InitRefines == Init => Handoff!HInit
<1> SUFFICES ASSUME Init
             PROVE  Handoff!HInit
  OBVIOUS
<1>1. Fetching = {}
  BY EmptyQueue DEF Init, Fetching
<1>2. SrcBar = [r \in Requests |-> "computing"]
  BY DEF Init, SrcBar
<1>3. DstBar = [r \in Requests |-> "none"]
  BY <1>1 DEF Init, DstBar, DstOf
<1>4. UseBar = {}
  BY DEF Init, UseBar
<1> QED
  BY <1>2, <1>3, <1>4 DEF Handoff!HInit, SrcBar, DstBar, DstOf, UseBar

LEMMA NextRefines == IInv /\ IInv' /\ [Next]_vars => [Handoff!HNext]_(Handoff!hvars)
<1> SUFFICES ASSUME IInv, IInv', [Next]_vars
             PROVE  [Handoff!HNext]_(Handoff!hvars)
  OBVIOUS
<1>1. TypeOK /\ TypeOK'
  BY DEF IInv
<1>2. ASSUME NEW r \in Requests, FinishPrefill(r)
      PROVE  Handoff!HNext
  <2>1. UNCHANGED <<DstBar, UseBar>>
    BY <1>2 DEF FinishPrefill, DstBar, DstOf, UseBar, Fetching, dvars
  <2>2. SrcBar[r] = "computing" /\ SrcBar' = [SrcBar EXCEPT ![r] = "held"]
    BY <1>1, <1>2 DEF FinishPrefill, SrcBar, TypeOK
  <2> QED
    BY <2>1, <2>2, StepKinds DEF Handoff!HNext
<1>3. ASSUME NEW r \in Requests, TimePasses(r)
      PROVE  [Handoff!HNext]_(Handoff!hvars)
  BY <1>3, FetchesEnd DEF TimePasses, Fetching, dvars
<1>4. ASSUME NEW r \in Requests, Arrive(r)
      PROVE  [Handoff!HNext]_(Handoff!hvars)
  <2>1. UNCHANGED <<SrcBar, UseBar>>
    BY <1>1, <1>4 DEF Arrive, SrcBar, UseBar, pvars, TypeOK
  <2>2. DstBar[r] = "none"
    BY <1>4, Places DEF Arrive, IInv, ScheduledOnce, UnderWay, DstBar, DstOf
  <2>3. CASE dPhase' = [dPhase EXCEPT ![r] = "waiting"]
    <3>1. UNCHANGED DstBar
      BY <1>1, <1>4, <2>3 DEF Arrive, DstBar, DstOf, Fetching, TypeOK
    <3> QED
      BY <2>1, <3>1, StepKinds
  <2>4. CASE dPhase' = [dPhase EXCEPT ![r] = "over"]
    <3>1. \A x \in Requests : DstOf(x)' = IF x = r THEN "gone" ELSE DstOf(x)
      BY <1>1, <1>4, <2>2, <2>4 DEF Arrive, DstBar, DstOf, Fetching, TypeOK
    <3>2. DstBar' = [DstBar EXCEPT ![r] = "gone"]
      BY <3>1 DEF DstBar
    <3> QED
      BY <2>1, <2>2, <3>2, StepKinds DEF Handoff!HNext
  <2> QED
    BY <1>4, <2>3, <2>4 DEF Arrive
<1>5. ASSUME NEW r \in Requests, StartLoad(r)
      PROVE  Handoff!HNext
  <2>1. UNCHANGED <<SrcBar, UseBar>>
    BY <1>1, <1>5 DEF StartLoad, SrcBar, UseBar, pvars, TypeOK
  <2>2. Fetching' = Fetching \cup {r}
    BY <1>1, <1>5, QueueAppend DEF StartLoad, Fetching, TypeOK
  <2>3. SrcBar[r] = "held"
    BY <1>1, <1>5 DEF StartLoad, IInv, FreedIsFetched, TypeOK, SrcBar
  <2>4. DstBar[r] = "none"
    BY <1>5, Places DEF StartLoad, IInv, ScheduledOnce, UnderWay, DstBar, DstOf
  <2>5. \A x \in Requests : DstOf(x)' = IF x = r THEN "reading" ELSE DstOf(x)
    BY <1>1, <1>5, <2>2 DEF StartLoad, DstOf, TypeOK
  <2>6. DstBar' = [DstBar EXCEPT ![r] = "reading"]
    BY <2>5 DEF DstBar
  <2> QED
    BY <2>1, <2>3, <2>4, <2>6, StepKinds DEF Handoff!HNext
<1>6. ASSUME NEW r \in Requests, EndRequest(r)
      PROVE  [Handoff!HNext]_(Handoff!hvars)
  <2>1. UNCHANGED SrcBar
    BY <1>6 DEF EndRequest, SrcBar, pvars
  <2>2. UNCHANGED Fetching
    BY <1>6 DEF EndRequest, Fetching
  <2>3. CASE dPhase[r] = "waiting"
    <3>1. UNCHANGED UseBar
      BY <1>1, <1>6, <2>3 DEF EndRequest, UseBar, TypeOK
    <3>2. DstBar[r] = "none"
      BY <2>3, Places DEF IInv, ScheduledOnce, UnderWay, DstBar, DstOf
    <3>3. \A x \in Requests : DstOf(x)' = IF x = r THEN "gone" ELSE DstOf(x)
      BY <1>1, <1>6, <2>2, <2>3, <3>2 DEF EndRequest, DstBar, DstOf, TypeOK
    <3>4. DstBar' = [DstBar EXCEPT ![r] = "gone"]
      BY <3>3 DEF DstBar
    <3> QED
      BY <2>1, <3>1, <3>2, <3>4, StepKinds DEF Handoff!HNext
  <2>4. CASE dPhase[r] \in {"loading", "ready"}
    <3>1. r \in processed
      BY <2>4 DEF IInv, ScheduledOnce
    <3>2. UNCHANGED DstBar
      BY <1>1, <1>6, <2>2, <3>1 DEF EndRequest, DstBar, DstOf, TypeOK
    <3>3. UseBar' = UseBar \ {r}
      BY <1>1, <1>6 DEF EndRequest, UseBar, TypeOK
    <3> QED
      BY <2>1, <3>2, <3>3, StepKinds DEF Handoff!HNext
  <2> QED
    BY <1>6, <2>3, <2>4 DEF EndRequest
<1>7. ASSUME NEW r \in Requests, Answer(r)
      PROVE  [Handoff!HNext]_(Handoff!hvars)
  <2>1. Fetching' \subseteq Fetching
    BY <1>7 DEF Answer, Fetching
  <2> QED
    BY <1>7, <2>1, FetchesEnd DEF Answer, pvars, dvars
<1>8. CASE PStep
  <2> DEFINE S == {r \in Requests : r \in Done /\ SrcBar[r] = "held"}
  <2>1. UNCHANGED <<DstBar, UseBar>>
    BY <1>8 DEF PStep, DstBar, DstOf, UseBar, Fetching, dvars
  <2>2. Done \subseteq Requests
    BY <1>1 DEF Done, TypeOK
  <2>3. \A r \in Done : pPhase[r] # "prefill" /\ DstBar[r] \in {"read", "gone"}
    <3> SUFFICES ASSUME NEW r \in Done
                 PROVE  pPhase[r] # "prefill" /\ DstBar[r] \in {"read", "gone"}
      OBVIOUS
    <3>1. CASE r \in pTimes \cap old
      BY <2>2, <3>1 DEF IInv, FreedIsFetched, DstBar, DstOf
    <3>2. CASE r \in inbox
      BY <2>2, <3>2 DEF IInv, FreedIsFetched, ScheduledOnce, DstBar, DstOf
    <3> QED
      BY <3>1, <3>2 DEF Done
  <2>4. SrcBar' = [r \in Requests |-> IF r \in S THEN "free" ELSE SrcBar[r]]
    <3>1. \A r \in Requests : SrcBar[r] \in {"computing", "held", "free"}
      BY <1>1, BarType
    <3>2. \A r \in Requests : (IF pPhase[r] = "prefill" THEN "computing" ELSE pPhase[r])'
                               = IF r \in S THEN "free" ELSE SrcBar[r]
      BY <1>1, <1>8, <2>3, <3>1 DEF PStep, SrcBar, TypeOK
    <3> QED
      BY <3>2 DEF SrcBar
  <2>5. CASE S = {}
    <3>1. \A r \in Requests : SrcBar'[r] = SrcBar[r]
      BY <2>4, <2>5
    <3>2. SrcBar' = SrcBar
      BY <1>1, <3>1 DEF SrcBar
    <3> QED
      BY <2>1, <3>2, StepKinds
  <2>6. CASE S # {}
    <3>1. \A r \in S : SrcBar[r] = "held" /\ DstBar[r] \in {"read", "gone"}
      BY <2>3
    <3>2. PICK T \in SUBSET Requests : T = S
      OBVIOUS
    <3> HIDE DEF S
    <3>3. Handoff!Release(T)
      BY <2>1, <2>4, <2>6, <3>1, <3>2, StepKinds
    <3> QED
      BY <3>2, <3>3 DEF Handoff!HNext
  <2> QED
    BY <2>5, <2>6
<1>9. CASE ReadBlocks
  <2>1. Fetching' = Fetching
    <3>1. /\ ToSet(exec) = ToSet(exec') \cup {Head(exec)} /\ Head(exec) \in Requests
          /\ ToSet(sendQ') = ToSet(sendQ) \cup {Head(exec)}
      BY <1>1, <1>9, QueueTail, QueueAppend DEF ReadBlocks, TypeOK
    <3> QED
      BY <1>9, <3>1 DEF ReadBlocks, Fetching
  <2> QED
    BY <1>9, <2>1, FetchesEnd DEF ReadBlocks, pvars, dvars
<1>10. CASE Send
  <2>1. Fetching' \subseteq Fetching
    <3>1. ToSet(sendQ) = ToSet(sendQ') \cup {Head(sendQ)}
      BY <1>1, <1>10, QueueTail DEF Send, TypeOK
    <3> QED
      BY <1>10, <3>1 DEF Send, Fetching
  <2> QED
    BY <1>10, <2>1, FetchesEnd DEF Send, pvars, dvars
<1>11. CASE H2DTake \/ H2DCopy
  BY <1>11, FetchesEnd DEF H2DTake, H2DCopy, Fetching, pvars, dvars
<1>12. CASE InlineCopy
  <2>1. Fetching' \subseteq Fetching
    BY <1>12 DEF InlineCopy, Fetching
  <2> QED
    BY <1>12, <2>1, FetchesEnd DEF InlineCopy, pvars, dvars
<1>13. ASSUME NEW a \in resp, Receive(a)
       PROVE  [Handoff!HNext]_(Handoff!hvars)
  BY <1>13, FetchesEnd DEF Receive, Fetching, pvars, dvars
<1>14. CASE DStep
  <2> DEFINE S == {r \in Requests : r \in recving /\ dPhase[r] = "loading"}
  <2>1. UNCHANGED SrcBar
    BY <1>14 DEF DStep, SrcBar, pvars
  <2>2. UNCHANGED DstBar
    BY <1>1, <1>14 DEF DStep, DstBar, DstOf, Fetching, TypeOK
  <2>3. UseBar' = UseBar \cup S
    BY <1>1, <1>14 DEF DStep, UseBar, TypeOK
  <2>4. \A r \in S : DstBar[r] = "read"
    BY Places DEF IInv, DoneMeansLoaded, ScheduledOnce, UnderWay, DstBar, DstOf
  <2>5. CASE S = {}
    BY <2>1, <2>2, <2>3, <2>5, StepKinds
  <2>6. CASE S # {}
    <3>1. PICK T \in SUBSET Requests : T = S
      OBVIOUS
    <3> HIDE DEF S
    <3>2. Handoff!Use(T)
      BY <2>1, <2>2, <2>3, <2>4, <2>6, <3>1, StepKinds
    <3> QED
      BY <3>1, <3>2 DEF Handoff!HNext
  <2> QED
    BY <2>5, <2>6
<1>15. CASE UNCHANGED vars
  BY <1>15, FetchesEnd DEF vars, Fetching, pvars, dvars
<1> QED
  BY <1>2, <1>3, <1>4, <1>5, <1>6, <1>7, <1>8, <1>9, <1>10, <1>11, <1>12, <1>13, <1>14,
     <1>15 DEF Next

(* The connector implements the hand-over.                                    *)
THEOREM Refinement == Spec => ImplementsHandoff
  BY InitRefines, NextRefines, InductiveInvariant, PTL
     DEF Spec, ImplementsHandoff, Handoff!HSpec
----------------------------------------------------------------------------
(* What the hand-over of KVHandoff, which both connectors implement,          *)
(* guarantees for any set of requests.                                        *)
VARIABLES src, dst, use
Promise == INSTANCE KVHandoff

(* Nothing is read before its source has finished, and what is in use stays   *)
(* read.                                                                      *)
NoneReadTooEarly ==
    \A r \in Requests : src[r] = "computing" => dst[r] \in {"none", "gone"}

UseIsRead == \A r \in use : dst[r] = "read"

HInv == Promise!HTypeOK /\ Promise!SourceKeepsReads /\ NoneReadTooEarly /\ UseIsRead

(* The invariant holds at first, and every step keeps it.                     *)
LEMMA HInvInductive == /\ Promise!HInit => HInv
                       /\ HInv /\ [Promise!HNext]_(Promise!hvars) => HInv'
<1> USE DEF HInv, Promise!HTypeOK, Promise!SourceKeepsReads, NoneReadTooEarly, UseIsRead
<1>1. Promise!HInit => HInv
  BY DEF Promise!HInit
<1>2. HInv /\ [Promise!HNext]_(Promise!hvars) => HInv'
  <2> SUFFICES ASSUME HInv, [Promise!HNext]_(Promise!hvars)
               PROVE  HInv'
    OBVIOUS
  <2>1. ASSUME NEW r \in Requests, Promise!Hold(r)
        PROVE  HInv'
    BY <2>1 DEF Promise!Hold
  <2>2. ASSUME NEW r \in Requests, Promise!Drop(r)
        PROVE  HInv'
    BY <2>2 DEF Promise!Drop
  <2>3. ASSUME NEW r \in Requests, Promise!Read(r)
        PROVE  HInv'
    BY <2>3 DEF Promise!Read
  <2>4. ASSUME NEW r \in Requests, Promise!GiveUp(r)
        PROVE  HInv'
    BY <2>4 DEF Promise!GiveUp
  <2>5. ASSUME NEW r \in Requests, Promise!StopUse(r)
        PROVE  HInv'
    BY <2>5 DEF Promise!StopUse
  <2>6. ASSUME NEW S \in SUBSET Requests, Promise!Release(S)
        PROVE  HInv'
    BY <2>6 DEF Promise!Release
  <2>7. ASSUME NEW S \in SUBSET Requests, Promise!Use(S)
        PROVE  HInv'
    BY <2>7 DEF Promise!Use
  <2>8. ASSUME NEW S \in SUBSET Requests, NEW lost \in SUBSET Requests,
               Promise!ReadDone(S, lost)
        PROVE  HInv'
    BY <2>8 DEF Promise!ReadDone
  <2>9. CASE UNCHANGED Promise!hvars
    BY <2>9 DEF Promise!hvars
  <2> QED
    BY <2>1, <2>2, <2>3, <2>4, <2>5, <2>6, <2>7, <2>8, <2>9 DEF Promise!HNext
<1> QED
  BY <1>1, <1>2

(* The source keeps its blocks while the destination reads them, and the      *)
(* destination computes only with what it has read.                           *)
THEOREM HandoffIsSafe ==
    Promise!HSpec => [](Promise!SourceKeepsReads /\ Promise!UsesOnlyRead)
<1>1. HInv => Promise!SourceKeepsReads /\ Promise!UsesOnlyRead
  BY DEF HInv, Promise!HTypeOK, NoneReadTooEarly, UseIsRead, Promise!UsesOnlyRead
<1> QED
  BY <1>1, HInvInductive, PTL DEF Promise!HSpec
=============================================================================
