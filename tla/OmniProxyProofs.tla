-------------------------- MODULE OmniProxyProofs --------------------------
(***************************************************************************)
(* Theorems about OmniProxy, for every set of workers and slots and every  *)
(* number of endpoints.                                                    *)
(***************************************************************************)
EXTENDS OmniProxy, FiniteSetTheorems, TLAPS

(* In the middle of a handler that works on one request, a worker has one. *)
CurIsSlot == \A w \in Workers :
    at[w] \in {"entering", "matching", "waking", "released", "cleanup"} => cur[w] \in Slots

TypeInv == TypeOK /\ CurIsSlot

----------------------------------------------------------------------------
(* The inductive invariant.  Every conjunct is a fact the code relies on   *)
(* without checking it.                                                    *)
OneRequestPlaces == {"entering", "matching", "waking", "released", "cleanup"}

(* A handler works on a request of its own worker.                         *)
CurOwned == \A w \in Workers : at[w] \in OneRequestPlaces =>
    cur[w] \in inUse /\ owner[cur[w]] = w

InUseOwned == \A s \in inUse : owner[s] \in Workers

(* shmtx excludes two passes.                                              *)
OneSchedules == \A v, w \in Workers :
    at[v] \in {"schedP", "schedD"} /\ at[w] \in {"schedP", "schedD"} => v = w

(* What a loop has yet to visit is still in the group it walks.            *)
VisitInv == \A w \in Workers : \A s \in visit[w] :
    /\ at[w] = "schedP" => s \in ggroup["p_waiting"]
    /\ at[w] = "schedD" => s \in ggroup["d_waiting"]
    /\ at[w] \in {"runP", "waking"} => s \in lgroup[w]["p_scheduled"]
    /\ at[w] = "waking" => s # cur[w]

(* A handler that cleans up leaves phases the request is in.               *)
CleanupInv == \A w \in Workers : at[w] = "cleanup" => todo[w] \subseteq phase[cur[w]]

(* A worker that has entered no phase yet, and one between the two halves  *)
(* of a parallel wakeup.                                                   *)
EnteringInv == \A w \in Workers : at[w] = "entering" =>
    phase[cur[w]] = {} /\ cur[w] \notin pSched /\ cur[w] \notin dSched

WakingInv == \A w \in Workers : at[w] = "waking" =>
    phase[cur[w]] = {"p_scheduled", "d_waiting"}

(* The bits of phase_state that may be set together.                       *)
ShapeInv == \A s \in Slots :
    /\ "tokenizing" \in phase[s] => phase[s] = {"tokenizing"}
    /\ "p_waiting" \in phase[s] => phase[s] = {"p_waiting"}
    /\ "p_scheduled" \in phase[s] /\ phase[s] # {"p_scheduled"} =>
            owner[s] \in Workers /\ Doing(owner[s], "waking", s)
    /\ ~ ("d_waiting" \in phase[s] /\ "d_scheduled" \in phase[s])
    /\ ~ ("d_waiting" \in phase[s] /\ "decoding" \in phase[s])
    /\ ~ ("d_scheduled" \in phase[s] /\ "decoding" \in phase[s])
    /\ "prefilling" \in phase[s] /\ phase[s] # {"prefilling"} => policy = "parallel"

(* What the two flags of the scheduler say about phase_state.              *)
FlagInv == \A s \in Slots :
    /\ phase[s] \cap {"p_scheduled", "prefilling", "d_waiting", "d_scheduled", "decoding"} # {}
            => s \in pSched
    /\ s \in pSched => "tokenizing" \notin phase[s]
    /\ phase[s] \cap {"d_scheduled", "decoding"} # {} => s \in dSched
    /\ s \in dSched => phase[s] \cap {"d_waiting", "d_scheduled", "decoding"} # {}

(* The policy does not change under requests that depend on it.            *)
PolicyInv ==
    /\ policy = "parallel" => "sequential" \notin locations
    /\ \A w \in Workers : at[w] = "waking" => policy = "parallel"

(* LocalGroupsAgree and SharedGroupsAgree, slot by slot.                   *)
LocalAgree == \A w \in Workers, p \in Phase, s \in Slots :
    s \in lgroup[w][p] <=> owner[s] = w /\ p \in Live(s)

SharedAgree == \A p \in Phase, s \in Slots :
    s \in ggroup[p] <=> \E q \in Live(s) : GroupOf(s, q) = p

IInv ==
    /\ TypeInv /\ CurOwned /\ InUseOwned /\ OneSchedules /\ VisitInv
    /\ CleanupInv /\ EnteringInv /\ WakingInv /\ ShapeInv /\ FlagInv /\ PolicyInv
    /\ LocalAgree /\ SharedAgree
----------------------------------------------------------------------------
(* What the invariant says of an entry of a group.                         *)
LEMMA LiveInPhase ==
    ASSUME IInv, NEW s \in Slots PROVE Live(s) \subseteq phase[s]
    BY DEF IInv, TypeInv, TypeOK, InUseOwned, CleanupInv, Live, Doing

(* An entry of a private group is a request of that worker, in that phase. *)
LEMMA LocalEntry ==
    ASSUME IInv, NEW w \in Workers, NEW p \in Phase, NEW s \in lgroup[w][p]
    PROVE  s \in Slots /\ s \in inUse /\ owner[s] = w /\ p \in Live(s) /\ p \in phase[s]
<1>1. s \in Slots
    BY DEF IInv, TypeInv, TypeOK
<1>2. owner[s] = w /\ p \in Live(s)
    BY <1>1 DEF IInv, LocalAgree
<1>3. s \in inUse
    BY <1>2 DEF Live
<1> QED
    BY <1>1, <1>2, <1>3, LiveInPhase

(* An entry of the shared p_waiting group waits and was never assigned.    *)
LEMMA WaitsForPrefill ==
    ASSUME IInv, NEW s \in ggroup["p_waiting"]
    PROVE  /\ s \in Slots /\ s \in inUse /\ s \notin pSched
           /\ Live(s) = {"p_waiting"} /\ phase[s] = {"p_waiting"}
<1>1. s \in Slots
    BY DEF IInv, TypeInv, TypeOK, Phase
<1>2. "p_waiting" \in Live(s) /\ s \notin pSched
    BY <1>1 DEF IInv, SharedAgree, GroupOf, Phase
<1>3. s \in inUse
    BY <1>2 DEF Live
<1> QED
    BY <1>1, <1>2, <1>3, LiveInPhase DEF IInv, ShapeInv

(* An entry of the shared d_waiting group waits and was never assigned.    *)
LEMMA WaitsForDecode ==
    ASSUME IInv, NEW s \in ggroup["d_waiting"]
    PROVE  /\ s \in Slots /\ s \in inUse /\ s \notin dSched
           /\ "d_waiting" \in Live(s) /\ "d_waiting" \in phase[s]
<1>1. s \in Slots
    BY DEF IInv, TypeInv, TypeOK, Phase
<1>2. "d_waiting" \in Live(s) /\ s \notin dSched
    BY <1>1 DEF IInv, SharedAgree, GroupOf, Phase
<1>3. s \in inUse
    BY <1>2 DEF Live
<1> QED
    BY <1>1, <1>2, <1>3, LiveInPhase

----------------------------------------------------------------------------
(* omni_phase_transition_all keeps the three descriptions typed, and in    *)
(* agreement when nothing else of the request is filed under the two       *)
(* phases and the scheduler has not been there before.                     *)
LEMMA TransitionType ==
    ASSUME TypeInv, NEW w \in Workers, NEW s \in Slots, NEW p \in Phase, NEW q \in Phase,
           TransitionAll(w, s, p, q)
    PROVE  /\ phase' \in [Slots -> SUBSET Phase]
           /\ ggroup' \in [Phase -> SUBSET Slots]
           /\ lgroup' \in [Workers -> [Phase -> SUBSET Slots]]
<1>1. phase' \in [Slots -> SUBSET Phase]
    BY DEF TransitionAll, TypeInv, TypeOK
<1>2. ggroup' \in [Phase -> SUBSET Slots]
    BY DEF TransitionAll, ChangeTo, Put, Drop, TypeInv, TypeOK
<1>3. ASSUME NEW g \in [Phase -> SUBSET Slots]
      PROVE  ChangeTo(g, s, p, q) \in [Phase -> SUBSET Slots]
    BY DEF ChangeTo, Put, Drop
<1>4. lgroup' \in [Workers -> [Phase -> SUBSET Slots]]
    BY <1>3 DEF TransitionAll, TypeInv, TypeOK
<1> QED
    BY <1>1, <1>2, <1>4

Effect(w, s, from, to) ==
    /\ \A p \in Phase : \A x \in Slots :
        x \in ggroup'[p] <=> IF x = s THEN p = to \/ (p # from /\ x \in ggroup[p])
                             ELSE x \in ggroup[p]
    /\ \A v \in Workers : \A p \in Phase : \A x \in Slots :
        x \in lgroup'[v][p] <=> IF x = s /\ v = w THEN p = to \/ (p # from /\ x \in lgroup[v][p])
                                ELSE x \in lgroup[v][p]
    /\ \A x \in Slots : phase'[x] = IF x = s THEN (phase[s] \ {from}) \cup {to}
       ELSE phase[x]
    /\ s \in lgroup[w][from] /\ s \in ggroup[from]

(* A transition moves the entries of one request and no others.            *)
LEMMA TransitionEffect ==
    ASSUME TypeInv, NEW w \in Workers, NEW s \in Slots, NEW from \in Phase, NEW to \in Phase,
           from # to, TransitionAll(w, s, from, to)
    PROVE  Effect(w, s, from, to)
<1>1. \A p \in Phase : \A x \in Slots :
         x \in ggroup'[p] <=> IF x = s THEN p = to \/ (p # from /\ x \in ggroup[p])
            ELSE x \in ggroup[p]
    BY DEF TransitionAll, ChangeTo, Put, Drop, TypeInv, TypeOK
<1>2. \A v \in Workers : v # w => lgroup'[v] = lgroup[v]
    BY DEF TransitionAll, TypeInv, TypeOK
<1>3. lgroup'[w] = ChangeTo(lgroup[w], s, from, to)
    BY DEF TransitionAll, TypeInv, TypeOK
<1>4. \A p \in Phase : \A x \in Slots :
         x \in lgroup'[w][p] <=> IF x = s THEN p = to \/ (p # from /\ x \in lgroup[w][p]) ELSE x \in lgroup[w][p]
    BY <1>3 DEF ChangeTo, Put, Drop, TypeInv, TypeOK
<1>5. \A x \in Slots : phase'[x] = IF x = s THEN (phase[s] \ {from}) \cup {to} ELSE phase[x]
    BY DEF TransitionAll, TypeInv, TypeOK
<1> QED
    BY <1>1, <1>2, <1>4, <1>5 DEF TransitionAll, Effect

(* A transition within the phases of one request keeps the agreement.      *)
LEMMA TransitionAgrees ==
    ASSUME IInv, NEW w \in Workers, NEW s \in Slots, NEW from \in Phase, NEW to \in Phase,
           from # to, TransitionAll(w, s, from, to),
           UNCHANGED <<inUse, owner, pSched, dSched, todo>>,
           at[w] # "cleanup", at'[w] # "cleanup",
           \A v \in Workers \ {w} : at'[v] = at[v] /\ cur'[v] = cur[v],
           \A q \in phase[s] \ {from} : GroupOf(s, q) # from,
           GroupOf(s, from) = from, GroupOf(s, to) = to
    PROVE  LocalAgree' /\ SharedAgree'
<1>0. Effect(w, s, from, to)
    BY TransitionEffect DEF IInv
<1>1. s \in inUse /\ owner[s] = w
    BY <1>0, LocalEntry DEF Effect
<1>2. Live(s) = phase[s] /\ Live(s)' = phase'[s]
    BY <1>1 DEF Live, Doing
<1>3. \A x \in Slots \ {s} : Live(x)' = Live(x)
  <2> SUFFICES ASSUME NEW x \in Slots, x # s PROVE Live(x)' = Live(x)
      OBVIOUS
  <2>1. phase'[x] = phase[x]
      BY <1>0 DEF Effect
  <2>2. CASE x \in inUse
      BY <2>1, <2>2 DEF Live, Doing, IInv, InUseOwned
  <2>3. CASE x \notin inUse
      BY <2>3 DEF Live
  <2> QED
      BY <2>2, <2>3
<1>4. phase'[s] = (phase[s] \ {from}) \cup {to}
    BY <1>0 DEF Effect
<1>5. LocalAgree'
  <2> SUFFICES ASSUME NEW v \in Workers, NEW p \in Phase, NEW x \in Slots
               PROVE  x \in lgroup'[v][p] <=> owner[x] = v /\ p \in Live(x)'
      BY DEF LocalAgree
  <2>1. CASE x = s
      BY <1>0, <1>1, <1>2, <1>4, <2>1 DEF Effect, IInv, LocalAgree
  <2>2. CASE x # s
      BY <1>0, <1>3, <2>2 DEF Effect, IInv, LocalAgree
  <2> QED
      BY <2>1, <2>2
<1>6. SharedAgree'
  <2> SUFFICES ASSUME NEW p \in Phase, NEW x \in Slots
               PROVE  x \in ggroup'[p] <=> \E q \in Live(x)' : GroupOf(x, q) = p
      BY DEF SharedAgree, GroupOf
  <2>1. x \in ggroup[p] <=> \E q \in Live(x) : GroupOf(x, q) = p
      BY DEF IInv, SharedAgree
  <2>2. CASE x = s
    <3>1. x \in ggroup'[p] <=> p = to \/ (p # from /\ x \in ggroup[p])
        BY <1>0, <2>2 DEF Effect
    <3> QED
        BY <1>2, <1>4, <2>1, <2>2, <3>1
  <2>3. CASE x # s
      BY <1>0, <1>3, <2>1, <2>3 DEF Effect
  <2> QED
      BY <2>2, <2>3
<1> QED
    BY <1>5, <1>6

(* Every location of a deployment has the same policy.                     *)
OnePolicyEach == \A L \in Deployments : L # {"sequential", "parallel"}

----------------------------------------------------------------------------
(* Every step of a worker preserves the invariant.                         *)

(* A worker that registers touches no request.                             *)
LEMMA RegisterStep ==
    ASSUME IInv, NEW w \in Workers, Register(w) PROVE IInv'
<1>1. TypeInv'
    BY DEF Register, reqVars, grpVars, runVars, pcVars, IInv, TypeInv, TypeOK, CurIsSlot,
       Places, Phase
<1>2. CurOwned'
    BY DEF Register, reqVars, pcVars, IInv, CurOwned, OneRequestPlaces, TypeOK, TypeInv
<1>3. InUseOwned'
    BY DEF Register, reqVars, pcVars, IInv, InUseOwned, TypeOK, TypeInv
<1>4. OneSchedules'
    BY DEF Register, reqVars, pcVars, IInv, OneSchedules, TypeOK, TypeInv
<1>5. VisitInv'
    BY DEF Register, reqVars, grpVars, runVars, pcVars, IInv, VisitInv, TypeOK, TypeInv
<1>6. CleanupInv'
    BY DEF Register, reqVars, pcVars, IInv, CleanupInv, TypeOK, TypeInv
<1>7. EnteringInv'
    BY DEF Register, reqVars, pcVars, IInv, EnteringInv, TypeOK, TypeInv
<1>8. WakingInv'
    BY DEF Register, reqVars, pcVars, IInv, WakingInv, TypeOK, TypeInv
<1>9. ShapeInv'
    BY DEF Register, reqVars, pcVars, IInv, ShapeInv, Doing, TypeOK, TypeInv
<1>10. FlagInv'
    BY DEF Register, reqVars, pcVars, IInv, FlagInv, TypeOK, TypeInv
<1>11. PolicyInv'
    BY DEF Register, reqVars, pcVars, IInv, PolicyInv, TypeOK, TypeInv
<1>12. LocalAgree'
    BY DEF Register, reqVars, grpVars, runVars, pcVars, IInv, LocalAgree, Live, Doing,
       TypeOK, TypeInv
<1>13. SharedAgree'
    BY DEF Register, reqVars, grpVars, runVars, pcVars, IInv, SharedAgree, Live, Doing,
       GroupOf, TypeOK, TypeInv
<1> QED
    BY <1>1, <1>2, <1>3, <1>4, <1>5, <1>6, <1>7, <1>8, <1>9, <1>10, <1>11, <1>12, <1>13
       DEF IInv

(* A new slot is in no group: nobody owned it, so no phase of it is live.  *)
LEMMA ReqAllocStep ==
    ASSUME IInv, NEW w \in Workers, ReqAlloc(w) PROVE IInv'
<1>1. TypeInv'
    BY EndpointsAssumption DEF ReqAlloc, Idle, Goto, IInv, TypeInv, TypeOK, CurIsSlot,
       procVars, grpVars, runVars, Places,
       Prefills, Decodes
<1>2. CurOwned'
    BY DEF ReqAlloc, Idle, Goto, IInv, CurOwned, OneRequestPlaces, TypeOK, TypeInv
<1>3. InUseOwned'
    BY DEF ReqAlloc, Idle, IInv, InUseOwned, TypeOK, TypeInv
<1>4. OneSchedules'
    BY DEF ReqAlloc, Idle, Goto, LockFree, IInv, OneSchedules, TypeOK, TypeInv
<1>5. VisitInv'
    BY DEF ReqAlloc, Idle, Goto, LockFree, procVars, grpVars, runVars, IInv, VisitInv,
       TypeOK, TypeInv
<1>6. CleanupInv'
    BY DEF ReqAlloc, Idle, Goto, LockFree, procVars, grpVars, runVars, IInv, CleanupInv,
       TypeOK, TypeInv, CurIsSlot, CurOwned, OneRequestPlaces
<1>7. EnteringInv'
    BY DEF ReqAlloc, Idle, Goto, IInv, EnteringInv, TypeOK, TypeInv
<1>8. WakingInv'
    BY DEF ReqAlloc, Idle, Goto, LockFree, procVars, grpVars, runVars, IInv, WakingInv,
       TypeOK, TypeInv, CurIsSlot, CurOwned, OneRequestPlaces
<1>9. ShapeInv'
    BY DEF ReqAlloc, Idle, Goto, procVars, IInv, ShapeInv, Doing, TypeOK, TypeInv
<1>10. FlagInv'
    BY DEF ReqAlloc, Idle, Goto, IInv, FlagInv, TypeOK, TypeInv
<1>11. PolicyInv'
    BY DEF ReqAlloc, Goto, procVars, IInv, PolicyInv, TypeOK, TypeInv
<1>12. LocalAgree'
    BY DEF ReqAlloc, Idle, Goto, LockFree, procVars, grpVars, runVars, IInv, LocalAgree,
       Live, Doing, TypeOK, TypeInv
<1>13. SharedAgree'
    BY DEF ReqAlloc, Idle, Goto, LockFree, procVars, grpVars, runVars, IInv, SharedAgree,
       Live, Doing, GroupOf, TypeOK, TypeInv
<1> QED
    BY <1>1, <1>2, <1>3, <1>4, <1>5, <1>6, <1>7, <1>8, <1>9, <1>10, <1>11, <1>12, <1>13
       DEF IInv

(* The request enters its first phase; policy stays that of the deployment. *)
LEMMA ReqEnterStep ==
    ASSUME OnePolicyEach, IInv, NEW w \in Workers, ReqEnter(w) PROVE IInv'
<1>s. PICK s \in Slots : s = cur[w]
    BY DEF ReqEnter, IInv, TypeInv, CurIsSlot
<1>a. /\ cur[w] = s /\ at[w] = "entering" /\ s \in inUse /\ owner[s] = w
      /\ phase[s] = {} /\ s \notin pSched /\ s \notin dSched
    BY <1>s DEF ReqEnter, IInv, TypeInv, CurIsSlot, CurOwned, OneRequestPlaces, EnteringInv
<1>b. policy' \in {"sequential", "parallel"} /\ (policy = "parallel" => policy' = "parallel")
    BY DeploymentsAssumption DEF ReqEnter, IInv, TypeInv, TypeOK, PolicyInv
<1>c. phase'[s] = {"tokenizing"} /\ \A x \in Slots \ {s} : phase'[x] = phase[x]
    BY <1>a DEF ReqEnter, IInv, TypeInv, TypeOK
<1>1. TypeInv'
  <2>1. ggroup' \in [Phase -> SUBSET Slots]
      BY <1>a DEF ReqEnter, Put, IInv, TypeInv, TypeOK, Phase
  <2>2. lgroup' \in [Workers -> [Phase -> SUBSET Slots]]
      BY <1>a DEF ReqEnter, Put, IInv, TypeInv, TypeOK, Phase
  <2>3. phase' \in [Slots -> SUBSET Phase]
      BY <1>a DEF ReqEnter, IInv, TypeInv, TypeOK, Phase
  <2>4. inGroups' \in [Workers -> Int]
      BY DEF ReqEnter, IInv, TypeInv, TypeOK
  <2>5. at' \in [Workers -> Places] /\ cur' \in [Workers -> Slots \cup {NoSlot}]
      BY DEF ReqEnter, Goto, IInv, TypeInv, TypeOK, Places
  <2>6. CurIsSlot'
      BY DEF ReqEnter, Goto, IInv, TypeInv, TypeOK, CurIsSlot
  <2> QED
      BY <1>b, <2>1, <2>2, <2>3, <2>4, <2>5, <2>6 DEF ReqEnter, IInv, TypeInv, TypeOK,
         procVars, runVars
<1>2. CurOwned'
    BY DEF ReqEnter, Goto, IInv, CurOwned, OneRequestPlaces, TypeOK, TypeInv
<1>3. InUseOwned'
    BY DEF ReqEnter, IInv, InUseOwned, TypeOK, TypeInv
<1>4. OneSchedules'
    BY DEF ReqEnter, Goto, LockFree, IInv, OneSchedules, TypeOK, TypeInv
<1>5. VisitInv'
    BY DEF ReqEnter, Goto, LockFree, Put, procVars, runVars, IInv, VisitInv, TypeOK, TypeInv
<1>6. CleanupInv'
    BY DEF ReqEnter, Goto, IInv, CleanupInv, TypeOK, TypeInv
<1>7. EnteringInv'
    BY DEF ReqEnter, Goto, LockFree, Put, procVars, runVars, IInv, EnteringInv, TypeOK,
       TypeInv, CurIsSlot, CurOwned, OneRequestPlaces
<1>8. WakingInv'
    BY DEF ReqEnter, Goto, LockFree, Put, procVars, runVars, IInv, WakingInv, TypeOK,
       TypeInv, CurIsSlot, CurOwned, OneRequestPlaces
<1>9. ShapeInv'
    BY <1>a, <1>b, <1>c DEF ReqEnter, Goto, Doing, IInv, TypeInv, TypeOK, ShapeInv, CurOwned
<1>10. FlagInv'
    BY <1>a, <1>c DEF ReqEnter, IInv, FlagInv
<1>11. PolicyInv'
  <2>1. locations \subseteq {"sequential", "parallel"} /\ locations # {"sequential", "parallel"}
      BY DeploymentsAssumption DEF OnePolicyEach, IInv, TypeInv, TypeOK
  <2>2. policy' = "parallel" => "sequential" \notin locations
    <3> SUFFICES ASSUME policy' = "parallel", "sequential" \in locations PROVE FALSE
        OBVIOUS
    <3>1. "parallel" \in locations
        BY DEF ReqEnter
    <3> QED
        BY <2>1, <3>1
  <2> QED
      BY <1>b, <2>2 DEF ReqEnter, Goto, IInv, TypeInv, TypeOK, PolicyInv, procVars
<1>12. LocalAgree'
    BY DEF ReqEnter, Goto, LockFree, Put, procVars, runVars, IInv, LocalAgree, Live,
       Doing, TypeOK, TypeInv, CurIsSlot, CurOwned, OneRequestPlaces
<1>13. SharedAgree'
  <2>1. \A x \in Slots \ {s} : Live(x)' = Live(x)
      BY <1>a, <1>c DEF ReqEnter, Goto, IInv, TypeInv, TypeOK, InUseOwned, Live, Doing
  <2>2. Live(s) = {} /\ Live(s)' = {"tokenizing"}
      BY <1>a, <1>c DEF ReqEnter, Goto, IInv, TypeInv, TypeOK, Live, Doing
  <2>3. \A x \in Slots, q \in Phase : GroupOf(x, q)' = GroupOf(x, q)
      BY DEF ReqEnter, GroupOf
  <2>4. \A p \in Phase, x \in Slots : x \in ggroup'[p] <=> x \in ggroup[p] \/ (x = s /\ p = "tokenizing")
      BY <1>a DEF ReqEnter, Put, IInv, TypeInv, TypeOK, Phase
  <2>5. \A x \in Slots : Live(x) \subseteq Phase
      BY LiveInPhase DEF IInv, TypeInv, TypeOK
  <2> SUFFICES ASSUME NEW p \in Phase, NEW x \in Slots
               PROVE  x \in ggroup'[p] <=> \E q \in Live(x)' : GroupOf(x, q)' = p
      BY DEF SharedAgree
  <2>6. x \in ggroup[p] <=> \E q \in Live(x) : GroupOf(x, q) = p
      BY DEF IInv, SharedAgree
  <2>7. CASE x = s
      BY <2>2, <2>3, <2>4, <2>6, <2>7 DEF GroupOf, Phase
  <2>8. CASE x # s
      BY <2>1, <2>3, <2>4, <2>5, <2>6, <2>8
  <2> QED
      BY <2>7, <2>8
<1> QED
    BY <1>1, <1>2, <1>3, <1>4, <1>5, <1>6, <1>7, <1>8, <1>9, <1>10, <1>11, <1>12, <1>13
       DEF IInv

(* Only the place of the handler changes.                                  *)
LEMMA PostTokenizedStep ==
    ASSUME IInv, NEW w \in Workers, NEW s \in Slots, PostTokenized(w, s) PROVE IInv'
<1>1. TypeInv'
    BY DEF PostTokenized, Idle, Goto, procVars, reqVars, grpVars, runVars, IInv, TypeInv,
       TypeOK, CurIsSlot, Places, Phase
<1>2. CurOwned'
    BY LocalEntry DEF PostTokenized, Idle, Goto, reqVars, IInv, TypeInv, TypeOK, Phase,
       CurOwned, OneRequestPlaces
<1>3. InUseOwned'
    BY DEF PostTokenized, Idle, reqVars, IInv, InUseOwned, TypeOK, TypeInv
<1>4. OneSchedules'
    BY DEF PostTokenized, Idle, Goto, reqVars, IInv, OneSchedules, TypeOK, TypeInv
<1>5. VisitInv'
    BY DEF PostTokenized, Idle, Goto, procVars, reqVars, grpVars, runVars, IInv, VisitInv,
       TypeOK, TypeInv
<1>6. CleanupInv'
    BY DEF PostTokenized, Idle, Goto, reqVars, IInv, CleanupInv, TypeOK, TypeInv
<1>7. EnteringInv'
    BY DEF PostTokenized, Idle, Goto, reqVars, IInv, EnteringInv, TypeOK, TypeInv
<1>8. WakingInv'
    BY DEF PostTokenized, Idle, Goto, reqVars, IInv, WakingInv, TypeOK, TypeInv
<1>9. ShapeInv'
    BY DEF PostTokenized, Idle, Goto, procVars, reqVars, IInv, ShapeInv, Doing, TypeOK,
       TypeInv
<1>10. FlagInv'
    BY DEF PostTokenized, Idle, Goto, reqVars, IInv, FlagInv, TypeOK, TypeInv
<1>11. PolicyInv'
    BY DEF PostTokenized, Goto, procVars, reqVars, IInv, PolicyInv, TypeOK, TypeInv
<1>12. LocalAgree'
    BY DEF PostTokenized, Idle, Goto, procVars, reqVars, grpVars, runVars, IInv,
       LocalAgree, Live, Doing, TypeOK, TypeInv
<1>13. SharedAgree'
    BY DEF PostTokenized, Idle, Goto, procVars, reqVars, grpVars, runVars, IInv,
       SharedAgree, Live, Doing, GroupOf, TypeOK, TypeInv
<1> QED
    BY <1>1, <1>2, <1>3, <1>4, <1>5, <1>6, <1>7, <1>8, <1>9, <1>10, <1>11, <1>12, <1>13
       DEF IInv

(* tokenizing to p_waiting: the scheduler has not seen the request yet.    *)
LEMMA QueuePrefillStep ==
    ASSUME IInv, NEW w \in Workers, QueuePrefill(w) PROVE IInv'
<1>a. cur[w] \in Slots /\ at[w] = "matching" /\ TransitionAll(w, cur[w], "tokenizing", "p_waiting")
    BY DEF QueuePrefill, IInv, TypeInv, CurIsSlot
<1>b. Effect(w, cur[w], "tokenizing", "p_waiting")
    BY <1>a, TransitionEffect DEF IInv, Phase
<1>c. /\ phase[cur[w]] = {"tokenizing"} /\ owner[cur[w]] = w
      /\ cur[w] \notin pSched /\ cur[w] \notin dSched
    BY <1>a, <1>b, LocalEntry DEF Effect, Phase, IInv, ShapeInv, FlagInv
<1>d. phase'[cur[w]] = {"p_waiting"} /\ \A x \in Slots \ {cur[w]} : phase'[x] = phase[x]
    BY <1>a, <1>b, <1>c DEF Effect
<1>1. TypeInv'
  <2>1. /\ phase' \in [Slots -> SUBSET Phase]
        /\ ggroup' \in [Phase -> SUBSET Slots]
        /\ lgroup' \in [Workers -> [Phase -> SUBSET Slots]]
      BY <1>a, TransitionType DEF IInv, Phase
  <2> QED
      BY <2>1 DEF QueuePrefill, Goto, IInv, TypeInv, TypeOK, CurIsSlot, Places, procVars,
         runVars
<1>2. CurOwned'
    BY DEF QueuePrefill, Goto, TransitionAll, IInv, CurOwned, OneRequestPlaces, TypeOK,
       TypeInv
<1>3. InUseOwned'
    BY DEF QueuePrefill, TransitionAll, IInv, InUseOwned, TypeOK, TypeInv
<1>4. OneSchedules'
    BY DEF QueuePrefill, Goto, TransitionAll, LockFree, IInv, OneSchedules, TypeOK, TypeInv
<1>5. VisitInv'
    BY DEF QueuePrefill, Goto, TransitionAll, LockFree, ChangeTo, Put, Drop, procVars,
       runVars, IInv, VisitInv, TypeOK, TypeInv
<1>6. CleanupInv'
    BY <1>a, <1>c, <1>d DEF QueuePrefill, Goto, IInv, TypeInv, TypeOK, CurIsSlot,
       CurOwned, OneRequestPlaces, CleanupInv
<1>7. EnteringInv'
    BY <1>a, <1>c, <1>d DEF QueuePrefill, Goto, IInv, TypeInv, TypeOK, CurIsSlot,
       CurOwned, OneRequestPlaces, EnteringInv
<1>8. WakingInv'
  <2> SUFFICES ASSUME NEW v \in Workers, at'[v] = "waking"
               PROVE  phase'[cur'[v]] = {"p_scheduled", "d_waiting"}
      BY DEF WakingInv
  <2>1. v # w /\ at[v] = "waking" /\ cur'[v] = cur[v]
      BY <1>a DEF QueuePrefill, Goto, IInv, TypeInv, TypeOK
  <2>2. cur[v] \in Slots /\ owner[cur[v]] = v /\ phase[cur[v]] = {"p_scheduled", "d_waiting"}
      BY <2>1 DEF IInv, TypeInv, CurIsSlot, CurOwned, OneRequestPlaces, WakingInv
  <2> QED
      BY <1>c, <1>d, <2>1, <2>2
<1>9. ShapeInv'
  <2>1. \A x \in Slots \ {cur[w]} : owner[x] \in Workers /\ Doing(owner[x], "waking", x) =>
            owner'[x] \in Workers /\ Doing(owner[x], "waking", x)'
      BY <1>a DEF QueuePrefill, Goto, Doing, IInv, TypeInv, TypeOK
  <2>2. policy' = policy
      BY DEF QueuePrefill
  <2> QED
      BY <1>a, <1>c, <1>d, <2>1, <2>2 DEF IInv, ShapeInv, PolicyInv
<1>10. FlagInv'
    BY <1>a, <1>c, <1>d DEF QueuePrefill, IInv, FlagInv
<1>11. PolicyInv'
    BY DEF QueuePrefill, Goto, TransitionAll, procVars, IInv, PolicyInv, TypeOK, TypeInv
<1>12. LocalAgree' /\ SharedAgree'
  <2>1. /\ UNCHANGED <<inUse, owner, pSched, dSched, todo>>
        /\ at[w] # "cleanup" /\ at'[w] # "cleanup"
        /\ \A v \in Workers \ {w} : at'[v] = at[v] /\ cur'[v] = cur[v]
      BY <1>a DEF QueuePrefill, Goto, IInv, TypeInv, TypeOK
  <2>2. /\ \A q \in phase[cur[w]] \ {"tokenizing"} : GroupOf(cur[w], q) # "tokenizing"
        /\ GroupOf(cur[w], "tokenizing") = "tokenizing" /\ GroupOf(cur[w], "p_waiting") = "p_waiting"
      BY <1>c DEF GroupOf
  <2> QED
      BY <1>a, <2>1, <2>2, TransitionAgrees DEF Phase
<1> QED
    BY <1>1, <1>2, <1>3, <1>4, <1>5, <1>6, <1>7, <1>8, <1>9, <1>10, <1>11, <1>12 DEF IInv

(* The pass begins with the mutex free, so it is the only one.             *)
LEMMA TickScheduleStep ==
    ASSUME IInv, NEW w \in Workers, TickSchedule(w) PROVE IInv'
<1>1. TypeInv'
    BY DEF TickSchedule, Idle, Goto, LockFree, EveryOther, procVars, reqVars, grpVars,
       runVars, IInv, TypeInv, TypeOK, CurIsSlot, Places, Phase
<1>2. CurOwned'
    BY DEF TickSchedule, Idle, Goto, reqVars, IInv, CurOwned, OneRequestPlaces, TypeOK,
       TypeInv
<1>3. InUseOwned'
    BY DEF TickSchedule, Idle, reqVars, IInv, InUseOwned, TypeOK, TypeInv
<1>4. OneSchedules'
    BY DEF TickSchedule, Idle, Goto, LockFree, reqVars, IInv, OneSchedules, TypeOK, TypeInv
<1>5. VisitInv'
    BY DEF TickSchedule, Idle, Goto, LockFree, EveryOther, procVars, reqVars, grpVars,
       runVars, IInv, VisitInv, TypeOK, TypeInv
<1>6. CleanupInv'
    BY DEF TickSchedule, Idle, Goto, reqVars, IInv, CleanupInv, TypeOK, TypeInv
<1>7. EnteringInv'
    BY DEF TickSchedule, Idle, Goto, reqVars, IInv, EnteringInv, TypeOK, TypeInv
<1>8. WakingInv'
    BY DEF TickSchedule, Idle, Goto, reqVars, IInv, WakingInv, TypeOK, TypeInv
<1>9. ShapeInv'
    BY DEF TickSchedule, Idle, Goto, procVars, reqVars, IInv, ShapeInv, Doing, TypeOK,
       TypeInv
<1>10. FlagInv'
    BY DEF TickSchedule, Idle, Goto, reqVars, IInv, FlagInv, TypeOK, TypeInv
<1>11. PolicyInv'
    BY DEF TickSchedule, Goto, procVars, reqVars, IInv, PolicyInv, TypeOK, TypeInv
<1>12. LocalAgree'
    BY DEF TickSchedule, Idle, Goto, LockFree, EveryOther, procVars, reqVars, grpVars,
       runVars, IInv, LocalAgree, Live, Doing, TypeOK, TypeInv
<1>13. SharedAgree'
    BY DEF TickSchedule, Idle, Goto, LockFree, EveryOther, procVars, reqVars, grpVars,
       runVars, IInv, SharedAgree, Live, Doing, GroupOf, TypeOK, TypeInv
<1> QED
    BY <1>1, <1>2, <1>3, <1>4, <1>5, <1>6, <1>7, <1>8, <1>9, <1>10, <1>11, <1>12, <1>13
       DEF IInv

(* The entry moves and the flag rises together: GroupOf follows.           *)
LEMMA SchedulePrefillStep ==
    ASSUME IInv, NEW w \in Workers, SchedulePrefill(w) PROVE IInv'
<1>a. PICK s \in visit[w], e \in Prefills :
        /\ at[w] = "schedP" /\ s \in Slots /\ s \in ggroup["p_waiting"]
        /\ pIdx' = [pIdx EXCEPT ![s] = e] /\ pRun' = [pRun EXCEPT ![e] = @ + 1]
        /\ ggroup' = ChangeTo(ggroup, s, "p_waiting", "p_scheduled")
        /\ pSched' = pSched \cup {s} /\ visit' = [visit EXCEPT ![w] = @ \ {s}]
    BY DEF SchedulePrefill, IInv, TypeInv, TypeOK, VisitInv
<1>b. \A p \in Phase, x \in Slots :
         x \in ggroup'[p] <=> IF x = s THEN p = "p_scheduled" \/ (p # "p_waiting" /\ x \in ggroup[p])
                              ELSE x \in ggroup[p]
    BY <1>a DEF ChangeTo, Put, Drop, IInv, TypeInv, TypeOK, Phase
<1>c. s \in inUse /\ s \notin pSched /\ "p_waiting" \in phase[s] /\ "p_waiting" \in Live(s)
    BY <1>a, WaitsForPrefill
<1>e. \A x \in Slots : Live(x)' = Live(x) /\ Live(x) \subseteq phase[x] /\ phase[x] \subseteq Phase
    BY LiveInPhase DEF SchedulePrefill, IInv, TypeInv, TypeOK, Live, Doing
<1>1. TypeInv'
  <2>1. pIdx' \in [Slots -> Prefills] /\ pRun' \in [Prefills -> Int]
      BY <1>a DEF IInv, TypeInv, TypeOK
  <2>2. ggroup' \in [Phase -> SUBSET Slots]
      BY <1>a DEF ChangeTo, Put, Drop, IInv, TypeInv, TypeOK, Phase
  <2> QED
      BY <1>a, <2>1, <2>2 DEF SchedulePrefill, IInv, TypeInv, TypeOK, CurIsSlot, procVars
<1>2. CurOwned'
    BY DEF SchedulePrefill, IInv, CurOwned, OneRequestPlaces, TypeOK, TypeInv
<1>3. InUseOwned'
    BY DEF SchedulePrefill, IInv, InUseOwned, TypeOK, TypeInv
<1>4. OneSchedules'
    BY DEF SchedulePrefill, IInv, OneSchedules, TypeOK, TypeInv
<1>5. VisitInv'
    BY <1>a, <1>b DEF SchedulePrefill, IInv, TypeInv, TypeOK, Phase, OneSchedules, VisitInv
<1>6. CleanupInv'
    BY DEF SchedulePrefill, IInv, CleanupInv, TypeOK, TypeInv
<1>7. EnteringInv'
    BY <1>a, <1>c DEF SchedulePrefill, IInv, TypeInv, TypeOK, EnteringInv
<1>8. WakingInv'
    BY DEF SchedulePrefill, IInv, WakingInv, TypeOK, TypeInv
<1>9. ShapeInv'
    BY DEF SchedulePrefill, procVars, IInv, ShapeInv, Doing, TypeOK, TypeInv
<1>10. FlagInv'
    BY <1>a, <1>c DEF SchedulePrefill, IInv, TypeInv, TypeOK, ShapeInv, FlagInv
<1>11. PolicyInv'
    BY DEF SchedulePrefill, procVars, IInv, PolicyInv, TypeOK, TypeInv
<1>12. LocalAgree'
    BY DEF SchedulePrefill, ChangeTo, Put, Drop, procVars, IInv, LocalAgree, Live, Doing,
       TypeOK, TypeInv
<1>13. SharedAgree'
  <2>1. \A x \in Slots \ {s}, q \in Phase : GroupOf(x, q)' = GroupOf(x, q)
      BY <1>a DEF SchedulePrefill, GroupOf
  <2>2. \A q \in Live(s) \ {"p_waiting"} :
           GroupOf(s, q)' = GroupOf(s, q) /\ GroupOf(s, q) # "p_waiting"
      BY <1>a, <1>c DEF SchedulePrefill, GroupOf
  <2>3. GroupOf(s, "p_waiting") = "p_waiting" /\ GroupOf(s, "p_waiting")' = "p_scheduled"
      BY <1>a, <1>c DEF SchedulePrefill, GroupOf
  <2> SUFFICES ASSUME NEW p \in Phase, NEW x \in Slots
               PROVE  x \in ggroup'[p] <=> \E q \in Live(x)' : GroupOf(x, q)' = p
      BY DEF SharedAgree
  <2>4. x \in ggroup[p] <=> \E q \in Live(x) : GroupOf(x, q) = p
      BY DEF IInv, SharedAgree
  <2>5. CASE x = s
      BY <1>b, <1>c, <1>e, <2>2, <2>3, <2>4, <2>5
  <2>6. CASE x # s
      BY <1>b, <1>e, <2>1, <2>4, <2>6
  <2> QED
      BY <2>5, <2>6
<1> QED
    BY <1>1, <1>2, <1>3, <1>4, <1>5, <1>6, <1>7, <1>8, <1>9, <1>10, <1>11, <1>12, <1>13
       DEF IInv

(* The second pass takes its entries from d_waiting.                       *)
LEMMA SchedulePrefillDoneStep ==
    ASSUME IInv, NEW w \in Workers, SchedulePrefillDone(w) PROVE IInv'
<1>1. TypeInv'
    BY DEF SchedulePrefillDone, Goto, EveryOther, procVars, reqVars, grpVars, runVars,
       IInv, TypeInv, TypeOK, CurIsSlot, Places, Phase
<1>2. CurOwned'
    BY DEF SchedulePrefillDone, Goto, reqVars, IInv, CurOwned, OneRequestPlaces, TypeOK,
       TypeInv
<1>3. InUseOwned'
    BY DEF SchedulePrefillDone, reqVars, IInv, InUseOwned, TypeOK, TypeInv
<1>4. OneSchedules'
    BY DEF SchedulePrefillDone, Goto, reqVars, IInv, OneSchedules, TypeOK, TypeInv
<1>5. VisitInv'
    BY DEF SchedulePrefillDone, Goto, EveryOther, procVars, reqVars, grpVars, runVars,
       IInv, VisitInv, TypeOK, TypeInv
<1>6. CleanupInv'
    BY DEF SchedulePrefillDone, Goto, reqVars, IInv, CleanupInv, TypeOK, TypeInv
<1>7. EnteringInv'
    BY DEF SchedulePrefillDone, Goto, reqVars, IInv, EnteringInv, TypeOK, TypeInv
<1>8. WakingInv'
    BY DEF SchedulePrefillDone, Goto, reqVars, IInv, WakingInv, TypeOK, TypeInv
<1>9. ShapeInv'
    BY DEF SchedulePrefillDone, Goto, procVars, reqVars, IInv, ShapeInv, Doing, TypeOK,
       TypeInv
<1>10. FlagInv'
    BY DEF SchedulePrefillDone, Goto, reqVars, IInv, FlagInv, TypeOK, TypeInv
<1>11. PolicyInv'
    BY DEF SchedulePrefillDone, Goto, procVars, reqVars, IInv, PolicyInv, TypeOK, TypeInv
<1>12. LocalAgree'
    BY DEF SchedulePrefillDone, Goto, EveryOther, procVars, reqVars, grpVars, runVars,
       IInv, LocalAgree, Live, Doing, TypeOK, TypeInv
<1>13. SharedAgree'
    BY DEF SchedulePrefillDone, Goto, EveryOther, procVars, reqVars, grpVars, runVars,
       IInv, SharedAgree, Live, Doing, GroupOf, TypeOK, TypeInv
<1> QED
    BY <1>1, <1>2, <1>3, <1>4, <1>5, <1>6, <1>7, <1>8, <1>9, <1>10, <1>11, <1>12, <1>13
       DEF IInv

(* The entry moves and the flag rises together: GroupOf follows.           *)
LEMMA ScheduleDecodeStep ==
    ASSUME IInv, NEW w \in Workers, ScheduleDecode(w) PROVE IInv'
<1>a. PICK s \in visit[w], e \in Decodes :
        /\ at[w] = "schedD" /\ s \in Slots /\ s \in ggroup["d_waiting"]
        /\ dIdx' = [dIdx EXCEPT ![s] = e] /\ dRun' = [dRun EXCEPT ![e] = @ + 1]
        /\ ggroup' = ChangeTo(ggroup, s, "d_waiting", "d_scheduled")
        /\ dSched' = dSched \cup {s} /\ visit' = [visit EXCEPT ![w] = @ \ {s}]
    BY DEF ScheduleDecode, IInv, TypeInv, TypeOK, VisitInv
<1>b. \A p \in Phase, x \in Slots :
         x \in ggroup'[p] <=> IF x = s THEN p = "d_scheduled" \/ (p # "d_waiting" /\ x \in ggroup[p])
                              ELSE x \in ggroup[p]
    BY <1>a DEF ChangeTo, Put, Drop, IInv, TypeInv, TypeOK, Phase
<1>c. s \in inUse /\ s \notin dSched /\ "d_waiting" \in phase[s] /\ "d_waiting" \in Live(s)
    BY <1>a, WaitsForDecode
<1>e. \A x \in Slots : Live(x)' = Live(x) /\ Live(x) \subseteq phase[x] /\ phase[x] \subseteq Phase
    BY LiveInPhase DEF ScheduleDecode, IInv, TypeInv, TypeOK, Live, Doing
<1>1. TypeInv'
  <2>1. dIdx' \in [Slots -> Decodes] /\ dRun' \in [Decodes -> Int]
      BY <1>a DEF IInv, TypeInv, TypeOK
  <2>2. ggroup' \in [Phase -> SUBSET Slots]
      BY <1>a DEF ChangeTo, Put, Drop, IInv, TypeInv, TypeOK, Phase
  <2> QED
      BY <1>a, <2>1, <2>2 DEF ScheduleDecode, IInv, TypeInv, TypeOK, CurIsSlot, procVars
<1>2. CurOwned'
    BY DEF ScheduleDecode, IInv, CurOwned, OneRequestPlaces, TypeOK, TypeInv
<1>3. InUseOwned'
    BY DEF ScheduleDecode, IInv, InUseOwned, TypeOK, TypeInv
<1>4. OneSchedules'
    BY DEF ScheduleDecode, IInv, OneSchedules, TypeOK, TypeInv
<1>5. VisitInv'
    BY <1>a, <1>b DEF ScheduleDecode, IInv, TypeInv, TypeOK, Phase, OneSchedules, VisitInv
<1>6. CleanupInv'
    BY DEF ScheduleDecode, IInv, CleanupInv, TypeOK, TypeInv
<1>7. EnteringInv'
    BY <1>a, <1>c DEF ScheduleDecode, IInv, TypeInv, TypeOK, EnteringInv
<1>8. WakingInv'
    BY DEF ScheduleDecode, IInv, WakingInv, TypeOK, TypeInv
<1>9. ShapeInv'
    BY DEF ScheduleDecode, procVars, IInv, ShapeInv, Doing, TypeOK, TypeInv
<1>10. FlagInv'
    BY <1>a, <1>c DEF ScheduleDecode, IInv, TypeInv, TypeOK, ShapeInv, FlagInv
<1>11. PolicyInv'
    BY DEF ScheduleDecode, procVars, IInv, PolicyInv, TypeOK, TypeInv
<1>12. LocalAgree'
    BY DEF ScheduleDecode, ChangeTo, Put, Drop, procVars, IInv, LocalAgree, Live, Doing,
       TypeOK, TypeInv
<1>13. SharedAgree'
  <2>1. \A x \in Slots \ {s}, q \in Phase : GroupOf(x, q)' = GroupOf(x, q)
      BY <1>a DEF ScheduleDecode, GroupOf
  <2>2. \A q \in Live(s) \ {"d_waiting"} :
           GroupOf(s, q)' = GroupOf(s, q) /\ GroupOf(s, q) # "d_waiting"
      BY <1>a, <1>c DEF ScheduleDecode, GroupOf
  <2>3. GroupOf(s, "d_waiting") = "d_waiting" /\ GroupOf(s, "d_waiting")' = "d_scheduled"
      BY <1>a, <1>c DEF ScheduleDecode, GroupOf
  <2> SUFFICES ASSUME NEW p \in Phase, NEW x \in Slots
               PROVE  x \in ggroup'[p] <=> \E q \in Live(x)' : GroupOf(x, q)' = p
      BY DEF SharedAgree
  <2>4. x \in ggroup[p] <=> \E q \in Live(x) : GroupOf(x, q) = p
      BY DEF IInv, SharedAgree
  <2>5. CASE x = s
      BY <1>b, <1>c, <1>e, <2>2, <2>3, <2>4, <2>5
  <2>6. CASE x # s
      BY <1>b, <1>e, <2>1, <2>4, <2>6
  <2> QED
      BY <2>5, <2>6
<1> QED
    BY <1>1, <1>2, <1>3, <1>4, <1>5, <1>6, <1>7, <1>8, <1>9, <1>10, <1>11, <1>12, <1>13
       DEF IInv

(* Only the place of the handler changes.                                  *)
LEMMA ScheduleDecodeDoneStep ==
    ASSUME IInv, NEW w \in Workers, ScheduleDecodeDone(w) PROVE IInv'
<1>1. TypeInv'
    BY DEF ScheduleDecodeDone, Goto, procVars, reqVars, grpVars, runVars, IInv, TypeInv,
       TypeOK, CurIsSlot, Places, Phase
<1>2. CurOwned'
    BY DEF ScheduleDecodeDone, Goto, reqVars, IInv, CurOwned, OneRequestPlaces, TypeOK,
       TypeInv
<1>3. InUseOwned'
    BY DEF ScheduleDecodeDone, reqVars, IInv, InUseOwned, TypeOK, TypeInv
<1>4. OneSchedules'
    BY DEF ScheduleDecodeDone, Goto, reqVars, IInv, OneSchedules, TypeOK, TypeInv
<1>5. VisitInv'
    BY DEF ScheduleDecodeDone, Goto, procVars, reqVars, grpVars, runVars, IInv, VisitInv,
       TypeOK, TypeInv
<1>6. CleanupInv'
    BY DEF ScheduleDecodeDone, Goto, reqVars, IInv, CleanupInv, TypeOK, TypeInv
<1>7. EnteringInv'
    BY DEF ScheduleDecodeDone, Goto, reqVars, IInv, EnteringInv, TypeOK, TypeInv
<1>8. WakingInv'
    BY DEF ScheduleDecodeDone, Goto, reqVars, IInv, WakingInv, TypeOK, TypeInv
<1>9. ShapeInv'
    BY DEF ScheduleDecodeDone, Goto, procVars, reqVars, IInv, ShapeInv, Doing, TypeOK,
       TypeInv
<1>10. FlagInv'
    BY DEF ScheduleDecodeDone, Goto, reqVars, IInv, FlagInv, TypeOK, TypeInv
<1>11. PolicyInv'
    BY DEF ScheduleDecodeDone, Goto, procVars, reqVars, IInv, PolicyInv, TypeOK, TypeInv
<1>12. LocalAgree'
    BY DEF ScheduleDecodeDone, Goto, procVars, reqVars, grpVars, runVars, IInv,
       LocalAgree, Live, Doing, TypeOK, TypeInv
<1>13. SharedAgree'
    BY DEF ScheduleDecodeDone, Goto, procVars, reqVars, grpVars, runVars, IInv,
       SharedAgree, Live, Doing, GroupOf, TypeOK, TypeInv
<1> QED
    BY <1>1, <1>2, <1>3, <1>4, <1>5, <1>6, <1>7, <1>8, <1>9, <1>10, <1>11, <1>12, <1>13
       DEF IInv

(* phase_state and the private groups catch up; the shared ones already agree. *)
LEMMA UpdateLocalStep ==
    ASSUME IInv, NEW w \in Workers, UpdateLocal(w) PROVE IInv'
<1> DEFINE scanned == lgroup[w]["p_waiting"] \cup lgroup[w]["d_waiting"]
           toP == {s \in lgroup[w]["p_waiting"] : s \in inUse /\ "p_scheduled" \in CaughtUp(s)}
           toD == {s \in lgroup[w]["d_waiting"] : s \in inUse /\ "d_scheduled" \in CaughtUp(s)}
<1>a. at[w] \in {"idle", "update"} /\ at'[w] = "runP" /\ UNCHANGED <<inUse, owner, pSched, dSched, ggroup, todo, cur>>
    BY DEF UpdateLocal, Idle, Goto, IInv, TypeInv, TypeOK
<1>b. \A x \in scanned : x \in Slots /\ x \in inUse /\ owner[x] = w
    BY LocalEntry DEF Phase
<1>c. \A x \in Slots : phase'[x] = IF x \in scanned THEN CaughtUp(x) ELSE phase[x]
    BY DEF UpdateLocal
<1>e. \A x \in Slots : \/ phase'[x] = phase[x] /\ x \notin toP /\ x \notin toD
                       \/ /\ phase[x] = {"p_waiting"} /\ x \in pSched /\ x \in toP /\ x \notin toD
                          /\ phase'[x] = {"p_scheduled"}
                       \/ /\ "d_waiting" \in phase[x] /\ "d_scheduled" \notin phase[x]
                          /\ x \in dSched /\ x \in toD /\ x \notin toP
                          /\ phase'[x] = (phase[x] \ {"d_waiting"}) \cup {"d_scheduled"}
  <2> SUFFICES ASSUME NEW x \in Slots PROVE
            \/ phase'[x] = phase[x] /\ x \notin toP /\ x \notin toD
            \/ /\ phase[x] = {"p_waiting"} /\ x \in pSched /\ x \in toP /\ x \notin toD
               /\ phase'[x] = {"p_scheduled"}
            \/ /\ "d_waiting" \in phase[x] /\ "d_scheduled" \notin phase[x]
               /\ x \in dSched /\ x \in toD /\ x \notin toP
               /\ phase'[x] = (phase[x] \ {"d_waiting"}) \cup {"d_scheduled"}
      OBVIOUS
  <2>1. CASE x \notin scanned
      BY <1>c, <2>1
  <2>2. CASE x \in lgroup[w]["p_waiting"]
    <3>1. phase[x] = {"p_waiting"} /\ x \in inUse
        BY <2>2, LocalEntry DEF Phase, IInv, ShapeInv
    <3>2. x \notin lgroup[w]["d_waiting"]
        BY <3>1, LocalEntry DEF Phase
    <3>3. CaughtUp(x) = IF x \in pSched THEN {"p_scheduled"} ELSE {"p_waiting"}
        BY <3>1 DEF CaughtUp
    <3> QED
        BY <1>c, <2>2, <3>1, <3>2, <3>3
  <2>3. CASE x \in lgroup[w]["d_waiting"]
    <3>1. "d_waiting" \in phase[x] /\ x \in inUse /\ "d_scheduled" \notin phase[x] /\ "p_waiting" \notin phase[x]
        BY <2>3, LocalEntry DEF Phase, IInv, ShapeInv
    <3>2. x \notin lgroup[w]["p_waiting"]
        BY <3>1, LocalEntry DEF Phase
    <3>3. CaughtUp(x) = IF x \in dSched THEN (phase[x] \ {"d_waiting"}) \cup {"d_scheduled"} ELSE phase[x]
        BY <3>1 DEF CaughtUp
    <3> QED
        BY <1>c, <2>3, <3>1, <3>2, <3>3
  <2> QED
      BY <2>1, <2>2, <2>3
<1>f. \A x \in Slots : phase'[x] # phase[x] => owner[x] = w
    BY <1>b, <1>c
<1>g. /\ \A v \in Workers \ {w} : lgroup'[v] = lgroup[v]
      /\ \A p \in Phase : \A x \in Slots : x \in lgroup'[w][p] <=>
            CASE p = "p_waiting"   -> x \in lgroup[w][p] /\ x \notin toP
              [] p = "p_scheduled" -> x \in lgroup[w][p] \/ x \in toP
              [] p = "d_waiting"   -> x \in lgroup[w][p] /\ x \notin toD
              [] p = "d_scheduled" -> x \in lgroup[w][p] \/ x \in toD
              [] OTHER             -> x \in lgroup[w][p]
    BY DEF UpdateLocal, IInv, TypeInv, TypeOK, Phase
<1>h. \A x \in Slots : owner[x] = w => Live(x) = (IF x \in inUse THEN phase[x] ELSE {})
                                       /\ Live(x)' = (IF x \in inUse THEN phase'[x] ELSE {})
    BY <1>a DEF Live, Doing
<1>i. \A x \in Slots : owner[x] # w => Live(x)' = Live(x)
    BY <1>a, <1>f DEF UpdateLocal, Goto, Live, Doing, IInv, TypeInv, TypeOK, InUseOwned
<1>1. TypeInv'
    BY DEF UpdateLocal, EveryOther, CaughtUp, Goto, IInv, TypeInv, TypeOK, CurIsSlot,
       procVars, runVars, Places, Phase
<1>2. CurOwned'
    BY DEF UpdateLocal, Idle, CaughtUp, Goto, IInv, CurOwned, OneRequestPlaces, TypeOK,
       TypeInv
<1>3. InUseOwned'
    BY DEF UpdateLocal, Idle, IInv, InUseOwned, TypeOK, TypeInv
<1>4. OneSchedules'
    BY DEF UpdateLocal, Idle, CaughtUp, Goto, IInv, OneSchedules, TypeOK, TypeInv
<1>5. VisitInv'
  <2>1. \A v \in Workers \ {w} : visit'[v] = visit[v] /\ at'[v] = at[v]
      BY DEF UpdateLocal, Goto, IInv, TypeInv, TypeOK
  <2>2. visit'[w] \subseteq lgroup'[w]["p_scheduled"]
    <3>1. PICK T \in SUBSET lgroup'[w]["p_scheduled"] : visit' = [visit EXCEPT ![w] = T]
        BY DEF UpdateLocal
    <3> QED
        BY <3>1 DEF IInv, TypeInv, TypeOK
  <2> QED
      BY <1>a, <1>g, <2>1, <2>2 DEF IInv, VisitInv
<1>6. CleanupInv'
    BY <1>a, <1>f DEF UpdateLocal, Goto, IInv, TypeInv, TypeOK, CurIsSlot, CurOwned,
       OneRequestPlaces, CleanupInv
<1>7. EnteringInv'
    BY <1>a, <1>f DEF UpdateLocal, Goto, IInv, TypeInv, TypeOK, CurIsSlot, CurOwned,
       OneRequestPlaces, EnteringInv
<1>8. WakingInv'
    BY <1>a, <1>f DEF UpdateLocal, Goto, IInv, TypeInv, TypeOK, CurIsSlot, CurOwned,
       OneRequestPlaces, WakingInv
<1>9. ShapeInv'
  <2>1. \A x \in Slots : owner[x] \in Workers /\ Doing(owner[x], "waking", x) =>
            owner'[x] \in Workers /\ Doing(owner[x], "waking", x)'
      BY <1>a DEF UpdateLocal, Goto, Doing, IInv, TypeInv, TypeOK
  <2>2. policy' = policy
      BY DEF UpdateLocal
  <2>3. \A x \in Slots : phase[x] = {"p_waiting"} \/ phase'[x] = phase[x]
            \/ (phase'[x] = (phase[x] \ {"d_waiting"}) \cup {"d_scheduled"} /\ "d_waiting" \in phase[x])
      BY <1>e
  <2>4. \A x \in Slots : "p_scheduled" \in phase[x] /\ phase'[x] # phase[x] => phase[x] # {"p_scheduled"}
      BY <1>e
  <2> QED
      BY <1>e, <2>1, <2>2, <2>4 DEF IInv, ShapeInv
<1>10. FlagInv'
    BY <1>a, <1>e DEF IInv, FlagInv
<1>11. PolicyInv'
    BY DEF UpdateLocal, Goto, procVars, IInv, PolicyInv, TypeOK, TypeInv
<1>12. LocalAgree'
  <2> SUFFICES ASSUME NEW v \in Workers, NEW p \in Phase, NEW x \in Slots
               PROVE  x \in lgroup'[v][p] <=> owner[x] = v /\ p \in Live(x)'
      BY <1>a DEF LocalAgree
  <2>1. x \in lgroup[v][p] <=> owner[x] = v /\ p \in Live(x)
      BY DEF IInv, LocalAgree
  <2>2. CASE v # w
      BY <1>g, <1>i, <2>1, <2>2
  <2>3. CASE v = w /\ owner[x] # w
    <3>1. x \notin toP /\ x \notin toD
        BY <1>b, <2>3
    <3> QED
        BY <1>g, <2>1, <2>3, <3>1
  <2>4. CASE v = w /\ owner[x] = w /\ x \in inUse
    <3>1. x \in lgroup[w][p] <=> p \in phase[x]
        BY <1>h, <2>1, <2>4
    <3>2. p \in Live(x)' <=> p \in phase'[x]
        BY <1>h, <2>4
    <3> HIDE DEF toP, toD
    <3>3. x \in lgroup'[w][p] <=>
            CASE p = "p_waiting"   -> p \in phase[x] /\ x \notin toP
              [] p = "p_scheduled" -> p \in phase[x] \/ x \in toP
              [] p = "d_waiting"   -> p \in phase[x] /\ x \notin toD
              [] p = "d_scheduled" -> p \in phase[x] \/ x \in toD
              [] OTHER             -> p \in phase[x]
        BY <1>g, <3>1
    <3>4. x \in lgroup'[w][p] <=> p \in phase'[x]
        BY <1>e, <3>3 DEF Phase
    <3> QED
        BY <2>4, <3>2, <3>4
  <2>5. CASE v = w /\ owner[x] = w /\ x \notin inUse
    <3>1. x \notin lgroup[w][p] /\ x \notin toP /\ x \notin toD
        BY <1>b, <1>h, <2>1, <2>5
    <3> QED
        BY <1>g, <1>h, <2>5, <3>1
  <2> QED
      BY <2>2, <2>3, <2>4, <2>5
<1>13. SharedAgree'
  <2> SUFFICES ASSUME NEW p \in Phase, NEW x \in Slots
               PROVE  x \in ggroup[p] <=> \E q \in Live(x)' : GroupOf(x, q) = p
      BY <1>a DEF SharedAgree, GroupOf
  <2>1. x \in ggroup[p] <=> \E q \in Live(x) : GroupOf(x, q) = p
      BY DEF IInv, SharedAgree
  <2>2. CASE phase'[x] = phase[x]
      BY <1>h, <1>i, <2>1, <2>2
  <2>3. CASE phase'[x] # phase[x]
    <3>1. Live(x) = (IF x \in inUse THEN phase[x]
       ELSE {}) /\ Live(x)' = (IF x \in inUse THEN phase'[x] ELSE {})
        BY <1>f, <1>h, <2>3
    <3>2. (\E q \in phase'[x] : GroupOf(x, q) = p) <=> (\E q \in phase[x] : GroupOf(x, q) = p)
        BY <1>e, <2>3 DEF GroupOf
    <3> QED
        BY <2>1, <3>1, <3>2
  <2> QED
      BY <2>2, <2>3
<1> QED
    BY <1>1, <1>2, <1>3, <1>4, <1>5, <1>6, <1>7, <1>8, <1>9, <1>10, <1>11, <1>12, <1>13
       DEF IInv

(* d_waiting is a second phase of a request until its prefill is sent.     *)
LEMMA WakePrefillParallelStep ==
    ASSUME IInv, NEW w \in Workers, WakePrefillParallel(w) PROVE IInv'
<1>a. PICK s \in visit[w] :
        /\ at[w] = "runP" /\ policy = "parallel" /\ s \in Slots /\ s \in lgroup[w]["p_scheduled"]
        /\ lgroup' = [lgroup EXCEPT ![w] = Put(@, s, "d_waiting")]
        /\ ggroup' = Put(ggroup, s, "d_waiting")
        /\ phase' = [phase EXCEPT ![s] = @ \cup {"d_waiting"}]
        /\ visit' = [visit EXCEPT ![w] = @ \ {s}]
        /\ cur' = [cur EXCEPT ![w] = s]
    BY DEF WakePrefillParallel, IInv, TypeInv, TypeOK, VisitInv
<1>c. /\ phase[s] = {"p_scheduled"} /\ owner[s] = w /\ s \in inUse
      /\ s \in pSched /\ s \notin dSched
    BY <1>a, LocalEntry DEF Phase, IInv, ShapeInv, FlagInv, Doing
<1>d. phase'[s] = {"p_scheduled", "d_waiting"} /\ \A x \in Slots \ {s} : phase'[x] = phase[x]
    BY <1>a, <1>c DEF IInv, TypeInv, TypeOK
<1>e. /\ \A x \in Slots \ {s} : Live(x)' = Live(x)
      /\ Live(s) = phase[s] /\ Live(s)' = phase'[s]
    BY <1>a, <1>c, <1>d DEF WakePrefillParallel, Goto, IInv, TypeInv, TypeOK, InUseOwned,
       Live, Doing
<1>1. TypeInv'
  <2>1. phase' \in [Slots -> SUBSET Phase]
      BY <1>a DEF IInv, TypeInv, TypeOK, Phase
  <2>2. ggroup' \in [Phase -> SUBSET Slots]
      BY <1>a DEF Put, IInv, TypeInv, TypeOK, Phase
  <2>3. lgroup' \in [Workers -> [Phase -> SUBSET Slots]]
      BY <1>a DEF Put, IInv, TypeInv, TypeOK, Phase
  <2>4. visit' \in [Workers -> SUBSET Slots] /\ cur' \in [Workers -> Slots \cup {NoSlot}]
      BY <1>a DEF IInv, TypeInv, TypeOK
  <2>5. CurIsSlot'
      BY <1>a DEF WakePrefillParallel, Goto, IInv, TypeInv, TypeOK, CurIsSlot
  <2> QED
      BY <2>1, <2>2, <2>3, <2>4, <2>5 DEF WakePrefillParallel, Goto, IInv, TypeInv,
         TypeOK, Places, procVars, runVars
<1>2. CurOwned'
    BY <1>a, <1>c DEF WakePrefillParallel, Goto, IInv, TypeInv, TypeOK, CurOwned,
       OneRequestPlaces
<1>3. InUseOwned'
    BY DEF WakePrefillParallel, IInv, InUseOwned, TypeOK, TypeInv
<1>4. OneSchedules'
    BY DEF WakePrefillParallel, LockFree, Goto, IInv, OneSchedules, TypeOK, TypeInv
<1>5. VisitInv'
    BY <1>a DEF WakePrefillParallel, LockFree, Put, Goto, IInv, TypeInv, TypeOK, Phase,
       VisitInv
<1>6. CleanupInv'
    BY <1>a, <1>c, <1>d DEF WakePrefillParallel, Goto, IInv, TypeInv, TypeOK, CurIsSlot,
       CurOwned, OneRequestPlaces, CleanupInv
<1>7. EnteringInv'
    BY <1>a, <1>c, <1>d DEF WakePrefillParallel, Goto, IInv, TypeInv, TypeOK, CurIsSlot,
       CurOwned, OneRequestPlaces, EnteringInv
<1>8. WakingInv'
    BY <1>a, <1>c, <1>d DEF WakePrefillParallel, Goto, IInv, TypeInv, TypeOK, CurIsSlot,
       CurOwned, OneRequestPlaces, WakingInv
<1>9. ShapeInv'
    BY <1>a, <1>c, <1>d DEF WakePrefillParallel, Goto, Doing, IInv, TypeInv, TypeOK,
       ShapeInv
<1>10. FlagInv'
    BY <1>a, <1>c, <1>d DEF WakePrefillParallel, IInv, FlagInv
<1>11. PolicyInv'
    BY DEF WakePrefillParallel, Goto, procVars, IInv, PolicyInv, TypeOK, TypeInv
<1>12. LocalAgree'
  <2>1. \A v \in Workers, p \in Phase, x \in Slots :
           x \in lgroup'[v][p] <=> x \in lgroup[v][p] \/ (v = w /\ p = "d_waiting" /\ x = s)
      BY <1>a DEF Put, IInv, TypeInv, TypeOK, Phase
  <2> QED
      BY <1>c, <1>d, <1>e, <2>1 DEF WakePrefillParallel, IInv, LocalAgree
<1>13. SharedAgree'
  <2>1. \A p \in Phase, x \in Slots :
           x \in ggroup'[p] <=> x \in ggroup[p] \/ (p = "d_waiting" /\ x = s)
      BY <1>a DEF Put, IInv, TypeInv, TypeOK, Phase
  <2>2. \A x \in Slots, q \in Phase : GroupOf(x, q)' = GroupOf(x, q)
      BY DEF WakePrefillParallel, GroupOf
  <2>3. GroupOf(s, "d_waiting") = "d_waiting"
      BY <1>c DEF GroupOf
  <2>4. \A x \in Slots : Live(x) \subseteq Phase /\ Live(x)' \subseteq Phase
      BY <1>c, <1>d, <1>e, LiveInPhase DEF IInv, TypeInv, TypeOK, Phase
  <2> SUFFICES ASSUME NEW p \in Phase, NEW x \in Slots
               PROVE  x \in ggroup'[p] <=> \E q \in Live(x)' : GroupOf(x, q)' = p
      BY DEF SharedAgree
  <2>5. x \in ggroup[p] <=> \E q \in Live(x) : GroupOf(x, q) = p
      BY DEF IInv, SharedAgree
  <2>6. CASE x = s
      BY <1>c, <1>d, <1>e, <2>1, <2>2, <2>3, <2>5, <2>6 DEF Phase
  <2>7. CASE x # s
      BY <1>e, <2>1, <2>2, <2>4, <2>5, <2>7
  <2> QED
      BY <2>6, <2>7
<1> QED
    BY <1>1, <1>2, <1>3, <1>4, <1>5, <1>6, <1>7, <1>8, <1>9, <1>10, <1>11, <1>12, <1>13
       DEF IInv

(* p_scheduled to prefilling, the only phase of the request.               *)
LEMMA WakePrefillSequentialStep ==
    ASSUME IInv, NEW w \in Workers, WakePrefillSequential(w) PROVE IInv'
<1>a. PICK s \in visit[w] :
        /\ s \in Slots /\ at[w] = "runP" /\ policy = "sequential"
        /\ TransitionAll(w, s, "p_scheduled", "prefilling")
        /\ visit' = [visit EXCEPT ![w] = @ \ {s}]
    BY DEF WakePrefillSequential, IInv, TypeInv, TypeOK
<1>b. Effect(w, s, "p_scheduled", "prefilling")
    BY <1>a, TransitionEffect DEF IInv, Phase
<1>c. phase[s] = {"p_scheduled"} /\ owner[s] = w
    BY <1>a, <1>b, LocalEntry DEF Effect, Phase, IInv, ShapeInv, Doing
<1>d. phase'[s] = {"prefilling"} /\ \A x \in Slots \ {s} : phase'[x] = phase[x]
    BY <1>a, <1>b, <1>c DEF Effect
<1>1. TypeInv'
  <2>1. /\ phase' \in [Slots -> SUBSET Phase]
        /\ ggroup' \in [Phase -> SUBSET Slots]
        /\ lgroup' \in [Workers -> [Phase -> SUBSET Slots]]
      BY <1>a, TransitionType DEF IInv, Phase
  <2> QED
      BY <2>1, <1>a DEF WakePrefillSequential, Goto, IInv, TypeInv, TypeOK, CurIsSlot,
         Places, procVars, runVars
<1>2. CurOwned'
    BY DEF WakePrefillSequential, TransitionAll, IInv, CurOwned, OneRequestPlaces, TypeOK,
       TypeInv
<1>3. InUseOwned'
    BY DEF WakePrefillSequential, TransitionAll, IInv, InUseOwned, TypeOK, TypeInv
<1>4. OneSchedules'
    BY DEF WakePrefillSequential, TransitionAll, LockFree, IInv, OneSchedules, TypeOK,
       TypeInv
<1>5. VisitInv'
    BY <1>a, <1>b DEF Effect, WakePrefillSequential, IInv, TypeInv, TypeOK, Phase,
       VisitInv, LockFree
<1>6. CleanupInv'
    BY <1>a, <1>c, <1>d DEF WakePrefillSequential, Goto, IInv, TypeInv, TypeOK, CurIsSlot,
       CurOwned, OneRequestPlaces, CleanupInv
<1>7. EnteringInv'
    BY <1>a, <1>c, <1>d DEF WakePrefillSequential, Goto, IInv, TypeInv, TypeOK, CurIsSlot,
       CurOwned, OneRequestPlaces, EnteringInv
<1>8. WakingInv'
    BY <1>a, <1>c, <1>d DEF WakePrefillSequential, Goto, IInv, TypeInv, TypeOK, CurIsSlot,
       CurOwned, OneRequestPlaces, WakingInv
<1>9. ShapeInv'
  <2>1. \A x \in Slots \ {s} : owner[x] \in Workers /\ Doing(owner[x], "waking", x) =>
            owner'[x] \in Workers /\ Doing(owner[x], "waking", x)'
      BY <1>a DEF WakePrefillSequential, Goto, Doing, IInv, TypeInv, TypeOK
  <2>2. policy' = policy
      BY DEF WakePrefillSequential
  <2> QED
      BY <1>a, <1>c, <1>d, <2>1, <2>2 DEF IInv, ShapeInv, PolicyInv
<1>10. FlagInv'
    BY <1>a, <1>c, <1>d DEF WakePrefillSequential, IInv, FlagInv
<1>11. PolicyInv'
    BY DEF WakePrefillSequential, TransitionAll, procVars, IInv, PolicyInv, TypeOK, TypeInv
<1>12. LocalAgree' /\ SharedAgree'
  <2>1. /\ UNCHANGED <<inUse, owner, pSched, dSched, todo>>
        /\ at[w] # "cleanup" /\ at'[w] # "cleanup"
        /\ \A v \in Workers \ {w} : at'[v] = at[v] /\ cur'[v] = cur[v]
      BY <1>a DEF WakePrefillSequential, Goto, IInv, TypeInv, TypeOK
  <2>2. /\ \A q \in phase[s] \ {"p_scheduled"} : GroupOf(s, q) # "p_scheduled"
        /\ GroupOf(s, "p_scheduled") = "p_scheduled" /\ GroupOf(s, "prefilling") = "prefilling"
      BY <1>c DEF GroupOf
  <2> QED
      BY <1>a, <2>1, <2>2, TransitionAgrees DEF Phase
<1> QED
    BY <1>1, <1>2, <1>3, <1>4, <1>5, <1>6, <1>7, <1>8, <1>9, <1>10, <1>11, <1>12 DEF IInv

(* p_scheduled to prefilling, beside d_waiting.                            *)
LEMMA WakePrefillStartStep ==
    ASSUME IInv, NEW w \in Workers, WakePrefillStart(w) PROVE IInv'
<1>a. cur[w] \in Slots /\ at[w] = "waking" /\ TransitionAll(w, cur[w], "p_scheduled", "prefilling")
    BY DEF WakePrefillStart, IInv, TypeInv, CurIsSlot
<1>b. Effect(w, cur[w], "p_scheduled", "prefilling")
    BY <1>a, TransitionEffect DEF IInv, Phase
<1>c. phase[cur[w]] = {"p_scheduled", "d_waiting"} /\ owner[cur[w]] = w
    BY <1>a DEF IInv, WakingInv, CurOwned, OneRequestPlaces
<1>d. phase'[cur[w]] = {"prefilling", "d_waiting"} /\ \A x \in Slots \ {cur[w]} : phase'[x] = phase[x]
    BY <1>a, <1>b, <1>c DEF Effect
<1>1. TypeInv'
  <2>1. /\ phase' \in [Slots -> SUBSET Phase]
        /\ ggroup' \in [Phase -> SUBSET Slots]
        /\ lgroup' \in [Workers -> [Phase -> SUBSET Slots]]
      BY <1>a, TransitionType DEF IInv, Phase
  <2> QED
      BY <2>1, <1>a DEF WakePrefillStart, Goto, IInv, TypeInv, TypeOK, CurIsSlot, Places,
         procVars, runVars
<1>2. CurOwned'
    BY DEF WakePrefillStart, Goto, TransitionAll, IInv, CurOwned, OneRequestPlaces,
       TypeOK, TypeInv
<1>3. InUseOwned'
    BY DEF WakePrefillStart, TransitionAll, IInv, InUseOwned, TypeOK, TypeInv
<1>4. OneSchedules'
    BY DEF WakePrefillStart, Goto, TransitionAll, LockFree, IInv, OneSchedules, TypeOK,
       TypeInv
<1>5. VisitInv'
    BY <1>a, <1>b DEF Effect, WakePrefillStart, Goto, IInv, TypeInv, TypeOK, Phase,
       VisitInv, LockFree, TransitionAll
<1>6. CleanupInv'
    BY <1>a, <1>c, <1>d DEF WakePrefillStart, Goto, IInv, TypeInv, TypeOK, CurIsSlot,
       CurOwned, OneRequestPlaces, CleanupInv
<1>7. EnteringInv'
    BY <1>a, <1>c, <1>d DEF WakePrefillStart, Goto, IInv, TypeInv, TypeOK, CurIsSlot,
       CurOwned, OneRequestPlaces, EnteringInv
<1>8. WakingInv'
    BY <1>a, <1>c, <1>d DEF WakePrefillStart, Goto, IInv, TypeInv, TypeOK, CurIsSlot,
       CurOwned, OneRequestPlaces, WakingInv
<1>9. ShapeInv'
  <2>1. \A x \in Slots \ {cur[w]} : owner[x] \in Workers /\ Doing(owner[x], "waking", x) =>
            owner'[x] \in Workers /\ Doing(owner[x], "waking", x)'
      BY <1>a DEF WakePrefillStart, Goto, Doing, IInv, TypeInv, TypeOK
  <2>2. policy' = policy
      BY DEF WakePrefillStart
  <2> QED
      BY <1>a, <1>c, <1>d, <2>1, <2>2 DEF IInv, ShapeInv, PolicyInv
<1>10. FlagInv'
    BY <1>a, <1>c, <1>d DEF WakePrefillStart, IInv, FlagInv
<1>11. PolicyInv'
    BY DEF WakePrefillStart, Goto, TransitionAll, procVars, IInv, PolicyInv, TypeOK, TypeInv
<1>12. LocalAgree' /\ SharedAgree'
  <2>1. /\ UNCHANGED <<inUse, owner, pSched, dSched, todo>>
        /\ at[w] # "cleanup" /\ at'[w] # "cleanup"
        /\ \A v \in Workers \ {w} : at'[v] = at[v] /\ cur'[v] = cur[v]
      BY <1>a DEF WakePrefillStart, Goto, IInv, TypeInv, TypeOK
  <2>2. /\ \A q \in phase[cur[w]] \ {"p_scheduled"} : GroupOf(cur[w], q) # "p_scheduled"
        /\ GroupOf(cur[w], "p_scheduled") = "p_scheduled" /\ GroupOf(cur[w], "prefilling") = "prefilling"
      BY <1>c DEF GroupOf
  <2> QED
      BY <1>a, <2>1, <2>2, TransitionAgrees DEF Phase
<1> QED
    BY <1>1, <1>2, <1>3, <1>4, <1>5, <1>6, <1>7, <1>8, <1>9, <1>10, <1>11, <1>12 DEF IInv

(* The second loop walks d_scheduled.                                      *)
LEMMA RunPrefillDoneStep ==
    ASSUME IInv, NEW w \in Workers, RunPrefillDone(w) PROVE IInv'
<1>1. TypeInv'
    BY DEF RunPrefillDone, Goto, EveryOther, procVars, reqVars, grpVars, runVars, IInv,
       TypeInv, TypeOK, CurIsSlot, Places, Phase
<1>2. CurOwned'
    BY DEF RunPrefillDone, Goto, reqVars, IInv, CurOwned, OneRequestPlaces, TypeOK, TypeInv
<1>3. InUseOwned'
    BY DEF RunPrefillDone, reqVars, IInv, InUseOwned, TypeOK, TypeInv
<1>4. OneSchedules'
    BY DEF RunPrefillDone, Goto, reqVars, IInv, OneSchedules, TypeOK, TypeInv
<1>5. VisitInv'
    BY DEF RunPrefillDone, Goto, EveryOther, procVars, reqVars, grpVars, runVars, IInv,
       VisitInv, TypeOK, TypeInv
<1>6. CleanupInv'
    BY DEF RunPrefillDone, Goto, reqVars, IInv, CleanupInv, TypeOK, TypeInv
<1>7. EnteringInv'
    BY DEF RunPrefillDone, Goto, reqVars, IInv, EnteringInv, TypeOK, TypeInv
<1>8. WakingInv'
    BY DEF RunPrefillDone, Goto, reqVars, IInv, WakingInv, TypeOK, TypeInv
<1>9. ShapeInv'
    BY DEF RunPrefillDone, Goto, procVars, reqVars, IInv, ShapeInv, Doing, TypeOK, TypeInv
<1>10. FlagInv'
    BY DEF RunPrefillDone, Goto, reqVars, IInv, FlagInv, TypeOK, TypeInv
<1>11. PolicyInv'
    BY DEF RunPrefillDone, Goto, procVars, reqVars, IInv, PolicyInv, TypeOK, TypeInv
<1>12. LocalAgree'
    BY DEF RunPrefillDone, Goto, EveryOther, procVars, reqVars, grpVars, runVars, IInv,
       LocalAgree, Live, Doing, TypeOK, TypeInv
<1>13. SharedAgree'
    BY DEF RunPrefillDone, Goto, EveryOther, procVars, reqVars, grpVars, runVars, IInv,
       SharedAgree, Live, Doing, GroupOf, TypeOK, TypeInv
<1> QED
    BY <1>1, <1>2, <1>3, <1>4, <1>5, <1>6, <1>7, <1>8, <1>9, <1>10, <1>11, <1>12, <1>13
       DEF IInv

(* d_scheduled to decoding, perhaps beside prefilling.                     *)
LEMMA WakeDecodeStep ==
    ASSUME IInv, NEW w \in Workers, WakeDecode(w) PROVE IInv'
<1>a. PICK s \in visit[w] :
        /\ s \in Slots /\ at[w] = "runD"
        /\ TransitionAll(w, s, "d_scheduled", "decoding")
        /\ visit' = [visit EXCEPT ![w] = @ \ {s}]
    BY DEF WakeDecode, IInv, TypeInv, TypeOK
<1>b. Effect(w, s, "d_scheduled", "decoding")
    BY <1>a, TransitionEffect DEF IInv, Phase
<1>c. /\ "d_scheduled" \in phase[s] /\ "d_waiting" \notin phase[s] /\ "decoding" \notin phase[s]
      /\ "p_waiting" \notin phase[s] /\ "tokenizing" \notin phase[s] /\ "p_scheduled" \notin phase[s]
      /\ owner[s] = w /\ s \in pSched /\ s \in dSched
    BY <1>a, <1>b, LocalEntry DEF Effect, Phase, IInv, ShapeInv, FlagInv, Doing
<1>d. /\ phase'[s] = (phase[s] \ {"d_scheduled"}) \cup {"decoding"}
      /\ \A x \in Slots \ {s} : phase'[x] = phase[x]
    BY <1>a, <1>b DEF Effect
<1>1. TypeInv'
  <2>1. /\ phase' \in [Slots -> SUBSET Phase]
        /\ ggroup' \in [Phase -> SUBSET Slots]
        /\ lgroup' \in [Workers -> [Phase -> SUBSET Slots]]
      BY <1>a, TransitionType DEF IInv, Phase
  <2> QED
      BY <2>1, <1>a DEF WakeDecode, Goto, IInv, TypeInv, TypeOK, CurIsSlot, Places,
         procVars, runVars
<1>2. CurOwned'
    BY DEF WakeDecode, TransitionAll, IInv, CurOwned, OneRequestPlaces, TypeOK, TypeInv
<1>3. InUseOwned'
    BY DEF WakeDecode, TransitionAll, IInv, InUseOwned, TypeOK, TypeInv
<1>4. OneSchedules'
    BY DEF WakeDecode, TransitionAll, LockFree, IInv, OneSchedules, TypeOK, TypeInv
<1>5. VisitInv'
    BY DEF WakeDecode, TransitionAll, LockFree, ChangeTo, Put, Drop, procVars, runVars,
       IInv, VisitInv, TypeOK, TypeInv
<1>6. CleanupInv'
    BY <1>a, <1>c, <1>d DEF WakeDecode, Goto, IInv, TypeInv, TypeOK, CurIsSlot, CurOwned,
       OneRequestPlaces, CleanupInv
<1>7. EnteringInv'
    BY <1>a, <1>c, <1>d DEF WakeDecode, Goto, IInv, TypeInv, TypeOK, CurIsSlot, CurOwned,
       OneRequestPlaces, EnteringInv
<1>8. WakingInv'
  <2> SUFFICES ASSUME NEW v \in Workers, at'[v] = "waking"
               PROVE  phase'[cur'[v]] = {"p_scheduled", "d_waiting"}
      BY DEF WakingInv
  <2>1. v # w /\ at[v] = "waking" /\ cur'[v] = cur[v]
      BY <1>a DEF WakeDecode, Goto, IInv, TypeInv, TypeOK
  <2>2. cur[v] \in Slots /\ owner[cur[v]] = v /\ phase[cur[v]] = {"p_scheduled", "d_waiting"}
      BY <2>1 DEF IInv, TypeInv, CurIsSlot, CurOwned, OneRequestPlaces, WakingInv
  <2> QED
      BY <1>c, <1>d, <2>1, <2>2
<1>9. ShapeInv'
  <2>1. \A x \in Slots \ {s} : owner[x] \in Workers /\ Doing(owner[x], "waking", x) =>
            owner'[x] \in Workers /\ Doing(owner[x], "waking", x)'
      BY <1>a DEF WakeDecode, Goto, Doing, IInv, TypeInv, TypeOK
  <2>2. policy' = policy
      BY DEF WakeDecode
  <2> QED
      BY <1>a, <1>c, <1>d, <2>1, <2>2 DEF IInv, ShapeInv, PolicyInv
<1>10. FlagInv'
    BY <1>a, <1>c, <1>d DEF WakeDecode, IInv, FlagInv
<1>11. PolicyInv'
    BY DEF WakeDecode, TransitionAll, procVars, IInv, PolicyInv, TypeOK, TypeInv
<1>12. LocalAgree' /\ SharedAgree'
  <2>1. /\ UNCHANGED <<inUse, owner, pSched, dSched, todo>>
        /\ at[w] # "cleanup" /\ at'[w] # "cleanup"
        /\ \A v \in Workers \ {w} : at'[v] = at[v] /\ cur'[v] = cur[v]
      BY <1>a DEF WakeDecode, Goto, IInv, TypeInv, TypeOK
  <2>2. /\ \A q \in phase[s] \ {"d_scheduled"} : GroupOf(s, q) # "d_scheduled"
        /\ GroupOf(s, "d_scheduled") = "d_scheduled" /\ GroupOf(s, "decoding") = "decoding"
      BY <1>c DEF GroupOf
  <2> QED
      BY <1>a, <2>1, <2>2, TransitionAgrees DEF Phase
<1> QED
    BY <1>1, <1>2, <1>3, <1>4, <1>5, <1>6, <1>7, <1>8, <1>9, <1>10, <1>11, <1>12 DEF IInv

(* Only the place of the handler changes.                                  *)
LEMMA RunDecodeDoneStep ==
    ASSUME IInv, NEW w \in Workers, RunDecodeDone(w) PROVE IInv'
<1>1. TypeInv'
    BY DEF RunDecodeDone, Goto, procVars, reqVars, grpVars, runVars, IInv, TypeInv,
       TypeOK, CurIsSlot, Places, Phase
<1>2. CurOwned'
    BY DEF RunDecodeDone, Goto, reqVars, IInv, CurOwned, OneRequestPlaces, TypeOK, TypeInv
<1>3. InUseOwned'
    BY DEF RunDecodeDone, reqVars, IInv, InUseOwned, TypeOK, TypeInv
<1>4. OneSchedules'
    BY DEF RunDecodeDone, Goto, reqVars, IInv, OneSchedules, TypeOK, TypeInv
<1>5. VisitInv'
    BY DEF RunDecodeDone, Goto, procVars, reqVars, grpVars, runVars, IInv, VisitInv,
       TypeOK, TypeInv
<1>6. CleanupInv'
    BY DEF RunDecodeDone, Goto, reqVars, IInv, CleanupInv, TypeOK, TypeInv
<1>7. EnteringInv'
    BY DEF RunDecodeDone, Goto, reqVars, IInv, EnteringInv, TypeOK, TypeInv
<1>8. WakingInv'
    BY DEF RunDecodeDone, Goto, reqVars, IInv, WakingInv, TypeOK, TypeInv
<1>9. ShapeInv'
    BY DEF RunDecodeDone, Goto, procVars, reqVars, IInv, ShapeInv, Doing, TypeOK, TypeInv
<1>10. FlagInv'
    BY DEF RunDecodeDone, Goto, reqVars, IInv, FlagInv, TypeOK, TypeInv
<1>11. PolicyInv'
    BY DEF RunDecodeDone, Goto, procVars, reqVars, IInv, PolicyInv, TypeOK, TypeInv
<1>12. LocalAgree'
    BY DEF RunDecodeDone, Goto, procVars, reqVars, grpVars, runVars, IInv, LocalAgree,
       Live, Doing, TypeOK, TypeInv
<1>13. SharedAgree'
    BY DEF RunDecodeDone, Goto, procVars, reqVars, grpVars, runVars, IInv, SharedAgree,
       Live, Doing, GroupOf, TypeOK, TypeInv
<1> QED
    BY <1>1, <1>2, <1>3, <1>4, <1>5, <1>6, <1>7, <1>8, <1>9, <1>10, <1>11, <1>12, <1>13
       DEF IInv

(* Only a counter and the place of the handler change.                     *)
LEMMA PrefillReleaseStep ==
    ASSUME IInv, NEW w \in Workers, NEW s \in Slots, PrefillRelease(w, s) PROVE IInv'
<1>1. TypeInv'
    BY DEF PrefillRelease, Idle, Goto, procVars, reqVars, grpVars, IInv, TypeInv, TypeOK,
       CurIsSlot, Places, Phase
<1>2. CurOwned'
    BY LocalEntry DEF PrefillRelease, Idle, Goto, reqVars, IInv, TypeInv, TypeOK, Phase,
       CurOwned, OneRequestPlaces
<1>3. InUseOwned'
    BY DEF PrefillRelease, Idle, reqVars, IInv, InUseOwned, TypeOK, TypeInv
<1>4. OneSchedules'
    BY DEF PrefillRelease, Idle, Goto, reqVars, IInv, OneSchedules, TypeOK, TypeInv
<1>5. VisitInv'
    BY DEF PrefillRelease, Idle, Goto, procVars, reqVars, grpVars, IInv, VisitInv, TypeOK,
       TypeInv
<1>6. CleanupInv'
    BY DEF PrefillRelease, Idle, Goto, reqVars, IInv, CleanupInv, TypeOK, TypeInv
<1>7. EnteringInv'
    BY DEF PrefillRelease, Idle, Goto, reqVars, IInv, EnteringInv, TypeOK, TypeInv
<1>8. WakingInv'
    BY DEF PrefillRelease, Idle, Goto, reqVars, IInv, WakingInv, TypeOK, TypeInv
<1>9. ShapeInv'
    BY DEF PrefillRelease, Idle, Goto, procVars, reqVars, IInv, ShapeInv, Doing, TypeOK,
       TypeInv
<1>10. FlagInv'
    BY DEF PrefillRelease, Idle, Goto, reqVars, IInv, FlagInv, TypeOK, TypeInv
<1>11. PolicyInv'
    BY DEF PrefillRelease, Goto, procVars, reqVars, IInv, PolicyInv, TypeOK, TypeInv
<1>12. LocalAgree'
    BY DEF PrefillRelease, Idle, Goto, procVars, reqVars, grpVars, IInv, LocalAgree, Live,
       Doing, TypeOK, TypeInv
<1>13. SharedAgree'
    BY DEF PrefillRelease, Idle, Goto, procVars, reqVars, grpVars, IInv, SharedAgree,
       Live, Doing, GroupOf, TypeOK, TypeInv
<1> QED
    BY <1>1, <1>2, <1>3, <1>4, <1>5, <1>6, <1>7, <1>8, <1>9, <1>10, <1>11, <1>12, <1>13
       DEF IInv

(* prefilling to d_waiting: by ShapeInv the only phase of the request.     *)
LEMMA PrefillAdvanceSequentialStep ==
    ASSUME IInv, NEW w \in Workers, PrefillAdvanceSequential(w) PROVE IInv'
<1>a. /\ cur[w] \in Slots /\ at[w] = "released" /\ policy = "sequential"
      /\ TransitionAll(w, cur[w], "prefilling", "d_waiting")
    BY DEF PrefillAdvanceSequential, IInv, TypeInv, CurIsSlot
<1>b. Effect(w, cur[w], "prefilling", "d_waiting")
    BY <1>a, TransitionEffect DEF IInv, Phase
<1>c. /\ phase[cur[w]] = {"prefilling"} /\ owner[cur[w]] = w
      /\ cur[w] \in pSched /\ cur[w] \notin dSched
    BY <1>a, <1>b, LocalEntry DEF Effect, Phase, IInv, ShapeInv, FlagInv
<1>d. phase'[cur[w]] = {"d_waiting"} /\ \A x \in Slots \ {cur[w]} : phase'[x] = phase[x]
    BY <1>a, <1>b, <1>c DEF Effect
<1>1. TypeInv'
  <2>1. /\ phase' \in [Slots -> SUBSET Phase]
        /\ ggroup' \in [Phase -> SUBSET Slots]
        /\ lgroup' \in [Workers -> [Phase -> SUBSET Slots]]
      BY <1>a, TransitionType DEF IInv, Phase
  <2> QED
      BY <2>1, <1>a DEF PrefillAdvanceSequential, Goto, IInv, TypeInv, TypeOK, CurIsSlot,
         Places, procVars, runVars
<1>2. CurOwned'
    BY DEF PrefillAdvanceSequential, Goto, TransitionAll, IInv, CurOwned,
       OneRequestPlaces, TypeOK, TypeInv
<1>3. InUseOwned'
    BY DEF PrefillAdvanceSequential, TransitionAll, IInv, InUseOwned, TypeOK, TypeInv
<1>4. OneSchedules'
    BY DEF PrefillAdvanceSequential, Goto, TransitionAll, LockFree, IInv, OneSchedules,
       TypeOK, TypeInv
<1>5. VisitInv'
    BY DEF PrefillAdvanceSequential, Goto, TransitionAll, LockFree, ChangeTo, Put, Drop,
       procVars, runVars, IInv, VisitInv, TypeOK, TypeInv
<1>6. CleanupInv'
    BY <1>a, <1>c, <1>d DEF PrefillAdvanceSequential, Goto, IInv, TypeInv, TypeOK,
       CurIsSlot, CurOwned, OneRequestPlaces, CleanupInv
<1>7. EnteringInv'
    BY <1>a, <1>c, <1>d DEF PrefillAdvanceSequential, Goto, IInv, TypeInv, TypeOK,
       CurIsSlot, CurOwned, OneRequestPlaces, EnteringInv
<1>8. WakingInv'
    BY <1>a, <1>c, <1>d DEF PrefillAdvanceSequential, Goto, IInv, TypeInv, TypeOK,
       CurIsSlot, CurOwned, OneRequestPlaces, WakingInv
<1>9. ShapeInv'
  <2>1. \A x \in Slots \ {cur[w]} : owner[x] \in Workers /\ Doing(owner[x], "waking", x) =>
            owner'[x] \in Workers /\ Doing(owner[x], "waking", x)'
      BY <1>a DEF PrefillAdvanceSequential, Goto, Doing, IInv, TypeInv, TypeOK
  <2>2. policy' = policy
      BY DEF PrefillAdvanceSequential
  <2> QED
      BY <1>a, <1>c, <1>d, <2>1, <2>2 DEF IInv, ShapeInv, PolicyInv
<1>10. FlagInv'
    BY <1>a, <1>c, <1>d DEF PrefillAdvanceSequential, IInv, FlagInv
<1>11. PolicyInv'
    BY DEF PrefillAdvanceSequential, Goto, TransitionAll, procVars, IInv, PolicyInv,
       TypeOK, TypeInv
<1>12. LocalAgree' /\ SharedAgree'
  <2>1. /\ UNCHANGED <<inUse, owner, pSched, dSched, todo>>
        /\ at[w] # "cleanup" /\ at'[w] # "cleanup"
        /\ \A v \in Workers \ {w} : at'[v] = at[v] /\ cur'[v] = cur[v]
      BY <1>a DEF PrefillAdvanceSequential, Goto, IInv, TypeInv, TypeOK
  <2>2. /\ \A q \in phase[cur[w]] \ {"prefilling"} : GroupOf(cur[w], q) # "prefilling"
        /\ GroupOf(cur[w], "prefilling") = "prefilling" /\ GroupOf(cur[w], "d_waiting") = "d_waiting"
      BY <1>c DEF GroupOf
  <2> QED
      BY <1>a, <2>1, <2>2, TransitionAgrees DEF Phase
<1> QED
    BY <1>1, <1>2, <1>3, <1>4, <1>5, <1>6, <1>7, <1>8, <1>9, <1>10, <1>11, <1>12 DEF IInv

(* The request leaves prefilling and stays in its decode phase.            *)
LEMMA PrefillAdvanceParallelStep ==
    ASSUME IInv, NEW w \in Workers, PrefillAdvanceParallel(w) PROVE IInv'
<1>s. PICK s \in Slots : s = cur[w]
    BY DEF PrefillAdvanceParallel, IInv, TypeInv, CurIsSlot
<1>a. /\ cur[w] = s /\ s \in inUse /\ owner[s] = w
      /\ at[w] = "released" /\ policy = "parallel"
    BY <1>s DEF PrefillAdvanceParallel, IInv, CurOwned, OneRequestPlaces
<1>d. /\ phase'[s] = phase[s] \ {"prefilling"}
      /\ \A x \in Slots \ {s} : phase'[x] = phase[x]
    BY <1>a DEF PrefillAdvanceParallel, IInv, TypeInv, TypeOK
<1>e. /\ \A x \in Slots \ {s} : Live(x)' = Live(x)
      /\ Live(s) = phase[s] /\ Live(s)' = phase'[s]
    BY <1>a, <1>d DEF PrefillAdvanceParallel, Goto, IInv, TypeInv, TypeOK, InUseOwned,
       Live, Doing
<1>1. TypeInv'
  <2>1. phase' \in [Slots -> SUBSET Phase]
      BY <1>a DEF PrefillAdvanceParallel, IInv, TypeInv, TypeOK
  <2>2. ggroup' \in [Phase -> SUBSET Slots]
      BY <1>a DEF PrefillAdvanceParallel, Drop, IInv, TypeInv, TypeOK
  <2>3. lgroup' \in [Workers -> [Phase -> SUBSET Slots]]
    <3>1. Drop(lgroup[w], s, "prefilling") \in [Phase -> SUBSET Slots]
        BY DEF Drop, IInv, TypeInv, TypeOK, Phase
    <3> QED
        BY <1>a, <3>1 DEF PrefillAdvanceParallel, IInv, TypeInv, TypeOK
  <2> QED
      BY <2>1, <2>2, <2>3 DEF PrefillAdvanceParallel, Goto, IInv, TypeInv, TypeOK,
         CurIsSlot, Places, procVars, runVars
<1>2. CurOwned'
    BY DEF PrefillAdvanceParallel, Goto, IInv, CurOwned, OneRequestPlaces, TypeOK, TypeInv
<1>3. InUseOwned'
    BY DEF PrefillAdvanceParallel, IInv, InUseOwned, TypeOK, TypeInv
<1>4. OneSchedules'
    BY DEF PrefillAdvanceParallel, Goto, LockFree, IInv, OneSchedules, TypeOK, TypeInv
<1>5. VisitInv'
    BY DEF PrefillAdvanceParallel, Goto, LockFree, Drop, procVars, runVars, IInv,
       VisitInv, TypeOK, TypeInv
<1>6. CleanupInv'
    BY <1>a, <1>d DEF PrefillAdvanceParallel, Goto, IInv, TypeInv, TypeOK, CurIsSlot,
       CurOwned, OneRequestPlaces, CleanupInv
<1>7. EnteringInv'
    BY <1>a, <1>d DEF PrefillAdvanceParallel, Goto, IInv, TypeInv, TypeOK, CurIsSlot,
       CurOwned, OneRequestPlaces, EnteringInv
<1>8. WakingInv'
    BY <1>a, <1>d DEF PrefillAdvanceParallel, Goto, IInv, TypeInv, TypeOK, CurIsSlot,
       CurOwned, OneRequestPlaces, WakingInv
<1>9. ShapeInv'
    BY <1>a, <1>d DEF PrefillAdvanceParallel, Goto, Doing, IInv, TypeInv, TypeOK, ShapeInv
<1>10. FlagInv'
  <2>1. "prefilling" \in phase[s] => phase'[s] \cap {"d_waiting", "d_scheduled", "decoding"} = phase[s] \cap {"d_waiting", "d_scheduled", "decoding"}
      BY <1>d
  <2> QED
      BY <1>a, <1>d, <2>1 DEF PrefillAdvanceParallel, IInv, FlagInv
<1>11. PolicyInv'
    BY DEF PrefillAdvanceParallel, Goto, procVars, IInv, PolicyInv, TypeOK, TypeInv
<1>12. LocalAgree'
  <2>1. \A v \in Workers, p \in Phase, x \in Slots :
           x \in lgroup'[v][p] <=> x \in lgroup[v][p] /\ ~ (v = w /\ x = s /\ p = "prefilling")
    <3>1. \A p \in Phase, x \in Slots : x \in Drop(lgroup[w], s, "prefilling")[p] <=>
                x \in lgroup[w][p] /\ ~ (x = s /\ p = "prefilling")
        BY DEF Drop, IInv, TypeInv, TypeOK
    <3>2. lgroup'[w] = Drop(lgroup[w], s, "prefilling") /\ \A v \in Workers \ {w} : lgroup'[v] = lgroup[v]
        BY <1>a DEF PrefillAdvanceParallel, IInv, TypeInv, TypeOK
    <3> QED
        BY <3>1, <3>2
  <2>2. owner' = owner
      BY DEF PrefillAdvanceParallel
  <2> SUFFICES ASSUME NEW v \in Workers, NEW p \in Phase, NEW x \in Slots
               PROVE  x \in lgroup'[v][p] <=> owner[x] = v /\ p \in Live(x)'
      BY <2>2 DEF LocalAgree
  <2>3. x \in lgroup[v][p] <=> owner[x] = v /\ p \in Live(x)
      BY DEF IInv, LocalAgree
  <2>4. CASE x = s
      BY <1>a, <1>d, <1>e, <2>1, <2>3, <2>4
  <2>5. CASE x # s
      BY <1>e, <2>1, <2>3, <2>5
  <2> QED
      BY <2>4, <2>5
<1>13. SharedAgree'
  <2>1. \A p \in Phase, x \in Slots :
           x \in ggroup'[p] <=> x \in ggroup[p] /\ ~ (x = s /\ p = "prefilling")
      BY <1>a DEF PrefillAdvanceParallel, Drop, IInv, TypeInv, TypeOK
  <2>2. \A x \in Slots, q \in Phase : /\ GroupOf(x, q)' = GroupOf(x, q)
                                      /\ GroupOf(x, q) = "prefilling" <=> q = "prefilling"
      BY DEF PrefillAdvanceParallel, GroupOf
  <2>3. \A x \in Slots : Live(x) \subseteq phase[x] /\ phase[x] \subseteq Phase
      BY LiveInPhase DEF IInv, TypeInv, TypeOK
  <2> SUFFICES ASSUME NEW p \in Phase, NEW x \in Slots
               PROVE  x \in ggroup'[p] <=> \E q \in Live(x)' : GroupOf(x, q)' = p
      BY DEF SharedAgree
  <2>4. x \in ggroup[p] <=> \E q \in Live(x) : GroupOf(x, q) = p
      BY DEF IInv, SharedAgree
  <2>5. CASE x = s
      BY <1>d, <1>e, <2>1, <2>2, <2>3, <2>4, <2>5
  <2>6. CASE x # s
      BY <1>e, <2>1, <2>2, <2>3, <2>4, <2>6
  <2> QED
      BY <2>5, <2>6
<1> QED
    BY <1>1, <1>2, <1>3, <1>4, <1>5, <1>6, <1>7, <1>8, <1>9, <1>10, <1>11, <1>12, <1>13
       DEF IInv

(* Cleanup begins with every phase still to leave: Live does not change.   *)
LEMMA DecodeEndStep ==
    ASSUME IInv, NEW w \in Workers, NEW s \in Slots, DecodeEnd(w, s) PROVE IInv'
<1>1. TypeInv'
    BY DEF DecodeEnd, BeginCleanup, Idle, Goto, procVars, reqVars, grpVars, runVars, IInv,
       TypeInv, TypeOK, CurIsSlot, Places, Phase
<1>2. CurOwned'
    BY LocalEntry DEF DecodeEnd, Idle, Goto, BeginCleanup, reqVars, IInv, TypeInv, TypeOK,
       Phase, CurOwned, OneRequestPlaces
<1>3. InUseOwned'
    BY DEF DecodeEnd, BeginCleanup, Idle, reqVars, IInv, InUseOwned, TypeOK, TypeInv
<1>4. OneSchedules'
    BY DEF DecodeEnd, BeginCleanup, Idle, Goto, reqVars, IInv, OneSchedules, TypeOK, TypeInv
<1>5. VisitInv'
    BY DEF DecodeEnd, BeginCleanup, Idle, Goto, procVars, reqVars, grpVars, runVars, IInv,
       VisitInv, TypeOK, TypeInv
<1>6. CleanupInv'
    BY DEF DecodeEnd, BeginCleanup, Idle, Goto, reqVars, IInv, CleanupInv, TypeOK, TypeInv
<1>7. EnteringInv'
    BY DEF DecodeEnd, BeginCleanup, Idle, Goto, reqVars, IInv, EnteringInv, TypeOK, TypeInv
<1>8. WakingInv'
    BY DEF DecodeEnd, BeginCleanup, Idle, Goto, reqVars, IInv, WakingInv, TypeOK, TypeInv
<1>9. ShapeInv'
    BY DEF DecodeEnd, BeginCleanup, Idle, Goto, procVars, reqVars, IInv, ShapeInv, Doing,
       TypeOK, TypeInv
<1>10. FlagInv'
    BY DEF DecodeEnd, BeginCleanup, Idle, Goto, reqVars, IInv, FlagInv, TypeOK, TypeInv
<1>11. PolicyInv'
    BY DEF DecodeEnd, BeginCleanup, Goto, procVars, reqVars, IInv, PolicyInv, TypeOK,
       TypeInv
<1>12. LocalAgree'
    BY DEF DecodeEnd, BeginCleanup, Idle, Goto, procVars, reqVars, grpVars, runVars, IInv,
       LocalAgree, Live, Doing, TypeOK, TypeInv
<1>13. SharedAgree'
    BY DEF DecodeEnd, BeginCleanup, Idle, Goto, procVars, reqVars, grpVars, runVars, IInv,
       SharedAgree, Live, Doing, GroupOf, TypeOK, TypeInv
<1> QED
    BY <1>1, <1>2, <1>3, <1>4, <1>5, <1>6, <1>7, <1>8, <1>9, <1>10, <1>11, <1>12, <1>13
       DEF IInv

(* Cleanup begins with every phase still to leave: Live does not change.   *)
LEMMA RequestAbortsStep ==
    ASSUME IInv, NEW w \in Workers, NEW s \in Slots, RequestAborts(w, s) PROVE IInv'
<1>1. TypeInv'
    BY DEF RequestAborts, BeginCleanup, Idle, Goto, procVars, reqVars, grpVars, runVars,
       IInv, TypeInv, TypeOK, CurIsSlot, Places, Phase
<1>2. CurOwned'
    BY DEF RequestAborts, BeginCleanup, Idle, Goto, reqVars, IInv, CurOwned,
       OneRequestPlaces, TypeOK, TypeInv
<1>3. InUseOwned'
    BY DEF RequestAborts, BeginCleanup, Idle, reqVars, IInv, InUseOwned, TypeOK, TypeInv
<1>4. OneSchedules'
    BY DEF RequestAborts, BeginCleanup, Idle, Goto, reqVars, IInv, OneSchedules, TypeOK,
       TypeInv
<1>5. VisitInv'
    BY DEF RequestAborts, BeginCleanup, Idle, Goto, procVars, reqVars, grpVars, runVars,
       IInv, VisitInv, TypeOK, TypeInv
<1>6. CleanupInv'
    BY DEF RequestAborts, BeginCleanup, Idle, Goto, reqVars, IInv, CleanupInv, TypeOK,
       TypeInv
<1>7. EnteringInv'
    BY DEF RequestAborts, BeginCleanup, Idle, Goto, reqVars, IInv, EnteringInv, TypeOK,
       TypeInv
<1>8. WakingInv'
    BY DEF RequestAborts, BeginCleanup, Idle, Goto, reqVars, IInv, WakingInv, TypeOK,
       TypeInv
<1>9. ShapeInv'
    BY DEF RequestAborts, BeginCleanup, Idle, Goto, procVars, reqVars, IInv, ShapeInv,
       Doing, TypeOK, TypeInv
<1>10. FlagInv'
    BY DEF RequestAborts, BeginCleanup, Idle, Goto, reqVars, IInv, FlagInv, TypeOK, TypeInv
<1>11. PolicyInv'
    BY DEF RequestAborts, BeginCleanup, Goto, procVars, reqVars, IInv, PolicyInv, TypeOK,
       TypeInv
<1>12. LocalAgree'
    BY DEF RequestAborts, BeginCleanup, Idle, Goto, procVars, reqVars, grpVars, runVars,
       IInv, LocalAgree, Live, Doing, TypeOK, TypeInv
<1>13. SharedAgree'
    BY DEF RequestAborts, BeginCleanup, Idle, Goto, procVars, reqVars, grpVars, runVars,
       IInv, SharedAgree, Live, Doing, GroupOf, TypeOK, TypeInv
<1> QED
    BY <1>1, <1>2, <1>3, <1>4, <1>5, <1>6, <1>7, <1>8, <1>9, <1>10, <1>11, <1>12, <1>13
       DEF IInv

(* One phase leaves Live and both groups; the flags find the shared one.   *)
LEMMA CleanupPhaseStep ==
    ASSUME IInv, NEW w \in Workers, CleanupPhase(w) PROVE IInv'
<1>s. PICK s \in Slots : s = cur[w]
    BY DEF CleanupPhase, IInv, TypeInv, CurIsSlot
<1>a. PICK p \in todo[w] :
        /\ at[w] = "cleanup" /\ cur[w] = s /\ s \in inUse /\ owner[s] = w
        /\ p \in Phase /\ p \in phase[s] /\ GiveBack(s, p)
        /\ ggroup' = Drop(ggroup, s, GroupOf(s, p))
        /\ lgroup' = [lgroup EXCEPT ![w] = Drop(@, s, p)]
        /\ todo' = [todo EXCEPT ![w] = @ \ {p}]
    BY <1>s DEF CleanupPhase, IInv, TypeInv, TypeOK, CurIsSlot, CurOwned,
       OneRequestPlaces, CleanupInv
<1>b. /\ \A x \in Slots \ {s} : Live(x)' = Live(x)
      /\ Live(s) = todo[w] /\ Live(s)' = todo[w] \ {p}
    BY <1>a DEF CleanupPhase, reqVars, IInv, TypeInv, TypeOK, Live, Doing
<1>1. TypeInv'
  <2>1. ggroup' \in [Phase -> SUBSET Slots]
      BY <1>a DEF Drop, IInv, TypeInv, TypeOK
  <2>2. lgroup' \in [Workers -> [Phase -> SUBSET Slots]]
      BY <1>a DEF Drop, IInv, TypeInv, TypeOK
  <2>3. pRun' \in [Prefills -> Int] /\ dRun' \in [Decodes -> Int]
      BY <1>a DEF GiveBack, IInv, TypeInv, TypeOK
  <2>4. todo' \in [Workers -> SUBSET Phase]
      BY <1>a DEF IInv, TypeInv, TypeOK
  <2> QED
      BY <2>1, <2>2, <2>3, <2>4 DEF CleanupPhase, IInv, TypeInv, TypeOK, CurIsSlot,
         procVars, reqVars
<1>2. CurOwned'
    BY DEF CleanupPhase, GroupOf, reqVars, IInv, CurOwned, OneRequestPlaces, TypeOK, TypeInv
<1>3. InUseOwned'
    BY DEF CleanupPhase, GroupOf, reqVars, IInv, InUseOwned, TypeOK, TypeInv
<1>4. OneSchedules'
    BY DEF CleanupPhase, LockFree, GroupOf, reqVars, IInv, OneSchedules, TypeOK, TypeInv
<1>5. VisitInv'
    BY DEF CleanupPhase, LockFree, GiveBack, GroupOf, Drop, procVars, reqVars, IInv,
       VisitInv, TypeOK, TypeInv
<1>6. CleanupInv'
    BY DEF CleanupPhase, GroupOf, reqVars, IInv, CleanupInv, TypeOK, TypeInv
<1>7. EnteringInv'
    BY DEF CleanupPhase, GroupOf, reqVars, IInv, EnteringInv, TypeOK, TypeInv
<1>8. WakingInv'
    BY DEF CleanupPhase, GroupOf, reqVars, IInv, WakingInv, TypeOK, TypeInv
<1>9. ShapeInv'
    BY DEF CleanupPhase, GroupOf, procVars, reqVars, IInv, ShapeInv, Doing, TypeOK, TypeInv
<1>10. FlagInv'
    BY DEF CleanupPhase, GroupOf, reqVars, IInv, FlagInv, TypeOK, TypeInv
<1>11. PolicyInv'
    BY DEF CleanupPhase, GroupOf, procVars, reqVars, IInv, PolicyInv, TypeOK, TypeInv
<1>12. LocalAgree'
    BY DEF CleanupPhase, LockFree, GiveBack, GroupOf, Drop, procVars, reqVars, IInv,
       LocalAgree, Live, Doing, TypeOK, TypeInv
<1>13. SharedAgree'
  <2>1. \A r \in Phase, x \in Slots :
           x \in ggroup'[r] <=> x \in ggroup[r] /\ ~ (x = s /\ r = GroupOf(s, p))
      BY <1>a DEF Drop, IInv, TypeInv, TypeOK
  <2>2. \A x \in Slots, q \in Phase : GroupOf(x, q)' = GroupOf(x, q)
      BY DEF CleanupPhase, reqVars, GroupOf
  <2>3. todo[w] \subseteq phase[s] /\ phase[s] \subseteq Phase
      BY <1>a DEF IInv, TypeInv, TypeOK, CleanupInv
  <2>4. \A q \in todo[w] \ {p} : GroupOf(s, q) # GroupOf(s, p)
      BY <1>a, <2>3 DEF IInv, ShapeInv, GroupOf, Phase
  <2>5. \A x \in Slots : Live(x) \subseteq Phase
      BY LiveInPhase DEF IInv, TypeInv, TypeOK
  <2> SUFFICES ASSUME NEW r \in Phase, NEW x \in Slots
               PROVE  x \in ggroup'[r] <=> \E q \in Live(x)' : GroupOf(x, q)' = r
      BY DEF SharedAgree
  <2>6. x \in ggroup[r] <=> \E q \in Live(x) : GroupOf(x, q) = r
      BY DEF IInv, SharedAgree
  <2>7. CASE x = s
      BY <1>b, <2>1, <2>2, <2>3, <2>4, <2>6, <2>7
  <2>8. CASE x # s
      BY <1>b, <2>1, <2>2, <2>5, <2>6, <2>8
  <2> QED
      BY <2>7, <2>8
<1> QED
    BY <1>1, <1>2, <1>3, <1>4, <1>5, <1>6, <1>7, <1>8, <1>9, <1>10, <1>11, <1>12, <1>13
       DEF IInv

(* Nothing of the request is live any more, so its slot may go.            *)
LEMMA ReqFreeStep ==
    ASSUME IInv, NEW w \in Workers, ReqFree(w) PROVE IInv'
<1>1. TypeInv'
    BY DEF ReqFree, Goto, procVars, runVars, IInv, TypeInv, TypeOK, CurIsSlot, Places, Phase
<1>2. CurOwned'
    BY DEF ReqFree, Goto, IInv, CurOwned, OneRequestPlaces, TypeOK, TypeInv
<1>3. InUseOwned'
    BY DEF ReqFree, IInv, InUseOwned, TypeOK, TypeInv
<1>4. OneSchedules'
    BY DEF ReqFree, Goto, IInv, OneSchedules, TypeOK, TypeInv
<1>5. VisitInv'
    BY DEF ReqFree, Goto, procVars, runVars, IInv, VisitInv, TypeOK, TypeInv
<1>6. CleanupInv'
    BY DEF ReqFree, Goto, IInv, CleanupInv, TypeOK, TypeInv
<1>7. EnteringInv'
    BY DEF ReqFree, Goto, IInv, EnteringInv, TypeOK, TypeInv
<1>8. WakingInv'
    BY DEF ReqFree, Goto, IInv, WakingInv, TypeOK, TypeInv
<1>9. ShapeInv'
    BY DEF ReqFree, Goto, procVars, IInv, ShapeInv, Doing, TypeOK, TypeInv
<1>10. FlagInv'
    BY DEF ReqFree, Goto, IInv, FlagInv, TypeOK, TypeInv
<1>11. PolicyInv'
    BY DEF ReqFree, Goto, procVars, IInv, PolicyInv, TypeOK, TypeInv
<1>12. LocalAgree'
    BY DEF ReqFree, Goto, procVars, runVars, IInv, LocalAgree, Live, Doing, TypeOK,
       TypeInv, CurIsSlot, CurOwned, OneRequestPlaces
<1>13. SharedAgree'
    BY DEF ReqFree, Goto, procVars, runVars, IInv, SharedAgree, Live, Doing, GroupOf,
       TypeOK, TypeInv, CurIsSlot, CurOwned, OneRequestPlaces
<1> QED
    BY <1>1, <1>2, <1>3, <1>4, <1>5, <1>6, <1>7, <1>8, <1>9, <1>10, <1>11, <1>12, <1>13
       DEF IInv

(* A step that changes nothing.                                            *)
LEMMA UnchangedStep ==
    ASSUME IInv, UNCHANGED vars PROVE IInv'
    BY DEF vars, procVars, reqVars, grpVars, runVars, pcVars, IInv, TypeInv, TypeOK,
       CurIsSlot,
       CurOwned, InUseOwned, OneSchedules, VisitInv, CleanupInv, EnteringInv, WakingInv,
       ShapeInv, FlagInv, PolicyInv, LocalAgree, SharedAgree, Live, Doing, GroupOf

----------------------------------------------------------------------------
(* No request, nothing to agree on.                                        *)
LEMMA InitInv == Init => IInv
<1> SUFFICES ASSUME Init PROVE IInv
    OBVIOUS
<1>1. TypeInv
  <2>1. 0 \in Prefills /\ 0 \in Decodes
      BY EndpointsAssumption DEF Prefills, Decodes
  <2>2. pIdx \in [Slots -> Prefills] /\ dIdx \in [Slots -> Decodes]
      BY <2>1 DEF Init
  <2>3. selected \in BOOLEAN
      BY DEF Init
  <2>4. CurIsSlot
      BY DEF Init, CurIsSlot
  <2>5. at \in [Workers -> Places]
      BY DEF Init, Places
  <2>6. ggroup \in [Phase -> SUBSET Slots] /\ lgroup \in [Workers -> [Phase -> SUBSET Slots]]
      BY DEF Init
  <2>7. pRun \in [Prefills -> Int] /\ dRun \in [Decodes -> Int] /\ inGroups \in [Workers -> Int]
      BY DEF Init
  <2> QED
      BY <2>2, <2>3, <2>4, <2>5, <2>6, <2>7 DEF Init, TypeInv, TypeOK
<1>2. /\ CurOwned /\ InUseOwned /\ OneSchedules /\ VisitInv /\ CleanupInv /\ EnteringInv
      /\ WakingInv /\ ShapeInv /\ FlagInv /\ PolicyInv
    BY DEF Init, CurOwned, OneRequestPlaces, InUseOwned, OneSchedules, VisitInv, CleanupInv,
       EnteringInv, WakingInv, ShapeInv, FlagInv, PolicyInv
<1>3. LocalAgree /\ SharedAgree
    BY DEF Init, LocalAgree, SharedAgree, Live
<1> QED
    BY <1>1, <1>2, <1>3 DEF IInv

(* Every step preserves the invariant: one lemma for each action.          *)
LEMMA NextInv ==
    ASSUME OnePolicyEach, IInv, [Next]_vars PROVE IInv'
<1>1. CASE UNCHANGED vars
    BY <1>1, UnchangedStep
<1>2. ASSUME NEW w \in Workers, Step(w) PROVE IInv'
  <2>1. CASE Register(w)
      BY <2>1, RegisterStep
  <2>2. CASE ReqAlloc(w)
      BY <2>2, ReqAllocStep
  <2>3. CASE Tick(w)
      BY <2>3, TickScheduleStep, UpdateLocalStep DEF Tick
  <2>4. CASE Continue(w)
      BY <2>4, ReqEnterStep, QueuePrefillStep, SchedulePrefillStep, SchedulePrefillDoneStep,
         ScheduleDecodeStep, ScheduleDecodeDoneStep, UpdateLocalStep, WakePrefillParallelStep,
         WakePrefillSequentialStep, WakePrefillStartStep, RunPrefillDoneStep, WakeDecodeStep,
         RunDecodeDoneStep, PrefillAdvanceSequentialStep, PrefillAdvanceParallelStep,
         CleanupPhaseStep, ReqFreeStep
      DEF Continue
  <2>5. CASE Answers(w)
      BY <2>5, PostTokenizedStep, PrefillReleaseStep, DecodeEndStep DEF Answers, Answer
  <2>6. CASE \E s \in Slots : RequestAborts(w, s)
      BY <2>6, RequestAbortsStep
  <2> QED
      BY <1>2, <2>1, <2>2, <2>3, <2>4, <2>5, <2>6 DEF Step
<1> QED
    BY <1>1, <1>2 DEF Next

(* The invariant holds of every behaviour of a deployment in which all     *)
(* locations have one policy.                                              *)
THEOREM InductiveInvariant ==
    ASSUME OnePolicyEach PROVE Spec => []IInv
<1>1. IInv /\ [Next]_vars => IInv'
    BY NextInv
<1> QED
    BY <1>1, InitInv, PTL DEF Spec

(* Every variable keeps its type: no slot, phase or endpoint index is ever *)
(* out of the range of the array it indexes.                               *)
THEOREM TypeCorrect ==
    ASSUME OnePolicyEach PROVE Spec => []TypeOK
<1>1. IInv => TypeOK
    BY DEF IInv, TypeInv
<1> QED
    BY <1>1, InductiveInvariant, PTL

(* The private groups of every worker agree with phase_state, whatever     *)
(* handlers and cleanups run where.                                        *)
THEOREM LocalAgreement ==
    ASSUME OnePolicyEach PROVE Spec => []LocalGroupsAgree
<1>1. IInv => LocalGroupsAgree
  <2> SUFFICES ASSUME IInv, NEW w \in Workers, NEW p \in Phase
               PROVE  lgroup[w][p] = {s \in Slots : owner[s] = w /\ p \in Live(s)}
      BY DEF LocalGroupsAgree
  <2>1. lgroup[w][p] \subseteq Slots
      BY DEF IInv, TypeInv, TypeOK
  <2> QED
      BY <2>1 DEF IInv, LocalAgree
<1> QED
    BY <1>1, InductiveInvariant, PTL

(* The shared groups agree with phase_state and the scheduler's flags.     *)
THEOREM SharedAgreement ==
    ASSUME OnePolicyEach PROVE Spec => []SharedGroupsAgree
<1>1. IInv => SharedGroupsAgree
  <2> SUFFICES ASSUME IInv, NEW p \in Phase
               PROVE  ggroup[p] = {s \in Slots : \E q \in Live(s) : GroupOf(s, q) = p}
      BY DEF SharedGroupsAgree
  <2>1. ggroup[p] \subseteq Slots
      BY DEF IInv, TypeInv, TypeOK
  <2> QED
      BY <2>1 DEF IInv, SharedAgree
<1> QED
    BY <1>1, InductiveInvariant, PTL

(* The assertions of the two scheduling passes never fail, and no request  *)
(* is assigned twice, however many workers change groups and phases.       *)
THEOREM SchedulerNeverAsserts ==
    ASSUME OnePolicyEach PROVE Spec => []SchedulerAssertions
<1>1. IInv => SchedulerAssertions
  <2> SUFFICES ASSUME IInv, NEW w \in Workers, NEW s \in visit[w]
               PROVE  /\ at[w] = "schedP" => "p_waiting" \in phase[s] /\ s \notin pSched
                      /\ at[w] = "schedD" => "d_waiting" \in phase[s] /\ s \notin dSched
      BY DEF SchedulerAssertions
  <2>1. CASE at[w] = "schedP"
      BY <2>1, WaitsForPrefill DEF IInv, VisitInv
  <2>2. CASE at[w] = "schedD"
      BY <2>2, WaitsForDecode DEF IInv, VisitInv
  <2> QED
      BY <2>1, <2>2
<1> QED
    BY <1>1, InductiveInvariant, PTL

----------------------------------------------------------------------------
(* What the invariant leads to: the counters that load balancing and the   *)
(* exit of a worker rest on are right, and three copies of the stage of a  *)
(* request, in two processes, behave like one.  It needs three more facts. *)

(* A worker that has given a prefill endpoint back moves the request next. *)
ReleasedInv == \A w \in Workers : at[w] = "released" => "prefilling" \in phase[cur[w]]

(* A request that a handler ends was served, or could be given up.         *)
EndingInv == \A w \in Workers : at[w] = "cleanup" =>
    phase[cur[w]] = {"decoding"} \/ phase[cur[w]] \cap AbortPhases # {}

(* The policy is that of the locations once a request has arrived; under   *)
(* the parallel one a prefill begins when the wait for a decode has.       *)
ArrivedPolicyInv ==
    /\ (\E s \in Slots : phase[s] # {}) => policy \in locations
    /\ "sequential" \notin locations =>
        \A s \in Slots : "prefilling" \in phase[s] => phase[s] \cap DecodePhases # {}

HandlerInv == ReleasedInv /\ EndingInv /\ ArrivedPolicyInv

----------------------------------------------------------------------------
(* What a step leaves alone *)

(* A worker moves no other.                                                *)
LEMMA OthersStay ==
    ASSUME IInv, NEW w \in Workers, Step(w), NEW v \in Workers \ {w}
    PROVE  at'[v] = at[v] /\ cur'[v] = cur[v] /\ todo'[v] = todo[v]
<1> USE DEF IInv, TypeInv, TypeOK
<1>1. ASSUME Register(w) PROVE at'[v] = at[v] /\ cur'[v] = cur[v] /\ todo'[v] = todo[v]
  BY <1>1 DEF Register, Goto, procVars, reqVars, grpVars, runVars, pcVars
<1>2. ASSUME ReqAlloc(w) PROVE at'[v] = at[v] /\ cur'[v] = cur[v] /\ todo'[v] = todo[v]
  BY <1>2 DEF ReqAlloc, Goto, procVars, reqVars, grpVars, runVars, pcVars
<1>3. ASSUME ReqEnter(w) PROVE at'[v] = at[v] /\ cur'[v] = cur[v] /\ todo'[v] = todo[v]
  BY <1>3 DEF ReqEnter, Goto, procVars, reqVars, grpVars, runVars, pcVars
<1>4. ASSUME QueuePrefill(w) PROVE at'[v] = at[v] /\ cur'[v] = cur[v] /\ todo'[v] = todo[v]
  BY <1>4 DEF QueuePrefill, Goto, procVars, reqVars, grpVars, runVars, pcVars,
      TransitionAll
<1>5. ASSUME TickSchedule(w) PROVE at'[v] = at[v] /\ cur'[v] = cur[v] /\ todo'[v] = todo[v]
  BY <1>5 DEF TickSchedule, Goto, procVars, reqVars, grpVars, runVars, pcVars
<1>6. ASSUME SchedulePrefill(w) PROVE at'[v] = at[v] /\ cur'[v] = cur[v] /\ todo'[v] = todo[v]
  BY <1>6 DEF SchedulePrefill, Goto, procVars, reqVars, grpVars, runVars, pcVars
<1>7. ASSUME SchedulePrefillDone(w) PROVE at'[v] = at[v] /\ cur'[v] = cur[v] /\ todo'[v] = todo[v]
  BY <1>7 DEF SchedulePrefillDone, Goto, procVars, reqVars, grpVars, runVars, pcVars
<1>8. ASSUME ScheduleDecode(w) PROVE at'[v] = at[v] /\ cur'[v] = cur[v] /\ todo'[v] = todo[v]
  BY <1>8 DEF ScheduleDecode, Goto, procVars, reqVars, grpVars, runVars, pcVars
<1>9. ASSUME ScheduleDecodeDone(w) PROVE at'[v] = at[v] /\ cur'[v] = cur[v] /\ todo'[v] = todo[v]
  BY <1>9 DEF ScheduleDecodeDone, Goto, procVars, reqVars, grpVars, runVars, pcVars
<1>10. ASSUME UpdateLocal(w) PROVE at'[v] = at[v] /\ cur'[v] = cur[v] /\ todo'[v] = todo[v]
  BY <1>10 DEF UpdateLocal, Goto, procVars, reqVars, grpVars, runVars, pcVars
<1>11. ASSUME WakePrefillParallel(w) PROVE at'[v] = at[v] /\ cur'[v] = cur[v] /\ todo'[v] = todo[v]
  BY <1>11 DEF WakePrefillParallel, Goto, procVars, reqVars, grpVars, runVars, pcVars
<1>12. ASSUME WakePrefillSequential(w) PROVE at'[v] = at[v] /\ cur'[v] = cur[v] /\ todo'[v] = todo[v]
  BY <1>12 DEF WakePrefillSequential, Goto, procVars, reqVars, grpVars, runVars, pcVars,
      TransitionAll
<1>13. ASSUME WakePrefillStart(w) PROVE at'[v] = at[v] /\ cur'[v] = cur[v] /\ todo'[v] = todo[v]
  BY <1>13 DEF WakePrefillStart, Goto, procVars, reqVars, grpVars, runVars, pcVars,
      TransitionAll
<1>14. ASSUME RunPrefillDone(w) PROVE at'[v] = at[v] /\ cur'[v] = cur[v] /\ todo'[v] = todo[v]
  BY <1>14 DEF RunPrefillDone, Goto, procVars, reqVars, grpVars, runVars, pcVars
<1>15. ASSUME WakeDecode(w) PROVE at'[v] = at[v] /\ cur'[v] = cur[v] /\ todo'[v] = todo[v]
  BY <1>15 DEF WakeDecode, Goto, procVars, reqVars, grpVars, runVars, pcVars,
      TransitionAll
<1>16. ASSUME RunDecodeDone(w) PROVE at'[v] = at[v] /\ cur'[v] = cur[v] /\ todo'[v] = todo[v]
  BY <1>16 DEF RunDecodeDone, Goto, procVars, reqVars, grpVars, runVars, pcVars
<1>17. ASSUME PrefillAdvanceSequential(w) PROVE at'[v] = at[v] /\ cur'[v] = cur[v] /\ todo'[v] = todo[v]
  BY <1>17 DEF PrefillAdvanceSequential, Goto, procVars, reqVars, grpVars, runVars,
      pcVars, TransitionAll
<1>18. ASSUME PrefillAdvanceParallel(w) PROVE at'[v] = at[v] /\ cur'[v] = cur[v] /\ todo'[v] = todo[v]
  BY <1>18 DEF PrefillAdvanceParallel, Goto, procVars, reqVars, grpVars, runVars, pcVars
<1>19. ASSUME CleanupPhase(w) PROVE at'[v] = at[v] /\ cur'[v] = cur[v] /\ todo'[v] = todo[v]
  BY <1>19 DEF CleanupPhase, Goto, procVars, reqVars, grpVars, runVars, pcVars
<1>20. ASSUME ReqFree(w) PROVE at'[v] = at[v] /\ cur'[v] = cur[v] /\ todo'[v] = todo[v]
  BY <1>20 DEF ReqFree, Goto, procVars, reqVars, grpVars, runVars, pcVars
<1>21. ASSUME NEW x \in Slots, PostTokenized(w, x) PROVE at'[v] = at[v] /\ cur'[v] = cur[v] /\ todo'[v] = todo[v]
  BY <1>21 DEF PostTokenized, Goto, procVars, reqVars, grpVars, runVars, pcVars
<1>22. ASSUME NEW x \in Slots, PrefillRelease(w, x) PROVE at'[v] = at[v] /\ cur'[v] = cur[v] /\ todo'[v] = todo[v]
  BY <1>22 DEF PrefillRelease, Goto, procVars, reqVars, grpVars, runVars, pcVars
<1>23. ASSUME NEW x \in Slots, DecodeEnd(w, x) PROVE at'[v] = at[v] /\ cur'[v] = cur[v] /\ todo'[v] = todo[v]
  BY <1>23 DEF DecodeEnd, Goto, procVars, reqVars, grpVars, runVars, pcVars,
      BeginCleanup
<1>24. ASSUME NEW x \in Slots, RequestAborts(w, x) PROVE at'[v] = at[v] /\ cur'[v] = cur[v] /\ todo'[v] = todo[v]
  BY <1>24 DEF RequestAborts, Goto, procVars, reqVars, grpVars, runVars, pcVars,
      BeginCleanup
<1> QED BY <1>1, <1>2, <1>3, <1>4, <1>5, <1>6, <1>7, <1>8, <1>9, <1>10, <1>11, <1>12,
    <1>13, <1>14, <1>15, <1>16, <1>17, <1>18, <1>19, <1>20, <1>21, <1>22, <1>23, <1>24
        DEF Step, Tick, Continue, Answers, Answer

(* Nor does it touch the phases of a request of another worker.            *)
LEMMA OthersPhase ==
    ASSUME IInv, NEW w \in Workers, Step(w), NEW s \in inUse, owner[s] # w
    PROVE  phase'[s] = phase[s]
<1> USE DEF IInv, TypeInv, TypeOK
<1>1. ASSUME Register(w) PROVE phase'[s] = phase[s]
  BY <1>1, LocalEntry DEF Register, Goto, procVars, reqVars, grpVars, runVars, pcVars,
      Phase, CurOwned, OneRequestPlaces, VisitInv
<1>2. ASSUME ReqAlloc(w) PROVE phase'[s] = phase[s]
  BY <1>2, LocalEntry DEF ReqAlloc, Goto, procVars, reqVars, grpVars, runVars, pcVars,
      Phase, CurOwned, OneRequestPlaces, VisitInv
<1>3. ASSUME ReqEnter(w) PROVE phase'[s] = phase[s]
  BY <1>3, LocalEntry DEF ReqEnter, Goto, procVars, reqVars, grpVars, runVars, pcVars,
      Phase, CurOwned, OneRequestPlaces, VisitInv
<1>4. ASSUME QueuePrefill(w) PROVE phase'[s] = phase[s]
  BY <1>4, LocalEntry DEF QueuePrefill, Goto, procVars, reqVars, grpVars, runVars,
      pcVars, TransitionAll, Phase, CurOwned, OneRequestPlaces, VisitInv
<1>5. ASSUME TickSchedule(w) PROVE phase'[s] = phase[s]
  BY <1>5, LocalEntry DEF TickSchedule, Goto, procVars, reqVars, grpVars, runVars,
      pcVars, Phase, CurOwned, OneRequestPlaces, VisitInv
<1>6. ASSUME SchedulePrefill(w) PROVE phase'[s] = phase[s]
  BY <1>6, LocalEntry DEF SchedulePrefill, Goto, procVars, reqVars, grpVars, runVars,
      pcVars, Phase, CurOwned, OneRequestPlaces, VisitInv
<1>7. ASSUME SchedulePrefillDone(w) PROVE phase'[s] = phase[s]
  BY <1>7, LocalEntry DEF SchedulePrefillDone, Goto, procVars, reqVars, grpVars,
      runVars, pcVars, Phase, CurOwned, OneRequestPlaces, VisitInv
<1>8. ASSUME ScheduleDecode(w) PROVE phase'[s] = phase[s]
  BY <1>8, LocalEntry DEF ScheduleDecode, Goto, procVars, reqVars, grpVars, runVars,
      pcVars, Phase, CurOwned, OneRequestPlaces, VisitInv
<1>9. ASSUME ScheduleDecodeDone(w) PROVE phase'[s] = phase[s]
  BY <1>9, LocalEntry DEF ScheduleDecodeDone, Goto, procVars, reqVars, grpVars, runVars,
      pcVars, Phase, CurOwned, OneRequestPlaces, VisitInv
<1>10. ASSUME UpdateLocal(w) PROVE phase'[s] = phase[s]
  BY <1>10, LocalEntry DEF UpdateLocal, Goto, procVars, reqVars, grpVars, runVars,
      pcVars, Phase, CurOwned, OneRequestPlaces, VisitInv
<1>11. ASSUME WakePrefillParallel(w) PROVE phase'[s] = phase[s]
  BY <1>11, LocalEntry DEF WakePrefillParallel, Goto, procVars, reqVars, grpVars,
      runVars, pcVars, Phase, CurOwned, OneRequestPlaces, VisitInv
<1>12. ASSUME WakePrefillSequential(w) PROVE phase'[s] = phase[s]
  BY <1>12, LocalEntry DEF WakePrefillSequential, Goto, procVars, reqVars, grpVars,
      runVars, pcVars, TransitionAll, Phase, CurOwned, OneRequestPlaces, VisitInv
<1>13. ASSUME WakePrefillStart(w) PROVE phase'[s] = phase[s]
  BY <1>13, LocalEntry DEF WakePrefillStart, Goto, procVars, reqVars, grpVars, runVars,
      pcVars, TransitionAll, Phase, CurOwned, OneRequestPlaces, VisitInv
<1>14. ASSUME RunPrefillDone(w) PROVE phase'[s] = phase[s]
  BY <1>14, LocalEntry DEF RunPrefillDone, Goto, procVars, reqVars, grpVars, runVars,
      pcVars, Phase, CurOwned, OneRequestPlaces, VisitInv
<1>15. ASSUME WakeDecode(w) PROVE phase'[s] = phase[s]
  BY <1>15, LocalEntry DEF WakeDecode, Goto, procVars, reqVars, grpVars, runVars,
      pcVars, TransitionAll, Phase, CurOwned, OneRequestPlaces, VisitInv
<1>16. ASSUME RunDecodeDone(w) PROVE phase'[s] = phase[s]
  BY <1>16, LocalEntry DEF RunDecodeDone, Goto, procVars, reqVars, grpVars, runVars,
      pcVars, Phase, CurOwned, OneRequestPlaces, VisitInv
<1>17. ASSUME PrefillAdvanceSequential(w) PROVE phase'[s] = phase[s]
  BY <1>17, LocalEntry DEF PrefillAdvanceSequential, Goto, procVars, reqVars, grpVars,
      runVars, pcVars, TransitionAll, Phase, CurOwned, OneRequestPlaces, VisitInv
<1>18. ASSUME PrefillAdvanceParallel(w) PROVE phase'[s] = phase[s]
  BY <1>18, LocalEntry DEF PrefillAdvanceParallel, Goto, procVars, reqVars, grpVars,
      runVars, pcVars, Phase, CurOwned, OneRequestPlaces, VisitInv
<1>19. ASSUME CleanupPhase(w) PROVE phase'[s] = phase[s]
  BY <1>19, LocalEntry DEF CleanupPhase, Goto, procVars, reqVars, grpVars, runVars,
      pcVars, Phase, CurOwned, OneRequestPlaces, VisitInv
<1>20. ASSUME ReqFree(w) PROVE phase'[s] = phase[s]
  BY <1>20, LocalEntry DEF ReqFree, Goto, procVars, reqVars, grpVars, runVars, pcVars,
      Phase, CurOwned, OneRequestPlaces, VisitInv
<1>21. ASSUME NEW x \in Slots, PostTokenized(w, x) PROVE phase'[s] = phase[s]
  BY <1>21, LocalEntry DEF PostTokenized, Goto, procVars, reqVars, grpVars, runVars,
      pcVars, Phase, CurOwned, OneRequestPlaces, VisitInv
<1>22. ASSUME NEW x \in Slots, PrefillRelease(w, x) PROVE phase'[s] = phase[s]
  BY <1>22, LocalEntry DEF PrefillRelease, Goto, procVars, reqVars, grpVars, runVars,
      pcVars, Phase, CurOwned, OneRequestPlaces, VisitInv
<1>23. ASSUME NEW x \in Slots, DecodeEnd(w, x) PROVE phase'[s] = phase[s]
  BY <1>23, LocalEntry DEF DecodeEnd, Goto, procVars, reqVars, grpVars, runVars, pcVars,
      BeginCleanup, Phase, CurOwned, OneRequestPlaces, VisitInv
<1>24. ASSUME NEW x \in Slots, RequestAborts(w, x) PROVE phase'[s] = phase[s]
  BY <1>24, LocalEntry DEF RequestAborts, Goto, procVars, reqVars, grpVars, runVars,
      pcVars, BeginCleanup, Phase, CurOwned, OneRequestPlaces, VisitInv
<1> QED BY <1>1, <1>2, <1>3, <1>4, <1>5, <1>6, <1>7, <1>8, <1>9, <1>10, <1>11, <1>12,
    <1>13, <1>14, <1>15, <1>16, <1>17, <1>18, <1>19, <1>20, <1>21, <1>22, <1>23, <1>24
        DEF Step, Tick, Continue, Answers, Answer

(* What a worker does to its own request.                                  *)
LEMMA OwnHandler ==
    ASSUME IInv, HandlerInv, NEW w \in Workers, Step(w)
    PROVE  /\ at'[w] = "released" => "prefilling" \in phase'[cur'[w]]
           /\ at'[w] = "cleanup" =>
                 phase'[cur'[w]] = {"decoding"} \/ phase'[cur'[w]] \cap AbortPhases # {}
<1> USE DEF IInv, TypeInv, TypeOK, HandlerInv, ReleasedInv, EndingInv
<1> DEFINE Goal == /\ at'[w] = "released" => "prefilling" \in phase'[cur'[w]]
                   /\ at'[w] = "cleanup" => \/ phase'[cur'[w]] = {"decoding"}
                                            \/ phase'[cur'[w]] \cap AbortPhases # {}
<1>1. ASSUME Register(w) PROVE Goal
  BY <1>1, LocalEntry DEF Register, Goto, procVars, reqVars, grpVars, runVars, pcVars,
      Phase, Idle
<1>2. ASSUME ReqAlloc(w) PROVE Goal
  BY <1>2, LocalEntry DEF ReqAlloc, Goto, procVars, reqVars, grpVars, runVars, pcVars,
      Phase, Idle
<1>3. ASSUME ReqEnter(w) PROVE Goal
  BY <1>3, LocalEntry DEF ReqEnter, Goto, procVars, reqVars, grpVars, runVars, pcVars,
      Phase, Idle
<1>4. ASSUME QueuePrefill(w) PROVE Goal
  BY <1>4, LocalEntry DEF QueuePrefill, Goto, procVars, reqVars, grpVars, runVars,
      pcVars, TransitionAll, Phase, Idle
<1>5. ASSUME TickSchedule(w) PROVE Goal
  BY <1>5, LocalEntry DEF TickSchedule, Goto, procVars, reqVars, grpVars, runVars,
      pcVars, Phase, Idle
<1>6. ASSUME SchedulePrefill(w) PROVE Goal
  BY <1>6, LocalEntry DEF SchedulePrefill, Goto, procVars, reqVars, grpVars, runVars,
      pcVars, Phase, Idle
<1>7. ASSUME SchedulePrefillDone(w) PROVE Goal
  BY <1>7, LocalEntry DEF SchedulePrefillDone, Goto, procVars, reqVars, grpVars,
      runVars, pcVars, Phase, Idle
<1>8. ASSUME ScheduleDecode(w) PROVE Goal
  BY <1>8, LocalEntry DEF ScheduleDecode, Goto, procVars, reqVars, grpVars, runVars,
      pcVars, Phase, Idle
<1>9. ASSUME ScheduleDecodeDone(w) PROVE Goal
  BY <1>9, LocalEntry DEF ScheduleDecodeDone, Goto, procVars, reqVars, grpVars, runVars,
      pcVars, Phase, Idle
<1>10. ASSUME UpdateLocal(w) PROVE Goal
  BY <1>10, LocalEntry DEF UpdateLocal, Goto, procVars, reqVars, grpVars, runVars,
      pcVars, Phase, Idle
<1>11. ASSUME WakePrefillParallel(w) PROVE Goal
  BY <1>11, LocalEntry DEF WakePrefillParallel, Goto, procVars, reqVars, grpVars,
      runVars, pcVars, Phase, Idle
<1>12. ASSUME WakePrefillSequential(w) PROVE Goal
  BY <1>12, LocalEntry DEF WakePrefillSequential, Goto, procVars, reqVars, grpVars,
      runVars, pcVars, TransitionAll, Phase, Idle
<1>13. ASSUME WakePrefillStart(w) PROVE Goal
  BY <1>13, LocalEntry DEF WakePrefillStart, Goto, procVars, reqVars, grpVars, runVars,
      pcVars, TransitionAll, Phase, Idle
<1>14. ASSUME RunPrefillDone(w) PROVE Goal
  BY <1>14, LocalEntry DEF RunPrefillDone, Goto, procVars, reqVars, grpVars, runVars,
      pcVars, Phase, Idle
<1>15. ASSUME WakeDecode(w) PROVE Goal
  BY <1>15, LocalEntry DEF WakeDecode, Goto, procVars, reqVars, grpVars, runVars,
      pcVars, TransitionAll, Phase, Idle
<1>16. ASSUME RunDecodeDone(w) PROVE Goal
  BY <1>16, LocalEntry DEF RunDecodeDone, Goto, procVars, reqVars, grpVars, runVars,
      pcVars, Phase, Idle
<1>17. ASSUME PrefillAdvanceSequential(w) PROVE Goal
  BY <1>17, LocalEntry DEF PrefillAdvanceSequential, Goto, procVars, reqVars, grpVars,
      runVars, pcVars, TransitionAll, Phase, Idle
<1>18. ASSUME PrefillAdvanceParallel(w) PROVE Goal
  BY <1>18, LocalEntry DEF PrefillAdvanceParallel, Goto, procVars, reqVars, grpVars,
      runVars, pcVars, Phase, Idle
<1>19. ASSUME CleanupPhase(w) PROVE Goal
  BY <1>19, LocalEntry DEF CleanupPhase, Goto, procVars, reqVars, grpVars, runVars,
      pcVars, Phase, Idle
<1>20. ASSUME ReqFree(w) PROVE Goal
  BY <1>20, LocalEntry DEF ReqFree, Goto, procVars, reqVars, grpVars, runVars, pcVars,
      Phase, Idle
<1>21. ASSUME NEW x \in Slots, PostTokenized(w, x) PROVE Goal
  BY <1>21, LocalEntry DEF PostTokenized, Goto, procVars, reqVars, grpVars, runVars,
      pcVars, Phase, Idle
<1>22. ASSUME NEW x \in Slots, PrefillRelease(w, x) PROVE Goal
  BY <1>22, LocalEntry DEF PrefillRelease, Goto, procVars, reqVars, grpVars, runVars,
      pcVars, Phase, Idle
<1>23. ASSUME NEW x \in Slots, DecodeEnd(w, x) PROVE Goal
  <2>1. "decoding" \in phase[x] /\ "prefilling" \notin phase[x]
    BY <1>23, LocalEntry DEF DecodeEnd, Phase
  <2>2. phase[x] = {"decoding"}
    <3>1. phase[x] \subseteq Phase
      OBVIOUS
    <3>2. CASE "p_scheduled" \in phase[x]
      BY <1>23, <2>1, <3>2, LocalEntry DEF DecodeEnd, Idle, ShapeInv, Doing, Phase
    <3> QED BY <2>1, <3>1, <3>2 DEF ShapeInv, Phase
  <2> QED BY <1>23, <2>2 DEF DecodeEnd, BeginCleanup, Goto, reqVars
<1>24. ASSUME NEW x \in Slots, RequestAborts(w, x) PROVE Goal
  BY <1>24, LocalEntry DEF RequestAborts, Goto, procVars, reqVars, grpVars, runVars,
      pcVars, BeginCleanup, Phase, Idle
<1> QED BY <1>1, <1>2, <1>3, <1>4, <1>5, <1>6, <1>7, <1>8, <1>9, <1>10, <1>11, <1>12,
    <1>13, <1>14, <1>15, <1>16, <1>17, <1>18, <1>19, <1>20, <1>21, <1>22, <1>23, <1>24
        DEF Step, Tick, Continue, Answers, Answer

(* Catching up changes the phases only from waiting to assigned.           *)
LEMMA CaughtUpPhases ==
    ASSUME NEW s \in Slots, phase[s] \in SUBSET Phase
    PROVE  /\ CaughtUp(s) = {} <=> phase[s] = {}
           /\ \A p \in {"tokenizing", "prefilling", "decoding"} : p \in CaughtUp(s) <=> p \in phase[s]
           /\ CaughtUp(s) \cap DecodePhases # {} <=> phase[s] \cap DecodePhases # {}
BY DEF CaughtUp, Phase, DecodePhases

(* Catching up with the scheduler moves a request from waiting to scheduled   *)
(* and changes nothing else about its phases.                                 *)
LEMMA UpdatedPhases ==
    ASSUME IInv, NEW w \in Workers, UpdateLocal(w), NEW s \in Slots
    PROVE  /\ phase'[s] = {} <=> phase[s] = {}
           /\ \A p \in {"tokenizing", "prefilling", "decoding"} : p \in phase'[s] <=> p \in phase[s]
           /\ phase'[s] \cap DecodePhases # {} <=> phase[s] \cap DecodePhases # {}
<1>1. phase'[s] = phase[s] \/ phase'[s] = CaughtUp(s)
  BY DEF UpdateLocal
<1> QED BY <1>1, CaughtUpPhases DEF IInv, TypeInv, TypeOK

(* The policy, once a request has arrived.                                 *)
LEMMA ArrivedPolicyStep ==
    ASSUME IInv, HandlerInv, NEW w \in Workers, Step(w)
    PROVE  ArrivedPolicyInv'
<1> USE DeploymentsAssumption DEF IInv, TypeInv, TypeOK, HandlerInv, ArrivedPolicyInv, DecodePhases
<1>1. ASSUME Register(w) PROVE ArrivedPolicyInv'
  BY <1>1, LocalEntry DEF Register, Goto, procVars, reqVars, grpVars, runVars, pcVars,
      Phase, ShapeInv, PolicyInv, WakingInv
<1>2. ASSUME ReqAlloc(w) PROVE ArrivedPolicyInv'
  BY <1>2, LocalEntry DEF ReqAlloc, Goto, procVars, reqVars, grpVars, runVars, pcVars,
      Phase, ShapeInv, PolicyInv, WakingInv
<1>3. ASSUME ReqEnter(w) PROVE ArrivedPolicyInv'
  BY <1>3, LocalEntry DEF ReqEnter, Goto, procVars, reqVars, grpVars, runVars, pcVars,
      Phase, ShapeInv, PolicyInv, WakingInv
<1>4. ASSUME QueuePrefill(w) PROVE ArrivedPolicyInv'
  BY <1>4, LocalEntry DEF QueuePrefill, Goto, procVars, reqVars, grpVars, runVars,
      pcVars, TransitionAll, Phase, ShapeInv, PolicyInv, WakingInv
<1>5. ASSUME TickSchedule(w) PROVE ArrivedPolicyInv'
  BY <1>5, LocalEntry DEF TickSchedule, Goto, procVars, reqVars, grpVars, runVars,
      pcVars, Phase, ShapeInv, PolicyInv, WakingInv
<1>6. ASSUME SchedulePrefill(w) PROVE ArrivedPolicyInv'
  BY <1>6, LocalEntry DEF SchedulePrefill, Goto, procVars, reqVars, grpVars, runVars,
      pcVars, Phase, ShapeInv, PolicyInv, WakingInv
<1>7. ASSUME SchedulePrefillDone(w) PROVE ArrivedPolicyInv'
  BY <1>7, LocalEntry DEF SchedulePrefillDone, Goto, procVars, reqVars, grpVars,
      runVars, pcVars, Phase, ShapeInv, PolicyInv, WakingInv
<1>8. ASSUME ScheduleDecode(w) PROVE ArrivedPolicyInv'
  BY <1>8, LocalEntry DEF ScheduleDecode, Goto, procVars, reqVars, grpVars, runVars,
      pcVars, Phase, ShapeInv, PolicyInv, WakingInv
<1>9. ASSUME ScheduleDecodeDone(w) PROVE ArrivedPolicyInv'
  BY <1>9, LocalEntry DEF ScheduleDecodeDone, Goto, procVars, reqVars, grpVars, runVars,
      pcVars, Phase, ShapeInv, PolicyInv, WakingInv
<1>10. ASSUME UpdateLocal(w) PROVE ArrivedPolicyInv'
  <2>1. UNCHANGED <<locations, policy>>
    BY <1>10 DEF UpdateLocal, procVars
  <2> QED BY <1>10, <2>1, UpdatedPhases
<1>11. ASSUME WakePrefillParallel(w) PROVE ArrivedPolicyInv'
  <2>1. PICK s \in visit[w] : phase' = [phase EXCEPT ![s] = @ \cup {"d_waiting"}]
    BY <1>11 DEF WakePrefillParallel
  <2>2. s \in Slots /\ phase[s] # {} /\ UNCHANGED <<locations, policy>>
    BY <1>11, LocalEntry DEF WakePrefillParallel, VisitInv, Phase, procVars
  <2>3. phase'[s] # {} /\ "d_waiting" \in phase'[s] /\ \A x \in Slots \ {s} : phase'[x] = phase[x]
    BY <2>1, <2>2
  <2> QED BY <2>2, <2>3
<1>12. ASSUME WakePrefillSequential(w) PROVE ArrivedPolicyInv'
  BY <1>12, LocalEntry DEF WakePrefillSequential, Goto, procVars, reqVars, grpVars,
      runVars, pcVars, TransitionAll, Phase, ShapeInv, PolicyInv, WakingInv
<1>13. ASSUME WakePrefillStart(w) PROVE ArrivedPolicyInv'
  <2>1. /\ cur[w] \in Slots /\ phase[cur[w]] = {"p_scheduled", "d_waiting"}
        /\ phase' = [phase EXCEPT ![cur[w]] = (@ \ {"p_scheduled"}) \cup {"prefilling"}]
        /\ UNCHANGED <<locations, policy>>
    BY <1>13 DEF WakePrefillStart, TransitionAll, CurIsSlot, WakingInv, procVars
  <2>2. "d_waiting" \in phase'[cur[w]] /\ \A x \in Slots \ {cur[w]} : phase'[x] = phase[x]
    BY <2>1
  <2> QED BY <2>1, <2>2
<1>14. ASSUME RunPrefillDone(w) PROVE ArrivedPolicyInv'
  BY <1>14, LocalEntry DEF RunPrefillDone, Goto, procVars, reqVars, grpVars, runVars,
      pcVars, Phase, ShapeInv, PolicyInv, WakingInv
<1>15. ASSUME WakeDecode(w) PROVE ArrivedPolicyInv'
  BY <1>15, LocalEntry DEF WakeDecode, Goto, procVars, reqVars, grpVars, runVars,
      pcVars, TransitionAll, Phase, ShapeInv, PolicyInv, WakingInv
<1>16. ASSUME RunDecodeDone(w) PROVE ArrivedPolicyInv'
  BY <1>16, LocalEntry DEF RunDecodeDone, Goto, procVars, reqVars, grpVars, runVars,
      pcVars, Phase, ShapeInv, PolicyInv, WakingInv
<1>17. ASSUME PrefillAdvanceSequential(w) PROVE ArrivedPolicyInv'
  BY <1>17, LocalEntry DEF PrefillAdvanceSequential, Goto, procVars, reqVars, grpVars,
      runVars, pcVars, TransitionAll, Phase, ShapeInv, PolicyInv, WakingInv
<1>18. ASSUME PrefillAdvanceParallel(w) PROVE ArrivedPolicyInv'
  BY <1>18, LocalEntry DEF PrefillAdvanceParallel, Goto, procVars, reqVars, grpVars,
      runVars, pcVars, Phase, ShapeInv, PolicyInv, WakingInv
<1>19. ASSUME CleanupPhase(w) PROVE ArrivedPolicyInv'
  BY <1>19, LocalEntry DEF CleanupPhase, Goto, procVars, reqVars, grpVars, runVars,
      pcVars, Phase, ShapeInv, PolicyInv, WakingInv
<1>20. ASSUME ReqFree(w) PROVE ArrivedPolicyInv'
  BY <1>20, LocalEntry DEF ReqFree, Goto, procVars, reqVars, grpVars, runVars, pcVars,
      Phase, ShapeInv, PolicyInv, WakingInv
<1>21. ASSUME NEW x \in Slots, PostTokenized(w, x) PROVE ArrivedPolicyInv'
  BY <1>21, LocalEntry DEF PostTokenized, Goto, procVars, reqVars, grpVars, runVars,
      pcVars, Phase, ShapeInv, PolicyInv, WakingInv
<1>22. ASSUME NEW x \in Slots, PrefillRelease(w, x) PROVE ArrivedPolicyInv'
  BY <1>22, LocalEntry DEF PrefillRelease, Goto, procVars, reqVars, grpVars, runVars,
      pcVars, Phase, ShapeInv, PolicyInv, WakingInv
<1>23. ASSUME NEW x \in Slots, DecodeEnd(w, x) PROVE ArrivedPolicyInv'
  BY <1>23, LocalEntry DEF DecodeEnd, Goto, procVars, reqVars, grpVars, runVars, pcVars,
      BeginCleanup, Phase, ShapeInv, PolicyInv, WakingInv
<1>24. ASSUME NEW x \in Slots, RequestAborts(w, x) PROVE ArrivedPolicyInv'
  BY <1>24, LocalEntry DEF RequestAborts, Goto, procVars, reqVars, grpVars, runVars,
      pcVars, BeginCleanup, Phase, ShapeInv, PolicyInv, WakingInv
<1> QED BY <1>1, <1>2, <1>3, <1>4, <1>5, <1>6, <1>7, <1>8, <1>9, <1>10, <1>11, <1>12,
    <1>13, <1>14, <1>15, <1>16, <1>17, <1>18, <1>19, <1>20, <1>21, <1>22, <1>23, <1>24
        DEF Step, Tick, Continue, Answers, Answer

(* HandlerInv is preserved by every step.                                     *)
LEMMA HandlerStep ==
    ASSUME IInv, HandlerInv, [Next]_vars
    PROVE  HandlerInv'
<1>1. CASE UNCHANGED vars
  BY <1>1 DEF vars, procVars, reqVars, pcVars, HandlerInv, ReleasedInv, EndingInv, ArrivedPolicyInv
<1>2. ASSUME NEW w \in Workers, Step(w), NEW v \in Workers
      PROVE  /\ at'[v] = "released" => "prefilling" \in phase'[cur'[v]]
             /\ at'[v] = "cleanup" =>
                   phase'[cur'[v]] = {"decoding"} \/ phase'[cur'[v]] \cap AbortPhases # {}
  <2>1. CASE v = w
    BY <1>2, <2>1, OwnHandler
  <2>2. CASE v # w
    <3>1. at'[v] = at[v] /\ cur'[v] = cur[v]
      BY <1>2, <2>2, OthersStay
    <3>2. at[v] \in {"released", "cleanup"} => phase'[cur[v]] = phase[cur[v]]
      BY <1>2, <2>2, OthersPhase DEF IInv, CurOwned, OneRequestPlaces
    <3> QED BY <3>1, <3>2 DEF HandlerInv, ReleasedInv, EndingInv
  <2> QED BY <2>1, <2>2
<1>3. ASSUME NEW w \in Workers, Step(w) PROVE ReleasedInv' /\ EndingInv'
  BY <1>2, <1>3 DEF ReleasedInv, EndingInv
<1> QED BY <1>1, <1>3, ArrivedPolicyStep DEF Next, HandlerInv

----------------------------------------------------------------------------
(* req_in_groups *)

(* The requests that req_in_groups of worker v counts.                     *)
Counted(v, s) == s \in inUse /\ owner[s] = v /\ ~ Doing(v, "entering", s)

Members(v) == {s \in Slots : Counted(v, s)}

(* The members of the private groups, as InGroupsCounts counts them.          *)
LEMMA MembersAre ==
    ASSUME TypeOK
    PROVE  InGroupsCounts <=> \A v \in Workers : inGroups[v] = Cardinality(Members(v))
<1>1. \A v \in Workers : Members(v) = {s \in inUse : owner[s] = v /\ ~ Doing(v, "entering", s)}
  BY DEF TypeOK, Members, Counted
<1> QED BY <1>1 DEF InGroupsCounts

(* Sets of slots are finite, and counted one by one.                       *)
LEMMA SlotSets ==
    ASSUME NEW S \in SUBSET Slots
    PROVE  /\ IsFiniteSet(S) /\ Cardinality(S) \in Nat
           /\ \A s \in Slots \ S : Cardinality(S \cup {s}) = Cardinality(S) + 1
           /\ \A s \in S : Cardinality(S \ {s}) = Cardinality(S) - 1
           /\ \A T \in SUBSET S : Cardinality(T) <= Cardinality(S)
BY SlotsAssumption, FS_Subset, FS_CardinalityType, FS_AddElement, FS_RemoveElement

(* A worker leaves the requests of the others counted as they are.         *)
LEMMA OthersCounted ==
    ASSUME IInv, NEW w \in Workers, Step(w), NEW v \in Workers \ {w}
    PROVE  inGroups'[v] = inGroups[v] /\ \A s \in Slots : Counted(v, s)' <=> Counted(v, s)
<1> USE DEF IInv, TypeInv, TypeOK, Counted, Doing
<1> DEFINE Goal == /\ inGroups'[v] = inGroups[v]
                   /\ \A s \in Slots : Counted(v, s)' <=> Counted(v, s)
<1>1. ASSUME Register(w) PROVE Goal
  BY <1>1 DEF Register, Goto, procVars, reqVars, grpVars, runVars, pcVars, CurOwned,
      OneRequestPlaces
<1>2. ASSUME ReqAlloc(w) PROVE Goal
  BY <1>2 DEF ReqAlloc, Goto, procVars, reqVars, grpVars, runVars, pcVars, CurOwned,
      OneRequestPlaces
<1>3. ASSUME ReqEnter(w) PROVE Goal
  BY <1>3 DEF ReqEnter, Goto, procVars, reqVars, grpVars, runVars, pcVars, CurOwned,
      OneRequestPlaces
<1>4. ASSUME QueuePrefill(w) PROVE Goal
  BY <1>4 DEF QueuePrefill, Goto, procVars, reqVars, grpVars, runVars, pcVars,
      TransitionAll, CurOwned, OneRequestPlaces
<1>5. ASSUME TickSchedule(w) PROVE Goal
  BY <1>5 DEF TickSchedule, Goto, procVars, reqVars, grpVars, runVars, pcVars, CurOwned,
      OneRequestPlaces
<1>6. ASSUME SchedulePrefill(w) PROVE Goal
  BY <1>6 DEF SchedulePrefill, Goto, procVars, reqVars, grpVars, runVars, pcVars,
      CurOwned, OneRequestPlaces
<1>7. ASSUME SchedulePrefillDone(w) PROVE Goal
  BY <1>7 DEF SchedulePrefillDone, Goto, procVars, reqVars, grpVars, runVars, pcVars,
      CurOwned, OneRequestPlaces
<1>8. ASSUME ScheduleDecode(w) PROVE Goal
  BY <1>8 DEF ScheduleDecode, Goto, procVars, reqVars, grpVars, runVars, pcVars,
      CurOwned, OneRequestPlaces
<1>9. ASSUME ScheduleDecodeDone(w) PROVE Goal
  BY <1>9 DEF ScheduleDecodeDone, Goto, procVars, reqVars, grpVars, runVars, pcVars,
      CurOwned, OneRequestPlaces
<1>10. ASSUME UpdateLocal(w) PROVE Goal
  BY <1>10 DEF UpdateLocal, Goto, procVars, reqVars, grpVars, runVars, pcVars, CurOwned,
      OneRequestPlaces
<1>11. ASSUME WakePrefillParallel(w) PROVE Goal
  BY <1>11 DEF WakePrefillParallel, Goto, procVars, reqVars, grpVars, runVars, pcVars,
      CurOwned, OneRequestPlaces
<1>12. ASSUME WakePrefillSequential(w) PROVE Goal
  BY <1>12 DEF WakePrefillSequential, Goto, procVars, reqVars, grpVars, runVars, pcVars,
      TransitionAll, CurOwned, OneRequestPlaces
<1>13. ASSUME WakePrefillStart(w) PROVE Goal
  BY <1>13 DEF WakePrefillStart, Goto, procVars, reqVars, grpVars, runVars, pcVars,
      TransitionAll, CurOwned, OneRequestPlaces
<1>14. ASSUME RunPrefillDone(w) PROVE Goal
  BY <1>14 DEF RunPrefillDone, Goto, procVars, reqVars, grpVars, runVars, pcVars,
      CurOwned, OneRequestPlaces
<1>15. ASSUME WakeDecode(w) PROVE Goal
  BY <1>15 DEF WakeDecode, Goto, procVars, reqVars, grpVars, runVars, pcVars,
      TransitionAll, CurOwned, OneRequestPlaces
<1>16. ASSUME RunDecodeDone(w) PROVE Goal
  BY <1>16 DEF RunDecodeDone, Goto, procVars, reqVars, grpVars, runVars, pcVars,
      CurOwned, OneRequestPlaces
<1>17. ASSUME PrefillAdvanceSequential(w) PROVE Goal
  BY <1>17 DEF PrefillAdvanceSequential, Goto, procVars, reqVars, grpVars, runVars,
      pcVars, TransitionAll, CurOwned, OneRequestPlaces
<1>18. ASSUME PrefillAdvanceParallel(w) PROVE Goal
  BY <1>18 DEF PrefillAdvanceParallel, Goto, procVars, reqVars, grpVars, runVars,
      pcVars, CurOwned, OneRequestPlaces
<1>19. ASSUME CleanupPhase(w) PROVE Goal
  BY <1>19 DEF CleanupPhase, Goto, procVars, reqVars, grpVars, runVars, pcVars,
      CurOwned, OneRequestPlaces
<1>20. ASSUME ReqFree(w) PROVE Goal
  BY <1>20 DEF ReqFree, Goto, procVars, reqVars, grpVars, runVars, pcVars, CurOwned,
      OneRequestPlaces
<1>21. ASSUME NEW x \in Slots, PostTokenized(w, x) PROVE Goal
  BY <1>21 DEF PostTokenized, Goto, procVars, reqVars, grpVars, runVars, pcVars,
      CurOwned, OneRequestPlaces
<1>22. ASSUME NEW x \in Slots, PrefillRelease(w, x) PROVE Goal
  BY <1>22 DEF PrefillRelease, Goto, procVars, reqVars, grpVars, runVars, pcVars,
      CurOwned, OneRequestPlaces
<1>23. ASSUME NEW x \in Slots, DecodeEnd(w, x) PROVE Goal
  BY <1>23 DEF DecodeEnd, Goto, procVars, reqVars, grpVars, runVars, pcVars,
      BeginCleanup, CurOwned, OneRequestPlaces
<1>24. ASSUME NEW x \in Slots, RequestAborts(w, x) PROVE Goal
  BY <1>24 DEF RequestAborts, Goto, procVars, reqVars, grpVars, runVars, pcVars,
      BeginCleanup, CurOwned, OneRequestPlaces
<1> QED BY <1>1, <1>2, <1>3, <1>4, <1>5, <1>6, <1>7, <1>8, <1>9, <1>10, <1>11, <1>12,
    <1>13, <1>14, <1>15, <1>16, <1>17, <1>18, <1>19, <1>20, <1>21, <1>22, <1>23, <1>24
        DEF Step, Tick, Continue, Answers, Answer

(* Of its own it counts one more when it enters it, and one less when it   *)
(* frees it.                                                               *)
LEMMA OwnCounted ==
    ASSUME IInv, NEW w \in Workers, Step(w)
    PROVE  \/ /\ inGroups'[w] = inGroups[w] /\ \A s \in Slots : Counted(w, s)' <=> Counted(w, s)
           \/ \E c \in Slots :
                 /\ inGroups'[w] = inGroups[w] + 1 /\ ~ Counted(w, c) /\ Counted(w, c)'
                 /\ \A s \in Slots \ {c} : Counted(w, s)' <=> Counted(w, s)
           \/ \E c \in Slots :
                 /\ inGroups'[w] = inGroups[w] - 1 /\ Counted(w, c) /\ ~ Counted(w, c)'
                 /\ \A s \in Slots \ {c} : Counted(w, s)' <=> Counted(w, s)
<1> USE DEF IInv, TypeInv, TypeOK, Counted, Doing
<1> DEFINE Same == /\ inGroups'[w] = inGroups[w]
                   /\ \A s \in Slots : Counted(w, s)' <=> Counted(w, s)
           More(c) == /\ inGroups'[w] = inGroups[w] + 1 /\ ~ Counted(w, c) /\ Counted(w, c)'
                      /\ \A s \in Slots \ {c} : Counted(w, s)' <=> Counted(w, s)
           Less(c) == /\ inGroups'[w] = inGroups[w] - 1 /\ Counted(w, c) /\ ~ Counted(w, c)'
                      /\ \A s \in Slots \ {c} : Counted(w, s)' <=> Counted(w, s)
           Goal == Same \/ \E c \in Slots : More(c) \/ Less(c)
<1>1. ASSUME Register(w) PROVE Same
  BY <1>1 DEF Register, Goto, procVars, reqVars, grpVars, runVars, pcVars, CurOwned,
      OneRequestPlaces, Idle
<1>2. ASSUME ReqAlloc(w) PROVE Same
  BY <1>2 DEF ReqAlloc, Goto, procVars, reqVars, grpVars, runVars, pcVars, CurOwned,
      OneRequestPlaces, Idle
<1>3. ASSUME ReqEnter(w) PROVE Goal
  <2>1. PICK c \in Slots : c = cur[w]
    BY <1>3 DEF ReqEnter, CurIsSlot
  <2>2. c \in inUse /\ owner[c] = w
    BY <1>3, <2>1 DEF ReqEnter, CurOwned, OneRequestPlaces
  <2>3. /\ inGroups' = [inGroups EXCEPT ![w] = @ + 1] /\ owner' = owner
        /\ inUse' = inUse /\ at' = [at EXCEPT ![w] = "idle"]
        /\ at[w] = "entering"
    BY <1>3, <2>1 DEF ReqEnter, Goto
  <2>4. at'[w] = "idle" /\ inGroups'[w] = inGroups[w] + 1
    BY <2>3
  <2>5. More(c)
    BY <2>1, <2>2, <2>3, <2>4
  <2> QED BY <2>5
<1>4. ASSUME QueuePrefill(w) PROVE Same
  BY <1>4 DEF QueuePrefill, Goto, procVars, reqVars, grpVars, runVars, pcVars,
      TransitionAll, CurOwned, OneRequestPlaces, Idle
<1>5. ASSUME TickSchedule(w) PROVE Same
  BY <1>5 DEF TickSchedule, Goto, procVars, reqVars, grpVars, runVars, pcVars, CurOwned,
      OneRequestPlaces, Idle
<1>6. ASSUME SchedulePrefill(w) PROVE Same
  BY <1>6 DEF SchedulePrefill, Goto, procVars, reqVars, grpVars, runVars, pcVars,
      CurOwned, OneRequestPlaces, Idle
<1>7. ASSUME SchedulePrefillDone(w) PROVE Same
  BY <1>7 DEF SchedulePrefillDone, Goto, procVars, reqVars, grpVars, runVars, pcVars,
      CurOwned, OneRequestPlaces, Idle
<1>8. ASSUME ScheduleDecode(w) PROVE Same
  BY <1>8 DEF ScheduleDecode, Goto, procVars, reqVars, grpVars, runVars, pcVars,
      CurOwned, OneRequestPlaces, Idle
<1>9. ASSUME ScheduleDecodeDone(w) PROVE Same
  BY <1>9 DEF ScheduleDecodeDone, Goto, procVars, reqVars, grpVars, runVars, pcVars,
      CurOwned, OneRequestPlaces, Idle
<1>10. ASSUME UpdateLocal(w) PROVE Same
  BY <1>10 DEF UpdateLocal, Goto, procVars, reqVars, grpVars, runVars, pcVars, CurOwned,
      OneRequestPlaces, Idle
<1>11. ASSUME WakePrefillParallel(w) PROVE Same
  BY <1>11 DEF WakePrefillParallel, Goto, procVars, reqVars, grpVars, runVars, pcVars,
      CurOwned, OneRequestPlaces, Idle
<1>12. ASSUME WakePrefillSequential(w) PROVE Same
  BY <1>12 DEF WakePrefillSequential, Goto, procVars, reqVars, grpVars, runVars, pcVars,
      TransitionAll, CurOwned, OneRequestPlaces, Idle
<1>13. ASSUME WakePrefillStart(w) PROVE Same
  BY <1>13 DEF WakePrefillStart, Goto, procVars, reqVars, grpVars, runVars, pcVars,
      TransitionAll, CurOwned, OneRequestPlaces, Idle
<1>14. ASSUME RunPrefillDone(w) PROVE Same
  BY <1>14 DEF RunPrefillDone, Goto, procVars, reqVars, grpVars, runVars, pcVars,
      CurOwned, OneRequestPlaces, Idle
<1>15. ASSUME WakeDecode(w) PROVE Same
  BY <1>15 DEF WakeDecode, Goto, procVars, reqVars, grpVars, runVars, pcVars,
      TransitionAll, CurOwned, OneRequestPlaces, Idle
<1>16. ASSUME RunDecodeDone(w) PROVE Same
  BY <1>16 DEF RunDecodeDone, Goto, procVars, reqVars, grpVars, runVars, pcVars,
      CurOwned, OneRequestPlaces, Idle
<1>17. ASSUME PrefillAdvanceSequential(w) PROVE Same
  BY <1>17 DEF PrefillAdvanceSequential, Goto, procVars, reqVars, grpVars, runVars,
      pcVars, TransitionAll, CurOwned, OneRequestPlaces, Idle
<1>18. ASSUME PrefillAdvanceParallel(w) PROVE Same
  BY <1>18 DEF PrefillAdvanceParallel, Goto, procVars, reqVars, grpVars, runVars,
      pcVars, CurOwned, OneRequestPlaces, Idle
<1>19. ASSUME CleanupPhase(w) PROVE Same
  BY <1>19 DEF CleanupPhase, Goto, procVars, reqVars, grpVars, runVars, pcVars,
      CurOwned, OneRequestPlaces, Idle
<1>20. ASSUME ReqFree(w) PROVE Goal
  <2>1. PICK c \in Slots : c = cur[w]
    BY <1>20 DEF ReqFree, CurIsSlot
  <2>2. c \in inUse /\ owner[c] = w
    BY <1>20, <2>1 DEF ReqFree, CurOwned, OneRequestPlaces
  <2>3. /\ inGroups' = [inGroups EXCEPT ![w] = @ - 1] /\ owner' = owner
        /\ inUse' = inUse \ {c} /\ at' = [at EXCEPT ![w] = "idle"]
        /\ at[w] = "cleanup"
    BY <1>20, <2>1 DEF ReqFree, Goto
  <2>4. at'[w] = "idle" /\ inGroups'[w] = inGroups[w] - 1
    BY <2>3
  <2>5. Less(c)
    BY <2>1, <2>2, <2>3, <2>4
  <2> QED BY <2>5
<1>21. ASSUME NEW x \in Slots, PostTokenized(w, x) PROVE Same
  BY <1>21 DEF PostTokenized, Goto, procVars, reqVars, grpVars, runVars, pcVars,
      CurOwned, OneRequestPlaces, Idle
<1>22. ASSUME NEW x \in Slots, PrefillRelease(w, x) PROVE Same
  BY <1>22 DEF PrefillRelease, Goto, procVars, reqVars, grpVars, runVars, pcVars,
      CurOwned, OneRequestPlaces, Idle
<1>23. ASSUME NEW x \in Slots, DecodeEnd(w, x) PROVE Same
  BY <1>23 DEF DecodeEnd, Goto, procVars, reqVars, grpVars, runVars, pcVars,
      BeginCleanup, CurOwned, OneRequestPlaces, Idle
<1>24. ASSUME NEW x \in Slots, RequestAborts(w, x) PROVE Same
  BY <1>24 DEF RequestAborts, Goto, procVars, reqVars, grpVars, runVars, pcVars,
      BeginCleanup, CurOwned, OneRequestPlaces, Idle
<1>25. Goal
  BY <1>1, <1>2, <1>3, <1>4, <1>5, <1>6, <1>7, <1>8, <1>9, <1>10, <1>11, <1>12,
    <1>13, <1>14, <1>15, <1>16, <1>17, <1>18, <1>19, <1>20, <1>21, <1>22, <1>23, <1>24
     DEF Step, Tick, Continue, Answers, Answer
<1> QED BY ONLY <1>25

(* req_in_groups stays exact in every step.                                   *)
LEMMA InGroupsStep ==
    ASSUME IInv, IInv', InGroupsCounts, [Next]_vars
    PROVE  InGroupsCounts'
<1>1. TypeOK /\ TypeOK'
  BY DEF IInv, TypeInv
<1>2. \A v \in Workers : inGroups[v] = Cardinality(Members(v))
  BY <1>1, MembersAre
<1>3. ASSUME NEW v \in Workers PROVE inGroups'[v] = Cardinality(Members(v)')
  <2>1. CASE UNCHANGED vars
    <3>1. Members(v)' = Members(v)
      BY <2>1 DEF vars, reqVars, pcVars, Members, Counted, Doing
    <3> QED BY <1>2, <2>1, <3>1 DEF vars, grpVars
  <2>2. ASSUME NEW w \in Workers, Step(w) PROVE inGroups'[v] = Cardinality(Members(v)')
    <3>1. CASE inGroups'[v] = inGroups[v] /\ \A s \in Slots : Counted(v, s)' <=> Counted(v, s)
      <4>1. Members(v)' = Members(v)
        BY <3>1 DEF Members
      <4> QED BY <1>2, <3>1, <4>1
    <3>2. ASSUME NEW c \in Slots,
                 /\ inGroups'[v] = inGroups[v] + 1 /\ ~ Counted(v, c) /\ Counted(v, c)'
                 /\ \A s \in Slots \ {c} : Counted(v, s)' <=> Counted(v, s)
          PROVE  inGroups'[v] = Cardinality(Members(v)')
      <4>1. Members(v)' = Members(v) \cup {c} /\ c \notin Members(v)
        BY <3>2 DEF Members
      <4>2. Members(v) \in SUBSET Slots
        BY DEF Members
      <4> QED BY <1>2, <3>2, <4>1, <4>2, SlotSets
    <3>3. ASSUME NEW c \in Slots,
                 /\ inGroups'[v] = inGroups[v] - 1 /\ Counted(v, c) /\ ~ Counted(v, c)'
                 /\ \A s \in Slots \ {c} : Counted(v, s)' <=> Counted(v, s)
          PROVE  inGroups'[v] = Cardinality(Members(v)')
      <4>1. Members(v)' = Members(v) \ {c} /\ c \in Members(v)
        BY <3>3 DEF Members
      <4>2. Members(v) \in SUBSET Slots
        BY DEF Members
      <4> QED BY <1>2, <3>3, <4>1, <4>2, SlotSets
    <3>4. CASE v # w
      BY <2>2, <3>1, <3>4, OthersCounted
    <3>5. CASE v = w
      BY <2>2, <3>1, <3>2, <3>3, <3>5, OwnCounted
    <3> QED BY <3>4, <3>5
  <2> QED BY <2>1, <2>2 DEF Next
<1>4. (InGroupsCounts <=> \A v \in Workers : inGroups[v] = Cardinality(Members(v)))'
  <2>1. \A v \in Workers : Members(v)' = {s \in inUse : owner[s] = v /\ ~ Doing(v, "entering", s)}'
    BY <1>1 DEF TypeOK, Members, Counted
  <2> QED BY <2>1 DEF InGroupsCounts
<1> QED BY <1>3, <1>4

LEMMA InitHandler == ASSUME Init PROVE HandlerInv /\ InGroupsCounts
<1>1. HandlerInv
  BY DEF Init, HandlerInv, ReleasedInv, EndingInv, ArrivedPolicyInv
<1>2. \A v \in Workers : {s \in inUse : owner[s] = v /\ ~ Doing(v, "entering", s)} = {}
  BY DEF Init
<1>3. Cardinality({}) = 0
  BY FS_EmptySet
<1> QED BY <1>1, <1>2, <1>3 DEF Init, InGroupsCounts

----------------------------------------------------------------------------
(* num_running of the endpoints *)

(* The requests that hold an endpoint, read off the shared groups.         *)
HoldsPrefill(s) ==
    /\ s \in ggroup["p_scheduled"] \cup ggroup["prefilling"]
    /\ \A v \in Workers : ~ Doing(v, "released", s)

HoldsDecode(s) == s \in ggroup["d_scheduled"] \cup ggroup["decoding"]

OnPrefill(e) == {s \in Slots : HoldsPrefill(s) /\ pIdx[s] = e}
OnDecode(e)  == {s \in Slots : HoldsDecode(s) /\ dIdx[s] = e}

(* The phases of a request that its entries in those groups stand for.     *)
LEMMA SharedPhases ==
    ASSUME IInv, NEW s \in Slots
    PROVE  /\ s \in ggroup["p_scheduled"] <=>
                  s \in pSched /\ Live(s) \cap {"p_waiting", "p_scheduled"} # {}
           /\ s \in ggroup["prefilling"] <=> "prefilling" \in Live(s)
           /\ s \in ggroup["d_scheduled"] <=>
                  s \in dSched /\ Live(s) \cap {"d_waiting", "d_scheduled"} # {}
           /\ s \in ggroup["decoding"] <=> "decoding" \in Live(s)
           /\ "prefilling" \in Live(s) => s \in pSched
           /\ "decoding" \in Live(s) => s \in dSched
<1>1. Live(s) \subseteq phase[s]
  BY LiveInPhase
<1>2. Live(s) \cap {"p_scheduled", "prefilling"} # {} => s \in pSched
  BY <1>1 DEF IInv, FlagInv
<1>3. Live(s) \cap {"d_scheduled", "decoding"} # {} => s \in dSched
  BY <1>1 DEF IInv, FlagInv
<1> QED BY <1>2, <1>3 DEF IInv, SharedAgree, GroupOf, Phase

HoldersRead ==
    /\ \A e \in Prefills : PrefillHolders(e) = OnPrefill(e)
    /\ \A e \in Decodes : DecodeHolders(e) = OnDecode(e)

(* The holders of an endpoint, read off phase_state and the flags.            *)
LEMMA HoldersAre ==
    ASSUME IInv PROVE HoldersRead
<1>1. pSched \subseteq Slots /\ dSched \subseteq Slots
  BY DEF IInv, TypeInv, TypeOK
<1>2. ASSUME NEW s \in Slots
      PROVE  HoldsPrefill(s) <=> /\ s \in pSched /\ ~ Doing(owner[s], "released", s)
                                 /\ Live(s) \cap {"p_waiting", "p_scheduled", "prefilling"} # {}
  <2>1. Live(s) # {} => owner[s] \in Workers
    BY DEF Live, IInv, InUseOwned
  <2>2. \A v \in Workers : Doing(v, "released", s) => v = owner[s]
    BY DEF Doing, IInv, CurOwned, OneRequestPlaces
  <2> QED BY <2>1, <2>2, SharedPhases DEF HoldsPrefill
<1>3. ASSUME NEW s \in Slots
      PROVE  HoldsDecode(s) <=> /\ s \in dSched
                                /\ Live(s) \cap {"d_waiting", "d_scheduled", "decoding"} # {}
  BY SharedPhases DEF HoldsDecode
<1> QED BY <1>1, <1>2, <1>3 DEF HoldersRead, PrefillHolders, DecodeHolders, OnPrefill, OnDecode

(* The same of the next state.                                                *)
LEMMA HoldersAreNext == IInv' => HoldersRead'
<1>1. IInv => HoldersRead
  BY HoldersAre
<1> QED BY <1>1, PTL

(* Moving an entry of the shared groups moves that of one request.         *)
LEMMA GroupMoves ==
    ASSUME ggroup \in [Phase -> SUBSET Slots],
           NEW c \in Slots, NEW from \in Phase, NEW to \in Phase
    PROVE  /\ ggroup' = Put(ggroup, c, to) => \A q \in Phase, x \in Slots :
                x \in ggroup'[q] <=> x \in ggroup[q] \/ (x = c /\ q = to)
           /\ ggroup' = Drop(ggroup, c, from) => \A q \in Phase, x \in Slots :
                x \in ggroup'[q] <=> x \in ggroup[q] /\ ~ (x = c /\ q = from)
           /\ ggroup' = ChangeTo(ggroup, c, from, to) => \A q \in Phase, x \in Slots :
                x \in ggroup'[q] <=> \/ x \in ggroup[q] /\ ~ (x = c /\ q = from)
                                     \/ x = c /\ q = to
BY DEF Put, Drop, ChangeTo

(* A request in prefill is no longer on its way there.                     *)
LEMMA PrefillingBits ==
    ASSUME IInv, NEW s \in Slots, "prefilling" \in phase[s]
    PROVE  /\ "p_waiting" \notin phase[s] /\ "p_scheduled" \notin phase[s]
           /\ s \notin ggroup["p_scheduled"]
<1>1. "p_waiting" \notin phase[s]
  BY DEF IInv, ShapeInv
<1>2. ASSUME "p_scheduled" \in phase[s] PROVE FALSE
  <2>1. owner[s] \in Workers /\ Doing(owner[s], "waking", s)
    <3>1. phase[s] # {"p_scheduled"}
      OBVIOUS
    <3> QED BY <1>2, <3>1 DEF IInv, ShapeInv
  <2>2. phase[s] = {"p_scheduled", "d_waiting"}
    BY <2>1 DEF IInv, WakingInv, Doing
  <2> QED BY <2>2
<1>3. s \notin ggroup["p_scheduled"]
  BY <1>1, <1>2, LiveInPhase, SharedPhases
<1> QED BY <1>1, <1>2, <1>3

(* What a step may do to the prefill endpoints and their requests.         *)
SamePrefill(s) == (HoldsPrefill(s)' <=> HoldsPrefill(s)) /\ (HoldsPrefill(s) => pIdx'[s] = pIdx[s])

PrefillKeeps == pRun' = pRun /\ \A s \in Slots : SamePrefill(s)

PrefillDrops ==
    /\ pRun' = pRun
    /\ \A s \in Slots : HoldsPrefill(s)' => HoldsPrefill(s) /\ pIdx'[s] = pIdx[s]
    /\ \E w \in Workers : at[w] = "cleanup" /\ todo[w] \cap {"p_waiting", "p_scheduled"} # {}

PrefillJoins(c, e) ==
    /\ pRun' = [pRun EXCEPT ![e] = @ + 1]
    /\ ~ HoldsPrefill(c) /\ HoldsPrefill(c)' /\ pIdx'[c] = e
    /\ \A s \in Slots \ {c} : SamePrefill(s)

PrefillLeaves(c) ==
    /\ pRun' = [pRun EXCEPT ![pIdx[c]] = @ - 1]
    /\ HoldsPrefill(c) /\ ~ HoldsPrefill(c)'
    /\ \A s \in Slots \ {c} : SamePrefill(s)

PrefillStep ==
    \/ PrefillKeeps \/ PrefillDrops
    \/ \E c \in Slots : PrefillLeaves(c) \/ \E e \in Prefills : PrefillJoins(c, e)

(* Then the number and the holders change together, unless one is dropped. *)
LEMMA PrefillCount ==
    ASSUME TypeOK, PrefillStep, NEW e \in Prefills
    PROVE  /\ pRun'[e] - Cardinality(OnPrefill(e)') >= pRun[e] - Cardinality(OnPrefill(e))
           /\ ~ PrefillDrops =>
                pRun'[e] - Cardinality(OnPrefill(e)') = pRun[e] - Cardinality(OnPrefill(e))
<1> USE DEF TypeOK
<1>0. /\ OnPrefill(e) \in SUBSET Slots /\ OnPrefill(e)' \in SUBSET Slots
      /\ Cardinality(OnPrefill(e)) \in Nat /\ Cardinality(OnPrefill(e)') \in Nat
      /\ pRun[e] \in Int
  <2>1. OnPrefill(e) \in SUBSET Slots /\ OnPrefill(e)' \in SUBSET Slots
    BY DEF OnPrefill
  <2>2. pRun[e] \in Int
    OBVIOUS
  <2> QED BY ONLY <2>1, <2>2, SlotSets
<1>1. CASE PrefillKeeps
  <2>1. OnPrefill(e)' = OnPrefill(e)
    BY <1>1 DEF PrefillKeeps, SamePrefill, OnPrefill
  <2> QED BY <1>0, <1>1, <2>1 DEF PrefillKeeps
<1>2. CASE PrefillDrops
  <2>1. OnPrefill(e)' \in SUBSET OnPrefill(e)
    BY <1>2 DEF PrefillDrops, OnPrefill
  <2>2. Cardinality(OnPrefill(e)') <= Cardinality(OnPrefill(e))
    BY <1>0, <2>1, SlotSets
  <2> QED BY <1>0, <1>2, <2>2 DEF PrefillDrops
<1>3. ASSUME NEW c \in Slots, NEW f \in Prefills, PrefillJoins(c, f)
      PROVE  pRun'[e] - Cardinality(OnPrefill(e)') = pRun[e] - Cardinality(OnPrefill(e))
  <2>1. CASE e = f
    <3>1. OnPrefill(e)' = OnPrefill(e) \cup {c} /\ c \notin OnPrefill(e)
      BY <1>3, <2>1 DEF PrefillJoins, SamePrefill, OnPrefill
    <3>2. Cardinality(OnPrefill(e)') = Cardinality(OnPrefill(e)) + 1
      BY <1>0, <3>1, SlotSets
    <3>3. pRun'[e] = pRun[e] + 1
      BY <1>3, <2>1 DEF PrefillJoins
    <3> QED BY <1>0, <3>2, <3>3
  <2>2. CASE e # f
    <3>1. OnPrefill(e)' = OnPrefill(e)
      BY <1>3, <2>2 DEF PrefillJoins, SamePrefill, OnPrefill
    <3>2. pRun'[e] = pRun[e]
      BY <1>3, <2>2 DEF PrefillJoins
    <3> QED BY <1>0, <3>1, <3>2
  <2> QED BY <2>1, <2>2
<1>4. ASSUME NEW c \in Slots, PrefillLeaves(c)
      PROVE  pRun'[e] - Cardinality(OnPrefill(e)') = pRun[e] - Cardinality(OnPrefill(e))
  <2>1. CASE e = pIdx[c]
    <3>1. OnPrefill(e)' = OnPrefill(e) \ {c} /\ c \in OnPrefill(e)
      BY <1>4, <2>1 DEF PrefillLeaves, SamePrefill, OnPrefill
    <3>2. Cardinality(OnPrefill(e)') = Cardinality(OnPrefill(e)) - 1
      BY <1>0, <3>1, SlotSets
    <3>3. pRun'[e] = pRun[e] - 1
      BY <1>4, <2>1 DEF PrefillLeaves
    <3> QED BY <1>0, <3>2, <3>3
  <2>2. CASE e # pIdx[c]
    <3>1. OnPrefill(e)' = OnPrefill(e)
      BY <1>4, <2>2 DEF PrefillLeaves, SamePrefill, OnPrefill
    <3>2. pRun'[e] = pRun[e]
      BY <1>4, <2>2 DEF PrefillLeaves
    <3> QED BY <1>0, <3>1, <3>2
  <2> QED BY <2>1, <2>2
<1> QED BY <1>0, <1>1, <1>2, <1>3, <1>4 DEF PrefillStep

(* What a step may do to the decode endpoints and their requests.          *)
SameDecode(s) == (HoldsDecode(s)' <=> HoldsDecode(s)) /\ (HoldsDecode(s) => dIdx'[s] = dIdx[s])

DecodeKeeps == dRun' = dRun /\ \A s \in Slots : SameDecode(s)

DecodeDrops ==
    /\ dRun' = dRun
    /\ \A s \in Slots : HoldsDecode(s)' => HoldsDecode(s) /\ dIdx'[s] = dIdx[s]
    /\ \E w \in Workers : at[w] = "cleanup" /\ todo[w] \cap {"d_waiting", "d_scheduled"} # {}

DecodeJoins(c, e) ==
    /\ dRun' = [dRun EXCEPT ![e] = @ + 1]
    /\ ~ HoldsDecode(c) /\ HoldsDecode(c)' /\ dIdx'[c] = e
    /\ \A s \in Slots \ {c} : SameDecode(s)

DecodeLeaves(c) ==
    /\ dRun' = [dRun EXCEPT ![dIdx[c]] = @ - 1]
    /\ HoldsDecode(c) /\ ~ HoldsDecode(c)'
    /\ \A s \in Slots \ {c} : SameDecode(s)

DecodeStep ==
    \/ DecodeKeeps \/ DecodeDrops
    \/ \E c \in Slots : DecodeLeaves(c) \/ \E e \in Decodes : DecodeJoins(c, e)

(* Then the number and the holders change together, unless one is dropped. *)
LEMMA DecodeCount ==
    ASSUME TypeOK, DecodeStep, NEW e \in Decodes
    PROVE  /\ dRun'[e] - Cardinality(OnDecode(e)') >= dRun[e] - Cardinality(OnDecode(e))
           /\ ~ DecodeDrops =>
                dRun'[e] - Cardinality(OnDecode(e)') = dRun[e] - Cardinality(OnDecode(e))
<1> USE DEF TypeOK
<1>0. /\ OnDecode(e) \in SUBSET Slots /\ OnDecode(e)' \in SUBSET Slots
      /\ Cardinality(OnDecode(e)) \in Nat /\ Cardinality(OnDecode(e)') \in Nat
      /\ dRun[e] \in Int
  <2>1. OnDecode(e) \in SUBSET Slots /\ OnDecode(e)' \in SUBSET Slots
    BY DEF OnDecode
  <2>2. dRun[e] \in Int
    OBVIOUS
  <2> QED BY ONLY <2>1, <2>2, SlotSets
<1>1. CASE DecodeKeeps
  <2>1. OnDecode(e)' = OnDecode(e)
    BY <1>1 DEF DecodeKeeps, SameDecode, OnDecode
  <2> QED BY <1>0, <1>1, <2>1 DEF DecodeKeeps
<1>2. CASE DecodeDrops
  <2>1. OnDecode(e)' \in SUBSET OnDecode(e)
    BY <1>2 DEF DecodeDrops, OnDecode
  <2>2. Cardinality(OnDecode(e)') <= Cardinality(OnDecode(e))
    BY <1>0, <2>1, SlotSets
  <2> QED BY <1>0, <1>2, <2>2 DEF DecodeDrops
<1>3. ASSUME NEW c \in Slots, NEW f \in Decodes, DecodeJoins(c, f)
      PROVE  dRun'[e] - Cardinality(OnDecode(e)') = dRun[e] - Cardinality(OnDecode(e))
  <2>1. CASE e = f
    <3>1. OnDecode(e)' = OnDecode(e) \cup {c} /\ c \notin OnDecode(e)
      BY <1>3, <2>1 DEF DecodeJoins, SameDecode, OnDecode
    <3>2. Cardinality(OnDecode(e)') = Cardinality(OnDecode(e)) + 1
      BY <1>0, <3>1, SlotSets
    <3>3. dRun'[e] = dRun[e] + 1
      BY <1>3, <2>1 DEF DecodeJoins
    <3> QED BY <1>0, <3>2, <3>3
  <2>2. CASE e # f
    <3>1. OnDecode(e)' = OnDecode(e)
      BY <1>3, <2>2 DEF DecodeJoins, SameDecode, OnDecode
    <3>2. dRun'[e] = dRun[e]
      BY <1>3, <2>2 DEF DecodeJoins
    <3> QED BY <1>0, <3>1, <3>2
  <2> QED BY <2>1, <2>2
<1>4. ASSUME NEW c \in Slots, DecodeLeaves(c)
      PROVE  dRun'[e] - Cardinality(OnDecode(e)') = dRun[e] - Cardinality(OnDecode(e))
  <2>1. CASE e = dIdx[c]
    <3>1. OnDecode(e)' = OnDecode(e) \ {c} /\ c \in OnDecode(e)
      BY <1>4, <2>1 DEF DecodeLeaves, SameDecode, OnDecode
    <3>2. Cardinality(OnDecode(e)') = Cardinality(OnDecode(e)) - 1
      BY <1>0, <3>1, SlotSets
    <3>3. dRun'[e] = dRun[e] - 1
      BY <1>4, <2>1 DEF DecodeLeaves
    <3> QED BY <1>0, <3>2, <3>3
  <2>2. CASE e # dIdx[c]
    <3>1. OnDecode(e)' = OnDecode(e)
      BY <1>4, <2>2 DEF DecodeLeaves, SameDecode, OnDecode
    <3>2. dRun'[e] = dRun[e]
      BY <1>4, <2>2 DEF DecodeLeaves
    <3> QED BY <1>0, <3>1, <3>2
  <2> QED BY <2>1, <2>2
<1> QED BY <1>0, <1>1, <1>2, <1>3, <1>4 DEF DecodeStep

(* Each step of a worker does one of these to the prefill endpoints.       *)
LEMMA PrefillSteps ==
    ASSUME IInv, HandlerInv, NEW w \in Workers, Step(w)
    PROVE  PrefillStep
<1>p. /\ ggroup \in [Phase -> SUBSET Slots]
      /\ "p_scheduled" \in Phase /\ "prefilling" \in Phase /\ "tokenizing" \in Phase
      /\ "p_waiting" \in Phase /\ "d_waiting" \in Phase /\ "d_scheduled" \in Phase
      /\ "decoding" \in Phase
  BY DEF IInv, TypeInv, TypeOK, Phase
<1> USE DEF IInv, TypeInv, TypeOK, HoldsPrefill, Doing, SamePrefill
<1>1. ASSUME Register(w) PROVE PrefillKeeps
  BY <1>1 DEF Register, Goto, procVars, reqVars, grpVars, runVars, pcVars, PrefillKeeps,
      Phase, Idle
<1>2. ASSUME ReqAlloc(w) PROVE PrefillKeeps
  <2>1. PICK c \in Slots \ inUse : pIdx' = [pIdx EXCEPT ![c] = 0] /\ cur' = [cur EXCEPT ![w] = c]
    BY <1>2 DEF ReqAlloc
  <2>2. c \notin ggroup["p_scheduled"] \cup ggroup["prefilling"]
    BY SharedPhases DEF Live
  <2>3. \A s \in Slots : HoldsPrefill(s)' <=> HoldsPrefill(s)
    BY <1>2 DEF ReqAlloc, Goto, Idle, grpVars
  <2>4. \A s \in Slots : HoldsPrefill(s) => pIdx'[s] = pIdx[s]
    BY <2>1, <2>2
  <2>5. pRun' = pRun
    BY <1>2 DEF ReqAlloc, runVars
  <2> QED BY <2>3, <2>4, <2>5 DEF PrefillKeeps
<1>3. ASSUME ReqEnter(w) PROVE PrefillKeeps
  <2>1. PICK c \in Slots : c = cur[w] /\ ggroup' = Put(ggroup, c, "tokenizing")
    BY <1>3 DEF ReqEnter, CurIsSlot
  <2>4. \A s \in Slots : s \in (ggroup["p_scheduled"] \cup ggroup["prefilling"])' <=>
                          s \in ggroup["p_scheduled"] \cup ggroup["prefilling"]
    BY ONLY <1>p, <2>1, GroupMoves
  <2>5. UNCHANGED <<pRun, pIdx>> /\ \A v \in Workers : \A s \in Slots :
          Doing(v, "released", s)' <=> Doing(v, "released", s)
    BY <1>3 DEF ReqEnter, Goto, runVars, Idle
  <2> QED BY <2>4, <2>5 DEF PrefillKeeps
<1>4. ASSUME QueuePrefill(w) PROVE PrefillKeeps
  <2>1. PICK c \in Slots : c = cur[w] /\ ggroup' = ChangeTo(ggroup, c, "tokenizing", "p_waiting")
    BY <1>4 DEF QueuePrefill, TransitionAll, CurIsSlot, VisitInv, Phase
  <2>4. \A s \in Slots : s \in (ggroup["p_scheduled"] \cup ggroup["prefilling"])' <=>
                          s \in ggroup["p_scheduled"] \cup ggroup["prefilling"]
    BY ONLY <1>p, <2>1, GroupMoves
  <2>5. UNCHANGED <<pRun, pIdx>> /\ \A v \in Workers : \A s \in Slots :
          Doing(v, "released", s)' <=> Doing(v, "released", s)
    BY <1>4 DEF QueuePrefill, Goto, runVars, Idle
  <2> QED BY <2>4, <2>5 DEF PrefillKeeps
<1>5. ASSUME TickSchedule(w) PROVE PrefillKeeps
  BY <1>5 DEF TickSchedule, Goto, procVars, reqVars, grpVars, runVars, pcVars,
      PrefillKeeps, Phase, Idle
<1>6. ASSUME SchedulePrefill(w) PROVE \E c \in Slots : \E e \in Prefills : PrefillJoins(c, e)
  <2>1. PICK c \in visit[w], e \in Prefills :
          /\ pIdx' = [pIdx EXCEPT ![c] = e] /\ pRun' = [pRun EXCEPT ![e] = @ + 1]
          /\ ggroup' = ChangeTo(ggroup, c, "p_waiting", "p_scheduled")
    BY <1>6 DEF SchedulePrefill
  <2>2. c \in Slots /\ c \notin pSched /\ Live(c) = {"p_waiting"} /\ phase[c] = {"p_waiting"}
    BY <1>6, <2>1, WaitsForPrefill DEF SchedulePrefill, VisitInv
  <2>3. c \notin ggroup["p_scheduled"] \cup ggroup["prefilling"]
    BY <2>2, SharedPhases
  <2>4. \A v \in Workers : ~ Doing(v, "released", c)
    BY <2>2 DEF HandlerInv, ReleasedInv
  <2>5. UNCHANGED <<at, cur>>
    BY <1>6 DEF SchedulePrefill
  <2>6. \A s \in Slots \ {c} : s \in (ggroup["p_scheduled"] \cup ggroup["prefilling"])' <=>
                                s \in ggroup["p_scheduled"] \cup ggroup["prefilling"]
    BY ONLY <1>p, <2>1, <2>2, GroupMoves
  <2>7. c \in (ggroup["p_scheduled"])'
    BY ONLY <1>p, <2>1, <2>2, GroupMoves
  <2>8. ~ HoldsPrefill(c) /\ HoldsPrefill(c)'
    BY <2>3, <2>4, <2>5, <2>7
  <2>9. \A s \in Slots \ {c} : SamePrefill(s)
    BY <2>1, <2>5, <2>6
  <2>10. pIdx'[c] = e
    BY <2>1, <2>2
  <2> QED BY <2>1, <2>2, <2>8, <2>9, <2>10 DEF PrefillJoins
<1>7. ASSUME SchedulePrefillDone(w) PROVE PrefillKeeps
  BY <1>7 DEF SchedulePrefillDone, Goto, procVars, reqVars, grpVars, runVars, pcVars,
      PrefillKeeps, Phase, Idle
<1>8. ASSUME ScheduleDecode(w) PROVE PrefillKeeps
  <2>1. PICK c \in Slots : ggroup' = ChangeTo(ggroup, c, "d_waiting", "d_scheduled")
    BY <1>8 DEF ScheduleDecode
  <2>4. \A s \in Slots : s \in (ggroup["p_scheduled"] \cup ggroup["prefilling"])' <=>
                          s \in ggroup["p_scheduled"] \cup ggroup["prefilling"]
    BY ONLY <1>p, <2>1, GroupMoves
  <2>5. UNCHANGED <<pRun, pIdx>> /\ \A v \in Workers : \A s \in Slots :
          Doing(v, "released", s)' <=> Doing(v, "released", s)
    BY <1>8 DEF ScheduleDecode, Goto, runVars, Idle
  <2> QED BY <2>4, <2>5 DEF PrefillKeeps
<1>9. ASSUME ScheduleDecodeDone(w) PROVE PrefillKeeps
  BY <1>9 DEF ScheduleDecodeDone, Goto, procVars, reqVars, grpVars, runVars, pcVars,
      PrefillKeeps, Phase, Idle
<1>10. ASSUME UpdateLocal(w) PROVE PrefillKeeps
  BY <1>10 DEF UpdateLocal, Goto, procVars, reqVars, grpVars, runVars, pcVars,
      PrefillKeeps, Phase, Idle
<1>11. ASSUME WakePrefillParallel(w) PROVE PrefillKeeps
  <2>1. PICK c \in Slots : ggroup' = Put(ggroup, c, "d_waiting")
    BY <1>11 DEF WakePrefillParallel
  <2>4. \A s \in Slots : s \in (ggroup["p_scheduled"] \cup ggroup["prefilling"])' <=>
                          s \in ggroup["p_scheduled"] \cup ggroup["prefilling"]
    BY ONLY <1>p, <2>1, GroupMoves
  <2>5. UNCHANGED <<pRun, pIdx>> /\ \A v \in Workers : \A s \in Slots :
          Doing(v, "released", s)' <=> Doing(v, "released", s)
    BY <1>11 DEF WakePrefillParallel, Goto, runVars, Idle
  <2> QED BY <2>4, <2>5 DEF PrefillKeeps
<1>12. ASSUME WakePrefillSequential(w) PROVE PrefillKeeps
  <2>1. PICK c \in Slots : c \in ggroup["p_scheduled"] /\ ggroup' = ChangeTo(ggroup, c, "p_scheduled", "prefilling")
    BY <1>12 DEF WakePrefillSequential, TransitionAll
  <2>4. \A s \in Slots : s \in (ggroup["p_scheduled"] \cup ggroup["prefilling"])' <=>
                          s \in ggroup["p_scheduled"] \cup ggroup["prefilling"]
    BY ONLY <1>p, <2>1, GroupMoves
  <2>5. UNCHANGED <<pRun, pIdx>> /\ \A v \in Workers : \A s \in Slots :
          Doing(v, "released", s)' <=> Doing(v, "released", s)
    BY <1>12 DEF WakePrefillSequential, Goto, runVars, Idle
  <2> QED BY <2>4, <2>5 DEF PrefillKeeps
<1>13. ASSUME WakePrefillStart(w) PROVE PrefillKeeps
  <2>1. PICK c \in Slots : c \in ggroup["p_scheduled"] /\ ggroup' = ChangeTo(ggroup, c, "p_scheduled", "prefilling")
    BY <1>13 DEF WakePrefillStart, TransitionAll, CurIsSlot
  <2>4. \A s \in Slots : s \in (ggroup["p_scheduled"] \cup ggroup["prefilling"])' <=>
                          s \in ggroup["p_scheduled"] \cup ggroup["prefilling"]
    BY ONLY <1>p, <2>1, GroupMoves
  <2>5. UNCHANGED <<pRun, pIdx>> /\ \A v \in Workers : \A s \in Slots :
          Doing(v, "released", s)' <=> Doing(v, "released", s)
    BY <1>13 DEF WakePrefillStart, Goto, runVars, Idle
  <2> QED BY <2>4, <2>5 DEF PrefillKeeps
<1>14. ASSUME RunPrefillDone(w) PROVE PrefillKeeps
  BY <1>14 DEF RunPrefillDone, Goto, procVars, reqVars, grpVars, runVars, pcVars,
      PrefillKeeps, Phase, Idle
<1>15. ASSUME WakeDecode(w) PROVE PrefillKeeps
  <2>1. PICK c \in Slots : ggroup' = ChangeTo(ggroup, c, "d_scheduled", "decoding")
    BY <1>15 DEF WakeDecode, TransitionAll
  <2>4. \A s \in Slots : s \in (ggroup["p_scheduled"] \cup ggroup["prefilling"])' <=>
                          s \in ggroup["p_scheduled"] \cup ggroup["prefilling"]
    BY ONLY <1>p, <2>1, GroupMoves
  <2>5. UNCHANGED <<pRun, pIdx>> /\ \A v \in Workers : \A s \in Slots :
          Doing(v, "released", s)' <=> Doing(v, "released", s)
    BY <1>15 DEF WakeDecode, Goto, runVars, Idle
  <2> QED BY <2>4, <2>5 DEF PrefillKeeps
<1>16. ASSUME RunDecodeDone(w) PROVE PrefillKeeps
  BY <1>16 DEF RunDecodeDone, Goto, procVars, reqVars, grpVars, runVars, pcVars,
      PrefillKeeps, Phase, Idle
<1>17. ASSUME PrefillAdvanceSequential(w) PROVE PrefillKeeps
  <2>1. PICK c \in Slots : c = cur[w] /\ at[w] = "released" /\ ggroup' = ChangeTo(ggroup, c, "prefilling", "d_waiting")
    BY <1>17 DEF PrefillAdvanceSequential, TransitionAll, CurIsSlot
  <2>2. c \in inUse /\ owner[c] = w /\ "prefilling" \in phase[c]
    BY <2>1 DEF HandlerInv, ReleasedInv, CurOwned, OneRequestPlaces
  <2>3. c \notin ggroup["p_scheduled"]
    BY <2>2, PrefillingBits
  <2>4. \A s \in Slots \ {c} : s \in (ggroup["p_scheduled"] \cup ggroup["prefilling"])' <=>
                                s \in ggroup["p_scheduled"] \cup ggroup["prefilling"]
    BY ONLY <1>p, <2>1, GroupMoves
  <2>5. c \notin (ggroup["p_scheduled"] \cup ggroup["prefilling"])'
    BY ONLY <1>p, <2>1, <2>3, GroupMoves
  <2>6. UNCHANGED <<pRun, pIdx>> /\ \A v \in Workers : \A s \in Slots \ {c} :
          Doing(v, "released", s)' <=> Doing(v, "released", s)
    BY <1>17, <2>1 DEF PrefillAdvanceSequential, Goto, runVars
  <2>7. ~ HoldsPrefill(c) /\ ~ HoldsPrefill(c)'
    BY <2>1, <2>5
  <2> QED BY <2>4, <2>6, <2>7 DEF PrefillKeeps
<1>18. ASSUME PrefillAdvanceParallel(w) PROVE PrefillKeeps
  <2>1. PICK c \in Slots : c = cur[w] /\ at[w] = "released" /\ ggroup' = Drop(ggroup, c, "prefilling")
    BY <1>18 DEF PrefillAdvanceParallel, TransitionAll, CurIsSlot
  <2>2. c \in inUse /\ owner[c] = w /\ "prefilling" \in phase[c]
    BY <2>1 DEF HandlerInv, ReleasedInv, CurOwned, OneRequestPlaces
  <2>3. c \notin ggroup["p_scheduled"]
    BY <2>2, PrefillingBits
  <2>4. \A s \in Slots \ {c} : s \in (ggroup["p_scheduled"] \cup ggroup["prefilling"])' <=>
                                s \in ggroup["p_scheduled"] \cup ggroup["prefilling"]
    BY ONLY <1>p, <2>1, GroupMoves
  <2>5. c \notin (ggroup["p_scheduled"] \cup ggroup["prefilling"])'
    BY ONLY <1>p, <2>1, <2>3, GroupMoves
  <2>6. UNCHANGED <<pRun, pIdx>> /\ \A v \in Workers : \A s \in Slots \ {c} :
          Doing(v, "released", s)' <=> Doing(v, "released", s)
    BY <1>18, <2>1 DEF PrefillAdvanceParallel, Goto, runVars
  <2>7. ~ HoldsPrefill(c) /\ ~ HoldsPrefill(c)'
    BY <2>1, <2>5
  <2> QED BY <2>4, <2>6, <2>7 DEF PrefillKeeps
<1>19. ASSUME CleanupPhase(w) PROVE PrefillStep
  <2>1. PICK c \in Slots : c = cur[w] /\ at[w] = "cleanup" /\ c \in inUse /\ owner[c] = w
    BY <1>19 DEF CleanupPhase, CurIsSlot, CurOwned, OneRequestPlaces
  <2>2. PICK q \in todo[w] : /\ c \in ggroup[GroupOf(c, q)] /\ GiveBack(c, q)
                             /\ ggroup' = Drop(ggroup, c, GroupOf(c, q))
    BY <1>19, <2>1 DEF CleanupPhase
  <2>3. q \in Phase /\ GroupOf(c, q) \in Phase
    BY <2>2 DEF GroupOf, Phase
  <2>4. UNCHANGED <<at, cur, pIdx>>
    BY <1>19 DEF CleanupPhase, reqVars
  <2>5. \A v \in Workers : ~ Doing(v, "released", c)
    BY <2>1 DEF CurOwned, OneRequestPlaces
  <2>6. q \in phase[c]
    BY <2>1, <2>2 DEF CleanupInv
  <2>7. CASE q = "prefilling"
    <3>1. pRun' = [pRun EXCEPT ![pIdx[c]] = @ - 1] /\ GroupOf(c, q) = "prefilling"
      BY <2>2, <2>7 DEF GiveBack, GroupOf
    <3>2. c \notin ggroup["p_scheduled"]
      BY <2>6, <2>7, PrefillingBits
    <3>3. HoldsPrefill(c)
      BY <2>2, <2>5, <3>1
    <3>4. c \notin (ggroup["p_scheduled"] \cup ggroup["prefilling"])'
      BY ONLY <1>p, <2>2, <3>1, <3>2, GroupMoves
    <3>5. \A s \in Slots \ {c} : s \in (ggroup["p_scheduled"] \cup ggroup["prefilling"])' <=>
                                  s \in ggroup["p_scheduled"] \cup ggroup["prefilling"]
      BY ONLY <1>p, <2>2, <3>1, GroupMoves
    <3>6. \A s \in Slots \ {c} : SamePrefill(s)
      BY <2>4, <3>5
    <3>7. PrefillLeaves(c)
      BY <3>1, <3>3, <3>4, <3>6 DEF PrefillLeaves
    <3> QED BY <3>7 DEF PrefillStep
  <2>8. CASE q \in {"p_waiting", "p_scheduled"}
    <3>0. \A s \in Slots : s \in (ggroup["p_scheduled"] \cup ggroup["prefilling"])' =>
                            s \in ggroup["p_scheduled"] \cup ggroup["prefilling"]
      BY ONLY <1>p, <2>2, <2>3, GroupMoves
    <3>1. \A s \in Slots : HoldsPrefill(s)' => HoldsPrefill(s)
      BY <2>4, <3>0
    <3>2. pRun' = pRun
      BY <2>2, <2>8 DEF GiveBack
    <3>3. PrefillDrops
      BY <2>1, <2>2, <2>4, <2>8, <3>1, <3>2 DEF PrefillDrops
    <3> QED BY <3>3 DEF PrefillStep
  <2>9. CASE q \notin {"p_waiting", "p_scheduled", "prefilling"}
    <3>1. GroupOf(c, q) \notin {"p_waiting", "p_scheduled", "prefilling"}
      BY <2>9 DEF GroupOf
    <3>2. \A s \in Slots : s \in (ggroup["p_scheduled"] \cup ggroup["prefilling"])' <=>
                            s \in ggroup["p_scheduled"] \cup ggroup["prefilling"]
      BY ONLY <1>p, <2>2, <2>3, <3>1, GroupMoves
    <3>3. pRun' = pRun
      BY <2>2, <2>9 DEF GiveBack
    <3>4. PrefillKeeps
      BY <2>4, <3>2, <3>3 DEF PrefillKeeps
    <3> QED BY <3>4 DEF PrefillStep
  <2> QED BY <2>7, <2>8, <2>9
<1>20. ASSUME ReqFree(w) PROVE PrefillKeeps
  BY <1>20 DEF ReqFree, Goto, procVars, reqVars, grpVars, runVars, pcVars, PrefillKeeps,
      Phase, Idle
<1>21. ASSUME NEW x \in Slots, PostTokenized(w, x) PROVE PrefillKeeps
  BY <1>21 DEF PostTokenized, Goto, procVars, reqVars, grpVars, runVars, pcVars,
      PrefillKeeps, Phase, Idle
<1>22. ASSUME NEW x \in Slots, PrefillRelease(w, x) PROVE PrefillLeaves(x)
  <2>1. x \in inUse /\ owner[x] = w /\ "prefilling" \in Live(x)
    BY <1>22, LocalEntry DEF PrefillRelease, Phase
  <2>2. HoldsPrefill(x)
    <3>1. \A v \in Workers : ~ Doing(v, "released", x)
      BY <1>22, <2>1 DEF PrefillRelease, Idle, CurOwned, OneRequestPlaces
    <3> QED BY <2>1, <3>1, SharedPhases
  <2>3. Doing(w, "released", x)' /\ \A v \in Workers, s \in Slots \ {x} :
            Doing(v, "released", s)' <=> Doing(v, "released", s)
    BY <1>22 DEF PrefillRelease, Idle, Goto
  <2>4. UNCHANGED <<ggroup, pIdx>> /\ pRun' = [pRun EXCEPT ![pIdx[x]] = @ - 1]
    BY <1>22 DEF PrefillRelease, grpVars, reqVars
  <2> QED BY <2>2, <2>3, <2>4 DEF PrefillLeaves
<1>23. ASSUME NEW x \in Slots, DecodeEnd(w, x) PROVE PrefillKeeps
  BY <1>23 DEF DecodeEnd, Goto, procVars, reqVars, grpVars, runVars, pcVars,
      BeginCleanup, PrefillKeeps, Phase, Idle
<1>24. ASSUME NEW x \in Slots, RequestAborts(w, x) PROVE PrefillKeeps
  BY <1>24 DEF RequestAborts, Goto, procVars, reqVars, grpVars, runVars, pcVars,
      BeginCleanup, PrefillKeeps, Phase, Idle
<1> HIDE DEF HoldsPrefill, SamePrefill, Doing, TypeOK, TypeInv, IInv
<1> QED BY <1>1, <1>2, <1>3, <1>4, <1>5, <1>6, <1>7, <1>8, <1>9, <1>10, <1>11, <1>12,
    <1>13, <1>14, <1>15, <1>16, <1>17, <1>18, <1>19, <1>20, <1>21, <1>22, <1>23, <1>24
        DEF PrefillStep, Step, Tick, Continue, Answers, Answer

(* The same of the decode endpoints.                                       *)
LEMMA DecodeSteps ==
    ASSUME IInv, HandlerInv, NEW w \in Workers, Step(w)
    PROVE  DecodeStep
<1>p. /\ ggroup \in [Phase -> SUBSET Slots]
      /\ "p_scheduled" \in Phase /\ "prefilling" \in Phase /\ "tokenizing" \in Phase
      /\ "p_waiting" \in Phase /\ "d_waiting" \in Phase /\ "d_scheduled" \in Phase
      /\ "decoding" \in Phase
  BY DEF IInv, TypeInv, TypeOK, Phase
<1> USE DEF IInv, TypeInv, TypeOK, HoldsDecode, SameDecode
<1>1. ASSUME Register(w) PROVE DecodeKeeps
  BY <1>1 DEF Register, Goto, procVars, reqVars, grpVars, runVars, pcVars, DecodeKeeps,
      Phase, Idle
<1>2. ASSUME ReqAlloc(w) PROVE DecodeKeeps
  <2>1. PICK c \in Slots \ inUse : dIdx' = [dIdx EXCEPT ![c] = 0]
    BY <1>2 DEF ReqAlloc
  <2>2. c \notin ggroup["d_scheduled"] \cup ggroup["decoding"]
    BY SharedPhases DEF Live
  <2>3. UNCHANGED <<ggroup, dRun>>
    BY <1>2 DEF ReqAlloc, grpVars, runVars
  <2>4. \A s \in Slots : HoldsDecode(s) => dIdx'[s] = dIdx[s]
    BY <2>1, <2>2
  <2> QED BY <2>3, <2>4 DEF DecodeKeeps
<1>3. ASSUME ReqEnter(w) PROVE DecodeKeeps
  <2>1. PICK c \in Slots : ggroup' = Put(ggroup, c, "tokenizing")
    BY <1>3 DEF ReqEnter, TransitionAll, CurIsSlot, VisitInv, Phase
  <2>2. \A s \in Slots : s \in (ggroup["d_scheduled"] \cup ggroup["decoding"])' <=>
                          s \in ggroup["d_scheduled"] \cup ggroup["decoding"]
    BY ONLY <1>p, <2>1, GroupMoves
  <2>3. UNCHANGED <<dRun, dIdx>>
    BY <1>3 DEF ReqEnter, runVars
  <2> QED BY <2>2, <2>3 DEF DecodeKeeps
<1>4. ASSUME QueuePrefill(w) PROVE DecodeKeeps
  <2>1. PICK c \in Slots : ggroup' = ChangeTo(ggroup, c, "tokenizing", "p_waiting")
    BY <1>4 DEF QueuePrefill, TransitionAll, CurIsSlot, VisitInv, Phase
  <2>2. \A s \in Slots : s \in (ggroup["d_scheduled"] \cup ggroup["decoding"])' <=>
                          s \in ggroup["d_scheduled"] \cup ggroup["decoding"]
    BY ONLY <1>p, <2>1, GroupMoves
  <2>3. UNCHANGED <<dRun, dIdx>>
    BY <1>4 DEF QueuePrefill, runVars
  <2> QED BY <2>2, <2>3 DEF DecodeKeeps
<1>5. ASSUME TickSchedule(w) PROVE DecodeKeeps
  BY <1>5 DEF TickSchedule, Goto, procVars, reqVars, grpVars, runVars, pcVars,
      DecodeKeeps, Phase, Idle
<1>6. ASSUME SchedulePrefill(w) PROVE DecodeKeeps
  <2>1. PICK c \in Slots : ggroup' = ChangeTo(ggroup, c, "p_waiting", "p_scheduled")
    BY <1>6 DEF SchedulePrefill, TransitionAll, CurIsSlot, VisitInv, Phase
  <2>2. \A s \in Slots : s \in (ggroup["d_scheduled"] \cup ggroup["decoding"])' <=>
                          s \in ggroup["d_scheduled"] \cup ggroup["decoding"]
    BY ONLY <1>p, <2>1, GroupMoves
  <2>3. UNCHANGED <<dRun, dIdx>>
    BY <1>6 DEF SchedulePrefill, runVars
  <2> QED BY <2>2, <2>3 DEF DecodeKeeps
<1>7. ASSUME SchedulePrefillDone(w) PROVE DecodeKeeps
  BY <1>7 DEF SchedulePrefillDone, Goto, procVars, reqVars, grpVars, runVars, pcVars,
      DecodeKeeps, Phase, Idle
<1>8. ASSUME ScheduleDecode(w) PROVE \E c \in Slots : \E e \in Decodes : DecodeJoins(c, e)
  <2>1. PICK c \in visit[w], e \in Decodes :
          /\ dIdx' = [dIdx EXCEPT ![c] = e] /\ dRun' = [dRun EXCEPT ![e] = @ + 1]
          /\ ggroup' = ChangeTo(ggroup, c, "d_waiting", "d_scheduled")
    BY <1>8 DEF ScheduleDecode
  <2>2. c \in Slots /\ c \notin dSched
    BY <1>8, <2>1, WaitsForDecode DEF ScheduleDecode, VisitInv
  <2>3. ~ HoldsDecode(c)
    BY <2>2, SharedPhases
  <2>4. c \in ggroup'["d_scheduled"]
    BY ONLY <1>p, <2>1, <2>2, GroupMoves
  <2>5. \A s \in Slots \ {c} : s \in (ggroup["d_scheduled"] \cup ggroup["decoding"])' <=>
                                s \in ggroup["d_scheduled"] \cup ggroup["decoding"]
    BY ONLY <1>p, <2>1, <2>2, GroupMoves
  <2>6. \A s \in Slots \ {c} : SameDecode(s)
    BY <2>1, <2>5
  <2>7. dIdx'[c] = e /\ HoldsDecode(c)'
    BY <2>1, <2>2, <2>4
  <2> QED BY <2>1, <2>2, <2>3, <2>6, <2>7 DEF DecodeJoins
<1>9. ASSUME ScheduleDecodeDone(w) PROVE DecodeKeeps
  BY <1>9 DEF ScheduleDecodeDone, Goto, procVars, reqVars, grpVars, runVars, pcVars,
      DecodeKeeps, Phase, Idle
<1>10. ASSUME UpdateLocal(w) PROVE DecodeKeeps
  BY <1>10 DEF UpdateLocal, Goto, procVars, reqVars, grpVars, runVars, pcVars,
      DecodeKeeps, Phase, Idle
<1>11. ASSUME WakePrefillParallel(w) PROVE DecodeKeeps
  <2>1. PICK c \in Slots : ggroup' = Put(ggroup, c, "d_waiting")
    BY <1>11 DEF WakePrefillParallel, TransitionAll, CurIsSlot, VisitInv, Phase
  <2>2. \A s \in Slots : s \in (ggroup["d_scheduled"] \cup ggroup["decoding"])' <=>
                          s \in ggroup["d_scheduled"] \cup ggroup["decoding"]
    BY ONLY <1>p, <2>1, GroupMoves
  <2>3. UNCHANGED <<dRun, dIdx>>
    BY <1>11 DEF WakePrefillParallel, runVars
  <2> QED BY <2>2, <2>3 DEF DecodeKeeps
<1>12. ASSUME WakePrefillSequential(w) PROVE DecodeKeeps
  <2>1. PICK c \in Slots : ggroup' = ChangeTo(ggroup, c, "p_scheduled", "prefilling")
    BY <1>12 DEF WakePrefillSequential, TransitionAll, CurIsSlot, VisitInv, Phase
  <2>2. \A s \in Slots : s \in (ggroup["d_scheduled"] \cup ggroup["decoding"])' <=>
                          s \in ggroup["d_scheduled"] \cup ggroup["decoding"]
    BY ONLY <1>p, <2>1, GroupMoves
  <2>3. UNCHANGED <<dRun, dIdx>>
    BY <1>12 DEF WakePrefillSequential, runVars
  <2> QED BY <2>2, <2>3 DEF DecodeKeeps
<1>13. ASSUME WakePrefillStart(w) PROVE DecodeKeeps
  <2>1. PICK c \in Slots : ggroup' = ChangeTo(ggroup, c, "p_scheduled", "prefilling")
    BY <1>13 DEF WakePrefillStart, TransitionAll, CurIsSlot, VisitInv, Phase
  <2>2. \A s \in Slots : s \in (ggroup["d_scheduled"] \cup ggroup["decoding"])' <=>
                          s \in ggroup["d_scheduled"] \cup ggroup["decoding"]
    BY ONLY <1>p, <2>1, GroupMoves
  <2>3. UNCHANGED <<dRun, dIdx>>
    BY <1>13 DEF WakePrefillStart, runVars
  <2> QED BY <2>2, <2>3 DEF DecodeKeeps
<1>14. ASSUME RunPrefillDone(w) PROVE DecodeKeeps
  BY <1>14 DEF RunPrefillDone, Goto, procVars, reqVars, grpVars, runVars, pcVars,
      DecodeKeeps, Phase, Idle
<1>15. ASSUME WakeDecode(w) PROVE DecodeKeeps
  <2>1. PICK c \in Slots : c \in ggroup["d_scheduled"] /\ ggroup' = ChangeTo(ggroup, c, "d_scheduled", "decoding")
    BY <1>15 DEF WakeDecode, TransitionAll, CurIsSlot, VisitInv, Phase
  <2>2. \A s \in Slots : s \in (ggroup["d_scheduled"] \cup ggroup["decoding"])' <=>
                          s \in ggroup["d_scheduled"] \cup ggroup["decoding"]
    BY ONLY <1>p, <2>1, GroupMoves
  <2>3. UNCHANGED <<dRun, dIdx>>
    BY <1>15 DEF WakeDecode, runVars
  <2> QED BY <2>2, <2>3 DEF DecodeKeeps
<1>16. ASSUME RunDecodeDone(w) PROVE DecodeKeeps
  BY <1>16 DEF RunDecodeDone, Goto, procVars, reqVars, grpVars, runVars, pcVars,
      DecodeKeeps, Phase, Idle
<1>17. ASSUME PrefillAdvanceSequential(w) PROVE DecodeKeeps
  <2>1. PICK c \in Slots : ggroup' = ChangeTo(ggroup, c, "prefilling", "d_waiting")
    BY <1>17 DEF PrefillAdvanceSequential, TransitionAll, CurIsSlot, VisitInv, Phase
  <2>2. \A s \in Slots : s \in (ggroup["d_scheduled"] \cup ggroup["decoding"])' <=>
                          s \in ggroup["d_scheduled"] \cup ggroup["decoding"]
    BY ONLY <1>p, <2>1, GroupMoves
  <2>3. UNCHANGED <<dRun, dIdx>>
    BY <1>17 DEF PrefillAdvanceSequential, runVars
  <2> QED BY <2>2, <2>3 DEF DecodeKeeps
<1>18. ASSUME PrefillAdvanceParallel(w) PROVE DecodeKeeps
  <2>1. PICK c \in Slots : ggroup' = Drop(ggroup, c, "prefilling")
    BY <1>18 DEF PrefillAdvanceParallel, TransitionAll, CurIsSlot, VisitInv, Phase
  <2>2. \A s \in Slots : s \in (ggroup["d_scheduled"] \cup ggroup["decoding"])' <=>
                          s \in ggroup["d_scheduled"] \cup ggroup["decoding"]
    BY ONLY <1>p, <2>1, GroupMoves
  <2>3. UNCHANGED <<dRun, dIdx>>
    BY <1>18 DEF PrefillAdvanceParallel, runVars
  <2> QED BY <2>2, <2>3 DEF DecodeKeeps
<1>19. ASSUME CleanupPhase(w) PROVE DecodeStep
  <2>1. PICK c \in Slots : c = cur[w] /\ at[w] = "cleanup" /\ c \in inUse /\ owner[c] = w
    BY <1>19 DEF CleanupPhase, CurIsSlot, CurOwned, OneRequestPlaces
  <2>2. PICK q \in todo[w] : /\ c \in ggroup[GroupOf(c, q)] /\ GiveBack(c, q)
                             /\ ggroup' = Drop(ggroup, c, GroupOf(c, q))
    BY <1>19, <2>1 DEF CleanupPhase
  <2>3. q \in Phase /\ GroupOf(c, q) \in Phase
    BY <2>2 DEF GroupOf, Phase
  <2>4. dIdx' = dIdx
    BY <1>19 DEF CleanupPhase, reqVars
  <2>5. q \in phase[c]
    BY <2>1, <2>2 DEF CleanupInv
  <2>6. CASE q = "decoding"
    <3>1. dRun' = [dRun EXCEPT ![dIdx[c]] = @ - 1] /\ GroupOf(c, q) = "decoding"
      BY <2>2, <2>6 DEF GiveBack, GroupOf
    <3>2. c \notin ggroup["d_scheduled"]
      <4>1. "d_waiting" \notin phase[c] /\ "d_scheduled" \notin phase[c]
        BY <2>5, <2>6 DEF ShapeInv
      <4> QED BY <4>1, LiveInPhase, SharedPhases
    <3>3. HoldsDecode(c)
      BY <2>2, <3>1
    <3>4. c \notin (ggroup["d_scheduled"] \cup ggroup["decoding"])'
      BY ONLY <1>p, <2>2, <3>1, <3>2, GroupMoves
    <3>5. \A s \in Slots \ {c} : s \in (ggroup["d_scheduled"] \cup ggroup["decoding"])' <=>
                                  s \in ggroup["d_scheduled"] \cup ggroup["decoding"]
      BY ONLY <1>p, <2>2, <3>1, GroupMoves
    <3>6. \A s \in Slots \ {c} : SameDecode(s)
      BY <2>4, <3>5
    <3>7. DecodeLeaves(c)
      BY <3>1, <3>3, <3>4, <3>6 DEF DecodeLeaves
    <3> QED BY <3>7 DEF DecodeStep
  <2>7. CASE q \in {"d_waiting", "d_scheduled"}
    <3>0. \A s \in Slots : s \in (ggroup["d_scheduled"] \cup ggroup["decoding"])' =>
                            s \in ggroup["d_scheduled"] \cup ggroup["decoding"]
      BY ONLY <1>p, <2>2, <2>3, GroupMoves
    <3>1. \A s \in Slots : HoldsDecode(s)' => HoldsDecode(s)
      BY <2>4, <3>0
    <3>2. dRun' = dRun
      BY <2>2, <2>7 DEF GiveBack
    <3>3. DecodeDrops
      BY <2>1, <2>2, <2>4, <2>7, <3>1, <3>2 DEF DecodeDrops
    <3> QED BY <3>3 DEF DecodeStep
  <2>8. CASE q \notin {"d_waiting", "d_scheduled", "decoding"}
    <3>1. GroupOf(c, q) \notin {"d_waiting", "d_scheduled", "decoding"}
      BY <2>8 DEF GroupOf
    <3>2. \A s \in Slots : s \in (ggroup["d_scheduled"] \cup ggroup["decoding"])' <=>
                            s \in ggroup["d_scheduled"] \cup ggroup["decoding"]
      BY ONLY <1>p, <2>2, <2>3, <3>1, GroupMoves
    <3>3. dRun' = dRun
      BY <2>2, <2>8 DEF GiveBack
    <3>4. DecodeKeeps
      BY <2>4, <3>2, <3>3 DEF DecodeKeeps
    <3> QED BY <3>4 DEF DecodeStep
  <2> QED BY <2>6, <2>7, <2>8
<1>20. ASSUME ReqFree(w) PROVE DecodeKeeps
  BY <1>20 DEF ReqFree, Goto, procVars, reqVars, grpVars, runVars, pcVars, DecodeKeeps,
      Phase, Idle
<1>21. ASSUME NEW x \in Slots, PostTokenized(w, x) PROVE DecodeKeeps
  BY <1>21 DEF PostTokenized, Goto, procVars, reqVars, grpVars, runVars, pcVars,
      DecodeKeeps, Phase, Idle
<1>22. ASSUME NEW x \in Slots, PrefillRelease(w, x) PROVE DecodeKeeps
  BY <1>22 DEF PrefillRelease, Goto, procVars, reqVars, grpVars, runVars, pcVars,
      DecodeKeeps, Phase, Idle
<1>23. ASSUME NEW x \in Slots, DecodeEnd(w, x) PROVE DecodeKeeps
  BY <1>23 DEF DecodeEnd, Goto, procVars, reqVars, grpVars, runVars, pcVars,
      BeginCleanup, DecodeKeeps, Phase, Idle
<1>24. ASSUME NEW x \in Slots, RequestAborts(w, x) PROVE DecodeKeeps
  BY <1>24 DEF RequestAborts, Goto, procVars, reqVars, grpVars, runVars, pcVars,
      BeginCleanup, DecodeKeeps, Phase, Idle
<1> HIDE DEF HoldsDecode, SameDecode, TypeOK, TypeInv, IInv
<1> QED BY <1>1, <1>2, <1>3, <1>4, <1>5, <1>6, <1>7, <1>8, <1>9, <1>10, <1>11, <1>12,
    <1>13, <1>14, <1>15, <1>16, <1>17, <1>18, <1>19, <1>20, <1>21, <1>22, <1>23, <1>24
        DEF DecodeStep, Step, Tick, Continue, Answers, Answer

----------------------------------------------------------------------------
(* Theorems *)

(* So does every step of the system.                                       *)
LEMMA LoadSteps ==
    ASSUME IInv, HandlerInv, [Next]_vars PROVE PrefillStep /\ DecodeStep
<1>1. CASE UNCHANGED vars
  <2>1. UNCHANGED <<pRun, dRun, pIdx, dIdx, ggroup, at, cur>>
    BY <1>1 DEF vars, reqVars, grpVars, runVars, pcVars
  <2>2. PrefillKeeps
    BY <2>1 DEF PrefillKeeps, SamePrefill, HoldsPrefill, Doing
  <2>3. DecodeKeeps
    BY <2>1 DEF DecodeKeeps, SameDecode, HoldsDecode
  <2> QED BY <2>2, <2>3 DEF PrefillStep, DecodeStep
<1>2. ASSUME NEW w \in Workers, Step(w) PROVE PrefillStep /\ DecodeStep
  BY <1>2, PrefillSteps, DecodeSteps
<1> QED BY <1>1, <1>2 DEF Next

(* The counts of both kinds of endpoint, before and after a step.          *)
LEMMA LoadCount ==
    ASSUME IInv, IInv', HandlerInv, [Next]_vars
    PROVE  /\ \A e \in Prefills :
                /\ pRun[e] \in Int /\ pRun'[e] \in Int
                /\ Cardinality(PrefillHolders(e)) \in Nat /\ Cardinality(PrefillHolders(e)') \in Nat
                /\ pRun'[e] - Cardinality(PrefillHolders(e)') >= pRun[e] - Cardinality(PrefillHolders(e))
                /\ ~ PrefillDrops => pRun'[e] - Cardinality(PrefillHolders(e)')
                                       = pRun[e] - Cardinality(PrefillHolders(e))
           /\ \A e \in Decodes :
                /\ dRun[e] \in Int /\ dRun'[e] \in Int
                /\ Cardinality(DecodeHolders(e)) \in Nat /\ Cardinality(DecodeHolders(e)') \in Nat
                /\ dRun'[e] - Cardinality(DecodeHolders(e)') >= dRun[e] - Cardinality(DecodeHolders(e))
                /\ ~ DecodeDrops => dRun'[e] - Cardinality(DecodeHolders(e)')
                                      = dRun[e] - Cardinality(DecodeHolders(e))
<1>1. TypeOK /\ TypeOK' /\ PrefillStep /\ DecodeStep
  BY LoadSteps DEF IInv, TypeInv
<1>2. /\ \A e \in Prefills : PrefillHolders(e) = OnPrefill(e)
      /\ \A e \in Decodes : DecodeHolders(e) = OnDecode(e)
  BY HoldersAre DEF HoldersRead
<1>3. /\ \A e \in Prefills : PrefillHolders(e)' = OnPrefill(e)'
      /\ \A e \in Decodes : DecodeHolders(e)' = OnDecode(e)'
  BY HoldersAreNext DEF HoldersRead
<1>4. ASSUME NEW e \in Prefills
      PROVE  Cardinality(OnPrefill(e)) \in Nat /\ Cardinality(OnPrefill(e)') \in Nat
  <2>1. OnPrefill(e) \in SUBSET Slots /\ OnPrefill(e)' \in SUBSET Slots
    BY DEF OnPrefill
  <2> QED BY <2>1, SlotSets
<1>5. ASSUME NEW e \in Decodes
      PROVE  Cardinality(OnDecode(e)) \in Nat /\ Cardinality(OnDecode(e)') \in Nat
  <2>1. OnDecode(e) \in SUBSET Slots /\ OnDecode(e)' \in SUBSET Slots
    BY DEF OnDecode
  <2> QED BY <2>1, SlotSets
<1>6. /\ \A e \in Prefills : pRun[e] \in Int /\ pRun'[e] \in Int
      /\ \A e \in Decodes : dRun[e] \in Int /\ dRun'[e] \in Int
  BY <1>1 DEF TypeOK
<1>7. ASSUME NEW e \in Prefills
      PROVE  /\ pRun'[e] - Cardinality(OnPrefill(e)') >= pRun[e] - Cardinality(OnPrefill(e))
             /\ ~ PrefillDrops => pRun'[e] - Cardinality(OnPrefill(e)') = pRun[e] - Cardinality(OnPrefill(e))
  BY <1>1, PrefillCount
<1>8. ASSUME NEW e \in Decodes
      PROVE  /\ dRun'[e] - Cardinality(OnDecode(e)') >= dRun[e] - Cardinality(OnDecode(e))
             /\ ~ DecodeDrops => dRun'[e] - Cardinality(OnDecode(e)') = dRun[e] - Cardinality(OnDecode(e))
  BY <1>1, DecodeCount
<1> QED BY <1>2, <1>3, <1>4, <1>5, <1>6, <1>7, <1>8

(* At the start nobody is on an endpoint.                                     *)
LEMMA InitLoad ==
    ASSUME Init
    PROVE  /\ \A e \in Prefills : pRun[e] = Cardinality(PrefillHolders(e))
           /\ \A e \in Decodes : dRun[e] = Cardinality(DecodeHolders(e))
<1>1. \A e \in Prefills : PrefillHolders(e) = {}
  BY DEF Init, PrefillHolders
<1>2. \A e \in Decodes : DecodeHolders(e) = {}
  BY DEF Init, DecodeHolders
<1>3. Cardinality({}) = 0
  BY FS_EmptySet
<1> QED BY <1>1, <1>2, <1>3 DEF Init

(* The locations are those of the configuration.                           *)
LEMMA LocationsStay ==
    ASSUME [Next]_vars PROVE locations' = locations
<1>0. CASE UNCHANGED vars
  BY <1>0 DEF vars, procVars
<1>w. ASSUME NEW w \in Workers, Step(w) PROVE locations' = locations
  <2>1. ASSUME Register(w) PROVE locations' = locations
      BY <2>1 DEF Register, Goto, procVars, reqVars, grpVars, runVars, pcVars
  <2>2. ASSUME ReqAlloc(w) PROVE locations' = locations
      BY <2>2 DEF ReqAlloc, Goto, procVars, reqVars, grpVars, runVars, pcVars
  <2>3. ASSUME ReqEnter(w) PROVE locations' = locations
      BY <2>3 DEF ReqEnter, Goto, procVars, reqVars, grpVars, runVars, pcVars
  <2>4. ASSUME QueuePrefill(w) PROVE locations' = locations
      BY <2>4 DEF QueuePrefill, Goto, procVars, reqVars, grpVars, runVars, pcVars,
      TransitionAll
  <2>5. ASSUME TickSchedule(w) PROVE locations' = locations
      BY <2>5 DEF TickSchedule, Goto, procVars, reqVars, grpVars, runVars, pcVars
  <2>6. ASSUME SchedulePrefill(w) PROVE locations' = locations
      BY <2>6 DEF SchedulePrefill, Goto, procVars, reqVars, grpVars, runVars, pcVars
  <2>7. ASSUME SchedulePrefillDone(w) PROVE locations' = locations
      BY <2>7 DEF SchedulePrefillDone, Goto, procVars, reqVars, grpVars, runVars, pcVars
  <2>8. ASSUME ScheduleDecode(w) PROVE locations' = locations
      BY <2>8 DEF ScheduleDecode, Goto, procVars, reqVars, grpVars, runVars, pcVars
  <2>9. ASSUME ScheduleDecodeDone(w) PROVE locations' = locations
      BY <2>9 DEF ScheduleDecodeDone, Goto, procVars, reqVars, grpVars, runVars, pcVars
  <2>10. ASSUME UpdateLocal(w) PROVE locations' = locations
      BY <2>10 DEF UpdateLocal, Goto, procVars, reqVars, grpVars, runVars, pcVars
  <2>11. ASSUME WakePrefillParallel(w) PROVE locations' = locations
      BY <2>11 DEF WakePrefillParallel, Goto, procVars, reqVars, grpVars, runVars, pcVars
  <2>12. ASSUME WakePrefillSequential(w) PROVE locations' = locations
      BY <2>12 DEF WakePrefillSequential, Goto, procVars, reqVars, grpVars, runVars, pcVars,
      TransitionAll
  <2>13. ASSUME WakePrefillStart(w) PROVE locations' = locations
      BY <2>13 DEF WakePrefillStart, Goto, procVars, reqVars, grpVars, runVars, pcVars,
      TransitionAll
  <2>14. ASSUME RunPrefillDone(w) PROVE locations' = locations
      BY <2>14 DEF RunPrefillDone, Goto, procVars, reqVars, grpVars, runVars, pcVars
  <2>15. ASSUME WakeDecode(w) PROVE locations' = locations
      BY <2>15 DEF WakeDecode, Goto, procVars, reqVars, grpVars, runVars, pcVars,
      TransitionAll
  <2>16. ASSUME RunDecodeDone(w) PROVE locations' = locations
      BY <2>16 DEF RunDecodeDone, Goto, procVars, reqVars, grpVars, runVars, pcVars
  <2>17. ASSUME PrefillAdvanceSequential(w) PROVE locations' = locations
      BY <2>17 DEF PrefillAdvanceSequential, Goto, procVars, reqVars, grpVars, runVars,
      pcVars, TransitionAll
  <2>18. ASSUME PrefillAdvanceParallel(w) PROVE locations' = locations
      BY <2>18 DEF PrefillAdvanceParallel, Goto, procVars, reqVars, grpVars, runVars, pcVars
  <2>19. ASSUME CleanupPhase(w) PROVE locations' = locations
      BY <2>19 DEF CleanupPhase, Goto, procVars, reqVars, grpVars, runVars, pcVars
  <2>20. ASSUME ReqFree(w) PROVE locations' = locations
      BY <2>20 DEF ReqFree, Goto, procVars, reqVars, grpVars, runVars, pcVars
  <2>21. ASSUME NEW x \in Slots, PostTokenized(w, x) PROVE locations' = locations
      BY <2>21 DEF PostTokenized, Goto, procVars, reqVars, grpVars, runVars, pcVars
  <2>22. ASSUME NEW x \in Slots, PrefillRelease(w, x) PROVE locations' = locations
      BY <2>22 DEF PrefillRelease, Goto, procVars, reqVars, grpVars, runVars, pcVars
  <2>23. ASSUME NEW x \in Slots, DecodeEnd(w, x) PROVE locations' = locations
      BY <2>23 DEF DecodeEnd, Goto, procVars, reqVars, grpVars, runVars, pcVars,
      BeginCleanup
  <2>24. ASSUME NEW x \in Slots, RequestAborts(w, x) PROVE locations' = locations
      BY <2>24 DEF RequestAborts, Goto, procVars, reqVars, grpVars, runVars, pcVars,
      BeginCleanup
  <2> QED BY <1>w, <2>1, <2>2, <2>3, <2>4, <2>5, <2>6, <2>7, <2>8, <2>9, <2>10, <2>11, <2>12,
    <2>13, <2>14, <2>15, <2>16, <2>17, <2>18, <2>19, <2>20, <2>21, <2>22, <2>23, <2>24
        DEF Step, Tick, Continue, Answers, Answer
<1> QED BY <1>0, <1>w DEF Next

(* The phases in which a request has no endpoint, or runs on it.           *)
EarlyAborts == {"tokenizing", "prefilling", "decoding"}

(* If requests are given up only there, no assigned endpoint is dropped    *)
(* before its request has started on it.                                   *)
LEMMA NoneDropped ==
    ASSUME IInv, HandlerInv, AbortPhases \subseteq EarlyAborts, locations = {"sequential"}
    PROVE  ~ PrefillDrops /\ ~ DecodeDrops
<1> SUFFICES ASSUME NEW w \in Workers, at[w] = "cleanup",
                    NEW q \in {"p_waiting", "p_scheduled", "d_waiting", "d_scheduled"}, q \in todo[w]
             PROVE  FALSE
  BY DEF PrefillDrops, DecodeDrops
<1>1. PICK c \in Slots : c = cur[w]
  BY DEF IInv, TypeInv, CurIsSlot
<1>2. owner[c] = w /\ q \in phase[c]
  BY <1>1 DEF IInv, CurOwned, OneRequestPlaces, CleanupInv
<1>3. phase[c] = {"decoding"} \/ phase[c] \cap EarlyAborts # {}
  BY <1>1 DEF HandlerInv, EndingInv
<1>4. "tokenizing" \notin phase[c] /\ "p_waiting" \notin phase[c]
  BY <1>2, <1>3 DEF IInv, ShapeInv, EarlyAborts
<1>5. policy # "parallel"
  BY DEF IInv, PolicyInv
<1>6. "prefilling" \notin phase[c]
  BY <1>2, <1>5 DEF IInv, ShapeInv
<1>7. "decoding" \in phase[c]
  BY <1>3, <1>4, <1>6 DEF EarlyAborts
<1>8. q = "p_scheduled"
  BY <1>2, <1>4, <1>7 DEF IInv, ShapeInv
<1>9. phase[c] # {"p_scheduled"}
  BY <1>7
<1>10. Doing(w, "waking", c)
  BY <1>2, <1>8, <1>9 DEF IInv, ShapeInv
<1> QED BY <1>10 DEF Doing

(* With IInv, HandlerInv is inductive.                                     *)
THEOREM HandlerInvariant ==
    ASSUME OnePolicyEach PROVE Spec => [](IInv /\ HandlerInv)
<1>1. IInv /\ HandlerInv /\ [Next]_vars => (IInv /\ HandlerInv)'
  BY NextInv, HandlerStep
<1>2. Init => IInv /\ HandlerInv
  BY InitInv, InitHandler
<1> QED BY <1>1, <1>2, PTL DEF Spec

(* num_running never falls below the number of requests on the endpoint,   *)
(* so a decrement of the unsigned counter never wraps, whatever phase a    *)
(* request is given up in.                                                 *)
THEOREM LoadNeverWraps ==
    ASSUME OnePolicyEach PROVE Spec => []LoadCoversHolders
<1>1. IInv /\ IInv' /\ HandlerInv /\ LoadCoversHolders /\ [Next]_vars => LoadCoversHolders'
  BY LoadCount DEF LoadCoversHolders
<1>2. Init => LoadCoversHolders
  <2> SUFFICES ASSUME Init PROVE LoadCoversHolders
    OBVIOUS
  <2>1. /\ \A e \in Prefills : pRun[e] \in Int
        /\ \A e \in Decodes : dRun[e] \in Int
    BY InitInv DEF IInv, TypeInv, TypeOK
  <2> QED BY <2>1, InitLoad DEF LoadCoversHolders
<1> QED BY <1>1, <1>2, HandlerInvariant, PTL DEF Spec

(* Where no request is given up between its assignment and its start,      *)
(* num_running is under the sequential policy exactly the number of        *)
(* requests on the endpoint.                                               *)
THEOREM LoadExact ==
    ASSUME OnePolicyEach, AbortPhases \subseteq EarlyAborts PROVE Spec => []LoadIsExact
<1>1. IInv /\ IInv' /\ HandlerInv /\ LoadIsExact /\ [Next]_vars => LoadIsExact'
  <2> SUFFICES ASSUME IInv, IInv', HandlerInv, LoadIsExact, [Next]_vars, locations' = {"sequential"}
               PROVE  /\ \A e \in Prefills : pRun'[e] = Cardinality(PrefillHolders(e)')
                      /\ \A e \in Decodes : dRun'[e] = Cardinality(DecodeHolders(e)')
    BY DEF LoadIsExact
  <2>1. locations = {"sequential"}
    BY LocationsStay
  <2>2. ~ PrefillDrops /\ ~ DecodeDrops
    BY <2>1, NoneDropped
  <2> QED BY <2>1, <2>2, LoadCount DEF LoadIsExact
<1>2. Init => LoadIsExact
  BY InitLoad DEF LoadIsExact
<1> QED BY <1>1, <1>2, HandlerInvariant, PTL DEF Spec

(* req_in_groups, on which an exiting worker decides to stop its timer,    *)
(* counts the requests of the worker that still need the timer.            *)
THEOREM InGroupsExact ==
    ASSUME OnePolicyEach PROVE Spec => []InGroupsCounts
<1>1. IInv /\ IInv' /\ InGroupsCounts /\ [Next]_vars => InGroupsCounts'
  BY InGroupsStep
<1>2. Init => InGroupsCounts
  BY InitHandler
<1> QED BY <1>1, <1>2, InductiveInvariant, PTL DEF Spec

----------------------------------------------------------------------------
(* The lifecycle *)

(* Giving a request up does not depend on whether its owner has noticed    *)
(* what the scheduler did to it.                                           *)
AbortsIgnoreScheduler ==
    /\ "p_waiting" \in AbortPhases => "p_scheduled" \in AbortPhases
    /\ "d_waiting" \in AbortPhases => "d_scheduled" \in AbortPhases

(* A step that leaves phase_state, flags and pool of a request alone       *)
(* leaves its stage alone.                                                 *)
LEMMA LogicalStays ==
    ASSUME NEW s \in Slots, phase'[s] = phase[s], s \in inUse' <=> s \in inUse,
           s \in pSched' <=> s \in pSched, s \in dSched' <=> s \in dSched
    PROVE  Logical(s)' = Logical(s)
<1>1. \A q : GroupOf(s, q)' = GroupOf(s, q)
  BY DEF GroupOf
<1> QED BY <1>1 DEF Logical

(* The stages when the stage of one request changes.                       *)
LEMMA StageMoves ==
    ASSUME NEW c \in Slots, \A s \in Slots \ {c} : Logical(s)' = Logical(s)
    PROVE  [s \in Slots |-> Logical(s)]' = [[s \in Slots |-> Logical(s)] EXCEPT ![c] = Logical(c)']
OBVIOUS

(* The stage, bit by bit.                                                  *)
LEMMA LogicalBits ==
    ASSUME IInv, NEW s \in inUse
    PROVE  /\ Logical(s) \subseteq Phase
           /\ \A q \in {"tokenizing", "prefilling", "decoding"} : q \in Logical(s) <=> q \in phase[s]
           /\ "p_waiting" \in Logical(s) <=> "p_waiting" \in phase[s] /\ s \notin pSched
           /\ "p_scheduled" \in Logical(s) <=>
                \/ "p_scheduled" \in phase[s]
                \/ "p_waiting" \in phase[s] /\ s \in pSched
           /\ "d_waiting" \in Logical(s) <=> "d_waiting" \in phase[s] /\ s \notin dSched
           /\ "d_scheduled" \in Logical(s) <=>
                \/ "d_scheduled" \in phase[s]
                \/ "d_waiting" \in phase[s] /\ s \in dSched
<1>1. s \in Slots /\ phase[s] \subseteq Phase
  BY DEF IInv, TypeInv, TypeOK
<1> QED BY <1>1 DEF Logical, GroupOf, Phase

(* Under one policy of all locations, that policy is known to the          *)
(* scheduler and to the lifecycle alike.                                   *)
LEMMA PolicyIs ==
    ASSUME IInv, HandlerInv
    PROVE  /\ policy = "parallel" => locations = {"parallel"}
           /\ \A s \in Slots : phase[s] # {} /\ policy = "sequential" => locations # {"parallel"}
<1>1. locations # {} /\ locations \subseteq {"sequential", "parallel"}
  BY DeploymentsAssumption DEF IInv, TypeInv, TypeOK
<1> QED BY <1>1 DEF IInv, PolicyInv, HandlerInv, ArrivedPolicyInv

(* Catching up does not change the stage.                                  *)
LEMMA CaughtUpStage ==
    ASSUME NEW s \in Slots
    PROVE  {GroupOf(s, p) : p \in CaughtUp(s)} = {GroupOf(s, p) : p \in phase[s]}
BY DEF CaughtUp, GroupOf

(* Each step of a worker is a step of the lifecycle, or none.              *)
LEMMA LifecycleSteps ==
    ASSUME AbortsIgnoreScheduler, IInv, HandlerInv, NEW w \in Workers, Step(w)
    PROVE  \/ \A s \in Slots : Logical(s)' = Logical(s)
           \/ \E c \in Slots :
                \/ Lifecycle!Admit(c)        \/ Lifecycle!QueuePrefill(c) \/ Lifecycle!AssignPrefill(c)
                \/ Lifecycle!StartPrefill(c) \/ Lifecycle!QueueDecode(c)  \/ Lifecycle!FinishPrefill(c)
                \/ Lifecycle!AssignDecode(c) \/ Lifecycle!StartDecode(c)  \/ Lifecycle!End(c)
<1>1. ASSUME Register(w) PROVE \A s \in Slots : Logical(s)' = Logical(s)
  <2>1. UNCHANGED <<inUse, phase, pSched, dSched>>
    BY <1>1 DEF Register, reqVars
  <2> QED BY <2>1, LogicalStays
<1>2. ASSUME ReqAlloc(w) PROVE \A s \in Slots : Logical(s)' = Logical(s)
  <2>1. PICK c \in Slots \ inUse : /\ inUse' = inUse \cup {c} /\ phase' = [phase EXCEPT ![c] = {}]
                                   /\ pSched' = pSched \ {c} /\ dSched' = dSched \ {c}
    BY <1>2 DEF ReqAlloc
  <2>2. \A s \in Slots \ {c} : Logical(s)' = Logical(s)
    <3>1. \A s \in Slots \ {c} : phase'[s] = phase[s]
      BY <2>1 DEF IInv, TypeInv, TypeOK
    <3> QED BY <2>1, <3>1, LogicalStays
  <2>3. phase'[c] = {}
    BY <2>1 DEF IInv, TypeInv, TypeOK
  <2>4. Logical(c) = {} /\ Logical(c)' = {}
    BY <2>1, <2>3 DEF Logical
  <2> QED BY <2>2, <2>4
<1>3. ASSUME ReqEnter(w) PROVE \E c \in Slots : Lifecycle!Admit(c)
  <2>1. PICK c \in Slots : c = cur[w] /\ phase' = [phase EXCEPT ![c] = @ \cup {"tokenizing"}]
    BY <1>3 DEF ReqEnter, IInv, TypeInv, CurIsSlot
  <2>2. c \in inUse /\ phase[c] = {} /\ inUse' = inUse
    BY <1>3, <2>1 DEF ReqEnter, IInv, CurOwned, OneRequestPlaces, EnteringInv
  <2>3. phase'[c] = {"tokenizing"}
    BY <2>1, <2>2 DEF IInv, TypeInv, TypeOK
  <2>7. \A s \in Slots \ {c} : Logical(s)' = Logical(s)
    <3>1. \A s \in Slots \ {c} : /\ phase'[s] = phase[s] /\ (s \in inUse' <=> s \in inUse)
                               /\ (s \in pSched' <=> s \in pSched) /\ (s \in dSched' <=> s \in dSched)
      BY <1>3, <2>1 DEF ReqEnter, TransitionAll, IInv, TypeInv, TypeOK
    <3> QED BY <3>1, LogicalStays
  <2>8. Logical(c) = {}
    BY <2>2 DEF Logical
  <2>9. Logical(c)' = {"tokenizing"}
    BY <2>2, <2>3 DEF Logical, GroupOf
  <2> QED BY <2>1, <2>7, <2>8, <2>9, StageMoves
         DEF Lifecycle!Admit
<1>4. ASSUME QueuePrefill(w) PROVE \E c \in Slots : Lifecycle!QueuePrefill(c)
  <2>1. PICK c \in Slots : c = cur[w] /\ TransitionAll(w, c, "tokenizing", "p_waiting")
    BY <1>4 DEF QueuePrefill, IInv, TypeInv, CurIsSlot
  <2>2. c \in inUse /\ phase[c] = {"tokenizing"} /\ UNCHANGED <<inUse, pSched>>
    BY <1>4, <2>1, LocalEntry DEF QueuePrefill, TransitionAll, IInv, ShapeInv, Phase
  <2>3. phase'[c] = {"p_waiting"} /\ c \notin pSched
    BY <2>1, <2>2 DEF TransitionAll, IInv, TypeInv, TypeOK, FlagInv
  <2>7. \A s \in Slots \ {c} : Logical(s)' = Logical(s)
    <3>1. \A s \in Slots \ {c} : /\ phase'[s] = phase[s] /\ (s \in inUse' <=> s \in inUse)
                               /\ (s \in pSched' <=> s \in pSched) /\ (s \in dSched' <=> s \in dSched)
      BY <1>4, <2>1 DEF QueuePrefill, TransitionAll, IInv, TypeInv, TypeOK
    <3> QED BY <3>1, LogicalStays
  <2>8. Logical(c) = {"tokenizing"}
    BY <2>2 DEF Logical, GroupOf
  <2>9. Logical(c)' = {"p_waiting"}
    BY <2>2, <2>3 DEF Logical, GroupOf
  <2> QED BY <2>1, <2>7, <2>8, <2>9, StageMoves
         DEF Lifecycle!QueuePrefill, Lifecycle!Become
<1>5. ASSUME TickSchedule(w) PROVE \A s \in Slots : Logical(s)' = Logical(s)
  <2>1. UNCHANGED <<inUse, phase, pSched, dSched>>
    BY <1>5 DEF TickSchedule, reqVars
  <2> QED BY <2>1, LogicalStays
<1>6. ASSUME SchedulePrefill(w) PROVE \E c \in Slots : Lifecycle!AssignPrefill(c)
  <2>1. PICK c \in Slots : c \in visit[w] /\ pSched' = pSched \cup {c}
    BY <1>6 DEF SchedulePrefill, IInv, TypeInv, TypeOK
  <2>2. c \in inUse /\ c \notin pSched /\ phase[c] = {"p_waiting"} /\ UNCHANGED <<inUse, phase>>
    BY <1>6, <2>1, WaitsForPrefill DEF SchedulePrefill, IInv, VisitInv
  <2>7. \A s \in Slots \ {c} : Logical(s)' = Logical(s)
    <3>1. \A s \in Slots \ {c} : /\ phase'[s] = phase[s] /\ (s \in inUse' <=> s \in inUse)
                               /\ (s \in pSched' <=> s \in pSched) /\ (s \in dSched' <=> s \in dSched)
      BY <1>6, <2>1 DEF SchedulePrefill, TransitionAll, IInv, TypeInv, TypeOK
    <3> QED BY <3>1, LogicalStays
  <2>8. Logical(c) = {"p_waiting"}
    BY <2>2 DEF Logical, GroupOf
  <2>9. Logical(c)' = {"p_scheduled"}
    BY <2>1, <2>2 DEF Logical, GroupOf
  <2> QED BY <2>1, <2>7, <2>8, <2>9, StageMoves
         DEF Lifecycle!AssignPrefill, Lifecycle!Become
<1>7. ASSUME SchedulePrefillDone(w) PROVE \A s \in Slots : Logical(s)' = Logical(s)
  <2>1. UNCHANGED <<inUse, phase, pSched, dSched>>
    BY <1>7 DEF SchedulePrefillDone, reqVars
  <2> QED BY <2>1, LogicalStays
<1>8. ASSUME ScheduleDecode(w) PROVE \E c \in Slots : Lifecycle!AssignDecode(c)
  <2>1. PICK c \in Slots : c \in visit[w] /\ dSched' = dSched \cup {c}
    BY <1>8 DEF ScheduleDecode, IInv, TypeInv, TypeOK
  <2>2. c \in inUse /\ c \notin dSched /\ "d_waiting" \in phase[c] /\ UNCHANGED <<inUse, phase, pSched>>
    BY <1>8, <2>1, WaitsForDecode DEF ScheduleDecode, IInv, VisitInv
  <2>7. \A s \in Slots \ {c} : Logical(s)' = Logical(s)
    <3>1. \A s \in Slots \ {c} : /\ phase'[s] = phase[s] /\ (s \in inUse' <=> s \in inUse)
                               /\ (s \in pSched' <=> s \in pSched) /\ (s \in dSched' <=> s \in dSched)
      BY <1>8, <2>1 DEF ScheduleDecode, TransitionAll, IInv, TypeInv, TypeOK
    <3> QED BY <3>1, LogicalStays
  <2>8. "d_waiting" \in Logical(c)
    BY <2>2, LogicalBits
  <2>9. Logical(c)' = (Logical(c) \ {"d_waiting"}) \cup {"d_scheduled"}
    <3>1. \A q : q # "d_waiting" => GroupOf(c, q)' = GroupOf(c, q) /\ GroupOf(c, q) # "d_waiting"
      BY <2>2 DEF GroupOf
    <3>2. GroupOf(c, "d_waiting") = "d_waiting" /\ GroupOf(c, "d_waiting")' = "d_scheduled"
      BY <2>1, <2>2 DEF GroupOf
    <3> QED BY <2>2, <3>1, <3>2 DEF Logical
  <2> QED BY <2>1, <2>7, <2>8, <2>9, StageMoves
         DEF Lifecycle!AssignDecode, Lifecycle!Become
<1>9. ASSUME ScheduleDecodeDone(w) PROVE \A s \in Slots : Logical(s)' = Logical(s)
  <2>1. UNCHANGED <<inUse, phase, pSched, dSched>>
    BY <1>9 DEF ScheduleDecodeDone, reqVars
  <2> QED BY <2>1, LogicalStays
<1>10. ASSUME UpdateLocal(w) PROVE \A s \in Slots : Logical(s)' = Logical(s)
  <2> SUFFICES ASSUME NEW s \in Slots PROVE Logical(s)' = Logical(s)
    OBVIOUS
  <2>1. phase'[s] = phase[s] \/ phase'[s] = CaughtUp(s)
    BY <1>10 DEF UpdateLocal
  <2>2. UNCHANGED <<inUse, pSched, dSched>>
    BY <1>10 DEF UpdateLocal
  <2>3. \A q : GroupOf(s, q)' = GroupOf(s, q)
    BY <2>2 DEF GroupOf
  <2> QED BY <2>1, <2>2, <2>3, CaughtUpStage DEF Logical
<1>11. ASSUME WakePrefillParallel(w) PROVE \E c \in Slots : Lifecycle!QueueDecode(c)
  <2>1. PICK c \in Slots : c \in visit[w] /\ phase' = [phase EXCEPT ![c] = @ \cup {"d_waiting"}]
    BY <1>11 DEF WakePrefillParallel, IInv, TypeInv, TypeOK
  <2>2. c \in inUse /\ owner[c] = w /\ "p_scheduled" \in phase[c] /\ UNCHANGED <<inUse, pSched, dSched>>
    BY <1>11, <2>1, LocalEntry DEF WakePrefillParallel, IInv, VisitInv, Phase
  <2>3. phase[c] = {"p_scheduled"}
    BY <1>11, <2>2 DEF WakePrefillParallel, IInv, ShapeInv, Doing
  <2>4. phase'[c] = {"p_scheduled", "d_waiting"} /\ c \notin dSched
    BY <2>1, <2>3 DEF IInv, TypeInv, TypeOK, FlagInv
  <2>5. locations = {"parallel"}
    BY <1>11, PolicyIs DEF WakePrefillParallel
  <2>7. \A s \in Slots \ {c} : Logical(s)' = Logical(s)
    <3>1. \A s \in Slots \ {c} : /\ phase'[s] = phase[s] /\ (s \in inUse' <=> s \in inUse)
                               /\ (s \in pSched' <=> s \in pSched) /\ (s \in dSched' <=> s \in dSched)
      BY <1>11, <2>1 DEF WakePrefillParallel, TransitionAll, IInv, TypeInv, TypeOK
    <3> QED BY <3>1, LogicalStays
  <2>8. Logical(c) = {"p_scheduled"}
    BY <2>2, <2>3 DEF Logical, GroupOf
  <2>9. Logical(c)' = {"p_scheduled", "d_waiting"}
    BY <2>2, <2>4 DEF Logical, GroupOf
  <2> QED BY <2>1, <2>7, <2>8, <2>9, StageMoves, <2>5
         DEF Lifecycle!QueueDecode
<1>12. ASSUME WakePrefillSequential(w) PROVE \E c \in Slots : Lifecycle!StartPrefill(c)
  <2>1. PICK c \in Slots : c \in visit[w] /\ TransitionAll(w, c, "p_scheduled", "prefilling")
    BY <1>12 DEF WakePrefillSequential, IInv, TypeInv, TypeOK
  <2>2. c \in inUse /\ owner[c] = w /\ "p_scheduled" \in phase[c] /\ UNCHANGED <<inUse, pSched, dSched>>
    BY <1>12, <2>1, LocalEntry DEF WakePrefillSequential, IInv, VisitInv, Phase
  <2>3. phase[c] = {"p_scheduled"}
    BY <1>12, <2>2 DEF WakePrefillSequential, IInv, ShapeInv, Doing
  <2>4. phase'[c] = {"prefilling"}
    BY <2>1, <2>3 DEF TransitionAll, IInv, TypeInv, TypeOK
  <2>5. locations # {"parallel"}
    BY <1>12, <2>3, PolicyIs DEF WakePrefillSequential
  <2>7. \A s \in Slots \ {c} : Logical(s)' = Logical(s)
    <3>1. \A s \in Slots \ {c} : /\ phase'[s] = phase[s] /\ (s \in inUse' <=> s \in inUse)
                               /\ (s \in pSched' <=> s \in pSched) /\ (s \in dSched' <=> s \in dSched)
      BY <1>12, <2>1 DEF WakePrefillSequential, TransitionAll, IInv, TypeInv, TypeOK
    <3> QED BY <3>1, LogicalStays
  <2>8. Logical(c) = {"p_scheduled"}
    BY <2>2, <2>3 DEF Logical, GroupOf
  <2>9. Logical(c)' = {"prefilling"}
    BY <2>2, <2>4 DEF Logical, GroupOf
  <2> QED BY <2>1, <2>7, <2>8, <2>9, StageMoves, <2>5
         DEF Lifecycle!StartPrefill, Lifecycle!Become
<1>13. ASSUME WakePrefillStart(w) PROVE \E c \in Slots : Lifecycle!StartPrefill(c)
  <2>1. PICK c \in Slots : c = cur[w] /\ TransitionAll(w, c, "p_scheduled", "prefilling")
    BY <1>13 DEF WakePrefillStart, IInv, TypeInv, CurIsSlot
  <2>2. /\ c \in inUse /\ phase[c] = {"p_scheduled", "d_waiting"} /\ UNCHANGED <<inUse, pSched, dSched>>
    BY <1>13, <2>1 DEF WakePrefillStart, IInv, CurOwned, OneRequestPlaces, WakingInv
  <2>3. phase'[c] = {"prefilling", "d_waiting"}
    BY <2>1, <2>2 DEF TransitionAll, IInv, TypeInv, TypeOK
  <2>4. GroupOf(c, "d_waiting") \in {"d_waiting", "d_scheduled"} /\ GroupOf(c, "d_waiting")' = GroupOf(c, "d_waiting")
    BY <2>2 DEF GroupOf
  <2>7. \A s \in Slots \ {c} : Logical(s)' = Logical(s)
    <3>1. \A s \in Slots \ {c} : /\ phase'[s] = phase[s] /\ (s \in inUse' <=> s \in inUse)
                               /\ (s \in pSched' <=> s \in pSched) /\ (s \in dSched' <=> s \in dSched)
      BY <1>13, <2>1 DEF WakePrefillStart, TransitionAll, IInv, TypeInv, TypeOK
    <3> QED BY <3>1, LogicalStays
  <2>8. Logical(c) = {"p_scheduled", GroupOf(c, "d_waiting")}
    <3>1. GroupOf(c, "p_scheduled") = "p_scheduled"
      BY DEF GroupOf
    <3> QED BY <2>2, <3>1 DEF Logical
  <2>9. Logical(c)' = {"prefilling", GroupOf(c, "d_waiting")}
    <3>1. GroupOf(c, "prefilling")' = "prefilling"
      BY DEF GroupOf
    <3> QED BY <2>2, <2>3, <2>4, <3>1 DEF Logical
  <2>10. /\ "p_scheduled" \in Logical(c) /\ Logical(c) # {"p_scheduled"}
         /\ Logical(c)' = (Logical(c) \ {"p_scheduled"}) \cup {"prefilling"}
    BY <2>4, <2>8, <2>9
  <2> QED BY <2>1, <2>7, <2>10, StageMoves
         DEF Lifecycle!StartPrefill, Lifecycle!Become
<1>14. ASSUME RunPrefillDone(w) PROVE \A s \in Slots : Logical(s)' = Logical(s)
  <2>1. UNCHANGED <<inUse, phase, pSched, dSched>>
    BY <1>14 DEF RunPrefillDone, reqVars
  <2> QED BY <2>1, LogicalStays
<1>15. ASSUME WakeDecode(w) PROVE \E c \in Slots : Lifecycle!StartDecode(c)
  <2>1. PICK c \in Slots : c \in visit[w] /\ TransitionAll(w, c, "d_scheduled", "decoding")
    BY <1>15 DEF WakeDecode, IInv, TypeInv, TypeOK
  <2>2. c \in inUse /\ owner[c] = w /\ "d_scheduled" \in phase[c] /\ UNCHANGED <<inUse, pSched, dSched>>
    BY <1>15, <2>1, LocalEntry DEF WakeDecode, TransitionAll, Phase
  <2>3. "p_waiting" \notin phase[c] /\ "d_waiting" \notin phase[c]
    BY <2>2 DEF IInv, ShapeInv
  <2>4. "p_scheduled" \notin phase[c]
    <3>1. phase[c] # {"p_scheduled"} /\ ~ Doing(w, "waking", c)
      BY <1>15, <2>2 DEF WakeDecode, Doing
    <3> QED BY <2>2, <3>1 DEF IInv, ShapeInv
  <2>5. phase'[c] = (phase[c] \ {"d_scheduled"}) \cup {"decoding"}
    BY <2>1 DEF TransitionAll, IInv, TypeInv, TypeOK
  <2>7. \A s \in Slots \ {c} : Logical(s)' = Logical(s)
    <3>1. \A s \in Slots \ {c} : /\ phase'[s] = phase[s] /\ (s \in inUse' <=> s \in inUse)
                               /\ (s \in pSched' <=> s \in pSched) /\ (s \in dSched' <=> s \in dSched)
      BY <1>15, <2>1 DEF WakeDecode, TransitionAll, IInv, TypeInv, TypeOK
    <3> QED BY <3>1, LogicalStays
  <2>8. "d_scheduled" \in Logical(c) /\ "p_scheduled" \notin Logical(c)
    BY <2>2, <2>3, <2>4, LogicalBits
  <2>9. Logical(c)' = (Logical(c) \ {"d_scheduled"}) \cup {"decoding"}
    <3>1. \A q \in phase[c] : GroupOf(c, q)' = q /\ GroupOf(c, q) = q
      BY <2>2, <2>3 DEF GroupOf
    <3>2. GroupOf(c, "decoding")' = "decoding"
      BY DEF GroupOf
    <3> QED BY <2>2, <2>5, <3>1, <3>2 DEF Logical
  <2> QED BY <2>1, <2>7, <2>8, <2>9, StageMoves
         DEF Lifecycle!StartDecode, Lifecycle!Become
<1>16. ASSUME RunDecodeDone(w) PROVE \A s \in Slots : Logical(s)' = Logical(s)
  <2>1. UNCHANGED <<inUse, phase, pSched, dSched>>
    BY <1>16 DEF RunDecodeDone, reqVars
  <2> QED BY <2>1, LogicalStays
<1>17. ASSUME PrefillAdvanceSequential(w) PROVE \E c \in Slots : Lifecycle!FinishPrefill(c)
  <2>1. PICK c \in Slots : c = cur[w] /\ TransitionAll(w, c, "prefilling", "d_waiting")
    BY <1>17 DEF PrefillAdvanceSequential, IInv, TypeInv, CurIsSlot
  <2>2. c \in inUse /\ "prefilling" \in phase[c] /\ UNCHANGED <<inUse, pSched, dSched>>
    BY <1>17, <2>1 DEF PrefillAdvanceSequential, IInv, CurOwned, OneRequestPlaces, HandlerInv, ReleasedInv
  <2>3. phase[c] = {"prefilling"}
    BY <1>17, <2>2 DEF PrefillAdvanceSequential, IInv, ShapeInv
  <2>4. phase'[c] = {"d_waiting"} /\ c \notin dSched
    BY <2>1, <2>3 DEF TransitionAll, IInv, TypeInv, TypeOK, FlagInv
  <2>5. locations # {"parallel"}
    BY <1>17, <2>3, PolicyIs DEF PrefillAdvanceSequential
  <2>7. \A s \in Slots \ {c} : Logical(s)' = Logical(s)
    <3>1. \A s \in Slots \ {c} : /\ phase'[s] = phase[s] /\ (s \in inUse' <=> s \in inUse)
                               /\ (s \in pSched' <=> s \in pSched) /\ (s \in dSched' <=> s \in dSched)
      BY <1>17, <2>1 DEF PrefillAdvanceSequential, TransitionAll, IInv, TypeInv, TypeOK
    <3> QED BY <3>1, LogicalStays
  <2>8. Logical(c) = {"prefilling"}
    BY <2>2, <2>3 DEF Logical, GroupOf
  <2>9. Logical(c)' = {"d_waiting"}
    BY <2>2, <2>4 DEF Logical, GroupOf
  <2> QED BY <2>1, <2>7, <2>8, <2>9, StageMoves, <2>5
         DEF Lifecycle!FinishPrefill, Lifecycle!Become
<1>18. ASSUME PrefillAdvanceParallel(w) PROVE \E c \in Slots : Lifecycle!FinishPrefill(c)
  <2>1. PICK c \in Slots : c = cur[w] /\ phase' = [phase EXCEPT ![c] = @ \ {"prefilling"}]
    BY <1>18 DEF PrefillAdvanceParallel, IInv, TypeInv, CurIsSlot
  <2>2. c \in inUse /\ "prefilling" \in phase[c] /\ UNCHANGED <<inUse, pSched, dSched>>
    BY <1>18, <2>1 DEF PrefillAdvanceParallel, IInv, CurOwned, OneRequestPlaces, HandlerInv, ReleasedInv
  <2>3. phase'[c] = phase[c] \ {"prefilling"}
    BY <2>1 DEF IInv, TypeInv, TypeOK
  <2>4. locations = {"parallel"}
    BY <1>18, PolicyIs DEF PrefillAdvanceParallel
  <2>5. phase[c] \cap DecodePhases # {}
    BY <2>2, <2>4 DEF HandlerInv, ArrivedPolicyInv
  <2>7. \A s \in Slots \ {c} : Logical(s)' = Logical(s)
    <3>1. \A s \in Slots \ {c} : /\ phase'[s] = phase[s] /\ (s \in inUse' <=> s \in inUse)
                               /\ (s \in pSched' <=> s \in pSched) /\ (s \in dSched' <=> s \in dSched)
      BY <1>18, <2>1 DEF PrefillAdvanceParallel, TransitionAll, IInv, TypeInv, TypeOK
    <3> QED BY <3>1, LogicalStays
  <2>8. "prefilling" \in Logical(c) /\ Logical(c) # {"prefilling"}
    BY <2>2, <2>5, LogicalBits DEF DecodePhases
  <2>9. Logical(c)' = Logical(c) \ {"prefilling"}
    <3>1. \A q : GroupOf(c, q)' = GroupOf(c, q) /\ (GroupOf(c, q) = "prefilling" <=> q = "prefilling")
      BY <2>2 DEF GroupOf
    <3> QED BY <2>2, <2>3, <3>1 DEF Logical
  <2> QED BY <2>1, <2>7, <2>8, <2>9, StageMoves, <2>4
         DEF Lifecycle!FinishPrefill
<1>19. ASSUME CleanupPhase(w) PROVE \A s \in Slots : Logical(s)' = Logical(s)
  <2>1. UNCHANGED <<inUse, phase, pSched, dSched>>
    BY <1>19 DEF CleanupPhase, reqVars
  <2> QED BY <2>1, LogicalStays
<1>20. ASSUME ReqFree(w) PROVE \E c \in Slots : Lifecycle!End(c)
  <2>1. PICK c \in Slots : c = cur[w] /\ inUse' = inUse \ {c}
    BY <1>20 DEF ReqFree, IInv, TypeInv, CurIsSlot
  <2>2. c \in inUse /\ (phase[c] = {"decoding"} \/ phase[c] \cap AbortPhases # {})
    BY <1>20, <2>1 DEF ReqFree, IInv, CurOwned, OneRequestPlaces, HandlerInv, EndingInv
  <2>7. \A s \in Slots \ {c} : Logical(s)' = Logical(s)
    <3>1. \A s \in Slots \ {c} : /\ phase'[s] = phase[s] /\ (s \in inUse' <=> s \in inUse)
                               /\ (s \in pSched' <=> s \in pSched) /\ (s \in dSched' <=> s \in dSched)
      BY <1>20, <2>1 DEF ReqFree, TransitionAll, IInv, TypeInv, TypeOK
    <3> QED BY <3>1, LogicalStays
  <2>8. Logical(c) = {"decoding"} \/ Logical(c) \cap AbortPhases # {}
    <3>1. CASE phase[c] = {"decoding"}
      BY <2>2, <3>1 DEF Logical, GroupOf
    <3>2. ASSUME NEW p \in phase[c], p \in AbortPhases PROVE Logical(c) \cap AbortPhases # {}
      BY <2>2, <3>2 DEF Logical, GroupOf, AbortsIgnoreScheduler
    <3> QED BY <2>2, <3>1, <3>2
  <2>9. Logical(c)' = {}
    BY <2>1 DEF Logical
  <2> QED BY <2>1, <2>7, <2>8, <2>9, StageMoves
         DEF Lifecycle!End
<1>21. ASSUME NEW x \in Slots, PostTokenized(w, x) PROVE \A s \in Slots : Logical(s)' = Logical(s)
  <2>1. UNCHANGED <<inUse, phase, pSched, dSched>>
    BY <1>21 DEF PostTokenized, reqVars
  <2> QED BY <2>1, LogicalStays
<1>22. ASSUME NEW x \in Slots, PrefillRelease(w, x) PROVE \A s \in Slots : Logical(s)' = Logical(s)
  <2>1. UNCHANGED <<inUse, phase, pSched, dSched>>
    BY <1>22 DEF PrefillRelease, reqVars
  <2> QED BY <2>1, LogicalStays
<1>23. ASSUME NEW x \in Slots, DecodeEnd(w, x) PROVE \A s \in Slots : Logical(s)' = Logical(s)
  <2>1. UNCHANGED <<inUse, phase, pSched, dSched>>
    BY <1>23 DEF DecodeEnd, BeginCleanup, reqVars
  <2> QED BY <2>1, LogicalStays
<1>24. ASSUME NEW x \in Slots, RequestAborts(w, x) PROVE \A s \in Slots : Logical(s)' = Logical(s)
  <2>1. UNCHANGED <<inUse, phase, pSched, dSched>>
    BY <1>24 DEF RequestAborts, BeginCleanup, reqVars
  <2> QED BY <2>1, LogicalStays
<1> QED BY <1>1, <1>2, <1>3, <1>4, <1>5, <1>6, <1>7, <1>8, <1>9, <1>10, <1>11, <1>12,
    <1>13, <1>14, <1>15, <1>16, <1>17, <1>18, <1>19, <1>20, <1>21, <1>22, <1>23, <1>24
        DEF Step, Tick, Continue, Answers, Answer

(* Three copies of the stage of a request, kept by two processes that      *)
(* catch up with each other when their timers fire, behave like one.       *)
THEOREM LifecycleRefinement ==
    ASSUME OnePolicyEach, AbortsIgnoreScheduler PROVE Spec => ImplementsLifecycle
<1>1. Init => Lifecycle!Init
  BY DEF Init, Lifecycle!Init, Logical
<1>2. ASSUME IInv, HandlerInv, [Next]_vars
      PROVE  [Lifecycle!Next]_<<[s \in Slots |-> Logical(s)], locations = {"parallel"}>>
  <2>1. locations' = locations
    BY <1>2, LocationsStay
  <2>2. CASE UNCHANGED vars
    <3>1. \A s \in Slots : Logical(s)' = Logical(s)
      <4>1. UNCHANGED <<inUse, phase, pSched, dSched>>
        BY <2>2 DEF vars, reqVars
      <4> QED BY <4>1, LogicalStays
    <3> QED BY <2>1, <3>1
  <2>3. ASSUME NEW w \in Workers, Step(w)
        PROVE  [Lifecycle!Next]_<<[s \in Slots |-> Logical(s)], locations = {"parallel"}>>
    <3>1. CASE \A s \in Slots : Logical(s)' = Logical(s)
      BY <2>1, <3>1
    <3>2. CASE \E c \in Slots :
                \/ Lifecycle!Admit(c)        \/ Lifecycle!QueuePrefill(c) \/ Lifecycle!AssignPrefill(c)
                \/ Lifecycle!StartPrefill(c) \/ Lifecycle!QueueDecode(c)  \/ Lifecycle!FinishPrefill(c)
                \/ Lifecycle!AssignDecode(c) \/ Lifecycle!StartDecode(c)  \/ Lifecycle!End(c)
      BY <2>1, <3>2 DEF Lifecycle!Next
    <3> QED BY <1>2, <2>3, <3>1, <3>2, LifecycleSteps
  <2> QED BY <1>2, <2>2, <2>3 DEF Next
<1> QED BY <1>1, <1>2, HandlerInvariant, PTL DEF Spec, ImplementsLifecycle, Lifecycle!Spec
=============================================================================
