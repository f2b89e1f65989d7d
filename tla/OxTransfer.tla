----------------------------- MODULE OxTransfer ------------------------------
(* The OmniCache connector: D asks a local OX server to fetch the blocks of a *)
(* request from P's host memory into D's, then copies them to the device.  On *)
(* D the work passes through three threads: the executor's, one that talks to *)
(* the server, and one that copies.  Names are those of                       *)
(* omni_cache_connector_v1.py.                                                *)
EXTENDS Naturals, Sequences, SequencesExt, FiniteSets

CONSTANTS Requests,
          Cap,        \* length of _h2d_q
          Setups      \* the ways D may be started

(* Of a setup: D has several data-parallel ranks; sends, fetches and copies   *)
(* may fail.                                                                  *)
ASSUME OxTransferAssumption ==
    /\ IsFiniteSet(Requests)
    /\ Cap \in Nat \ {0}
    /\ Setups \subseteq [manyRanks : BOOLEAN, mayFail : BOOLEAN]

VARIABLES
    setup,      \* the setup of D
    pPhase,     \* what P does with r: "prefill", "held" or "free"
    inbox,      \* ids on their way to P
    pTimes,     \* requests_finish_time of P's worker
    old,        \* requests past BLOCK_RELEASE_DELAY
    dPhase,     \* what D does with r
    processed,  \* requests D has scheduled (their kv_transfer_params are None)
    exec,       \* tasks of the executor
    pending,    \* _pending
    sendQ,      \* _send_q
    wire,       \* requests the OX server works on
    resp,       \* its answers on their way: <<request, success>>
    h2dQ,       \* _h2d_q
    copier,     \* H2D-Worker: <<>>, <<r, "wait">> or <<r, "copy">>
    io,         \* ZMQ-Recv-Thread: "dead", <<>>, <<r, "wait">> or <<r, "copy">>
    recving     \* _recving_transfers

pvars == <<pPhase, pTimes, old>>
dvars == <<dPhase, processed>>
vars  == <<setup, pvars, inbox, dvars, exec, pending, sendQ, wire, resp, h2dQ, copier,
           io, recving>>

Dead == <<"dead">>
Idle == <<>>
Busy == Requests \X {"wait", "copy"}

TypeOK ==
    /\ setup \in Setups
    /\ pPhase \in [Requests -> {"prefill", "held", "free"}]
    /\ dPhase \in [Requests -> {"idle", "waiting", "loading", "ready", "over"}]
    /\ \A S \in {inbox, pTimes, old, processed, pending, wire, recving} :
          S \subseteq Requests
    /\ resp \subseteq Requests \X BOOLEAN
    /\ \A q \in {exec, sendQ, h2dQ} : q \in Seq(Requests)
    /\ Len(h2dQ) <= Cap
    /\ copier \in {Idle} \cup Busy
    /\ io \in {Dead, Idle} \cup Busy

(* The threads start with the first request (_ensure_resp_thread_started).    *)
Init ==
    /\ setup \in Setups
    /\ pPhase = [r \in Requests |-> "prefill"]
    /\ dPhase = [r \in Requests |-> "idle"]
    /\ inbox = {} /\ pTimes = {} /\ old = {} /\ processed = {} /\ pending = {}
    /\ wire = {} /\ resp = {} /\ recving = {}
    /\ exec = <<>> /\ sendQ = <<>> /\ h2dQ = <<>>
    /\ copier = Idle /\ io = Dead

(* The requests of which something is left to do between start_load_kv and    *)
(* the end of _post_success.                                                  *)
Fetching == ToSet(exec) \cup ToSet(sendQ) \cup wire
UnderWay ==
    Fetching \cup {a[1] : a \in resp} \cup ToSet(h2dQ)
      \cup {t[1] : t \in {copier, io} \ {Idle, Dead}}

----------------------------------------------------------------------------
(* The prefill engine *)

(* request_finished: the blocks stay, and the finish time goes to the worker. *)
FinishPrefill(r) ==
    /\ pPhase[r] = "prefill"
    /\ pPhase' = [pPhase EXCEPT ![r] = "held"]
    /\ pTimes' = pTimes \cup {r}
    /\ UNCHANGED <<setup, old, inbox, dvars, exec, pending, sendQ, wire, resp, h2dQ,
                   copier, io, recving>>

WrongDone    == pTimes \cup inbox  \* does not look at the times
NeverExpires == inbox

(* get_finished scans the whole dict, and takes the ids that were received.   *)
Done == (pTimes \cap old) \cup inbox

PStep ==
    /\ Done # {}
    /\ pPhase' = [r \in Requests |-> IF r \in Done THEN "free" ELSE pPhase[r]]
    /\ pTimes' = pTimes \ Done
    /\ inbox' = {}
    /\ UNCHANGED <<setup, old, dvars, exec, pending, sendQ, wire, resp, h2dQ, copier, io,
                   recving>>

(* BLOCK_RELEASE_DELAY outlasts every fetch.                                  *)
TimePasses(r) ==
    /\ r \in pTimes \ old
    /\ r \notin Fetching
    /\ dPhase[r] \in {"ready", "over"} \/ r \in processed
    /\ old' = old \cup {r}
    /\ UNCHANGED <<setup, pPhase, pTimes, inbox, dvars, exec, pending, sendQ, wire, resp,
                   h2dQ, copier, io, recving>>

----------------------------------------------------------------------------
(* The decode engine *)

(* The proxy forwards r, or the client has left.                              *)
Arrive(r) ==
    /\ pPhase[r] # "prefill" /\ dPhase[r] = "idle"
    /\ \E ph \in {"waiting", "over"} : dPhase' = [dPhase EXCEPT ![r] = ph]
    /\ UNCHANGED <<setup, pvars, inbox, processed, exec, pending, sendQ, wire, resp, h2dQ,
                   copier, io, recving>>

(* Slots are allocated; the metadata reaches start_load_kv.                   *)
StartLoad(r) ==
    /\ dPhase[r] = "waiting" /\ r \notin processed
    /\ dPhase' = [dPhase EXCEPT ![r] = "loading"]
    /\ processed' = processed \cup {r}
    /\ exec' = Append(exec, r)
    /\ UNCHANGED <<setup, pvars, inbox, pending, sendQ, wire, resp, h2dQ, copier, io,
                   recving>>

EndRequest(r) ==
    /\ dPhase[r] \in {"waiting", "loading", "ready"}
    /\ dPhase' = [dPhase EXCEPT ![r] = "over"]
    /\ UNCHANGED <<setup, pvars, inbox, processed, exec, pending, sendQ, wire, resp, h2dQ,
                   copier, io, recving>>

(* _read_blocks; it starts the thread again if it has ended.                  *)
ReadBlocks ==
    /\ exec # <<>>
    /\ exec' = Tail(exec)
    /\ io' = IF io = Dead THEN Idle ELSE io
    /\ pending' = pending \cup {Head(exec)}
    /\ sendQ' = Append(sendQ, Head(exec))
    /\ UNCHANGED <<setup, pvars, inbox, dvars, wire, resp, h2dQ, copier, recving>>

(* Asks the server, but forgets the request before it answers.                *)
WrongSend ==
    /\ io = Idle /\ sendQ # <<>>
    /\ sendQ' = Tail(sendQ)
    /\ wire' = wire \cup {Head(sendQ)}
    /\ pending' = pending \ {Head(sendQ)}
    /\ UNCHANGED <<setup, pvars, inbox, dvars, exec, resp, h2dQ, copier, io, recving>>

(* The inner loop of _get_zmq_response.                                       *)
Send ==
    /\ io = Idle /\ sendQ # <<>>
    /\ sendQ' = Tail(sendQ)
    /\ \/ /\ wire' = wire \cup {Head(sendQ)}
          /\ UNCHANGED pending
       \/ /\ setup.mayFail
          /\ pending' = pending \ {Head(sendQ)}
          /\ UNCHANGED wire
    /\ UNCHANGED <<setup, pvars, inbox, dvars, exec, resp, h2dQ, copier, io, recving>>

(* The OX server has copied the blocks from P, or has failed to.              *)
Answer(r) ==
    /\ r \in wire
    /\ wire' = wire \ {r}
    /\ \E success \in BOOLEAN :
          /\ ~success => setup.mayFail
          /\ resp' = resp \cup {<<r, success>>}
    /\ UNCHANGED <<setup, pvars, inbox, dvars, exec, pending, sendQ, h2dQ, copier, io,
                   recving>>

(* Takes no notice of a full queue.                                           *)
WrongReceive(a) ==
    /\ io = Idle /\ sendQ = <<>> /\ a \in resp
    /\ resp' = resp \ {a}
    /\ h2dQ' = Append(h2dQ, a[1])
    /\ UNCHANGED <<setup, pvars, inbox, dvars, exec, pending, sendQ, wire, io, copier,
                   recving>>

(* The outer loop takes an answer when there is nothing to send.  What is not *)
(* pending is dropped, what failed is forgotten, the rest goes to the copier, *)
(* or is copied here when its queue stays full for a second.                  *)
Receive(a) ==
    /\ io = Idle /\ sendQ = <<>> /\ a \in resp
    /\ resp' = resp \ {a}
    /\ IF a[1] \in pending /\ a[2]
       THEN /\ UNCHANGED pending
            /\ IF Len(h2dQ) < Cap THEN h2dQ' = Append(h2dQ, a[1]) /\ UNCHANGED io
               ELSE io' = <<a[1], "wait">> /\ UNCHANGED h2dQ
       ELSE /\ pending' = pending \ {a[1]}
            /\ UNCHANGED <<h2dQ, io>>
    /\ UNCHANGED <<setup, pvars, inbox, dvars, exec, sendQ, wire, copier, recving>>

(* Tells D's engine before the copy.                                          *)
WrongCopierTakes ==
    /\ copier = Idle /\ h2dQ # <<>>
    /\ copier' = <<Head(h2dQ), "wait">>
    /\ recving' = recving \cup {Head(h2dQ)}
    /\ h2dQ' = Tail(h2dQ)
    /\ UNCHANGED <<setup, pvars, inbox, dvars, exec, pending, sendQ, wire, resp, io>>

H2DTake ==
    /\ copier = Idle /\ h2dQ # <<>>
    /\ copier' = <<Head(h2dQ), "wait">>
    /\ h2dQ' = Tail(h2dQ)
    /\ UNCHANGED <<setup, pvars, inbox, dvars, exec, pending, sendQ, wire, resp, io, recving>>

(* _post_success of the thread's request after _h2d_wait: the copy, the       *)
(* message to P, and the report.                                              *)
PostSuccess(t) ==
    /\ inbox' = inbox \cup {t[1]}
    /\ recving' = recving \cup {t[1]}

(* _h2d_worker: an exception is logged, and the request forgotten.            *)
H2DCopy ==
    /\ copier # Idle /\ copier[2] = "copy"
    /\ \/ PostSuccess(copier)
       \/ setup.mayFail /\ UNCHANGED <<inbox, recving>>
    /\ copier' = Idle
    /\ pending' = pending \ {copier[1]}
    /\ UNCHANGED <<setup, pvars, dvars, exec, sendQ, wire, resp, h2dQ, io>>

(* The same in the other thread, which an exception ends: its socket closes,  *)
(* and with it goes every answer that was meant for it.                       *)
InlineCopy ==
    /\ io \notin {Idle, Dead} /\ io[2] = "copy"
    /\ \/ /\ PostSuccess(io)
          /\ io' = Idle
          /\ pending' = pending \ {io[1]}
          /\ UNCHANGED <<wire, resp>>
       \/ /\ setup.mayFail
          /\ io' = Dead /\ wire' = {} /\ resp' = {}
          /\ UNCHANGED <<inbox, recving, pending>>
    /\ UNCHANGED <<setup, pvars, dvars, exec, sendQ, h2dQ, copier>>

WrongTriggers == \E r \in Requests : dPhase[r] = "ready"

(* A step of D's model runner calls decode_h2d_trigger when it runs a batch,  *)
(* or a dummy batch for the sake of the other ranks.                          *)
Triggers == setup.manyRanks \/ \E r \in Requests : dPhase[r] = "ready"

(* set() and clear() at once: who waits goes on, who comes later waits.       *)
Woken(t) ==
    IF t \in {Idle, Dead} THEN t ELSE IF Triggers THEN <<t[1], "copy">> ELSE t

(* The step, with get_finished at its end.                                    *)
DStep ==
    /\ copier' = Woken(copier) /\ io' = Woken(io)
    /\ recving' = {}
    /\ dPhase' = [r \in Requests |->
                    IF r \in recving /\ dPhase[r] = "loading" THEN "ready"
                    ELSE dPhase[r]]
    /\ UNCHANGED <<setup, pvars, inbox, processed, exec, pending, sendQ, wire, resp, h2dQ>>

Next ==
    \/ \E r \in Requests :
          \/ FinishPrefill(r) \/ TimePasses(r) \/ Arrive(r) \/ StartLoad(r)
          \/ EndRequest(r) \/ Answer(r)
    \/ PStep \/ ReadBlocks \/ Send \/ H2DTake \/ H2DCopy \/ InlineCopy \/ DStep
    \/ \E a \in resp : Receive(a)

Spec == Init /\ [][Next]_vars

(* The engines step, the threads run, the server answers, time passes.  The   *)
(* answers a socket holds are read in turn.                                   *)
Fairness ==
    /\ WF_vars(PStep) /\ WF_vars(ReadBlocks) /\ WF_vars(Send) /\ WF_vars(DStep)
    /\ WF_vars(H2DTake) /\ WF_vars(H2DCopy) /\ WF_vars(InlineCopy)
    /\ \A r \in Requests :
          /\ WF_vars(Arrive(r)) /\ WF_vars(StartLoad(r)) /\ WF_vars(Answer(r))
          /\ WF_vars(TimePasses(r))
          /\ \A ok \in BOOLEAN : SF_vars(Receive(<<r, ok>>))

FairSpec == Spec /\ Fairness

----------------------------------------------------------------------------
(* Properties *)

(* D computes with a request only when nothing of its way is left, whichever  *)
(* thread made the copy.                                                      *)
DoneMeansLoaded ==
    \A r \in Requests : dPhase[r] = "ready" \/ r \in recving => r \notin UnderWay

(* What the server is asked for or has answered is pending, so that no answer *)
(* is taken for an orphan; and where nothing fails, nothing stays pending     *)
(* that is not under way.                                                     *)
PendingIsUnderWay ==
    /\ UnderWay \ ToSet(exec) \subseteq pending
    /\ ~setup.mayFail => pending \subseteq UnderWay \ ToSet(exec)

(* Where nothing fails, every load that D starts ends, on an instance with    *)
(* several data-parallel ranks: the request runs, or is over.                 *)
EveryLoadEnds ==
    \A r \in Requests : dPhase[r] = "loading" /\ setup.manyRanks /\ ~setup.mayFail
                          ~> dPhase[r] \in {"ready", "over"}

(* The same on an instance with one rank.                                     *)
EveryLoadEndsAlone ==
    \A r \in Requests : dPhase[r] = "loading" /\ ~setup.manyRanks /\ ~setup.mayFail
                          ~> dPhase[r] \in {"ready", "over"}

(* P gets every block back, also when a transfer failed.                      *)
BlocksReturn == \A r \in Requests : pPhase[r] = "held" ~> pPhase[r] = "free"

(* The connector implements the hand-over of KVHandoff, where reading is what *)
(* the OX server does: it reads no block that P has freed.                    *)
Handoff == INSTANCE KVHandoff WITH
    src <- [r \in Requests |-> IF pPhase[r] = "prefill" THEN "computing"
                               ELSE pPhase[r]],
    dst <- [r \in Requests |-> IF r \in Fetching THEN "reading"
                               ELSE IF r \in processed THEN "read"
                               ELSE IF dPhase[r] = "over" THEN "gone" ELSE "none"],
    use <- {r \in Requests : dPhase[r] = "ready"}
ImplementsHandoff == Handoff!HSpec
=============================================================================
