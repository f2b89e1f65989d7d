------------------------- MODULE DecodeWakeFailure -------------------------
(***************************************************************************)
(* OmniProxy, and what nginx may do inside ngx_http_upstream_init: when no *)
(* connection to the decode endpoint can be opened, it finalizes and frees *)
(* the request before it returns.  ngx_http_decode_wakeup goes on with the *)
(* request in either case.                                                 *)
(***************************************************************************)
EXTENDS OmniProxy

VARIABLE started    \* the request whose decode upstream each worker is starting

wakeVars == <<vars, started>>

WakeInit == Init /\ started = [w \in Workers |-> NoSlot]

(* The upstream fails at once: the cleanup of the request runs inside the  *)
(* wakeup handler.                                                         *)
WakeDecodeFails(w) ==
    /\ at[w] = "runD"
    /\ \E s \in visit[w] :
        /\ "prefilling" \notin phase[s]
        /\ BeginCleanup(w, s)
        /\ visit' = [visit EXCEPT ![w] = @ \ {s}]
        /\ started' = [started EXCEPT ![w] = s]

(* Every other step; none when the cleanup has returned to a wakeup, which *)
(* then asks for the transition d_scheduled -> decoding and ends in the    *)
(* assertion below.                                                        *)
CoreStep(w) ==
    /\ at[w] = "idle" => started[w] = NoSlot
    /\ Step(w) /\ UNCHANGED started

WakeNext == \E w \in Workers : CoreStep(w) \/ WakeDecodeFails(w)

WakeSpec == WakeInit /\ [][WakeNext]_wakeVars

(* assert(!"omni_remove_req_from_group: slot_index not in group"): when    *)
(* the wakeup handler moves the request on, it is still in the group it is *)
(* moved out of.                                                           *)
WokenStillThere ==
    \A w \in Workers : at[w] = "idle" /\ started[w] # NoSlot =>
        started[w] \in lgroup[w]["d_scheduled"]
=============================================================================
