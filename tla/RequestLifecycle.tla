-------------------------- MODULE RequestLifecycle --------------------------
(***************************************************************************)
(* What Omni Proxy promises about a request, with none of the processes:   *)
(* one stage set per slot and one atomic step per phase change.  OmniProxy *)
(* keeps three copies of the stage, in two processes, and implements this. *)
(***************************************************************************)
CONSTANTS
    Slots,      \* the slots of the request pool
    Abortable   \* the stages in which a request may end before it is served

VARIABLES
    stage,      \* the set of phases a request is in; {}: no request
    parallel    \* whether the policy is PD_PARALLEL

Stage == {"tokenizing", "p_waiting", "p_scheduled", "prefilling",
          "d_waiting", "d_scheduled", "decoding"}

TypeOK == stage \in [Slots -> SUBSET Stage] /\ parallel \in BOOLEAN

Init == stage = [s \in Slots |-> {}] /\ parallel \in BOOLEAN

Become(s, from, to) ==
    /\ from \in stage[s]
    /\ stage' = [stage EXCEPT ![s] = (@ \ {from}) \cup {to}]

Admit(s) == stage[s] = {} /\ stage' = [stage EXCEPT ![s] = {"tokenizing"}]

(* A request waits for a prefill endpoint, gets one, and is sent to it.    *)
QueuePrefill(s)  == Become(s, "tokenizing", "p_waiting")
AssignPrefill(s) == Become(s, "p_waiting", "p_scheduled")
StartPrefill(s)  ==
    /\ parallel => stage[s] # {"p_scheduled"}
    /\ Become(s, "p_scheduled", "prefilling")

(* Under the parallel policy it waits for a decode endpoint from the time  *)
(* its prefill is about to start, under the sequential one from its end.   *)
QueueDecode(s) ==
    /\ parallel /\ stage[s] = {"p_scheduled"}
    /\ stage' = [stage EXCEPT ![s] = @ \cup {"d_waiting"}]

FinishPrefill(s) ==
    \/ ~ parallel /\ Become(s, "prefilling", "d_waiting")
    \/ /\ parallel /\ "prefilling" \in stage[s] /\ stage[s] # {"prefilling"}
       /\ stage' = [stage EXCEPT ![s] = @ \ {"prefilling"}]

(* It never reaches a decode endpoint before its prefill has been sent.    *)
AssignDecode(s) == Become(s, "d_waiting", "d_scheduled")
StartDecode(s)  == "p_scheduled" \notin stage[s] /\ Become(s, "d_scheduled", "decoding")

(* It ends when it is decoded, or is given up in a stage that allows that. *)
End(s) ==
    /\ stage[s] = {"decoding"} \/ stage[s] \cap Abortable # {}
    /\ stage' = [stage EXCEPT ![s] = {}]

Next == /\ UNCHANGED parallel
        /\ \E s \in Slots :
            \/ Admit(s)        \/ QueuePrefill(s) \/ AssignPrefill(s)
            \/ StartPrefill(s) \/ QueueDecode(s)  \/ FinishPrefill(s)
            \/ AssignDecode(s) \/ StartDecode(s)  \/ End(s)

Spec == Init /\ [][Next]_<<stage, parallel>>
=============================================================================
