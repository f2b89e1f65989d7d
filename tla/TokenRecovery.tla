---------------------------- MODULE TokenRecovery ----------------------------
(* Token recovery of a decode instance: when a device fails, the worker       *)
(* reports it and waits; the processor on rank 0 stops all devices, lets all  *)
(* workers restart theirs, and then lets them compute the lost token again.   *)
(* Whoever waits too long gives up.  A tick is the second that the processor  *)
(* sleeps between two looks at the statuses.  Names are those of              *)
(* token_recovery/ha_monitor.py, ha_processor.py, ha_server.py, common.py.    *)
EXTENDS Integers, FiniteSets, FiniteSetsExt

CONSTANTS Workers,
          StopWait,      \* WORKER_WAITING_STOP_TIME
          RestartWait,   \* WORKER_WAITING_RECOVERY_TIME
          RecoveryWait,  \* how long a worker waits for do_recovery
          KeepRunWait,   \* how long it then waits for keep_run
          MaxFaults,     \* bound on the faults of a worker
          MaxAge,        \* bound on ages and elapsed times
          Setups         \* what may happen in a behaviour

(* Of a setup: whether a request or a worker may be lost, the times a restart *)
(* of a device may take, and the workers that are drivers of their group.     *)
(* MaxAge is out of the reach of every comparison of times.                   *)
ASSUME TokenRecoveryAssumption ==
    /\ IsFiniteSet(Workers) /\ Workers # {}
    /\ {StopWait, RestartWait, RecoveryWait, KeepRunWait, MaxFaults} \subseteq Nat \ {0}
    /\ MaxAge \in Nat
    /\ \A t \in {2 * StopWait, 2 * RestartWait, RecoveryWait, KeepRunWait} : t <= MaxAge
    /\ \A s \in Setups : /\ DOMAIN s = {"lossy", "times", "drivers"}
                         /\ s.lossy \in BOOLEAN /\ s.drivers \subseteq Workers
                         /\ s.times \in (SUBSET Nat) \ {{}} /\ IsFiniteSet(s.times)

VARIABLES
    setup,      \* the setup of the behaviour
    pc,         \* where a worker is in token_recover_wrapper
    device,     \* whether a worker's device computes
    recompute,  \* RECOMPUTE
    faults,     \* INFERENCE_STEP
    cmd,        \* HA_CMD
    event,      \* KEEP_RUN_EVENT
    left,       \* seconds the restart of a device still takes
    status,     \* WORKER_STATUS
    age,        \* seconds since a worker reported its status
    post,       \* what _batch_post_workers still has to deliver to a worker
    largest, processed,   \* FAULT_STATICS
    proc,       \* where the processor is
    current,    \* curr_process_fault_step
    elapsed,    \* seconds since start_time
    looked      \* the processor sleeps

wvars == <<pc, device, recompute, faults, cmd, event, left>>
pvars == <<processed, proc, current, elapsed, looked>>
vars  == <<setup, wvars, status, age, post, largest, pvars>>

Commands == {"do_recovery", "keep_run", "exit_retry"}
Ended    == {"gave_up", "gone"}

TypeOK ==
    /\ setup \in Setups
    /\ pc \in [Workers -> {"run", "fault", "stop", "report", "wait", "restart", "keep",
                           "gave_up", "gone"}]
    /\ device \in [Workers -> BOOLEAN] /\ recompute \in [Workers -> BOOLEAN]
    /\ faults \in [Workers -> 0..MaxFaults]
    /\ cmd \in [Workers -> Commands \cup {"none"}] /\ event \in [Workers -> BOOLEAN]
    /\ \A w \in Workers : left[w] > 0 => pc[w] = "restart" /\ left[w] <= Max(setup.times)
    /\ status \in [Workers -> {"none", "force_stopped", "restarted"}]
    /\ age \in [Workers -> 0..MaxAge]
    /\ post \in [Workers -> Commands \cup {"none", "stop", "set_event"}]
    /\ processed <= current /\ current <= largest /\ largest <= MaxFaults
    /\ proc \in {"idle", "stopping", "recovering", "finishing", "exiting", "ended"}
    /\ elapsed \in 0..MaxAge /\ looked \in BOOLEAN

Nothing == [w \in Workers |-> "none"]
ToAll(p) == [w \in Workers |-> p]

Init ==
    /\ setup \in Setups
    /\ pc = [w \in Workers |-> "run"]
    /\ device = [w \in Workers |-> TRUE]
    /\ recompute = [w \in Workers |-> FALSE]
    /\ faults = [w \in Workers |-> 0]
    /\ cmd = Nothing
    /\ event = [w \in Workers |-> FALSE]
    /\ left = [w \in Workers |-> 0]
    /\ status = Nothing
    /\ age = [w \in Workers |-> 0]
    /\ post = Nothing
    /\ largest = -1 /\ processed = -1
    /\ proc = "idle" /\ current = -1 /\ elapsed = 0 /\ looked = FALSE

----------------------------------------------------------------------------
(* The workers *)

Goto(w, l) == pc' = [pc EXCEPT ![w] = l]

(* The wrapped call returns.                                                  *)
Succeed(w) ==
    /\ pc[w] = "run" /\ device[w] /\ recompute[w]
    /\ recompute' = [recompute EXCEPT ![w] = FALSE]
    /\ UNCHANGED <<setup, pc, device, faults, cmd, event, left, status, age, post, largest,
                   pvars>>

(* It raises one of the target errors, which a second time in succession is   *)
(* not handled.  A stopped device makes it raise.                             *)
Fail(w) ==
    /\ pc[w] = "run" /\ faults[w] < MaxFaults
    /\ IF recompute[w] THEN Goto(w, "gone") /\ UNCHANGED faults
       ELSE Goto(w, "fault") /\ faults' = [faults EXCEPT ![w] = @ + 1]
    /\ UNCHANGED <<setup, device, recompute, cmd, event, left, status, age, post, largest,
                   pvars>>

(* It raises another error, or a call of the wrapper does, done or not.       *)
Die(w) ==
    /\ setup.lossy /\ pc[w] \notin Ended \cup {"restart"}
    /\ Goto(w, "gone")
    /\ cmd' = [cmd EXCEPT ![w] = IF pc[w] = "run" THEN @ ELSE "none"]
    /\ UNCHANGED <<setup, device, recompute, faults, event, left, status, age, post, largest,
                   pvars>>

(* The wrapper gives up, and raises the error of the call.                    *)
GiveUp(w) ==
    /\ Goto(w, "gave_up")
    /\ cmd' = [cmd EXCEPT ![w] = "none"]

(* report_fault, and report_failure and update_by_fault on the server.        *)
ReportFault(w) ==
    /\ pc[w] = "fault"
    /\ Goto(w, "stop")
    /\ largest' = IF faults[w] > largest THEN faults[w] ELSE largest
    /\ UNCHANGED <<setup, device, recompute, faults, cmd, event, left, status, age, post,
                   pvars>>

StopDevice(w) ==
    /\ pc[w] = "stop"
    /\ Goto(w, "report")
    /\ device' = [device EXCEPT ![w] = FALSE]
    /\ UNCHANGED <<setup, recompute, faults, cmd, event, left, status, age, post, largest,
                   pvars>>

(* report_status, and worker_status on the server.                            *)
Report(w, s) ==
    /\ status' = [status EXCEPT ![w] = s]
    /\ age' = [age EXCEPT ![w] = 0]

ReportStopped(w) ==
    /\ pc[w] = "report"
    /\ Goto(w, "wait")
    /\ Report(w, "force_stopped")
    /\ UNCHANGED <<setup, device, recompute, faults, cmd, event, left, post, largest, pvars>>

(* Waits for ever.                                                            *)
WrongAwoken(w, seconds) == event[w]

(* KEEP_RUN_EVENT.wait returns.                                               *)
Awoken(w, seconds) == event[w] \/ age[w] >= seconds

(* KEEP_RUN_EVENT is cleared if it was set, and HA_CMD decides.               *)
WaitingDoRecovery(w) ==
    /\ pc[w] = "wait" /\ Awoken(w, RecoveryWait)
    /\ event' = [event EXCEPT ![w] = FALSE]
    /\ IF cmd[w] = "do_recovery"
       THEN /\ Goto(w, "restart")
            /\ \E time \in setup.times : left' = [left EXCEPT ![w] = time]
            /\ UNCHANGED cmd
       ELSE GiveUp(w) /\ UNCHANGED left
    /\ UNCHANGED <<setup, device, recompute, faults, status, age, post, largest, pvars>>

(* The end of _do_local_recovery, and the report, which may fail.             *)
LocalRecovery(w) ==
    /\ pc[w] = "restart" /\ left[w] = 0
    /\ device' = [device EXCEPT ![w] = TRUE]
    /\ \/ Goto(w, "keep") /\ Report(w, "restarted") /\ UNCHANGED cmd
       \/ setup.lossy /\ GiveUp(w) /\ UNCHANGED <<status, age>>
    /\ UNCHANGED <<setup, recompute, faults, event, left, post, largest, pvars>>

(* Leaves the event set.                                                      *)
WrongWaitingKeepRun(w) ==
    /\ pc[w] = "keep" /\ Awoken(w, KeepRunWait)
    /\ cmd' = [cmd EXCEPT ![w] = "none"]
    /\ recompute' = [recompute EXCEPT ![w] = @ \/ cmd[w] = "keep_run"]
    /\ Goto(w, IF cmd[w] = "keep_run" /\ w \in setup.drivers THEN "run" ELSE "gave_up")
    /\ UNCHANGED <<setup, device, faults, event, left, status, age, post, largest, pvars>>

(* _waiting_keep_run, and execute_model, where only what a driver returns is  *)
(* taken as an order to recompute.                                            *)
WaitingKeepRun(w) ==
    /\ pc[w] = "keep" /\ Awoken(w, KeepRunWait)
    /\ event' = [event EXCEPT ![w] = FALSE]
    /\ cmd' = [cmd EXCEPT ![w] = "none"]
    /\ recompute' = [recompute EXCEPT ![w] = @ \/ cmd[w] = "keep_run"]
    /\ Goto(w, IF cmd[w] = "keep_run" /\ w \in setup.drivers THEN "run" ELSE "gave_up")
    /\ UNCHANGED <<setup, device, faults, left, status, age, post, largest, pvars>>

----------------------------------------------------------------------------
(* The requests of the processor, and the handlers of the worker servers *)

(* stop_device                                                                *)
HandleStop(w) ==
    /\ post[w] = "stop" /\ pc[w] \notin Ended
    /\ post' = [post EXCEPT ![w] = "none"]
    /\ device' = [device EXCEPT ![w] = FALSE]
    /\ UNCHANGED <<setup, pc, recompute, faults, cmd, event, left, status, age, largest, pvars>>

(* update_ha_cmd, in its two steps.                                           *)
SetCmd(w) ==
    /\ post[w] \in Commands /\ pc[w] \notin Ended
    /\ post' = [post EXCEPT ![w] = "set_event"]
    /\ cmd' = [cmd EXCEPT ![w] = post[w]]
    /\ UNCHANGED <<setup, pc, device, recompute, faults, event, left, status, age, largest,
                   pvars>>

SetEvent(w) ==
    /\ post[w] = "set_event"
    /\ post' = [post EXCEPT ![w] = "none"]
    /\ event' = [event EXCEPT ![w] = TRUE]
    /\ UNCHANGED <<setup, pc, device, recompute, faults, cmd, left, status, age, largest, pvars>>

(* A request that fails is only logged.                                       *)
Lose(w) ==
    /\ post[w] \in Commands \cup {"stop"} /\ (setup.lossy \/ pc[w] \in Ended)
    /\ post' = [post EXCEPT ![w] = "none"]
    /\ UNCHANGED <<setup, wvars, status, age, largest, pvars>>

----------------------------------------------------------------------------
(* _process_failures *)

Start ==
    /\ proc = "idle" /\ largest - processed >= 1
    /\ proc' = "stopping"
    /\ current' = largest
    /\ post' = ToAll("stop")
    /\ elapsed' = 0 /\ looked' = FALSE
    /\ UNCHANGED <<setup, wvars, status, age, largest, processed>>

(* Asks for one report less.                                                  *)
WrongAllReport(s, seconds) ==
    Cardinality({w \in Workers : status[w] = s /\ age[w] - elapsed < seconds})
       >= Cardinality(Workers) - 1

(* As many workers as there are have reported s, not long before start_time.  *)
AllReport(s, seconds) ==
    Cardinality({w \in Workers : status[w] = s /\ age[w] - elapsed < seconds})
       >= Cardinality(Workers)

(* The processor waits, once every request is answered.                       *)
Waits(l) == proc = l /\ post = Nothing /\ ~looked

Sleep == looked' = TRUE /\ UNCHANGED <<proc, elapsed, post>>

(* Sends a command, and goes on or ends.                                      *)
Send(command, l) ==
    /\ post' = ToAll(command) /\ proc' = l
    /\ elapsed' = 0 /\ UNCHANGED looked

LookForStopped ==
    /\ Waits("stopping")
    /\ CASE elapsed >= StopWait -> Send("exit_retry", "exiting")
         [] elapsed < StopWait /\ AllReport("force_stopped", StopWait) ->
               Send("do_recovery", "recovering")
         [] OTHER -> Sleep
    /\ UNCHANGED <<setup, wvars, status, age, largest, processed, current>>

LookForRestarted ==
    /\ Waits("recovering")
    /\ CASE elapsed >= RestartWait -> Send("exit_retry", "exiting")
         [] elapsed < RestartWait /\ AllReport("restarted", RestartWait) ->
               Send("keep_run", "finishing")
         [] OTHER -> Sleep
    /\ UNCHANGED <<setup, wvars, status, age, largest, processed, current>>

(* Takes a fault that came in between for processed.                          *)
WrongFinish ==
    /\ Waits("finishing")
    /\ proc' = "idle" /\ processed' = largest
    /\ UNCHANGED <<setup, wvars, status, age, post, largest, current, elapsed, looked>>

Finish ==
    /\ Waits("finishing")
    /\ proc' = "idle" /\ processed' = current
    /\ UNCHANGED <<setup, wvars, status, age, post, largest, current, elapsed, looked>>

Exit ==
    /\ Waits("exiting")
    /\ proc' = "ended"
    /\ UNCHANGED <<setup, wvars, status, age, post, largest, processed, current, elapsed,
                   looked>>

----------------------------------------------------------------------------
(* A second passes.  Requests, timers and the looks of the processor do not   *)
(* wait for it; reporting a fault and stopping a device may take long.        *)
Due(w) ==
    \/ pc[w] = "wait" /\ Awoken(w, RecoveryWait)
    \/ pc[w] = "keep" /\ Awoken(w, KeepRunWait)
    \/ pc[w] = "restart" /\ left[w] = 0

Tick ==
    /\ post = Nothing /\ \A w \in Workers : ~Due(w)
    /\ proc \in {"stopping", "recovering"} => looked
    /\ proc = "idle" => largest = processed
    /\ proc \notin {"finishing", "exiting"}
    /\ age' = [w \in Workers |-> IF age[w] < MaxAge THEN age[w] + 1 ELSE MaxAge]
    /\ left' = [w \in Workers |-> IF left[w] > 0 THEN left[w] - 1 ELSE 0]
    /\ elapsed' = IF looked THEN elapsed + 1 ELSE elapsed
    /\ looked' = FALSE
    /\ UNCHANGED <<setup, pc, device, recompute, faults, cmd, event, status, post, largest,
                   processed, proc, current>>

WorkerStep(w) ==
    \/ ReportFault(w) \/ StopDevice(w) \/ ReportStopped(w)
    \/ WaitingDoRecovery(w) \/ LocalRecovery(w) \/ WaitingKeepRun(w)

Deliver(w)    == HandleStop(w) \/ SetCmd(w) \/ SetEvent(w) \/ Lose(w)
ProcessorStep == Start \/ LookForStopped \/ LookForRestarted \/ Finish \/ Exit

Next ==
    \/ \E w \in Workers : \/ Succeed(w) \/ Fail(w) \/ Die(w)
                          \/ WorkerStep(w) \/ Deliver(w)
    \/ ProcessorStep \/ Tick

Spec == Init /\ [][Next]_vars

(* Threads run, requests end, and time passes.                                *)
FairSpec ==
    /\ Spec
    /\ \A w \in Workers : WF_vars(WorkerStep(w)) /\ WF_vars(Deliver(w))
    /\ WF_vars(ProcessorStep) /\ WF_vars(Tick)

----------------------------------------------------------------------------
(* Properties *)

(* No device is restarted, and no restarted device is used, while another     *)
(* still computes what it did before the fault: a restart begins only when    *)
(* every worker has stopped its device, and a worker goes on only when every  *)
(* device has been restarted.                                                 *)
Together ==
    \A w, v \in Workers :
       /\ pc[w] = "restart" => ~(pc[v] = "run" \/ pc[v] = "fault")
       /\ recompute[w] /\ pc[w] = "run" => pc[v] # "restart"

(* What the waiting times are chosen for: nothing is lost, every worker is    *)
(* the driver of its group, and the restarts take about the same time.        *)
Even ==
    /\ ~setup.lossy /\ setup.drivers = Workers
    /\ \A s, t \in setup.times : s - t + 1 < KeepRunWait

(* Then the processor's command finds every worker waiting for it, not one    *)
(* that has given up, in the first recovery and in every later one.           *)
CommandsFindWaiters ==
    Even => \A w \in Workers :
               /\ post[w] = "do_recovery" => pc[w] = "wait"
               /\ post[w] = "keep_run" => pc[w] = "keep"

(* A worker that waits goes on or gives up, whatever is lost.                 *)
EveryWaitEnds == \A w \in Workers : pc[w] = "fault" ~> pc[w] \in Ended \cup {"run"}
=============================================================================
