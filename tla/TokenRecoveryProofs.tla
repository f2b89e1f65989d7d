------------------------- MODULE TokenRecoveryProofs -------------------------
(* What TokenRecovery guarantees for any workers, any waiting times and any   *)
(* setups; where a theorem needs more of the waiting times, it says so.       *)
EXTENDS TokenRecovery, DataFacts, FiniteSetTheorems

(* The processor sleeps only while it looks at statuses and has time left.    *)
LookedInv ==
    looked => \/ proc = "stopping" /\ elapsed < StopWait
              \/ proc = "recovering" /\ elapsed < RestartWait

Numbers ==
    /\ left \in [Workers -> Nat]
    /\ processed \in Int /\ current \in Int /\ largest \in Int

(* What a worker has reported last says where it is.                          *)
StatusInv ==
    \A w \in Workers :
       /\ status[w] = "force_stopped" => pc[w] \in {"wait", "restart"} \cup Ended
       /\ pc[w] \in {"wait", "restart"} => status[w] = "force_stopped"
       /\ pc[w] = "keep" => status[w] = "restarted"

(* No command outlives the wait it is meant for.                              *)
CmdInv ==
    \A w \in Workers :
       /\ cmd[w] = "do_recovery" => pc[w] \in {"wait", "restart", "keep"} \cup Ended
       /\ cmd[w] = "keep_run" => pc[w] = "keep"
       /\ post[w] = "keep_run" => pc[w] \in {"keep"} \cup Ended /\ cmd[w] # "keep_run"

(* A worker that restarts its device, or will.                                *)
Restarting(w) ==
    \/ pc[w] = "restart"
    \/ pc[w] = "wait" /\ cmd[w] = "do_recovery"
    \/ post[w] = "do_recovery"

(* Meanwhile every worker has stopped, and none is told to go on.             *)
RecoveryInv ==
    proc = "recovering" \/ (\E w \in Workers : Restarting(w)) =>
       /\ proc \in {"recovering", "exiting", "ended"}
       /\ \A v \in Workers : /\ pc[v] \in {"wait", "restart", "keep"} \cup Ended
                             /\ cmd[v] # "keep_run" /\ post[v] # "keep_run"

SafeInv == TypeOK /\ Numbers /\ LookedInv /\ StatusInv /\ CmdInv /\ RecoveryInv

----------------------------------------------------------------------------
(* Facts about finite sets *)

(* When as many workers have reported s as there are, every worker has.       *)
LEMMA AllReporters ==
    ASSUME IsFiniteSet(Workers), NEW P \in SUBSET Workers,
           Cardinality(P) >= Cardinality(Workers)
    PROVE  P = Workers
BY FS_Subset, FS_CardinalityType

(* AllReport counts reports; when it is true everybody has reported in time.  *)
LEMMA EveryoneReports ==
    ASSUME NEW s, NEW t, AllReport(s, t)
    PROVE  \A w \in Workers : status[w] = s /\ age[w] - elapsed < t
<1> DEFINE P == {w \in Workers : status[w] = s /\ age[w] - elapsed < t}
<1>1. P \in SUBSET Workers /\ Cardinality(P) >= Cardinality(Workers) /\ IsFiniteSet(Workers)
  BY TokenRecoveryAssumption DEF AllReport
<1>2. P = Workers
  <2> HIDE DEF P
  <2> QED BY <1>1, AllReporters
<1> QED BY <1>2

----------------------------------------------------------------------------
(* Safety, whatever is lost and whatever the times are *)

(* The times of a setup are numbers.                                          *)
LEMMA TimesFacts ==
    ASSUME setup \in Setups
    PROVE  Max(setup.times) \in Nat /\ \A x \in setup.times : x \in Nat /\ x <= Max(setup.times)
<1>1. setup.times \in SUBSET Nat /\ IsFiniteSet(setup.times) /\ setup.times # {}
  BY TokenRecoveryAssumption
<1> QED BY <1>1, FiniteMax

LEMMA InitSafe == ASSUME Init PROVE SafeInv
<1> USE TokenRecoveryAssumption DEF Init, Nothing
<1>1. TypeOK /\ Numbers
  <2>1. -1 <= MaxFaults /\ 0 \in 0..MaxFaults /\ 0 \in 0..MaxAge
    OBVIOUS
  <2>2. \A w \in Workers : left[w] = 0
    OBVIOUS
  <2>3. Numbers
    BY DEF Numbers
  <2>4. /\ setup \in Setups /\ device \in [Workers -> BOOLEAN] /\ recompute \in [Workers -> BOOLEAN]
        /\ event \in [Workers -> BOOLEAN]
    OBVIOUS
  <2>5. /\ faults \in [Workers -> 0..MaxFaults] /\ age \in [Workers -> 0..MaxAge]
        /\ elapsed \in 0..MaxAge /\ looked \in BOOLEAN
    BY <2>1
  <2>6. /\ processed <= current /\ current <= largest /\ largest <= MaxFaults
    BY <2>1
  <2> QED BY <2>2, <2>3, <2>4, <2>5, <2>6 DEF TypeOK, Commands
<1>2. LookedInv /\ StatusInv /\ CmdInv /\ RecoveryInv
  BY DEF LookedInv, StatusInv, CmdInv, RecoveryInv, Restarting
<1> QED BY <1>1, <1>2 DEF SafeInv

LEMMA SucceedSafe ==
    ASSUME SafeInv, NEW w \in Workers, Succeed(w)
    PROVE  SafeInv'
BY TokenRecoveryAssumption, TimesFacts
   DEF Succeed, wvars, pvars, SafeInv, TypeOK, Numbers, LookedInv, StatusInv, CmdInv,
       RecoveryInv, Restarting, Ended, Commands

LEMMA FailSafe ==
    ASSUME SafeInv, NEW w \in Workers, Fail(w)
    PROVE  SafeInv'
BY TokenRecoveryAssumption, TimesFacts
   DEF Fail, wvars, pvars, Goto, SafeInv, TypeOK, Numbers, LookedInv, StatusInv, CmdInv,
       RecoveryInv, Restarting, Ended, Commands

LEMMA DieSafe ==
    ASSUME SafeInv, NEW w \in Workers, Die(w)
    PROVE  SafeInv'
BY TokenRecoveryAssumption, TimesFacts
   DEF Die, wvars, pvars, Goto, SafeInv, TypeOK, Numbers, LookedInv, StatusInv, CmdInv,
       RecoveryInv, Restarting, Ended, Commands

LEMMA ReportFaultSafe ==
    ASSUME SafeInv, NEW w \in Workers, ReportFault(w)
    PROVE  SafeInv'
BY TokenRecoveryAssumption, TimesFacts
   DEF ReportFault, wvars, pvars, Goto, SafeInv, TypeOK, Numbers, LookedInv, StatusInv,
       CmdInv, RecoveryInv, Restarting, Ended, Commands

LEMMA StopDeviceSafe ==
    ASSUME SafeInv, NEW w \in Workers, StopDevice(w)
    PROVE  SafeInv'
BY TokenRecoveryAssumption, TimesFacts
   DEF StopDevice, wvars, pvars, Goto, SafeInv, TypeOK, Numbers, LookedInv, StatusInv,
       CmdInv, RecoveryInv, Restarting, Ended, Commands

LEMMA ReportStoppedSafe ==
    ASSUME SafeInv, NEW w \in Workers, ReportStopped(w)
    PROVE  SafeInv'
BY TokenRecoveryAssumption, TimesFacts
   DEF ReportStopped, wvars, pvars, Goto, Report, SafeInv, TypeOK, Numbers, LookedInv,
       StatusInv, CmdInv, RecoveryInv, Restarting, Ended, Commands

LEMMA WaitingDoRecoverySafe ==
    ASSUME SafeInv, NEW w \in Workers, WaitingDoRecovery(w)
    PROVE  SafeInv'
BY TokenRecoveryAssumption, TimesFacts
   DEF WaitingDoRecovery, wvars, pvars, Goto, GiveUp, SafeInv, TypeOK, Numbers,
       LookedInv, StatusInv, CmdInv, RecoveryInv, Restarting, Ended, Commands

LEMMA LocalRecoverySafe ==
    ASSUME SafeInv, NEW w \in Workers, LocalRecovery(w)
    PROVE  SafeInv'
BY TokenRecoveryAssumption, TimesFacts
   DEF LocalRecovery, wvars, pvars, Goto, GiveUp, Report, SafeInv, TypeOK, Numbers,
       LookedInv, StatusInv, CmdInv, RecoveryInv, Restarting, Ended, Commands

LEMMA WaitingKeepRunSafe ==
    ASSUME SafeInv, NEW w \in Workers, WaitingKeepRun(w)
    PROVE  SafeInv'
BY TokenRecoveryAssumption, TimesFacts
   DEF WaitingKeepRun, wvars, pvars, Goto, SafeInv, TypeOK, Numbers, LookedInv,
       StatusInv, CmdInv, RecoveryInv, Restarting, Ended, Commands

LEMMA HandleStopSafe ==
    ASSUME SafeInv, NEW w \in Workers, HandleStop(w)
    PROVE  SafeInv'
BY TokenRecoveryAssumption, TimesFacts
   DEF HandleStop, wvars, pvars, SafeInv, TypeOK, Numbers, LookedInv, StatusInv, CmdInv,
       RecoveryInv, Restarting, Ended, Commands

LEMMA SetCmdSafe ==
    ASSUME SafeInv, NEW w \in Workers, SetCmd(w)
    PROVE  SafeInv'
BY TokenRecoveryAssumption, TimesFacts
   DEF SetCmd, wvars, pvars, SafeInv, TypeOK, Numbers, LookedInv, StatusInv, CmdInv,
       RecoveryInv, Restarting, Ended, Commands

LEMMA SetEventSafe ==
    ASSUME SafeInv, NEW w \in Workers, SetEvent(w)
    PROVE  SafeInv'
BY TokenRecoveryAssumption, TimesFacts
   DEF SetEvent, wvars, pvars, SafeInv, TypeOK, Numbers, LookedInv, StatusInv, CmdInv,
       RecoveryInv, Restarting, Ended, Commands

LEMMA LoseSafe ==
    ASSUME SafeInv, NEW w \in Workers, Lose(w)
    PROVE  SafeInv'
BY TokenRecoveryAssumption, TimesFacts
   DEF Lose, wvars, pvars, SafeInv, TypeOK, Numbers, LookedInv, StatusInv, CmdInv,
       RecoveryInv, Restarting, Ended, Commands

LEMMA StartSafe == ASSUME SafeInv, Start PROVE SafeInv'
<1> USE TokenRecoveryAssumption
   DEF Start, ToAll, wvars,
       SafeInv, TypeOK, Numbers, LookedInv, StatusInv, CmdInv,
       RecoveryInv, Restarting, Ended, Commands
<1>1. (TypeOK /\ Numbers /\ LookedInv)'
  <2>1. processed' <= current' /\ current' <= largest' /\ largest' <= MaxFaults
    OBVIOUS
  <2>2. elapsed' \in 0..MaxAge
    OBVIOUS
  <2>3. post' \in [Workers -> Commands \cup {"none", "stop", "set_event"}]
    OBVIOUS
  <2>4. proc' = "stopping" /\ looked' = FALSE /\ current' \in Int
    OBVIOUS
  <2>5. UNCHANGED <<setup, pc, device, recompute, faults, cmd, event, left, status, age,
                    largest, processed>>
    OBVIOUS
  <2> QED BY ONLY <2>1, <2>2, <2>3, <2>4, <2>5, SafeInv
             DEF SafeInv, TypeOK, Numbers, LookedInv
<1>2. (StatusInv /\ CmdInv /\ RecoveryInv)'
  OBVIOUS
<1> QED BY ONLY <1>1, <1>2 DEF SafeInv

(* What the processor orders when all have stopped their devices.             *)
LEMMA LookForStoppedSafe == ASSUME SafeInv, LookForStopped PROVE SafeInv'
<1> USE TokenRecoveryAssumption
   DEF LookForStopped, Waits, ToAll, Send, wvars, Nothing,
       SafeInv, TypeOK, Numbers, LookedInv, StatusInv, CmdInv,
       RecoveryInv, Restarting, Ended, Commands
<1>1. CASE elapsed >= StopWait /\ Send("exit_retry", "exiting")
  BY <1>1
<1>2. CASE AllReport("force_stopped", StopWait) /\ Send("do_recovery", "recovering")
  <2>1. \A w \in Workers : status[w] = "force_stopped"
    BY <1>2, EveryoneReports
  <2> QED BY <1>2, <2>1
<1>3. CASE elapsed < StopWait /\ Sleep
  BY <1>3 DEF Sleep
<1> QED BY <1>1, <1>2, <1>3

(* What it orders when all have restarted their devices.                      *)
LEMMA LookForRestartedSafe == ASSUME SafeInv, LookForRestarted PROVE SafeInv'
<1> USE TokenRecoveryAssumption
   DEF LookForRestarted, Waits, ToAll, Send, wvars, Nothing,
       SafeInv, TypeOK, Numbers, LookedInv, StatusInv, CmdInv,
       RecoveryInv, Restarting, Ended, Commands
<1>1. CASE elapsed >= RestartWait /\ Send("exit_retry", "exiting")
  BY <1>1
<1>2. CASE AllReport("restarted", RestartWait) /\ Send("keep_run", "finishing")
  <2>1. \A w \in Workers : status[w] = "restarted"
    BY <1>2, EveryoneReports
  <2> QED BY <1>2, <2>1
<1>3. CASE elapsed < RestartWait /\ Sleep
  BY <1>3 DEF Sleep
<1> QED BY <1>1, <1>2, <1>3

LEMMA FinishSafe == ASSUME SafeInv, Finish PROVE SafeInv'
BY DEF Finish, Waits, wvars, SafeInv, TypeOK, Numbers, LookedInv, StatusInv, CmdInv,
       RecoveryInv, Restarting, Ended, Commands

LEMMA ExitSafe == ASSUME SafeInv, Exit PROVE SafeInv'
BY DEF Exit, Waits, wvars, SafeInv, TypeOK, Numbers, LookedInv, StatusInv, CmdInv,
       RecoveryInv, Restarting, Ended, Commands

LEMMA TickSafe == ASSUME SafeInv, Tick PROVE SafeInv'
<1> USE DEF SafeInv
<1>1. /\ UNCHANGED <<setup, pc, device, recompute, faults, cmd, event, status, post, largest,
                   processed, proc, current>>
      /\ looked' = FALSE
  BY DEF Tick
<1>2. elapsed' \in 0..MaxAge
  BY TokenRecoveryAssumption DEF Tick, LookedInv, TypeOK
<1>3. age' \in [Workers -> 0..MaxAge]
  BY TokenRecoveryAssumption DEF Tick, TypeOK
<1>4. left' \in [Workers -> Nat] /\ \A w \in Workers : left'[w] <= left[w]
  BY DEF Tick, Numbers
<1>5. ASSUME NEW w \in Workers, left'[w] > 0
      PROVE  pc[w] = "restart" /\ left'[w] <= Max(setup.times)
  <2>1. Max(setup.times) \in Nat /\ left[w] \in Nat /\ left'[w] \in Nat
    BY <1>4, TimesFacts DEF TypeOK, Numbers
  <2> QED BY <1>4, <1>5, <2>1 DEF TypeOK
<1>6. TypeOK'
  BY <1>1, <1>2, <1>3, <1>5 DEF TypeOK
<1>7. (Numbers /\ LookedInv /\ StatusInv /\ CmdInv /\ RecoveryInv)'
  BY <1>1, <1>4 DEF Numbers, LookedInv, StatusInv, CmdInv, RecoveryInv, Restarting
<1> QED BY ONLY <1>6, <1>7 DEF SafeInv

LEMMA SafeStep == ASSUME SafeInv, [Next]_vars PROVE SafeInv'
<1>1. ASSUME NEW w \in Workers, WorkerStep(w) PROVE SafeInv'
  BY <1>1, ReportFaultSafe, StopDeviceSafe, ReportStoppedSafe, WaitingDoRecoverySafe,
     LocalRecoverySafe, WaitingKeepRunSafe DEF WorkerStep
<1>2. ASSUME NEW w \in Workers, Deliver(w) PROVE SafeInv'
  BY <1>2, HandleStopSafe, SetCmdSafe, SetEventSafe, LoseSafe DEF Deliver
<1>3. ASSUME NEW w \in Workers, Succeed(w) \/ Fail(w) \/ Die(w) PROVE SafeInv'
  BY <1>3, SucceedSafe, FailSafe, DieSafe
<1>4. ASSUME ProcessorStep PROVE SafeInv'
  BY <1>4, StartSafe, LookForStoppedSafe, LookForRestartedSafe, FinishSafe, ExitSafe
     DEF ProcessorStep
<1>5. ASSUME UNCHANGED vars PROVE SafeInv'
  BY <1>5 DEF vars, wvars, pvars, SafeInv, TypeOK, Numbers, LookedInv, StatusInv, CmdInv,
       RecoveryInv, Restarting, Ended, Commands
<1> QED BY <1>1, <1>2, <1>3, <1>4, <1>5, TickSafe DEF Next

(* The type invariant and what it rests on, for all workers, waiting times    *)
(* and setups.                                                                *)
THEOREM SafeInvariant == Spec => []SafeInv
<1>1. Init => SafeInv
  BY InitSafe
<1>2. SafeInv /\ [Next]_vars => SafeInv'
  BY SafeStep
<1> QED BY <1>1, <1>2, PTL DEF Spec

(* Every variable has its type; a device takes no longer to restart than its  *)
(* setup says, and a fault is processed once it has been reported.            *)
THEOREM TypeCorrect == Spec => []TypeOK
<1>1. SafeInv => TypeOK
  BY DEF SafeInv
<1> QED BY <1>1, SafeInvariant, PTL

(* A restart begins only when every worker has stopped its device, and a      *)
(* worker goes on only when every device has been restarted, whatever         *)
(* requests and workers are lost and whoever comes late.                      *)
THEOREM RestartTogether == Spec => []Together
<1>1. SafeInv => Together
  BY DEF SafeInv, RecoveryInv, Restarting, Together, Ended
<1> QED BY <1>1, SafeInvariant, PTL

----------------------------------------------------------------------------
(* Where nothing is lost and the restarts take about the same time *)

(* The processor goes on when all requests of a round are answered.           *)
PostInv ==
    \A w \in Workers :
       /\ post[w] = "stop" => proc = "stopping"
       /\ post[w] = "do_recovery" => proc = "recovering"
       /\ post[w] = "keep_run" => proc = "finishing"
       /\ post[w] = "exit_retry" => proc = "exiting"
       /\ post[w] = "set_event" => proc \in {"recovering", "finishing", "exiting"}

(* The fault that the last recovery has been for.                             *)
Base == IF proc \in {"recovering", "finishing"} THEN current
        ELSE IF processed = -1 THEN 0 ELSE processed

(* The fault of the next one, or of the one under way.                        *)
Upcoming == IF proc = "recovering" THEN Base ELSE Base + 1

(* All workers have had as many faults, but for the next.                     *)
FaultsInStep ==
    /\ processed >= -1
    /\ proc \in {"recovering", "finishing"} => current >= 1
    /\ proc = "idle" => largest \in {processed, Base + 1}
    /\ proc = "stopping" => current = Base + 1
    /\ proc \in {"stopping", "recovering"} => largest = current
    /\ proc = "finishing" => largest \in {current, current + 1}
    /\ \A w \in Workers :
          /\ pc[w] \in {"run", "keep", "restart"} => faults[w] = Base
          /\ pc[w] \in {"fault", "stop", "report", "wait"} => faults[w] = Upcoming
          /\ pc[w] \in {"stop", "report", "wait"} => largest >= faults[w]

(* Who has ended has been late for the processor, or raised an error again.   *)
EndsInv ==
    \A w \in Workers :
       /\ recompute[w] => status[w] # "none"
       /\ pc[w] = "gone" => status[w] = "restarted"
       /\ pc[w] = "gave_up" => proc = "stopping" /\ elapsed >= StopWait
       /\ proc = "recovering" => pc[w] \in {"wait", "restart", "keep"}

(* An event is set for the wait that it ends.                                 *)
EventsInv ==
    \A w \in Workers :
       /\ pc[w] \in {"run", "fault", "stop", "report", "restart"} => ~event[w]
       /\ pc[w] = "wait" =>
             IF proc = "recovering" /\ post[w] = "none"
             THEN event[w] /\ cmd[w] = "do_recovery" ELSE ~event[w]
       /\ pc[w] = "keep" /\ proc = "recovering" => ~event[w]
       /\ pc[w] = "keep" /\ proc # "recovering" =>
             IF post[w] \in {"keep_run", "set_event"} THEN ~event[w]
             ELSE event[w] /\ cmd[w] = "keep_run"
       /\ proc = "recovering" /\ post[w] # "none" => pc[w] = "wait"
       /\ proc = "recovering" /\ post[w] = "set_event" => cmd[w] = "do_recovery"
       /\ proc = "finishing" /\ post[w] # "none" => pc[w] = "keep"
       /\ proc = "finishing" /\ post[w] = "set_event" => cmd[w] = "keep_run"

(* The clocks of the workers and of the processor.                            *)
ClocksInv ==
    /\ \A w \in Workers :
          /\ pc[w] = "wait" =>
                CASE proc = "stopping"   -> age[w] <= elapsed
                  [] proc = "recovering" -> elapsed = 0 /\ age[w] < RecoveryWait
                  [] OTHER               -> age[w] = 0
          /\ proc = "recovering" /\ pc[w] = "restart" => left[w] + elapsed \in setup.times
          /\ proc = "recovering" /\ pc[w] = "keep" => elapsed - age[w] \in setup.times
          /\ proc = "finishing" /\ pc[w] = "keep" => age[w] < KeepRunWait
    /\ proc = "recovering" =>
          \/ \E w \in Workers : pc[w] \in {"wait", "restart"}
          \/ \E w \in Workers : age[w] <= 1 /\ (looked => age[w] = 0)

(* Until the processor has ordered an exit.                                   *)
EvenInv ==
    Even /\ proc \notin {"exiting", "ended"} =>
       FaultsInStep /\ EndsInv /\ EventsInv /\ ClocksInv

IInv == SafeInv /\ PostInv /\ EvenInv

(* What EvenInv says until then.                                              *)
InStep == FaultsInStep /\ EndsInv /\ EventsInv /\ ClocksInv

----------------------------------------------------------------------------
(* The requests of a round *)

LEMMA PostStep == ASSUME SafeInv, PostInv, [Next]_vars PROVE PostInv'
<1> USE DEF SafeInv, TypeOK, PostInv, Commands, Ended, Nothing, ToAll, Waits, Send
<1>1. ASSUME NEW w \in Workers, Deliver(w) PROVE PostInv'
  BY <1>1 DEF Deliver, HandleStop, SetCmd, SetEvent, Lose, wvars, pvars
<1>2. ASSUME NEW w \in Workers, Succeed(w) \/ Fail(w) \/ Die(w) \/ WorkerStep(w)
      PROVE  PostInv'
  <2>1. UNCHANGED <<post, proc>>
    BY <1>2 DEF Succeed, Fail, Die, WorkerStep, ReportFault, StopDevice, ReportStopped,
                WaitingDoRecovery, LocalRecovery, WaitingKeepRun, pvars
  <2> QED BY <2>1
<1>3. CASE Start
  BY <1>3 DEF Start
<1>4. CASE LookForStopped
  BY <1>4 DEF LookForStopped, Sleep
<1>5. CASE LookForRestarted
  BY <1>5 DEF LookForRestarted, Sleep
<1>6. CASE Finish \/ Exit
  BY <1>6 DEF Finish, Exit
<1>7. CASE Tick
  BY <1>7 DEF Tick
<1>8. CASE UNCHANGED vars
  BY <1>8 DEF vars, pvars
<1> QED BY <1>1, <1>2, <1>3, <1>4, <1>5, <1>6, <1>7, <1>8 DEF Next, ProcessorStep

----------------------------------------------------------------------------
(* The steps, until the processor orders an exit *)

LEMMA SucceedInStep ==
    ASSUME SafeInv, PostInv, Even, InStep, StopWait <= RecoveryWait,
           proc \notin {"exiting", "ended"}, NEW w \in Workers, Succeed(w)
    PROVE  InStep'
<1> USE TokenRecoveryAssumption
    DEF Succeed, Even, InStep, PostInv, SafeInv, TypeOK, Numbers, StatusInv, CmdInv,
        RecoveryInv, Restarting, Ended, Commands, wvars, pvars
<1>1. FaultsInStep'
  BY DEF FaultsInStep, Base, Upcoming
<1>2. EndsInv'
  BY DEF EndsInv
<1>3. EventsInv'
  BY DEF EventsInv
<1>4. ClocksInv'
  BY DEF ClocksInv
<1> QED BY <1>1, <1>2, <1>3, <1>4

LEMMA FailInStep ==
    ASSUME SafeInv, PostInv, Even, InStep, StopWait <= RecoveryWait,
           proc \notin {"exiting", "ended"}, NEW w \in Workers, Fail(w)
    PROVE  InStep'
<1> USE TokenRecoveryAssumption
    DEF Fail, Goto, Even, InStep, PostInv, SafeInv, TypeOK, Numbers, StatusInv, CmdInv,
        RecoveryInv, Restarting, Ended, Commands, wvars, pvars
<1>1. FaultsInStep'
  BY DEF FaultsInStep, Base, Upcoming
<1>2. EndsInv'
  BY DEF EndsInv
<1>3. EventsInv'
  BY DEF EventsInv
<1>4. ClocksInv'
  BY DEF ClocksInv
<1> QED BY <1>1, <1>2, <1>3, <1>4

LEMMA ReportFaultInStep ==
    ASSUME SafeInv, PostInv, Even, InStep, StopWait <= RecoveryWait,
           proc \notin {"exiting", "ended"}, NEW w \in Workers, ReportFault(w)
    PROVE  InStep'
<1> USE TokenRecoveryAssumption
    DEF ReportFault, Goto, Even, InStep, PostInv, SafeInv, TypeOK, Numbers, StatusInv,
        CmdInv, RecoveryInv, Restarting, Ended, Commands, wvars, pvars
<1>1. FaultsInStep'
  BY DEF FaultsInStep, Base, Upcoming
<1>2. EndsInv'
  BY DEF EndsInv
<1>3. EventsInv'
  BY DEF EventsInv
<1>4. ClocksInv'
  BY DEF ClocksInv
<1> QED BY <1>1, <1>2, <1>3, <1>4

LEMMA StopDeviceInStep ==
    ASSUME SafeInv, PostInv, Even, InStep, StopWait <= RecoveryWait,
           proc \notin {"exiting", "ended"}, NEW w \in Workers, StopDevice(w)
    PROVE  InStep'
<1> USE TokenRecoveryAssumption
    DEF StopDevice, Goto, Even, InStep, PostInv, SafeInv, TypeOK, Numbers, StatusInv,
        CmdInv, RecoveryInv, Restarting, Ended, Commands, wvars, pvars
<1>1. FaultsInStep'
  BY DEF FaultsInStep, Base, Upcoming
<1>2. EndsInv'
  BY DEF EndsInv
<1>3. EventsInv'
  BY DEF EventsInv
<1>4. ClocksInv'
  BY DEF ClocksInv
<1> QED BY <1>1, <1>2, <1>3, <1>4

LEMMA ReportStoppedInStep ==
    ASSUME SafeInv, PostInv, Even, InStep, StopWait <= RecoveryWait,
           proc \notin {"exiting", "ended"}, NEW w \in Workers, ReportStopped(w)
    PROVE  InStep'
<1> USE TokenRecoveryAssumption
    DEF ReportStopped, Goto, Report, Even, InStep, PostInv, SafeInv, TypeOK, Numbers,
        StatusInv, CmdInv, RecoveryInv, Restarting, Ended, Commands, wvars, pvars
<1>1. FaultsInStep'
  BY DEF FaultsInStep, Base, Upcoming
<1>2. EndsInv'
  BY DEF EndsInv
<1>3. EventsInv'
  BY DEF EventsInv
<1>4. ClocksInv'
  BY DEF ClocksInv
<1> QED BY <1>1, <1>2, <1>3, <1>4

LEMMA WaitingDoRecoveryInStep ==
    ASSUME SafeInv, PostInv, Even, InStep, StopWait <= RecoveryWait,
           proc \notin {"exiting", "ended"}, NEW w \in Workers, WaitingDoRecovery(w)
    PROVE  InStep'
<1> USE TokenRecoveryAssumption
    DEF WaitingDoRecovery, Goto, GiveUp, Awoken, Even, InStep, PostInv, SafeInv, TypeOK,
        Numbers, StatusInv, CmdInv, RecoveryInv, Restarting, Ended, Commands, wvars,
        pvars
<1>1. FaultsInStep'
  BY DEF FaultsInStep, Base, Upcoming
<1>2. EndsInv'
  BY DEF EndsInv, EventsInv, ClocksInv
<1>3. EventsInv'
  BY DEF EventsInv, EndsInv, ClocksInv
<1>4. ClocksInv'
  BY DEF ClocksInv, EventsInv, EndsInv
<1> QED BY <1>1, <1>2, <1>3, <1>4

LEMMA LocalRecoveryInStep ==
    ASSUME SafeInv, PostInv, Even, InStep, StopWait <= RecoveryWait,
           proc \notin {"exiting", "ended"}, NEW w \in Workers, LocalRecovery(w)
    PROVE  InStep'
<1> USE TokenRecoveryAssumption
    DEF LocalRecovery, Goto, GiveUp, Report, Even, InStep, SafeInv, TypeOK, wvars, pvars
<1>1. /\ pc[w] = "restart" /\ left[w] = 0
      /\ pc' = [pc EXCEPT ![w] = "keep"] /\ status' = [status EXCEPT ![w] = "restarted"]
      /\ age' = [age EXCEPT ![w] = 0]
      /\ UNCHANGED <<setup, recompute, faults, cmd, event, left, post, largest, pvars>>
  OBVIOUS
<1>2. proc = "recovering" /\ \A v \in Workers : pc[v] \in {"wait", "restart", "keep"}
  BY <1>1 DEF RecoveryInv, Restarting, EndsInv
<1>3. elapsed \in setup.times
  BY <1>1, <1>2 DEF ClocksInv
<1>4. FaultsInStep'
  BY <1>1, <1>2 DEF FaultsInStep, Base, Upcoming
<1>5. EndsInv'
  BY <1>1, <1>2 DEF EndsInv
<1>6. EventsInv'
  BY <1>1, <1>2 DEF EventsInv
<1>7. ClocksInv'
  <2>1. \A v \in Workers \ {w} : pc'[v] = pc[v] /\ age'[v] = age[v]
    BY <1>1
  <2>2. pc'[w] = "keep" /\ age'[w] = 0 /\ elapsed - age'[w] \in setup.times
    BY <1>1, <1>3
  <2> QED BY <1>1, <1>2, <2>1, <2>2 DEF ClocksInv, pvars
<1> QED BY <1>4, <1>5, <1>6, <1>7

(* Whoever has restarted first still waits when the last has restarted.       *)
LEMMA KeepInTime ==
    ASSUME SafeInv, Even, InStep, proc \in {"recovering", "finishing"},
           NEW w \in Workers, pc[w] = "keep"
    PROVE  age[w] < KeepRunWait
<1> USE TokenRecoveryAssumption DEF SafeInv, TypeOK, Numbers
<1>1. CASE proc = "finishing"
  BY <1>1 DEF InStep, ClocksInv
<1>2. CASE proc = "recovering"
  <2>1. elapsed - age[w] \in setup.times /\ setup.times \subseteq Nat
    BY <1>2 DEF InStep, ClocksInv
  <2>2. PICK v \in Workers, t \in setup.times : age[w] <= t - (elapsed - age[w]) + 1
    <3>1. ASSUME NEW v \in Workers, pc[v] = "wait" PROVE elapsed = 0
      BY <1>2, <3>1 DEF InStep, ClocksInv
    <3>2. ASSUME NEW v \in Workers, pc[v] = "restart"
          PROVE  left[v] + elapsed \in setup.times
      BY <1>2, <3>2 DEF InStep, ClocksInv
    <3>3. ASSUME NEW v \in Workers, pc[v] = "keep"
          PROVE  elapsed - age[v] \in setup.times
      BY <1>2, <3>3 DEF InStep, ClocksInv
    <3>4. PICK v \in Workers : pc[v] = "keep" => age[v] <= 1
      BY <1>2 DEF InStep, ClocksInv
    <3>5. pc[v] \in {"wait", "restart", "keep"}
      BY <1>2 DEF InStep, EndsInv
    <3> QED BY <2>1, <3>1, <3>2, <3>3, <3>4, <3>5
  <2>3. t - (elapsed - age[w]) + 1 < KeepRunWait
    BY <2>1 DEF Even
  <2> QED BY <2>1, <2>2, <2>3
<1> QED BY <1>1, <1>2

LEMMA WaitingKeepRunInStep ==
    ASSUME SafeInv, PostInv, Even, InStep, StopWait <= RecoveryWait,
           proc \notin {"exiting", "ended"}, NEW w \in Workers, WaitingKeepRun(w)
    PROVE  InStep'
<1> USE TokenRecoveryAssumption
    DEF WaitingKeepRun, Goto, Awoken, Even, InStep, SafeInv, TypeOK, Commands, wvars, pvars
<1>1. pc[w] = "keep" /\ event[w] /\ cmd[w] = "keep_run" /\ proc # "recovering"
  <2>1. age[w] < KeepRunWait \/ proc \in {"idle", "stopping"}
    BY KeepInTime
  <2>2. pc[w] = "keep" /\ age[w] \in Nat
    OBVIOUS
  <2> QED BY <2>1, <2>2 DEF PostInv, EventsInv
<1>2. FaultsInStep'
  BY <1>1 DEF FaultsInStep, Base, Upcoming
<1>3. EndsInv'
  BY <1>1 DEF EndsInv, StatusInv
<1>4. EventsInv'
  BY <1>1 DEF EventsInv, PostInv
<1>5. ClocksInv'
  BY <1>1 DEF ClocksInv
<1> QED BY <1>2, <1>3, <1>4, <1>5

LEMMA HandleStopInStep ==
    ASSUME SafeInv, PostInv, Even, InStep, StopWait <= RecoveryWait,
           proc \notin {"exiting", "ended"}, NEW w \in Workers, HandleStop(w)
    PROVE  InStep'
<1> USE TokenRecoveryAssumption
    DEF HandleStop, Even, InStep, PostInv, SafeInv, TypeOK, Numbers, StatusInv, CmdInv,
        RecoveryInv, Restarting, Ended, Commands, wvars, pvars
<1>1. FaultsInStep'
  BY DEF FaultsInStep, Base, Upcoming
<1>2. EndsInv'
  BY DEF EndsInv
<1>3. EventsInv'
  BY DEF EventsInv
<1>4. ClocksInv'
  BY DEF ClocksInv
<1> QED BY <1>1, <1>2, <1>3, <1>4

LEMMA SetCmdInStep ==
    ASSUME SafeInv, PostInv, Even, InStep, StopWait <= RecoveryWait,
           proc \notin {"exiting", "ended"}, NEW w \in Workers, SetCmd(w)
    PROVE  InStep'
<1> USE TokenRecoveryAssumption
    DEF SetCmd, Even, InStep, PostInv, SafeInv, TypeOK, Numbers, StatusInv, CmdInv,
        RecoveryInv, Restarting, Ended, Commands, wvars, pvars
<1>1. FaultsInStep'
  BY DEF FaultsInStep, Base, Upcoming
<1>2. EndsInv'
  BY DEF EndsInv
<1>3. EventsInv'
  BY DEF EventsInv
<1>4. ClocksInv'
  BY DEF ClocksInv
<1> QED BY <1>1, <1>2, <1>3, <1>4

LEMMA SetEventInStep ==
    ASSUME SafeInv, PostInv, Even, InStep, StopWait <= RecoveryWait,
           proc \notin {"exiting", "ended"}, NEW w \in Workers, SetEvent(w)
    PROVE  InStep'
<1> USE TokenRecoveryAssumption
    DEF SetEvent, Even, InStep, PostInv, SafeInv, TypeOK, Numbers, StatusInv, CmdInv,
        RecoveryInv, Restarting, Ended, Commands, wvars, pvars
<1>1. FaultsInStep'
  BY DEF FaultsInStep, Base, Upcoming
<1>2. EndsInv'
  BY DEF EndsInv
<1>3. EventsInv'
  BY DEF EventsInv
<1>4. ClocksInv'
  BY DEF ClocksInv
<1> QED BY <1>1, <1>2, <1>3, <1>4

LEMMA LoseInStep ==
    ASSUME SafeInv, PostInv, Even, InStep, StopWait <= RecoveryWait,
           proc \notin {"exiting", "ended"}, NEW w \in Workers, Lose(w)
    PROVE  InStep'
<1> USE TokenRecoveryAssumption
    DEF Lose, Even, InStep, PostInv, SafeInv, TypeOK, Numbers, StatusInv, CmdInv,
        RecoveryInv, Restarting, Ended, Commands, wvars, pvars
<1>1. FaultsInStep'
  BY DEF FaultsInStep, Base, Upcoming
<1>2. EndsInv'
  BY DEF EndsInv
<1>3. EventsInv'
  BY DEF EventsInv
<1>4. ClocksInv'
  BY DEF ClocksInv
<1> QED BY <1>1, <1>2, <1>3, <1>4

LEMMA StartInStep ==
    ASSUME SafeInv, PostInv, InStep, Start
    PROVE  InStep'
<1> USE TokenRecoveryAssumption
    DEF Start, ToAll, InStep, PostInv, SafeInv, TypeOK, Numbers, wvars, Commands
<1>1. FaultsInStep'
  BY DEF FaultsInStep, Base, Upcoming
<1>2. EndsInv'
  BY DEF EndsInv
<1>3. EventsInv'
  BY DEF EventsInv
<1>4. ClocksInv'
  BY DEF ClocksInv
<1> QED BY <1>1, <1>2, <1>3, <1>4

(* Nobody has given up when the processor sends do_recovery.                  *)
LEMMA LookForStoppedInStep ==
    ASSUME SafeInv, PostInv, InStep, StopWait <= RecoveryWait, LookForStopped,
           proc' # "exiting"
    PROVE  InStep'
<1> USE TokenRecoveryAssumption
    DEF LookForStopped, Waits, Send, ToAll, InStep, SafeInv, TypeOK, Numbers, wvars
<1>1. CASE Sleep
  BY <1>1 DEF Sleep, FaultsInStep, Base, Upcoming, EndsInv, EventsInv, ClocksInv
<1>2. CASE ~Sleep
  <2>1. /\ proc = "stopping" /\ elapsed < StopWait
        /\ AllReport("force_stopped", StopWait)
        /\ post' = ToAll("do_recovery") /\ proc' = "recovering" /\ elapsed' = 0 /\ ~looked'
        /\ UNCHANGED <<setup, wvars, status, age, largest, processed, current>>
    BY <1>2
  <2>2. \A w \in Workers : status[w] = "force_stopped"
    BY <2>1, EveryoneReports
  <2>3. \A w \in Workers : pc[w] = "wait"
    BY <2>1, <2>2 DEF StatusInv, RecoveryInv, Restarting, EndsInv, Ended
  <2>4. FaultsInStep'
    BY <2>1, <2>3 DEF FaultsInStep, Base, Upcoming
  <2>5. EndsInv'
    BY <2>1, <2>3 DEF EndsInv
  <2>6. EventsInv'
    BY <2>1, <2>3 DEF EventsInv
  <2>7. ClocksInv'
    BY <2>1, <2>3 DEF ClocksInv
  <2> QED BY <2>4, <2>5, <2>6, <2>7
<1> QED BY <1>1, <1>2

(* The processor sleeps only when somebody still waits or restarts, and sends *)
(* keep_run in time for those that restarted first.                           *)
LEMMA LookForRestartedInStep ==
    ASSUME SafeInv, PostInv, Even, InStep, LookForRestarted, proc' # "exiting"
    PROVE  InStep'
<1> USE TokenRecoveryAssumption
    DEF LookForRestarted, Waits, Send, ToAll, InStep, SafeInv, TypeOK, Numbers, wvars
<1>1. CASE ~AllReport("restarted", RestartWait)
  <2>1. /\ proc = "recovering" /\ elapsed < RestartWait /\ ~looked /\ looked' = TRUE
        /\ UNCHANGED <<setup, wvars, status, age, post, largest, processed, proc, current,
                       elapsed>>
    BY <1>1 DEF Sleep
  <2>2. \E w \in Workers : pc[w] \in {"wait", "restart"}
    <3> SUFFICES ASSUME \A w \in Workers : pc[w] = "keep" PROVE FALSE
      BY <2>1 DEF EndsInv
    <3>1. ASSUME NEW w \in Workers PROVE status[w] = "restarted" /\ age[w] - elapsed < RestartWait
      <4>1. elapsed - age[w] \in setup.times /\ setup.times \subseteq Nat
        BY <2>1 DEF ClocksInv
      <4> QED BY <4>1 DEF StatusInv
    <3>2. {w \in Workers : status[w] = "restarted" /\ age[w] - elapsed < RestartWait} = Workers
      BY <3>1
    <3>3. Cardinality(Workers) \in Nat
      BY FS_CardinalityType
    <3>4. AllReport("restarted", RestartWait)
      BY ONLY <3>2, <3>3 DEF AllReport
    <3> QED BY <1>1, <3>4
  <2>3. FaultsInStep'
    BY <2>1 DEF FaultsInStep, Base, Upcoming
  <2>4. EndsInv'
    BY <2>1 DEF EndsInv
  <2>5. EventsInv'
    BY <2>1 DEF EventsInv
  <2>6. ClocksInv'
    BY <2>1, <2>2 DEF ClocksInv
  <2> QED BY <2>3, <2>4, <2>5, <2>6
<1>2. CASE AllReport("restarted", RestartWait)
  <2>1. /\ proc = "recovering" /\ ~looked /\ post = Nothing
        /\ post' = ToAll("keep_run") /\ proc' = "finishing" /\ elapsed' = 0 /\ ~looked'
        /\ UNCHANGED <<setup, wvars, status, age, largest, processed, current>>
    BY <1>2
  <2>2. \A w \in Workers : status[w] = "restarted"
    BY <1>2, EveryoneReports
  <2>3. \A w \in Workers : pc[w] = "keep"
    BY <2>1, <2>2 DEF StatusInv, EndsInv
  <2>4. PICK v \in Workers : age[v] <= 1
    BY <2>1, <2>3 DEF ClocksInv
  <2>5. ASSUME NEW w \in Workers PROVE age[w] < KeepRunWait
    <3>1. elapsed - age[w] \in setup.times /\ elapsed - age[v] \in setup.times
      BY <2>1, <2>3 DEF ClocksInv
    <3>2. (elapsed - age[v]) - (elapsed - age[w]) + 1 < KeepRunWait
      BY <3>1 DEF Even
    <3>3. age[w] \in Nat /\ age[v] \in Nat /\ elapsed \in Nat
      OBVIOUS
    <3> QED BY <2>4, <3>2, <3>3
  <2>6. FaultsInStep'
    BY <2>1, <2>3 DEF FaultsInStep, Base, Upcoming
  <2>7. EndsInv'
    BY <2>1, <2>3 DEF EndsInv
  <2>8. EventsInv'
    BY <2>1, <2>3 DEF EventsInv
  <2>9. ClocksInv'
    BY <2>1, <2>3, <2>5 DEF ClocksInv
  <2> QED BY <2>6, <2>7, <2>8, <2>9
<1> QED BY <1>1, <1>2

LEMMA FinishInStep ==
    ASSUME SafeInv, PostInv, InStep, Finish
    PROVE  InStep'
<1> USE DEF Finish, Waits, Nothing, InStep, PostInv, SafeInv, TypeOK, Numbers, wvars
<1>1. FaultsInStep'
  BY DEF FaultsInStep, Base, Upcoming
<1>2. EndsInv'
  BY DEF EndsInv
<1>3. EventsInv'
  BY DEF EventsInv
<1>4. ClocksInv'
  BY DEF ClocksInv
<1> QED BY <1>1, <1>2, <1>3, <1>4

(* No second passes over somebody who waits in vain.                          *)
LEMMA TickInStep ==
    ASSUME SafeInv, PostInv, Even, InStep, Tick, proc \notin {"exiting", "ended"}
    PROVE  InStep'
<1> USE TokenRecoveryAssumption DEF Tick, InStep, SafeInv, TypeOK, Numbers
<1>1. FaultsInStep'
  BY DEF FaultsInStep, Base, Upcoming
<1>2. EndsInv'
  BY DEF EndsInv, LookedInv
<1>3. EventsInv'
  BY DEF EventsInv
<1>4. ClocksInv'
  <2>1. \A w \in Workers : age[w] \in Nat /\ age'[w] \in Nat /\ age'[w] <= age[w] + 1
    OBVIOUS
  <2>2. proc = "idle" => \A w \in Workers : pc[w] # "wait"
    BY DEF FaultsInStep, Base, Upcoming
  <2>3. CASE proc \in {"idle", "stopping"}
    BY <2>1, <2>2, <2>3 DEF ClocksInv
  <2>4. CASE proc = "recovering"
    <3>1. looked /\ elapsed < RestartWait /\ elapsed' = elapsed + 1 /\ ~looked'
      BY <2>4 DEF LookedInv
    <3>2. \A w \in Workers : pc[w] # "wait"
      BY <2>4 DEF Due, Awoken, EventsInv, Nothing
    <3>3. ASSUME NEW w \in Workers, pc[w] = "restart"
          PROVE  left'[w] + elapsed' \in setup.times
      <4>1. left[w] > 0 /\ left'[w] = left[w] - 1 /\ left[w] + elapsed \in setup.times
        BY <2>4, <3>3 DEF Due, ClocksInv
      <4>2. left'[w] + elapsed' = left[w] + elapsed
        BY <3>1, <4>1
      <4> QED BY <4>1, <4>2
    <3>4. ASSUME NEW w \in Workers, pc[w] = "keep"
          PROVE  elapsed' - age'[w] \in setup.times
      <4>1. elapsed - age[w] \in setup.times /\ setup.times \subseteq Nat
        BY <2>4, <3>4 DEF ClocksInv
      <4>2. age[w] < MaxAge /\ age'[w] = age[w] + 1
        BY <3>1, <4>1
      <4>3. elapsed' - age'[w] = elapsed - age[w]
        BY <3>1, <4>2
      <4> QED BY <4>1, <4>3
    <3>5. \/ \E w \in Workers : pc[w] \in {"wait", "restart"}
          \/ \E w \in Workers : age'[w] <= 1
      BY <2>1, <2>4, <3>1 DEF ClocksInv
    <3> QED BY <2>4, <3>1, <3>2, <3>3, <3>4, <3>5 DEF ClocksInv
  <2> QED BY <2>3, <2>4
<1> QED BY <1>1, <1>2, <1>3, <1>4

LEMMA InStepStep ==
    ASSUME SafeInv, PostInv, Even, InStep, StopWait <= RecoveryWait, [Next]_vars,
           proc \notin {"exiting", "ended"}, proc' \notin {"exiting", "ended"}
    PROVE  InStep'
<1>1. ASSUME NEW w \in Workers, WorkerStep(w) PROVE InStep'
  BY <1>1, ReportFaultInStep, StopDeviceInStep, ReportStoppedInStep, WaitingDoRecoveryInStep,
     LocalRecoveryInStep, WaitingKeepRunInStep DEF WorkerStep
<1>2. ASSUME NEW w \in Workers, Deliver(w) PROVE InStep'
  BY <1>2, HandleStopInStep, SetCmdInStep, SetEventInStep, LoseInStep DEF Deliver
<1>3. ASSUME NEW w \in Workers, Succeed(w) \/ Fail(w) PROVE InStep'
  BY <1>3, SucceedInStep, FailInStep
<1>4. ASSUME NEW w \in Workers, Die(w) PROVE FALSE
  BY <1>4 DEF Die, Even
<1>5. CASE ProcessorStep
  <2>1. CASE Exit
    BY <2>1 DEF Exit
  <2> QED BY <1>5, <2>1, StartInStep, LookForStoppedInStep, LookForRestartedInStep,
             FinishInStep DEF ProcessorStep
<1>6. CASE UNCHANGED vars
  <2> USE <1>6 DEF vars, wvars, pvars, InStep
  <2>1. FaultsInStep'
    BY DEF FaultsInStep, Base, Upcoming
  <2>2. EndsInv'
    BY DEF EndsInv
  <2>3. EventsInv'
    BY DEF EventsInv
  <2>4. ClocksInv'
    BY DEF ClocksInv
  <2> QED BY <2>1, <2>2, <2>3, <2>4
<1> QED BY <1>1, <1>2, <1>3, <1>4, <1>5, <1>6, TickInStep DEF Next

(* Neither the setup nor an exit is taken back.                               *)
LEMMA ExitIsFinal ==
    ASSUME SafeInv, [Next]_vars
    PROVE  setup' = setup /\ (proc \in {"exiting", "ended"} => proc' \in {"exiting", "ended"})
BY DEF Next, Succeed, Fail, Die, WorkerStep, ReportFault, StopDevice, ReportStopped,
       WaitingDoRecovery, LocalRecovery, WaitingKeepRun, Deliver, HandleStop, SetCmd, SetEvent,
       Lose, ProcessorStep, Start, LookForStopped, LookForRestarted, Finish, Exit, Waits, Tick,
       vars, wvars, pvars

LEMMA InitInStep == ASSUME Init PROVE PostInv /\ InStep
<1> USE DEF Init, Nothing, InStep
<1>1. PostInv
  BY DEF PostInv
<1>2. FaultsInStep
  BY DEF FaultsInStep, Base, Upcoming
<1>3. EndsInv
  BY DEF EndsInv
<1>4. EventsInv
  BY DEF EventsInv
<1>5. ClocksInv
  BY DEF ClocksInv
<1> QED BY <1>1, <1>2, <1>3, <1>4, <1>5

(* Where the processor stops waiting for reports no later than a worker stops *)
(* waiting for do_recovery, as 25 and 30 seconds are.                         *)
THEOREM InductiveInvariant ==
    ASSUME StopWait <= RecoveryWait
    PROVE  Spec => []IInv
<1>1. Init => IInv
  BY InitSafe, InitInStep DEF IInv, EvenInv, InStep
<1>2. IInv /\ [Next]_vars => IInv'
  <2> SUFFICES ASSUME IInv, [Next]_vars PROVE IInv'
    OBVIOUS
  <2>1. SafeInv' /\ PostInv'
    BY SafeStep, PostStep DEF IInv
  <2>2. EvenInv'
    <3> SUFFICES ASSUME Even', proc' \notin {"exiting", "ended"} PROVE InStep'
      BY DEF EvenInv, InStep
    <3>1. Even /\ proc \notin {"exiting", "ended"}
      BY ExitIsFinal DEF IInv, Even
    <3>2. InStep
      BY <3>1 DEF IInv, EvenInv, InStep
    <3> QED BY <3>1, <3>2, InStepStep DEF IInv
  <2> QED BY <2>1, <2>2 DEF IInv
<1> QED BY <1>1, <1>2, PTL DEF Spec

(* Then, where nothing is lost, every worker is a driver and the restarts     *)
(* take about the same time, no command of the processor, in any round of any *)
(* number of faults, comes to a worker that has given up.                     *)
THEOREM CommandsInTime ==
    ASSUME StopWait <= RecoveryWait
    PROVE  Spec => []CommandsFindWaiters
<1>1. IInv => CommandsFindWaiters
  BY DEF IInv, EvenInv, PostInv, EventsInv, CommandsFindWaiters
<1> QED BY <1>1, InductiveInvariant, PTL
=============================================================================
