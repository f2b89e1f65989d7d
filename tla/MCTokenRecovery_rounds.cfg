SPECIFICATION FairSpec
CONSTANTS
    w1 = w1
    w2 = w2
    Workers <- MCWorkers
    StopWait = 3
    RestartWait = 4
    RecoveryWait = 5
    KeepRunWait = 3
    MaxFaults = 2
    MaxAge = 8
    Setups <- MCSetups
INVARIANTS TypeOK Together CommandsFindWaiters
PROPERTIES EveryWaitEnds
