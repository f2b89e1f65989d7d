SPECIFICATION FairSpec
CONSTANTS
    r1 = r1
    r2 = r2
    Requests <- MCRequests
    OneBlock <- MCOneBlock
    Setups <- MCSetups
INVARIANTS TypeOK
PROPERTIES ScanMissesNone EveryLoadEnds BlocksReturn ImplementsHandoff
CHECK_DEADLOCK FALSE
