SPECIFICATION FairSpec
CONSTANTS
    Requests = {r1, r2}
    Cap = 1
    Setups <- MCSetups
INVARIANTS TypeOK DoneMeansLoaded PendingIsUnderWay
PROPERTIES EveryLoadEnds BlocksReturn ImplementsHandoff
CHECK_DEADLOCK FALSE
