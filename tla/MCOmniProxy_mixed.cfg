SPECIFICATION Spec
CONSTANTS
    Workers = {w1, w2}
    Slots = {s1, s2}
    NumPrefill = 1
    NumDecode = 1
    Deployments <- MixedPolicy
    AbortPhases <- NormalAborts
    MaxArrivals = 2
    NoWorker = NoWorker
    NoSlot = NoSlot
INVARIANTS
    SchedulerAssertions
