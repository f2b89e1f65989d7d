SPECIFICATION Spec
CONSTANTS
    Workers = {w1, w2}
    Slots = {s1, s2}
    NumPrefill = 2
    NumDecode = 1
    Deployments <- OnePolicy
    AbortPhases <- NormalAborts
    MaxArrivals = 3
    NoWorker = NoWorker
    NoSlot = NoSlot
INVARIANTS
    TypeOK
    LocalGroupsAgree
    SharedGroupsAgree
    SchedulerAssertions
    LoadIsExact
    InGroupsCounts
PROPERTIES
    ImplementsLifecycle
