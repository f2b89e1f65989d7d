SPECIFICATION WakeSpec
CONSTANTS
    Workers = {w1}
    Slots = {s1}
    NumPrefill = 1
    NumDecode = 1
    Deployments <- OnePolicy
    AbortPhases = {}
    MaxArrivals = 1
    NoWorker = NoWorker
    NoSlot = NoSlot
INVARIANTS
    WokenStillThere
