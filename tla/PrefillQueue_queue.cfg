SPECIFICATION QueueSpec
CONSTANTS
    Requests = {r1, r2, r3, r4}
    Sizes = {1, 4}
    MinWait = 1
    MaxAge = 1
INVARIANTS
    PassTakesHalf
    OvertakenByHeavier
PROPERTIES
    DrainsWhenQuiet
