SPECIFICATION FairSpec
CONSTANTS
    NumRanks = 2
    NumLayers = 2
    NumSlots = 2
    NumExperts = 3
    Start <- MCStart
    Targets <- MCTargets
INVARIANTS TokensReachExperts WeightsFollowMap
PROPERTIES EveryPlanEnds
