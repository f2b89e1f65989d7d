SPECIFICATION FairSpec
CONSTANTS
    r1 = r1
    r2 = r2
    r3 = r3
    Requests <- MCRequests
    Prompt <- MCPrompt
    MaxTokens = 4
    MaxRunning = 2
    Slack = 1
    TfasBudget = 2
    TfasAdjust = 4
    Setups <- MCSetups
INVARIANTS TypeOK NoneLost BlocksAccounted 
  
CHECK_DEADLOCK FALSE
