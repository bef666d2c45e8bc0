\* Two workers, a sub-agent that needs approval, one model call for all its
\* children, one fault and two requests of a user who names the run.
SPECIFICATION FairSpec
CONSTANTS
    V = V
    W = W
    Worker <- TwoWorkers
    Approval = TRUE
    Named = TRUE
    MaxRetries = 1
    MaxSubagents = 2
    MaxCalls = 1
    MaxFaults = 1
    MaxRequests = 2
INVARIANTS
    ResultBacked
    WaitingBacked
PROPERTIES
    DoneStaysDone
    Rests
