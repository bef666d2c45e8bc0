\* Violation: one worker, the production definitions (no approval), a pause.
SPECIFICATION FairSpec
CONSTANTS
    V = V
    W = W
    Worker <- OneWorker
    Approval = FALSE
    Named = TRUE
    MaxRetries = 1
    MaxSubagents = 2
    MaxCalls = 2
    MaxFaults = 0
    MaxRequests = 1
PROPERTIES
    SuspensionHolds
