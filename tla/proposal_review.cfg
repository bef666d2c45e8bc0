SPECIFICATION FairSpec
CONSTANTS
    V = V
    W = W
    Worker <- TwoWorkers
    MaxIterations = 3
    Labelled = TRUE
    OtherApproval = TRUE
    MaxProposals = 2
    MaxFaults = 1
INVARIANTS PlanReviewed ReviewAnswerable
PROPERTIES ScreenHonoured Resolves
