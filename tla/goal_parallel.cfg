\* The goal runtime: two privileged side effects that may run side by side
\* with the node that joins them, which competes with one of them for the
\* last call of a counter and may be replayed, charged before or not.  A task
\* can stay waiting for ever here (the run of a pause that is resumed through
\* a verification checkpoint), so the system really may stop.
SPECIFICATION Spec
CONSTANTS
    w1 = w1
    w2 = w2
    hA = hA
    hB = hB
    NoWorker = NoWorker
    Gone = Gone
    NoHandler = NoHandler
    Worker = {w1, w2}
    Handler = {hA, hB}
    NodeCount = 3
    DependsOn <- Join3
    Activation <- AllSucceeded3
    RecoveryFor <- NoRecovery3
    HandlerOf <- HandlersAAB
    PoolOf <- MixedPool3
    MaxCalls <- TwoCalls
    NeedsApproval = {hA}
    SideEffecting = {hA}
    ReplaySafe = {hB}
    MaxRetries = 1
    MaxParallelism = 2
    Outcomes = {"succeeded", "error"}
    Provider = "goal"
    MaxFaults = 2
SYMMETRY Workers
INVARIANTS
    AtMostOnce
    ApprovalPerCall
    BudgetBound
CHECK_DEADLOCK FALSE
