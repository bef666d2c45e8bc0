\* A stepwise runtime: a side effect, then a call that needs approval;
\* two workers, one fault, workers and recovery that go on running.  No
\* symmetry: it is unsound for liveness.
SPECIFICATION FairSpec
CONSTANTS
    w1 = w1
    w2 = w2
    hA = hA
    hB = hB
    NoWorker = NoWorker
    Gone = Gone
    NoHandler = NoHandler
    Worker = {w1, w2}
    Handler = {hA, hB}
    NodeCount = 2
    DependsOn <- Chain2
    Activation <- AllSucceeded2
    RecoveryFor <- NoRecovery2
    HandlerOf <- HandlersAB
    PoolOf <- ToolPool2
    MaxCalls <- AmpleCalls
    NeedsApproval = {hB}
    SideEffecting = {hA}
    ReplaySafe = {hB}
    MaxRetries = 0
    MaxParallelism = 1
    Outcomes = {"succeeded", "partial", "error"}
    Provider = "stepwise"
    MaxFaults = 1
INVARIANTS
    DependencyOrder
    WaitingIsAnswerable
    TerminalTaskSettled
PROPERTIES
    NoImplicitReplay
    HistoryKept
    Progress
