SPECIFICATION FairSpec
CONSTANTS
    a = a
    V = V
    W = W
    notask = notask
    noworker = noworker
    Task <- OneTask
    Worker <- TwoWorkers
    NoTask <- notask
    NoWorker <- noworker
    DeadLetterMax = 2
    MaxPublish = 2
    MaxFaults = 2
    MaxRefreshErrors = 1
INVARIANTS DeadLetterEarned
PROPERTIES NoTheft LossNoticed Delivered
