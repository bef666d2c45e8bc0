SPECIFICATION FairSpec
CONSTANTS
    a = a
    b = b
    P = P
    Q = Q
    none = none
    gone = gone
    notask = notask
    Task <- TwoTasks
    Proc <- OneProc
    NoOwner <- none
    Gone <- gone
    NoTask <- notask
    Limit = 1
    MaxAttempts = 2
    MaxRequests = 1
    MaxFaults = 2
INVARIANTS NothingLost
PROPERTIES Settles
