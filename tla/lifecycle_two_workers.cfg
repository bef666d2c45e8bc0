SPECIFICATION Spec
CONSTANTS
    a = a
    b = b
    P = P
    Q = Q
    none = none
    gone = gone
    notask = notask
    Task <- OneTask
    Proc <- TwoProcs
    NoOwner <- none
    Gone <- gone
    NoTask <- notask
    Limit = 1
    MaxAttempts = 1
    MaxRequests = 1
    MaxFaults = 3
SYMMETRY Symmetry
INVARIANTS OverSettled CancelWins WaitingAnswerable
PROPERTIES Refines NoSecondCommit
