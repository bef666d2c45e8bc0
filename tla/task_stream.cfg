SPECIFICATION FairSpec
CONSTANTS
    reporter = reporter
    engine = engine
    ender = ender
    noone = noone
    Reporters <- OneReporter
    Engine <- engine
    Ender <- ender
    NoOne <- noone
    MaxEmit = 2
    MaxFaults = 2
    MaxErrors = 1
INVARIANTS Numbered EndsComplete AppendSucceeds EmittedOnce
PROPERTIES Refines WaitEnds Delivered
CHECK_DEADLOCK FALSE
