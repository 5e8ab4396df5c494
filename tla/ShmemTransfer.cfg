SPECIFICATION MCSpec
CONSTANTS
    DropMode = TRUE
    MaxFrames = 6
INVARIANTS
    ExclusiveAccess
    TerminateIsLast
PROPERTIES
    ChannelRefined
    AllocReturns
    EveryFrameUsed
    OnlyStaleErrnoDrops
