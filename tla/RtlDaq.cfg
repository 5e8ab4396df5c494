SPECIFICATION FairSpec
CONSTANTS
    ChNo = 2
    NumBuff = 3
    NoDummyFrames = 3
    Scripts <- MCScripts
    FsCorrections <- MCFsCorrections
    NoiseControl = TRUE
    Overdriven <- MCOverdriven
    Faulty = {1}
    LossAt = {4}
    MaxBlocks = 7
    MaxLag = 2
    MaxSkew = 1
INVARIANTS
    FrameWhole
    FrameIntact
    DataAsCommanded
    SamplesFollowChange
    OverdriveOfLastData
PROPERTIES
    ChangesApplied
    HaltEnds
