SPECIFICATION FairSpec
CONSTANTS
    M = 2
    MaxGain = 2
    Configurations <- MCConfigurations
    CalGains <- MCCalGains
    GainLockInterval = 1
    NoDummyFrames = 1
    Messages <- MCMessages
    MaxMessages = 2
    MaxSwitches = 1
INVARIANTS
    TypeOK
    JudgedAtItsGains
    TunedToTheLimit
PROPERTIES
    RequestsRefined
    TuningEnds
    RequestAnswered
    LockObtained
