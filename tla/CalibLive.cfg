SPECIFICATION FairSpec
CONSTANTS
    Freqs = {1}
    UserGains = {1}
    CalGain = 2
    CalTrackMode = 2
    RequireTrackLock = FALSE
    CalFrameInterval = 2
    CalFrameBurstSize = 2
    MaxSyncFails = 2
    NoDummyFrames = 2
    UpstreamDepth = 1
    MaxDrops = 2
    MaxBad = 1
    MaxRequests = 1
PROPERTIES
    RequestServed
    SyncWaitEnds
    Tracks
