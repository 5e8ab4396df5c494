SPECIFICATION Spec
CONSTANTS
    Freqs = {1}
    UserGains = {1}
    CalGain = 3
    CalTrackMode = 2
    RequireTrackLock = FALSE
    CalFrameInterval = 2
    CalFrameBurstSize = 2
    MaxSyncFails = 2
    NoDummyFrames = 2
    UpstreamDepth = 1
    MaxDrops = 0
    MaxBad = 0
    MaxRequests = 2
INVARIANT GainDisablesAgc
