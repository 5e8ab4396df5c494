SPECIFICATION Spec
CONSTANTS
    Freqs = {1, 2}
    UserGains = {1, 2}
    CalGain = 3
    CalTrackMode = 2
    RequireTrackLock = FALSE
    CalFrameInterval = 2
    CalFrameBurstSize = 2
    MaxSyncFails = 2
    NoDummyFrames = 2
    UpstreamDepth = 1
    MaxDrops = 1
    MaxBad = 1
    MaxRequests = 1
INVARIANTS
    TypeOK
    GainsRemembered
    HeadersAreCurrent
    ReceiversFollow
    BurstHasNoise
