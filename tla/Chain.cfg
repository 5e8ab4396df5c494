SPECIFICATION FairSpec
CONSTANTS
    Killable = {"decimator"}
    MaxIncidents = 1
CHECK_DEADLOCK FALSE
INVARIANTS
    BuffersKept
    EndsForAReason
    ChainStarts
PROPERTIES
    AcquisitionGoesOn
    EndSpreads
