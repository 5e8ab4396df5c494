SPECIFICATION FairSpec
CONSTANTS
    Lines <- MCLines
    MaxLines = 4
    Blocks = {"rtl_daq", "iq_server"}
    Garbage = Garbage
    MaxCh = 2
INVARIANTS
    
    ReadTogether
PROPERTY
    StartEnds
