SPECIFICATION FairSpec
CONSTANTS
    Caller = {c1}
    Sweeper = sw
    Endpoint = {e1}
    MaxEnlist = 2
    MaxCrash = 1
PROPERTIES
    LeaselessIsEnded
    HandlersReturn
CHECK_DEADLOCK FALSE
