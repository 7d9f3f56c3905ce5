SPECIFICATION LiveSpec
INVARIANTS DeregisteredIsGone
PROPERTIES StaysVisible StopRenewingToDisappear
CONSTANTS
    Cap = {c1, c2}
    NoCap = NoCap
    Key = {k}
    Caller = {me, tool}
    me = me
    tool = tool
    Providers = {"local", "dynamo"}
    MaxLag = 1
    MaxModify = 1
    MaxFault = 1
CHECK_DEADLOCK FALSE
