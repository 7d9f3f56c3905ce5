SPECIFICATION LiveSpec
INVARIANTS PortInRange FreshTarget
PROPERTIES ReclaimedIsClosed OpenReturns
CONSTANTS
    Call = {p, q}
    Conn = {k}
    Endpoint = {e}
    Nowhere = Nowhere
    MinPort = 1
    MaxPort = 2
    Width = 8
    Busy = {1}
    MaxMove = 1
    MaxFault = 1
CHECK_DEADLOCK FALSE
