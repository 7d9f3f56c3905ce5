SPECIFICATION LiveSpec
PROPERTIES NeverReclaimsLeased OrphansGo CascadeDrains
CONSTANTS
    Lease = {l1, l2}
    Capacity = 1
    MaxLoss = 1
    MaxFailure = 1
    MaxCrash = 1
CHECK_DEADLOCK FALSE
