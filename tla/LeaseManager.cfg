SPECIFICATION LiveSpec
INVARIANTS PolicyHorizon
PROPERTIES ImplementsLeaseTerm ExpiredIsReaped
CONSTANTS
    Lease = {l1}
    Caller = {c1, c2}
    Request = {0, 3, 20}
    LEASE_FOREVER = 20
    MAX_REPRESENTABLE_TTL_SECS = 5
    MAX_UTC = 4
    MaxTtl = 2
    PreferredTtl = 1
    MaxTime = 3
    MaxFailure = 1
CHECK_DEADLOCK FALSE
