SPECIFICATION Spec
CONSTANTS
    Caller = {c1, c2}
    Sweeper = sw
    Endpoint = {e1, e2}
    MaxEnlist = 2
    MaxCrash = 1
SYMMETRY Symmetry
INVARIANTS
    Agreement
    UnanimousCommit
    DecisionIsTrue
CHECK_DEADLOCK FALSE
PROPERTIES
    OnlyForward
    ImplementsTxnOutcome
