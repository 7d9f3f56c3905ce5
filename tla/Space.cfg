SPECIFICATION Spec
INVARIANTS Conservation Isolation
SYMMETRY Symmetry
CONSTANTS
    t1 = t1
    c1 = c1
    Tuple = {t1, t2}
    Client = {c1, c2}
    Txn = {x}
    NoTxn = NoTxn
    NoTuple = NoTuple
    Handler = {h}
    Remover = {}
    Matches <- Uniform
    Asks <- Anything
    Capacity = 1
    MaxCalls = 3
    MaxExpiry = 0
    MaxLoss = 0
CHECK_DEADLOCK FALSE
