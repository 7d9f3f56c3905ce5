SPECIFICATION LiveSpec
INVARIANTS Conservation
PROPERTIES DeadTuplesGo
CONSTANTS
    t1 = t1
    c1 = c1
    Tuple = {t1}
    Client = {c1, c2}
    Txn = {x}
    NoTxn = NoTxn
    NoTuple = NoTuple
    Handler = {h}
    Remover = {r, s}
    Matches <- Selective
    Asks <- Taking
    Capacity = 1
    MaxCalls = 2
    MaxExpiry = 1
    MaxLoss = 1
CHECK_DEADLOCK FALSE
