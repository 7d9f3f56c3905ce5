SPECIFICATION Spec
INVARIANT AllAreCalled
CONSTANTS
    plain = plain
    buffered = buffered
    tid = tid
    inside = inside
    outside = outside
    gains = gains
    loses = loses
    Tuple = {plain, buffered}
    Txn = {tid}
    NoTxn = NoTxn
    NoTuple = NoTuple
    Context <- OneEach
    Client = {inside, outside}
    Asks <- InAndOut
    Handler = {h}
    Remover = {r}
    MaxTake = 2
    MaxEnd = 2
    MaxLag = 1
    MaxFault = 1
    Renewer = {n, m}
    Term = 2
    MaxTime = 6
    Participant = {p, q}
    Ender = {i, j}
    Item = {gains, loses}
    Attrs <- TwoItems
    Interface <- TwoInterfaces
    Template <- FewTemplates
    Text <- ShortTexts
    Ring = 1
    Channel = 1
    MaxModify = 1
    Enlist = {f, g}
    MaxMove = 2
    MaxDrop = 1
    Registered <- TwoServices
    MaxCall = 1
    MaxTry = 2
CHECK_DEADLOCK FALSE
