SPECIFICATION LiveSpec
INVARIANTS AtLeastOnce NumberNamesEvent BestEffortComplete
PROPERTIES DurableDelivered
CONSTANTS
    d = d
    b = b
    e1 = e1
    Sub = {d, b}
    Event = {e1, e2}
    Stream = {r1}
    Nobody = Nobody
    Durable = {d}
    SourceOf <- OneSource
    Matches <- Filtered
    Providers = {"local", "dynamo"}
    Capacity = 1
    Batch = 1
    MaxSubscribe = 1
    MaxLag = 1
    MaxFault = 1
CHECK_DEADLOCK FALSE
