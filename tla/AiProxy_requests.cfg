SPECIFICATION MCSpec
CONSTANTS
    k = k
    old = old
    x = x
    p = p
    q = q
    r1 = r1
    r2 = r2
    None = None
    Call = {c1, c2}
    Replica = {r1, r2}
    Project = {p, q}
    Content = {x}
    Key = {k, old}
    Legacy = {old}
    Requests <- Mixed
    RetryLimit = 1
    Limit <- Tight
    LastDay = 1
    MaxRevision = 1
CHECK_DEADLOCK FALSE
INVARIANTS SentOnce ReceiptsMatchUsage ResultIsOwn SpentWithinBudget WithinDay
PROPERTIES ChargesOnce EveryRequestEnds
