SPECIFICATION Spec
CONSTANTS
    Record = {r1}
    Loop = {l1, l2}
    r1 = r1
    l1 = l1
    l2 = l2
    LastStage = 2
    OnDevice = 1
    Online = 2
    Concurrency = 1
    MaxAttempts = 2
    Lease = 1
    BackoffCap = 1
    MaxGen = 2
    MaxDisturb = 1
PROPERTY SupersededAttemptsAreFenced
