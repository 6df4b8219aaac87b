SPECIFICATION AttendedSpec
CONSTANTS
    Record = {r1, r2}
    Loop = {l1}
    r1 = r1
    r2 = r2
    l1 = l1
    LastStage = 2
    OnDevice = 1
    Online = 2
    Concurrency = 1
    MaxAttempts = 2
    Lease = 1
    BackoffCap = 1
    MaxGen = 1
    MaxDisturb = 1
INVARIANTS TypeOK CompletedRanEveryStage AttemptsBounded
PROPERTY JobSettles
