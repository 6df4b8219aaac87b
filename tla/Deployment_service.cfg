SPECIFICATION FairSpec
CONSTANTS
    Address = {a1, a2}
    Request = {r1, r2}
    Limit = 1
    BucketLimit = 1
    Window = 2
    LastTick = 2
    Signal = {"SIGTERM"}
    Release <- Releases
    Needed = 3
    OrgId = {"o1", "o2"}
    Command = {c1, c2}
CHECK_DEADLOCK FALSE
INVARIANTS WithinLimit DrainedOnlyWhenIdle ServesMigratedSchema
PROPERTIES RefusedForCause StopEnds DestroyIsTargeted
