SPECIFICATION MCFairSpec
CONSTANTS
    manager = manager
    colleague = colleague
    d1 = d1
    d2 = d2
    j2 = j2
    p1 = p1
    User = {manager, colleague}
    Device = {d1, d2}
    Owner <- MCOwner
    Manager = {manager, colleague}
    Admin = {manager}
    Project = {j1, j2}
    Package = {p1, p2}
    Key = {k1}
    Call = {c1}
    Sizes = {1, 2}
    PackageMax = 2
    ProjectCeiling = 2
    OrgCeiling = 3
    HardMax = 2
    Windows = {1, 2}
    BatchSize = 1
    LastDay = 2
INVARIANTS StorageBounded OneLiveCopyPerUpload VectorCountsOnce
ACTION_CONSTRAINT TwoDeployments
PROPERTIES ExpiredIsPurged PurgedEarlyOnlyWhenDone
