SPECIFICATION MCSpec
CONSTANTS
    manager = manager
    colleague = manager
    d1 = d1
    d2 = d1
    NoPackage = NoPackage
    Owner <- MCOwner
    Project = {j1}
    Call = {}
    Sizes = {1}
    PackageMax = 1
    BatchSize = 1
    User = {manager}
    Manager = {manager}
    Admin = {}
    Device = {d1}
    Package = {p1, p2}
    Key = {k1}
    ProjectCeiling = 3
    OrgCeiling = 3
    HardMax = 2
    Windows = {2}
    LastDay = 0
    Job = {w1, w2}
INVARIANT QueuedIsKept
