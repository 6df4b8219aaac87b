SPECIFICATION MCSpec
CONSTANTS
    manager = manager
    colleague = manager
    d1 = d1
    d2 = d2
    NoPackage = NoPackage
    Owner <- MCOwner
    Project = {j1}
    Call = {}
    Sizes = {1}
    PackageMax = 1
    BatchSize = 1
    User = {manager}
    Manager = {manager}
    Admin = {}
    Device = {d1, d2}
    Package = {p1}
    Key = {k1}
    ProjectCeiling = 1
    OrgCeiling = 1
    HardMax = 1
    Windows = {1}
    LastDay = 1
    Job = {w1}
INVARIANT QueuedIsKept
PROPERTY PurgedEarlyOnlyWhenApplied
SYMMETRY Symmetry
