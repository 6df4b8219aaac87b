SPECIFICATION MCDeviceSpec
CONSTANTS
    User = {u1}
    Device = {d1}
    Self = d1
    TokenId = {t1, t2}
    Invite = {}
    Call = {c1}
    u1 = u1
    d1 = d1
    t1 = t1
    t2 = t2
    c1 = c1
    NoUser = NoUser
    NoDevice = NoDevice
    NoToken = NoToken
    Editing = {"role"}
    LockoutFailures = 1
    LockoutWindow = 1
    RefreshTtl = 1
    InviteTtl = 1
    MaxPassword = 1
    LateLimit = 1
SYMMETRY DeviceSymmetry
INVARIANTS ReuseOnlyAfterLoss SignOutHolds EnrolmentMatchesToken
    OneLiveTokenPerFamily
