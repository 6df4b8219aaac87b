SPECIFICATION Spec
CONSTANTS
    User = {u1}
    Device = {d1, d2}
    TokenId = {t1, t2}
    Invite = {i1}
    Call = {c1, c2}
    u1 = u1
    d1 = d1
    d2 = d2
    t1 = t1
    t2 = t2
    i1 = i1
    c1 = c1
    c2 = c2
    NoUser = NoUser
    NoDevice = NoDevice
    Editing = {"role"}
    LockoutFailures = 2
    LockoutWindow = 1
    RefreshTtl = 1
    InviteTtl = 1
    MaxPassword = 2
ACTION_CONSTRAINT EditsAlone
SYMMETRY Symmetry
INVARIANTS SessionsOnOwnDevices SessionsFollowPassword WrongPasswordsBounded
