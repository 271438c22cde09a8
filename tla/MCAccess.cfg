SPECIFICATION AccessSpec
CONSTANTS
    People = {a1}
    Threads = {p1, p2}
    TTL = 4
    MaxDelay = 1
    MaxClock = 7
    MaxLogins = 2
    MaxEpoch = 1
    Clients = {c1, c2}
    Workers = {p1, p2}
    Burst = 2
    Cost = 2
    Idle = 4
    Lateness = 1
    MaxTicks = 6
    MaxUsers = 2
    Invites = {i1}
    NoInvite = NoInvite
    Procs = {p1, p2}
SYMMETRY ProcSymmetry
INVARIANTS
    SessionTypeOK LifetimeBound ActiveKept SessionsFollowAccount
    LimitTypeOK AdmissionBound
    TypeOK SettingsAgree OrgTablesExist
PROPERTIES NoRevival RefusedOnlyIfServed ImplementsTokenBucket InviteSpentOnce
