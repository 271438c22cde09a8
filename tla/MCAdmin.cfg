SPECIFICATION AdminSpec
CONSTANTS
    MaxUsers = 3
    Procs = {p1, p2}
    OrgProcs = {p1, p2}
    Branding = {"name"}
    Toggles = {"manage"}
    Events = {1, 2, 3, 4}
    MaxTime = 2
    MaxLimit = 2
    DefaultLimit = 1
    People = {u1}
    Entries = {e1}
    Categories = {c1}
    Null = Null
    Threads = {p1, p2}
SYMMETRY ProcSymmetry
INVARIANTS
    TypeOK OrgAndAuditTypeOK SettingsKept NothingVanishes RepeatsBounded SharedTypeOK
PROPERTIES LastAdminGuard OwnersArePeers  OwnersKeepAccess
