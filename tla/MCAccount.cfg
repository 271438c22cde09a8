SPECIFICATION AccountSpec
CONSTANTS
    Releases <- MCReleases
    Known <- MCKnown
    BackupsKept = 2
    MaxBackups = 3
    Secrets = {s1, s2}
    NoSecret = NoSecret
    Procs = {p1, p2, p3}
    Configured = 1
    Devices = {d1, d2}
    MaxPasswords = 3
    Users = {u1, u2}
    Entries = {v1}
    Categories = {c1, c2}
    VaultProcs = {p1, p2}
INVARIANTS
    TypeOK SchemaIsApplied WayBack ModeSurvives
    AccountTypeOK SlotsWellUsed KeyOpens EnvelopeOpens RowsBelong DeletedForGood
PROPERTIES
    OlderNeverWrites MigratesOnce SecretSurvives BootsEnd
    SameWork EveryHashAnswered KeySetOnce
