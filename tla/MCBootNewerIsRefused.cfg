SPECIFICATION Spec
CONSTANTS
    Releases <- MCReleases
    Known <- MCKnown
    BackupsKept = 2
    MaxBackups = 3
    Secrets = {s1, s2}
    NoSecret = NoSecret
PROPERTY NewerIsRefused
