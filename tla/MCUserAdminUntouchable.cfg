SPECIFICATION Spec
CONSTANTS
    MaxUsers = 2
    Procs = {p1}
PROPERTY OwnersUntouchable
