SPECIFICATION Spec
CONSTANTS
    MaxUsers = 3
    Procs = {p1}
INVARIANT Revertible
