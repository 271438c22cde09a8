SPECIFICATION Spec
CONSTANTS
    MaxUsers = 2
    Procs = {p1, p2}
SYMMETRY ProcSymmetry
INVARIANT Manageable
