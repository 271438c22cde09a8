SPECIFICATION Spec
CONSTANTS
    MaxUsers = 2
    Invites = {i1}
    NoInvite = NoInvite
    Procs = {p1, p2}
SYMMETRY ProcSymmetry
PROPERTY SwitchProducesOwner
