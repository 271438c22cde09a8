SPECIFICATION Spec
CONSTANTS
    MaxUsers = 3
    Invites = {i1}
    NoInvite = NoInvite
    Procs = {p1, p2}
SYMMETRY ProcSymmetry
INVARIANT InviteSingleUse
