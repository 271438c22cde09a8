SPECIFICATION SharedSpec
CONSTANTS
    People = {u1, u2}
    Entries = {e1}
    Categories = {c1}
    Null = Null
    Threads = {p1, p2}
SYMMETRY Symmetry
PROPERTY MembersAddPermitted
