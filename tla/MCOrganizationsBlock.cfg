CONSTANTS
    Orgs = {o1}
    Users = {u1}
    Patches = {p1, p2}
    Grants = {g1}
    Requests = {r1}
    Terms = {1}
    DefaultTerms = 1
    MaxPatches = 2
    MaxMembers = 1
    MaxTxs = 1
SYMMETRY Symmetry
CHECK_DEADLOCK FALSE
SPECIFICATION Spec
INVARIANT BlockHolds
