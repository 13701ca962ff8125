CONSTANTS
    Orgs = {o1, o2}
    Users = {u1, u2}
    Patches = {p1, p2}
    Grants = {g1, g2}
    Requests = {r1}
    Terms = {1, 2}
    DefaultTerms = 1
    MaxPatches = 2
    MaxMembers = 2
    MaxTxs = 3
SYMMETRY Symmetry
CONSTRAINT PatchesOrGrants
CHECK_DEADLOCK FALSE
SPECIFICATION Spec
INVARIANTS TypeOK ProgramOfType TenantIsolation
PROPERTIES ProgramEditsKept ClientsStayClients
