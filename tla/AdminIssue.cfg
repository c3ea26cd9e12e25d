SPECIFICATION Spec
CONSTANTS
    None = None
    AdminRole = "admin"
    Requests = {r1, r2, r3}
    Serials = {s1, s2, s3}
    Names = {n1, n2}
    Roles = {"ops"}
    MaxSaves = 2
SYMMETRY Symmetry
INVARIANTS
    UniqueName
    AnsweredKept
    NoGhost
PROPERTY
    RolesRefine
CHECK_DEADLOCK FALSE
