SPECIFICATION Spec
CONSTANTS
    ReloadCert = "rc"
    AdminRole = "admin"
    Nobody = Nobody
    Serials = {"rc", "s1"}
    Ports = {1}
    Configs = {"base"}
    Parses = {"base"}
    Admins = {a1}
    Handlers = {h1, h2}
    Requests = {r1}
    MaxVer = 3
    MaxFile = 1
    MaxDay = 1
    Faults = {"crash", "timeout", "db"}
    Purposes <- MCPurposes
    ExpiryDay <- MCExpiryDay
    Listens <- MCListensOf
    RolesAt <- MCRolesAt
    IPBind <- MCIPBind
SYMMETRY Symmetry
INVARIANTS
    TypeOK
    FloorHolds
    NoStaleAllow
PROPERTY
    DbRefines
CHECK_DEADLOCK FALSE
