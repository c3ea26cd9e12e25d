SPECIFICATION Spec
CONSTANTS
    ReloadCert = "rc"
    AdminRole = "admin"
    Nobody = Nobody
    Serials = {"rc", "s1"}
    Ports = {1}
    Configs = {"base"}
    Parses = {"base"}
    Admins = {a1, a2}
    Handlers = {h1, h2}
    Requests = {}
    MaxVer = 3
    MaxFile = 1
    MaxDay = 0
    Faults = {}
    Purposes <- MCPurposes
    ExpiryDay <- MCExpiryDay
    Listens <- MCListensOf
    RolesAt <- MCRolesAt
    IPBind <- MCIPBind
INVARIANT
    AckedVisible
CHECK_DEADLOCK FALSE
