SPECIFICATION Spec
CONSTANTS
    ReloadCert = "rc"
    AdminRole = "admin"
    Nobody = Nobody
    Serials = {"rc"}
    Ports = {1, 2}
    Configs = {"base", "moved", "strict", "broken"}
    Parses = {"base", "moved", "strict"}
    Admins = {a1}
    Handlers = {h1, h2}
    Requests = {}
    MaxVer = 1
    MaxFile = 3
    MaxDay = 0
    Faults = {"crash", "timeout", "edit", "bind", "file"}
    Purposes <- MCPurposes
    ExpiryDay <- MCExpiryDay
    Listens <- MCListensOf
    RolesAt <- MCRolesAt
    IPBind <- MCIPBind
INVARIANTS
    GateAgrees
    NoLeakedListener
    PortsFollowRouter
PROPERTIES
    MixedCanRetry
    CfgRefines
CHECK_DEADLOCK FALSE
