SPECIFICATION FairSpec
CONSTANTS
    ReloadCert = "rc"
    AdminRole = "admin"
    Nobody = Nobody
    Serials = {"rc", "s1"}
    Ports = {1}
    Configs = {"base", "wide"}
    Parses = {"base", "wide"}
    Admins = {a1}
    Handlers = {h1, h2}
    Requests = {}
    MaxVer = 2
    MaxFile = 2
    MaxDay = 0
    Faults = {"timeout"}
    Purposes <- MCPurposes
    ExpiryDay <- MCExpiryDay
    Listens <- MCListensOf
    RolesAt <- MCRolesAt
    IPBind <- MCIPBind
PROPERTIES
    RevocationReaches
    ConfigReaches
CHECK_DEADLOCK FALSE
