SPECIFICATION Spec
CONSTANTS
    Dialers = {c, d}
    Proxies = {p}
    CertTTL = 12
    Delay = 6
    DialTime = 5
    None = None
    MaxHandle = 3
    MaxSource = 2
SYMMETRY DialerSymmetry
INVARIANTS
    SourceCurrent
    OneOwner
    DialSafe
CHECK_DEADLOCK FALSE
