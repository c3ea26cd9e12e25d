SPECIFICATION Spec
CONSTANTS
    gw = gw  alt = alt  none = none  own = own  other = other  bad = bad
    store = store  dir = dir
    Servers = {none, gw, alt}
    NoServer = none
    CAs = {none, own, bad}
    GoodCAs = {none, own}
    NoCA = none
    Dirs = {store, dir}
    SystemStore = store
    Serves <- MCServes
    MaxWaiting = 1
    Ops = {o1, o2}
    Ids = {"a", "b"}
    Certs = {"x"}
    Patches <- MCPatches
    Files <- MCFiles
    Flags <- MCFlags
    MaxLen = 2
    MaxRequests = 3
    Faults = {"save", "tunnels", "crash"}
SYMMETRY Symmetry
INVARIANTS
    Agreement
    SourceFiltered
