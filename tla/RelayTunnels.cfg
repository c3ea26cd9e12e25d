SPECIFICATION Spec
CONSTANTS
    None = None
    Hosts = {"lo", "eth", "any"}
    AnyHost = "any"
    Ports = {1, 2}
    Setups <- MCSetups
INVARIANTS
    SocketsOwned
    SuccessIsComplete
    KeepsListeners
