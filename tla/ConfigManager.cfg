SPECIFICATION Spec
CONSTANTS
    None = None
    NoEntry = NoEntry
    EntryOf <- MCEntryOf
    IndexOf <- MCIndexOf
    GoodTargets <- MCTargets
    GoodRoles = {"ops", "dev", "admin"}
    First <- MCFirst
    Modes = {"mutable", "ephemeral", "immutable"}
    RoleNames = {"ops", "dev", "admin", "any"}
    NewMappings <- MCNewMappings
    NewServices <- MCNewServices
    MaxKeep = 2
    MaxSaves = 3
INVARIANTS
    ConfigLoads
    MemoryIsDisk
    RouterIsConfig
PROPERTY
    BackedUp
    RolesFollowId
CHECK_DEADLOCK FALSE
