SPECIFICATION RequestSpec
CONSTANTS
    NoEntry = NoEntry
    EntryOf <- MCEntryOf
    IndexOf <- MCIndexOf
    GoodTargets <- MCTargets
    GoodRoles = {"ops", "dev", "admin"}
    Setups <- MCSetups
    Segments = {"", ".", "..", "a", "b"}
    Holders = {{"ops"}, {}}
    MaxPath = 4
INVARIANTS
    InsideTarget
    CleanIsCanonical
    AccessIsByService
    InfoUsable
CHECK_DEADLOCK FALSE
