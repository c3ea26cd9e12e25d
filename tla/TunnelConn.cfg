SPECIFICATION FairSpec
CONSTANTS
    Conns = {c}
    Idle = 3
INVARIANTS
    IdleBound
    NothingLeft
PROPERTIES
    EndPassedOn
    ConnEnds
CHECK_DEADLOCK FALSE
