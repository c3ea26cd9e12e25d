SPECIFICATION FairSpec
CONSTANTS
    Loggers = {"events", "std"}
    Std = "std"
    Nobody = Nobody
    App = App
    Missing = Missing
    MaxFile = 3
    MaxSize = 2
    SizeOf <- MCSizeOf
    MaxLines <- MCMaxLines
    MaxCount = 40
    MaxCrash = 1
    FaultSets <- MCFaultSets
INVARIANTS
    HistoryFull
    SizeBound
PROPERTIES
    LogRefines
    WriteEnds
CHECK_DEADLOCK FALSE
