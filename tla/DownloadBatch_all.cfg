CONSTANTS
    j1 = j1
    j2 = j2
    Job = {j1, j2}
    Bodies = {j1}
    Condition <- SameResult
    QueryCnt = 2
    MaxSeq = 2
    Outside = 2
SPECIFICATION FairSpec
INVARIANTS FilesAreWhole SettledWhenDone SeenStopIsKept TwiceOnlyIfUnseen
PROPERTIES EveryExportSettles
CHECK_DEADLOCK FALSE
