SPECIFICATION FairScanSpec
CONSTANTS
    t1 = t1
    t2 = t2
    t3 = t3
    Tasks = {t1, t2, t3}
    Incremental = {t1, t2}
    Faults = {"copy", "rename", "sweep", "drop", "crash"}
INVARIANTS ScanInv ScanSeesItsTree
PROPERTIES ScansEnd
CHECK_DEADLOCK FALSE
