SPECIFICATION FairSessionSpec
CONSTANTS
    b1 = b1
    Breakpoints = {b1}
    GdbFaults = {"parse", "exit", "output"}
    MaxCommands = 4
    MaxTimeouts = 1
INVARIANTS SessionInv ViewAgrees
PROPERTIES CloseIsNotFailure CallsEnd
CHECK_DEADLOCK FALSE
