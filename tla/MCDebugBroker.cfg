SPECIFICATION FairDebugSpec
CONSTANTS
    run = run
    wait = wait
    close = close
    Clients = {run, wait, close}
    Kind <- KindOf
    Timed = {run, close}
    Faults = {"output"}
    None = None
    Marker = Marker
INVARIANTS DebugInv
PROPERTIES SessionEnds
CHECK_DEADLOCK FALSE
