SPECIFICATION KindInteractiveSpec
CONSTANTS
    p1 = p1
    p2 = p2
    Procs = {p1, p2}
    Wild = {p1, p2}
    Descendants = {"quiet", "holding", "away"}
    ReadersFail = TRUE
    TimeLimit = TRUE
INVARIANTS InteractiveInv EveryProcessIsWatched
PROPERTIES SessionsEnd
CHECK_DEADLOCK FALSE
