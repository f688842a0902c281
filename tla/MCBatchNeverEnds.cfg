SPECIFICATION FairBatchSpec
CONSTANTS
    p1 = p1
    Procs = {p1}
    Wild = {p1}
    Descendants = {"quiet", "holding"}
    ReadersFail = TRUE
PROPERTIES RunEnds
CHECK_DEADLOCK FALSE
