SPECIFICATION FairExecSpec
CONSTANTS
    JobCount = 3
    CoreIds <- MCCores
    Workloads <- MCWorkloads
    Experiments <- MCExperiments
    Procs = {1, 2, 3}
    Wild = {1}
    Descendants = {"quiet", "holding", "away"}
    ReadersFail = TRUE
INVARIANTS ExecutionInv PlanHolds NothingOutlivesIt
PROPERTIES ExecutionEnds
CHECK_DEADLOCK FALSE
