CONSTANTS
    t1 = t1
    t2 = t2
    Tasks = {t1, t2}
    Prepared = {t2}
    Repairs = {t2}
    Artifacts = {t1, t2}
    MaxWorkers = 1
    Faults = {"copy", "finalize", "cleanup"}
    MaxCrashes = 1
    FullProgress = 2
    MetaKeys = {}
    Keep = Keep
    NoFile = NoFile
    Files <- MCFiles
    Patterns <- MCPatterns
    Stems <- MCStems
    Fill <- MCFill
    SourceFiles <- MCSources
    ObjectFiles <- MCObjects
    LinkedFiles <- MCLinked
    Makefiles <- MCMakefiles
    Scans <- MCScans

SPECIFICATION FairProcessSpec
INVARIANTS BuildsOnRepaired ProcessInv NoProcessOutlivesTask FilesAsOffered CancelReachesWorker
PROPERTIES EveryTaskCloses UsesTheStore
CHECK_DEADLOCK FALSE
