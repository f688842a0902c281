SPECIFICATION FairCodeGenSpec
CONSTANTS
    t1 = t1
    Keep = Keep
    Tasks = {t1}
    FullProgress = 2
    MetaKeys = {"cleanup_pending", "naturalcc_run_id", "naturalcc_terminal_confirmed"}
    Faults = {"delete", "startup"}
    MaxTries = 2
    MaxCrashes = 2
INVARIANTS CodeGenInv RunKeepsItsFiles LeftoversAccounted
PROPERTY TasksConverge
CHECK_DEADLOCK FALSE
