CONSTANTS
    t1 = t1
    t2 = t2
    Tasks = {t1, t2}
    Nobody = Nobody
    Generating = {t1}
    FullProgress = 1
    MetaKeys = {}
    Keep = Keep

SPECIFICATION StoppingSpec
INVARIANTS ShutdownInv NoUseAfterClose
PROPERTIES ShutdownEnds
CHECK_DEADLOCK FALSE
