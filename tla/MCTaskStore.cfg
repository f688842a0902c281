CONSTANTS
    t1 = t1
    t2 = t2
    Tasks = {t1, t2}
    FullProgress = 1
    MetaKeys = {}
    Keep = Keep

SYMMETRY Symmetry
SPECIFICATION StoreSpec
INVARIANTS TypeOK StoreSafe
PROPERTIES RowsOnlyAdvance ImplementsLifecycle
