SPECIFICATION FairCoordSpec
CONSTANTS
    g1 = g1
    g2 = g2
    s1 = s1
    s2 = s2
    h1 = h1
    Groups = {g1, g2}
    Sessions = {s1, s2}
    Hits = {h1}
    Rules <- OneRule
    MaxCalls = 2
INVARIANTS CoordInv CommandsItsOwn
PROPERTIES OutcomesAreFinal OperationsEnd
CHECK_DEADLOCK FALSE
