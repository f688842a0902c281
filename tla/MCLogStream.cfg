SPECIFICATION FairLogSpec
CONSTANTS
    f1 = f1
    f2 = f2
    Followers = {f1, f2}
    MaxLines = 2
    MaxEvents = 5
    Overflow = Overflow
INVARIANT LogInv
PROPERTIES OverflowIsTold
CHECK_DEADLOCK FALSE
