CONSTANTS
    a1 = a1
    c1 = c1
    c2 = c2
    Commands = {c1, c2}
    StartSets <- AnyStarts
    AssignmentOf <- SameAssignment
    Slots = {s1, s2}
    NoSlot = noslot
    NoCommand = nocommand
    AcceptDeadline = 1
    ResultDeadline = 1
    LongPoll = 1
    Stale = 1
    MaxTime = 2
    MaxEpoch = 2
    MaxCrashes = 1
SPECIFICATION Spec
SYMMETRY Symmetry
CHECK_DEADLOCK FALSE
INVARIANTS SessionSound AtMostOnce
PROPERTIES KeepsChannel
