SPECIFICATION Spec
CONSTANTS
    F = F
    G = G
    g = g
    i = i
    n = n
    Ids = {F, G, g, i, n}
    Frames = {F, G, g}
    Contexts = {F, G}
    Instructions = {i}
    Words = {"do", "a", "b", "c"}
    None = None
    People = {"h"}
    MaxBeside = 2
CHECK_DEADLOCK FALSE
CONSTANTS Situations <- Starts
INVARIANTS MountSound MarkedWasReviewed GuestWordsStayOut

