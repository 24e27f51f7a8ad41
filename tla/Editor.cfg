SPECIFICATION FairSpec
CONSTANTS
    a = a
    b = b
    Editors = {a, b}
    Ids = {"x", "y"}
    MaxMishaps = 1
    MaxEdits = 2
    None = None
CHECK_DEADLOCK FALSE
CONSTANTS Grips <- Grip  Plan <- Drafts  Signature <- Signatures  Unlucky <- Second
INVARIANTS EditorSound BoardsAgree
PROPERTIES UpdatesNeverStepBack Settles
