SPECIFICATION Spec
CONSTANTS
    a = a
    b = b
    Editors = {a, b}
    Ids = {"x", "y"}
    MaxMishaps = 0
    MaxEdits = 3
    None = None
CHECK_DEADLOCK FALSE
CONSTANTS Grips <- NoGrip  Plan <- Drafts  Signature <- Distinct  Unlucky <- Second
PROPERTIES StoredWorkKept
