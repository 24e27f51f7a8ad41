CONSTANTS
    Ids = {e1, e2}
    Frame = e1
    InFrame = {e1, e2}
    Assets = {a1, a2}
    Shapes = {shape}
    Files = {f1}
    Writers = {owner, bob}
    Owner = owner
    owner = owner
    bob = bob
    Makes <- Roles
    None = none
    MaxSnaps = 1
    MaxVersion = 3
    MaxAside = 1
SPECIFICATION Spec
CHECK_DEADLOCK FALSE
SYMMETRY Symmetry
INVARIANTS NothingOverwritten
