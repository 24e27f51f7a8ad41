CONSTANTS
    Runs = {r1}
    Users = {owner, guest}
    None = none
    Contexts = {c1}
    Requests = {p1, p2}
    Owner = owner
    Ttls = {1}
    MaxHorizon = 2
    MaxTime = 4
    MaxGen = 2
SPECIFICATION FairSpec
INVARIANTS TypeOK WithinHorizon OvertakenCallsHarmless
PROPERTIES KeepsPromise GrantEnds
