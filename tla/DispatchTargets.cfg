CONSTANTS
    Runs = {d1, other}
    Users = {alice}
    None = none
    Dispatches = {d1}
    Other = other
    NContexts = 2
    Initiator = alice
    StartDeadline = 1
    LivenessWindow = 1
    Budgets = {1}
    Reports = {"working"}
    Adapter = "herdr"
    DbFaults = TRUE
    MaxTime = 2
    MaxGen = 3
    MaxCrashes = 1
SPECIFICATION Spec
INVARIANT LeasesGivenBack
