CONSTANTS
    Runs = {d1, other}
    Users = {alice}
    None = none
    Dispatches = {d1}
    Other = other
    NContexts = 1
    Initiator = alice
    StartDeadline = 1
    LivenessWindow = 1
    Budgets = {2}
    Reports = {"working", "done"}
    Adapter = "daemon"
    DbFaults = FALSE
    MaxTime = 3
    MaxGen = 3
    MaxCrashes = 1
SPECIFICATION FairSpec
INVARIANTS
    ReceiptSound AtMostOneStart OutcomesTruthful CommittedInTime
PROPERTIES DecidedIsFinal ReleasesOwnOnly Settles
