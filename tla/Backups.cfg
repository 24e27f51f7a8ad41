CONSTANTS
    Deployments <- Sites
    Blobs = {art}
    Retention = 1
    MaxFiles = 5
SPECIFICATION FairSpec
CHECK_DEADLOCK FALSE
INVARIANTS
    DirectorySound
PROPERTIES
    NewestSurvives Recovers
