SPECIFICATION FairSpec
CONSTANTS
    s1 = s1  s2 = s2  s3 = s3  b1 = b1  b2 = b2
    Sockets = {s1, s2, s3}
    Boards = {b1, b2}
    None = None
    Keyed = {s3}
    SignedIn = {s1, s2}
    QueueCap = 2
    Scenes <- MCScenes
    Options = {1, 2}
    Durations = {2}
    MaxDuration = 2
CHECK_DEADLOCK FALSE
INVARIANTS
    NothingOutlivesStay BallotsCounted
PROPERTIES
    StaysLawful FollowStands LocksHold RoomsSettle
