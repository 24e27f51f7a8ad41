CONSTANTS
    Papers = {paper}
    Pictures = {picture}
    paper = paper
    picture = picture
    Size <- Sizes
    Owners = {owner}
    Cards = {card}
    Uploads = {u1, u2}
    Older = u0
    Sweep = sweep
    Null = none
    MaxPerUser = 2
SPECIFICATION StoreFairSpec
CHECK_DEADLOCK FALSE
INVARIANTS StoreSound
PROPERTIES UploadsReadable StoreSettles
