SPECIFICATION FairSpec
CONSTANTS
    a = a
    b = b
    u1 = u1
    u2 = u2
    Web = {w1}
    Celery = {k1}
    Credentials = {a, b}
    Users = {u1, u2}
    None = None
    Lists <- AnyList
    Listings <- Common
    PageLimit = 2
    MaxPages = 2
    MaxRows = 3
    MaxEvents = 1
INVARIANTS
    TypeOK
    UndisturbedSyncIsExact
    RunningRowHasSync
PROPERTIES
    ListedUsersStay
    EveryRowEnds
