\* Three cached keys compete for two entries; a fourth one is not cached.
CONSTANTS
    Requests = {r1, r2}
    Keys = {k1, k2, k3, k4}
    Streaming = {k4}
    MaxEntries = 2
    TTL = 2
    Shared = TRUE
    MaxItems = 2
    MaxTime = 3
SYMMETRY Interchangeable
SPECIFICATION Spec
INVARIANTS TypeOK CacheBounded NewestCached
PROPERTIES AnswersFit EvictsLeastRecent
CHECK_DEADLOCK FALSE
