\* Everything may fail.
SPECIFICATION FairSpec
CONSTANTS
    None = None
    availability = availability
    floormap = floormap
    Spots = {s1}
    Keys = {availability, floormap}
    KeysOf <- MCKeysOf
    Publishers = {p1, p2}
    Replicas = {c1, c2}
    Readers = {c1}
    CacheTTL = 1
    FillTime = 1
    MaxDeliver = 2
    MaxChanges = 2
    Faults <- Fault
INVARIANTS TypeOK AnswersAreRecent StaleAnswersAreDoomed NewestEventIsUnderWay
PROPERTIES CachesCatchUp CleanRowsCatchUp
