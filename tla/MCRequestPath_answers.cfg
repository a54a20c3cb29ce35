SPECIFICATION Spec
CONSTANTS
    Requests = {r1, r2}
    FailureThreshold = 2
    Keys = {gateway}
    Burst = 2
    Rate = 1
    Interval = 1
INVARIANTS
    TypeOK
    RefusalsChangeNothing
    BucketsAreHonest
PROPERTIES
    HalfOpenIsLeft
