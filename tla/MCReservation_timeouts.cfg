\* The asynq timeouts under fairness: two drivers book the only spot one after
\* the other while handlers and the worker may die.
SPECIFICATION FairSpec
CONSTANTS
    d1 = d1
    d2 = d2
    k1 = k1
    k2 = k2
    s1 = s1
    car = car
    None = None
    Drivers = {d1, d2}
    VehicleTypes = {car}
    SpotType <- MCSpotType
    Spots = {s1}
    Keys = {k1, k2}
    Reservations = {r1, r2}
    Handlers = {h1}
    Workers = {w1}
    Requests <- ContendedRequests
PROPERTIES ScheduledTimeoutsWork
