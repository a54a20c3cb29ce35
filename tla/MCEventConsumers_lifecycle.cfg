SPECIFICATION Spec
CONSTANTS
    MaxStops = 1
    MaxMessages = 2
    MaxDeliver = 2
    Others = {other}
    other = other
CONSTRAINT OthersHoldOne
INVARIANTS
    TypeOK
    SettledMeansDone
    CountedOncePerDelivery
    WorkersKeepTheirResources
PROPERTIES
    ReplicaKeepsItsOrder
    EventsSettle
    SignalledProcessEnds
CHECK_DEADLOCK FALSE
