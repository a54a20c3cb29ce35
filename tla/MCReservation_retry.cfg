\* One driver, two keys and two spots, concurrent calls and retries.
SPECIFICATION Spec
CONSTANTS
    d1 = d1
    d2 = d2
    k1 = k1
    k2 = k2
    s1 = s1
    car = car
    None = None
    Drivers = {d1}
    VehicleTypes = {car}
    SpotType <- MCSpotType
    Spots = {s1, s2}
    Keys = {k1, k2}
    Reservations = {r1, r2}
    Handlers = {h1, h2}
    Workers = {}
    Requests <- RetryRequests
SYMMETRY IdSymmetry
CONSTRAINT NothingScheduled
INVARIANTS OneActivePerDriver SameKeySameReservation
