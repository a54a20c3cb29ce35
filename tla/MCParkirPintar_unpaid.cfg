\* The payment gateway refuses charges.
SPECIFICATION SystemSpec
CONSTANTS
    d1 = d1
    k1 = k1
    s1 = s1
    car = car
    None = None
    Drivers = {d1}
    VehicleTypes = {car}
    SpotType <- MCSpotType
    Spots = {s1}
    Keys = {k1}
    Reservations = {r1}
    Handlers = {p1, p2}
    Workers = {p1, p2}
    Requests <- MCRequests
    BookingFee = 5
    SessionFees <- MCSessionFees
    Attempts = 1
    CheckStatus <- MigrationStatus
    Faults = {"gateway"}
CONSTRAINT OneGoroutinePerCaller
SYMMETRY IdSymmetry
INVARIANTS ConfirmedIsPaid
