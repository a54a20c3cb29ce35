\* Every call of the gRPC interface.
SPECIFICATION SessionSpec
\* When every record is invoiced the service idles.
CHECK_DEADLOCK FALSE
CONSTANTS
    Reservations = {r1}
    Handlers = {h1, h2, h3}
    OvernightCalls = TRUE
    None = None
    BookingFees = {5000, 0}
    SessionFees <- MCSessionFees
    Instants <- MCInstants
    OvernightPerNight = 20000
SYMMETRY IdSymmetry
INVARIANTS TypeOK IInv FeesFollowTariff
PROPERTIES NoLostUpdate LifecycleFollowed InvoiceIsFinal
