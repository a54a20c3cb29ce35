\* Concurrent charges and refunds, everything failing but the gateway's answers;
\* the table has the refunding status of the documentation, so that refunds
\* reach the gateway.
SPECIFICATION Spec
\* When every payment is settled the service idles.
CHECK_DEADLOCK FALSE
CONSTANTS
    None = None
    Keys = {k1, k2}
    Handlers = {h1, h2, h3}
    Attempts = 3
    MaxRefunds = 4
    CheckStatus <- DocumentedStatus
    Faults <- AnsweredFaults
SYMMETRY IdSymmetry
INVARIANTS TypeOK BooksAgree OneHandlerPerPayment
PROPERTIES LifecycleFollowed
