\* Only the gateway fails, or its answers are lost.
SPECIFICATION FairSpec
\* When every payment is settled the service idles.
CHECK_DEADLOCK FALSE
CONSTANTS
    None = None
    Keys = {k1, k2}
    Handlers = {h1, h2}
    Attempts = 3
    MaxRefunds = 4
    CheckStatus <- DocumentedStatus
    Faults = {"gateway", "lost"}
PROPERTIES PaymentsSettle
