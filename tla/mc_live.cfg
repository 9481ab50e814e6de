SPECIFICATION FairSpec
CONSTANTS
    m1 = m1
    m2 = m2
    h1 = h1
    h2 = h2
    Mux = {m1}
    Handler = {h1, h2}
    MuxOf <- OneMux
    Pool = {p1, p2}
    Backend = {b1, b2}
    Port = {n1}
    Heartbeat_miss_tolerance = 0
    Deletable = {}
    Faults = {}
    MaxFault = 0
    Timely = TRUE
    Nil = Nil
    SUSPENDED = SUSPENDED
PROPERTIES EveryRequestAnswered IdleBackendStopped SilentPortWithdrawn
CHECK_DEADLOCK FALSE
