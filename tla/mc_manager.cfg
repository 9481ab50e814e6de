SPECIFICATION Spec
CONSTANTS
    m1 = m1
    m2 = m2
    h1 = h1
    h2 = h2
    Mux = {m1, m2}
    Handler = {h1, h2}
    MuxOf <- TwoMuxes
    Pool = {p1}
    Backend = {b1, b2}
    Port = {n1}
    Heartbeat_miss_tolerance = 0
    Deletable = {p1}
    Faults = {"kill", "keyval"}
    MaxFault = 1
    Timely = FALSE
    Nil = Nil
    SUSPENDED = SUSPENDED
SYMMETRY Symmetry
INVARIANTS TypeOK MutexHolderAtWork MutexGetsExpiry RecordGetsExpiry WithdrawnBeforeShutdown
PROPERTIES ImplementsDirectory
CHECK_DEADLOCK FALSE
