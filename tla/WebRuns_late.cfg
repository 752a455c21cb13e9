CONSTANTS
    Messages = {m1, m2, m3}
    Sessions = {s1, s2}
    None = None
    Capacity = 2
    DrainMax = 1
    MaxIterations = 2
    Workers = 2
    MaxInterrupts = 1
    SerialClients = TRUE
SPECIFICATION Spec
INVARIANT LateArrivalsArePersisted
