CONSTANTS
    Messages = {m1, m2, m3}
    Sessions = {s1, s2}
    None = None
    Capacity = 1
    DrainMax = 1
    MaxIterations = 1
    Workers = 2
    MaxInterrupts = 1
    SerialClients = FALSE
SPECIFICATION Spec
INVARIANT WritesStayInSession
