CONSTANTS
    Messages = {m1, m2, m3}
    Sessions = {s1}
    None = None
    Capacity = 2
    DrainMax = 1
    MaxIterations = 2
    Workers = 1
    MaxInterrupts = 1
    SerialClients = TRUE
SPECIFICATION FairSpec
INVARIANTS OneRunPerSession DeliveryLedger
PROPERTIES EveryQuerySettles LoopAnswersItsQueue ImplementsQueryService
CHECK_DEADLOCK FALSE
