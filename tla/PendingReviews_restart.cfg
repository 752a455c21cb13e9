CONSTANTS
    Requests = {r1}
    Sessions = {s1}
    Clicks = {c1, c2}
    None = None
    MaxRestarts = 1
    SerialRuns = FALSE
SPECIFICATION FairThreads
INVARIANTS EntriesHaveWaiters OneClosesTheRow
PROPERTIES InterruptFrees EveryWaitEnds ImplementsQuestions
