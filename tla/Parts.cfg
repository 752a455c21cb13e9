CONSTANTS
    Queries = {q1, q2}
    Reloads = {l1}
    Sides = {}
    None = None
    Interval = 2
    MaxMessages = 5
    MaxRestarts = 1
    Failures = TRUE
    Alone = TRUE
    MaxId = 6
    MaxCalls = 2
    KeepMask = 2
    KeepHarder = 1
    Requests = {r1, r2}
    Servers = {s1, s2}
    NoClient = NoClient
    Killers = {k1, k2}
    Clients = {c1, c2}
    NoSocket = NoSocket
    Events = 2
    Titles = {ta, tb}
    Blank = Blank
    MaxTodos = 2
SPECIFICATION PartsSpec
INVARIANTS LagBounded SentIsAnswered OrphansOnlyFromCompaction TurnKeepsContext
 TablesTellTruth StatusTellsExit FinalIsAnnounced StayersGetIt InOrderUnlessLate
 WriteIsExact
PROPERTIES ImplementsTranscript EventuallyPersisted CallersReturn ExitIsNoticed
CHECK_DEADLOCK FALSE
