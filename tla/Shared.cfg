CONSTANTS
    Queries = {q1, q2}
    Reloads = {l1}
    Sides = {d1}
    None = None
    Interval = 1
    MaxMessages = 2
    MaxRestarts = 1
    Failures = TRUE
    Alone = FALSE
    Agents = {a1, a2}
    Nobody = Nobody
    Passages = {p1, p2}
    MaxWrites = 2
    BackupBeforeEdit = TRUE
    Slots = {"model", "model_thinking"}
    Models = {ma, mb}
    NoModel = NoModel
    Writings = {xa, xb}
    MaxShown = 3
    MaxFlight = 2
    Fetches = {f1, f2}
    MaxLosses = 1
SPECIFICATION SharedSpec
SYMMETRY Symmetry
INVARIANTS RowsInOrderWithoutSides OnlyRacedIsLost OnlySlippedIsReplaced TerminalPeelsOff ViewIsWhole
CHECK_DEADLOCK FALSE
