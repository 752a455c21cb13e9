SPECIFICATION Spec
CONSTANTS
    Queries = {q1}
    Reloads = {}
    Sides = {d1}
    None = None
    Interval = 2
    MaxMessages = 3
    MaxRestarts = 0
    Failures = FALSE
    Alone = FALSE
INVARIANT RowsInOrder
CHECK_DEADLOCK FALSE
