CONSTANTS
    Requests = {r1, r2}
    Sessions = {s1}
    Clicks = {c1, c2}
    None = None
    MaxRestarts = 0
    SerialRuns = TRUE
SYMMETRY Symmetry
SPECIFICATION Spec
INVARIANTS YesMeansYes FallbackOnlyWhenGone
