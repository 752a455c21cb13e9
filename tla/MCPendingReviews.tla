--------------------------- MODULE MCPendingReviews ---------------------------
(* Small instances of PendingReviews for TLC.  Requests, sessions and      *)
(* clicks are interchangeable; the liveness runs do without symmetry.      *)
EXTENDS PendingReviews, TLC

Symmetry ==
    Permutations(Requests) \cup Permutations(Sessions) \cup Permutations(Clicks)
=============================================================================
