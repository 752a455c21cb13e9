------------------------------ MODULE MCWebRuns ------------------------------
(* Small instances of WebRuns for TLC. *)
EXTENDS WebRuns, TLC

Symmetry == Permutations(Messages) \cup Permutations(Sessions)
=============================================================================
