---------------------------- MODULE MCSessionStore ----------------------------
(* Small instances of SessionStore for TLC.  Tasks of one kind are         *)
(* interchangeable; the liveness and refinement runs do without symmetry.  *)
EXTENDS SessionStore, TLC

Symmetry == Permutations(Queries) \cup Permutations(Reloads) \cup Permutations(Sides)
=============================================================================
