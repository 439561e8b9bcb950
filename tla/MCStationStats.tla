---------------------------- MODULE MCStationStats ----------------------------
(* Instances of StationStats for TLC *)
EXTENDS StationStats, TLC

Symmetry == Permutations(Ids)
=============================================================================
