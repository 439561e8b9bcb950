--------------------------- MODULE MCDeviceRegistry ---------------------------
(* Instances of DeviceRegistry for TLC *)
EXTENDS DeviceRegistry, TLC

Symmetry == Permutations(Tokens) \cup Permutations(Users)
=============================================================================
