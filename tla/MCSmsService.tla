----------------------------- MODULE MCSmsService -----------------------------
(* Instances of SmsService for TLC *)
EXTENDS SmsService, TLC

Symmetry == Permutations(Sends) \cup Permutations(Pods)
=============================================================================
