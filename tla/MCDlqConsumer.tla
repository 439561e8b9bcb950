----------------------------- MODULE MCDlqConsumer -----------------------------
(* Instances of DlqConsumer for TLC *)
EXTENDS DlqConsumer, TLC

ReplicaSymmetry == Permutations(Replicas)
=============================================================================
