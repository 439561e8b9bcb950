----------------------------- MODULE MCReminders -----------------------------
(* The instance of Reminders for TLC: one reminder that has to be           *)
(* republished and one that has not                                         *)
EXTENDS Reminders, TLC

CONSTANTS far, near

Due    == far :> 5 @@ near :> 3
Delays == 0 :> 1
=============================================================================
