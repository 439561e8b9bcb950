---------------------------- MODULE MessageDelivery ----------------------------
(***************************************************************************)
(* What the retrying consumer promises about each published payload, with  *)
(* queues, tags, tokens and timers left out.  A payload is pending until   *)
(* it is handled, dead-lettered or discarded, and each of these is final.  *)
(* It may be lost only once a connection or a process has failed.          *)
(***************************************************************************)
CONSTANT Msgs

VARIABLES status, faulty

vars == <<status, faulty>>

Final == {"done", "dead", "discarded"}

Status == {"new", "pending", "lost"} \cup Final

TypeOK ==
    /\ status \in [Msgs -> Status]
    /\ faulty \in BOOLEAN

Init ==
    /\ status = [m \in Msgs |-> "new"]
    /\ faulty = FALSE

(* The edges a payload may take in a step after which "f" says whether *)
(* anything has failed                                                 *)
Moves(f) ==
    {<<"new", "pending">>}
      \cup {<<"pending", s>> : s \in Final}
      \cup (IF f THEN {<<"pending", "lost">>} ELSE {})

(* One process step may settle several payloads: a crash does, and so does *)
(* an ack that reaches another delivery than its own.                      *)
Progress ==
    /\ status' \in [Msgs -> Status]
    /\ \A m \in Msgs : status'[m] # status[m] => <<status[m], status'[m]>> \in Moves(faulty')

Next ==
    /\ faulty' \in {faulty, TRUE}
    /\ Progress

Spec == Init /\ [][Next]_vars

(* Every payload that was accepted stops being pending. *)
EventuallySettled ==
    \A m \in Msgs : (status[m] = "pending") ~> (status[m] # "pending")
=============================================================================
