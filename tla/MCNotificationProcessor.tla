------------------------ MODULE MCNotificationProcessor ------------------------
(* The instance of NotificationProcessor for TLC: an event from the queue,   *)
(* the same event posted twice, once with skipDedup, and a push without a    *)
(* sessionId                                                                 *)
EXTENDS NotificationProcessor, TLC

CONSTANTS j1, j2, j3, j4, k1, t1

EventKey   == j1 :> k1 @@ j2 :> k1 @@ j3 :> k1 @@ j4 :> NoKey
EventGiven == j1 :> {} @@ j2 :> {t1} @@ j3 :> {t1} @@ j4 :> {t1}
=============================================================================
