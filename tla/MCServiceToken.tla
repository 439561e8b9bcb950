---------------------------- MODULE MCServiceToken ----------------------------
(* The instance of ServiceToken for TLC: a message of the CSMS that is      *)
(* fanned out to the mobile service and to this one                         *)
EXTENDS ServiceToken, TLC

CONSTANTS ocpp, mobile, noti, o1, m1, n1, t1

PodService == o1 :> ocpp @@ m1 :> mobile @@ n1 :> noti
Fanout     == {<<t1, mobile, 1>>, <<t1, noti, 1>>, <<t1, noti, 2>>}
ServiceKey == ocpp :> "ocpp" @@ mobile :> "mobile" @@ noti :> "noti"

Entry(s, k) == [iss |-> s, key |-> k]
Env(path, value, dir, issuers, json) ==
    [path |-> path, value |-> value, dir |-> dir, issuers |-> issuers, json |-> json]

Files  == Env("ok", FALSE, TRUE, <<Entry(ocpp, NoKey), Entry(ocpp, "ocpp")>>, <<>>)
Values == Env("unset", TRUE, FALSE, <<>>, <<Entry(ocpp, "ocpp"), Entry(mobile, NoKey)>>)
Cut    == Env("unset", TRUE, FALSE, <<>>, <<Entry(mobile, NoKey), Entry(ocpp, "ocpp")>>)
Broken == Env("unreadable", TRUE, TRUE, <<Entry(ocpp, NoKey)>>, <<Entry(ocpp, "ocpp")>>)

(* Keys from files or from values; a pod with a broken list; no signing key *)
Environments ==
    { [p \in Pods |-> Files],
      [p \in Pods |-> IF p = n1 THEN Cut ELSE Values],
      [p \in Pods |-> IF p = n1 THEN Broken ELSE Files],
      [p \in Pods |-> IF p = o1 THEN Broken ELSE Files] }
=============================================================================
