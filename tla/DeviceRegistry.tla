---------------------------- MODULE DeviceRegistry ----------------------------
(***************************************************************************)
(* The registry of FCM tokens: the rows of user_fcm_devices                *)
(* (device.service.ts) and the subscriptions to the topic all_users        *)
(* (fcm.service.ts), as the device events of notification.router.ts, the   *)
(* routes of device.controller.ts and the stale tokens of the notification *)
(* pipeline change them.                                                   *)
(*                                                                         *)
(* A device event is a message of the notifications queue.  Handlers       *)
(* overtake each other, overlap on the pods and within one, and run again, *)
(* later, when they throw.  FCM is external; the router's two calls on a   *)
(* token have no transaction around them.                                  *)
(***************************************************************************)
EXTENDS Integers

CONSTANTS
    Tokens,
    Users,
    NoUser,      \* no row yet
    MaxEvents,   \* bound: device events
    MaxRuns,     \* runs of one event: the first and maxRetries retries
    MaxFaults,   \* bound: database errors
    MaxCrashes,  \* bound: pod crashes
    MaxRest      \* bound: REST calls and stale reports

ASSUME RegistryAssumption ==
    /\ NoUser \notin Users
    /\ MaxRuns \in Nat \ {0}
    /\ MaxEvents \in Nat /\ MaxFaults \in Nat /\ MaxCrashes \in Nat /\ MaxRest \in Nat

VARIABLES
    events,      \* the device events, in the order of their publication
    pc,          \* pc[e]: the await the handler of event e is at
    runs,        \* runs[e]: times its handler was started
    row,         \* row[t]: user_fcm_devices
    subscribed,  \* tokens FCM has subscribed to all_users
    faults, crashes, rest,
    refused,     \* tokens of which FCM failed a call
    restOnly,    \* tokens a REST route has written
    staled,      \* tokens the pipeline has marked stale
    disordered   \* tokens with an event that overlapped, overtook or was retried

work    == <<events, pc, runs>>
stores  == <<row, subscribed>>
bounds  == <<faults, crashes, rest>>
ghosts  == <<refused, restOnly, staled, disordered>>
vars    == <<work, stores, bounds, ghosts>>

Ids == 1 .. MaxEvents

(* A device.unregistered names the token only. *)
Events ==
    [kind : {"device.registered"}, token : Tokens, user : Users]
      \cup [kind : {"device.unregistered"}, token : Tokens, user : {NoUser}]

Rows == [user : Users \cup {NoUser}, active : BOOLEAN]

(* first, second: the handler is at its first or second call *)
Labels == {"queued", "first", "second", "threw", "done", "dead"}

TypeOK ==
    /\ events \in [Ids -> Events]
    /\ pc \in [Ids -> Labels]
    /\ runs \in [Ids -> 0 .. MaxRuns]
    /\ row \in [Tokens -> Rows]
    /\ subscribed \in SUBSET Tokens
    /\ faults \in Nat /\ crashes \in Nat /\ rest \in Nat
    /\ refused \in SUBSET Tokens /\ restOnly \in SUBSET Tokens
    /\ staled \in SUBSET Tokens /\ disordered \in SUBSET Tokens

Init ==
    /\ events \in [Ids -> Events]
    /\ pc = [e \in Ids |-> "queued"]
    /\ runs = [e \in Ids |-> 0]
    /\ row = [t \in Tokens |-> [user |-> NoUser, active |-> FALSE]]
    /\ subscribed = {}
    /\ faults = 0 /\ crashes = 0 /\ rest = 0
    /\ refused = {} /\ restOnly = {} /\ staled = {} /\ disordered = {}

-----------------------------------------------------------------------------
Registers(e) == events[e].kind = "device.registered"

Of(t) == {e \in Ids : events[e].token = t}

Begun(e) == pc[e] \in {"first", "second", "threw"}

Go(e, label) == pc' = [pc EXCEPT ![e] = label]

(* handleNotificationMessage is called, for the first time or for a retry; *)
(* the awaits of the token check may put a later event before an earlier.  *)
Start(e) ==
    LET t == events[e].token
        overtakes == \E d \in Of(t) : d < e /\ pc[d] = "queued"
        overlaps  == \E d \in Of(t) \ {e} : Begun(d)
    IN
    /\ pc[e] \in {"queued", "threw"}
    /\ Go(e, "first")
    /\ runs' = [runs EXCEPT ![e] = @ + 1]
    /\ disordered' = IF pc[e] = "threw" \/ overtakes \/ overlaps
                     THEN disordered \cup {t} ELSE disordered
    /\ UNCHANGED <<events, stores, bounds, refused, restOnly, staled>>

(* Mutant of Calls: both handlers write the row first *)
CallsRowFirst(e) == <<"row", "topic">>

(* The awaits of the handler: registering writes the row first, *)
(* unregistering leaves the topic first.                        *)
Calls(e) == IF Registers(e) THEN <<"row", "topic">> ELSE <<"topic", "row">>

At(e, call) ==
    \/ pc[e] = "first" /\ Calls(e)[1] = call
    \/ pc[e] = "second" /\ Calls(e)[2] = call

Proceed(e) == Go(e, IF pc[e] = "first" THEN "second" ELSE "done")

(* Mutant of Claimed: the update leaves isActive as it is *)
ClaimedAsItWas(t, u) ==
    [row EXCEPT ![t] = [user |-> u, active |-> @.user = NoUser \/ @.active]]

(* registerToken: upsert, isActive in create and in update *)
Claimed(t, u) == [row EXCEPT ![t] = [user |-> u, active |-> TRUE]]

(* unregisterToken, markTokensStale: updateMany, isActive = false *)
Deactivated(t) == [row EXCEPT ![t].active = FALSE]

RowCall(e) ==
    /\ At(e, "row")
    /\ row' = IF Registers(e) THEN Claimed(events[e].token, events[e].user)
              ELSE Deactivated(events[e].token)
    /\ Proceed(e)
    /\ UNCHANGED <<events, runs, subscribed, bounds, ghosts>>

(* subscribeToTopics and unsubscribeFromTopics swallow FCM's errors; a call *)
(* that failed may have been carried out all the same.                      *)
TopicCall(e) ==
    LET t     == events[e].token
        after == IF Registers(e) THEN subscribed \cup {t} ELSE subscribed \ {t}
    IN
    /\ At(e, "topic")
    /\ \/ subscribed' = after /\ UNCHANGED refused
       \/ subscribed' \in {subscribed, after} /\ refused' = refused \cup {t}
    /\ Proceed(e)
    /\ UNCHANGED <<events, runs, row, bounds, restOnly, staled, disordered>>

(* Mutant of RetriesLeft: one run too many *)
RetriesLeftLate(e) == runs[e] <= MaxRuns

RetriesLeft(e) == runs[e] < MaxRuns

(* The database rejects: the handler throws and is run again, or its event *)
(* is dead-lettered.                                                       *)
RowCallThrows(e) ==
    /\ At(e, "row")
    /\ faults < MaxFaults
    /\ faults' = faults + 1
    /\ Go(e, IF RetriesLeft(e) THEN "threw" ELSE "dead")
    /\ UNCHANGED <<events, runs, stores, crashes, rest, ghosts>>

(* A pod ends: the redelivery of an event that had begun is refused as a   *)
(* replay, and a retry that waited in its timer is gone.                   *)
Crash(es) ==
    /\ es # {} /\ \A e \in es : Begun(e)
    /\ crashes < MaxCrashes
    /\ crashes' = crashes + 1
    /\ pc' = [e \in Ids |-> IF e \in es THEN "dead" ELSE pc[e]]
    /\ UNCHANGED <<events, runs, stores, faults, rest, ghosts>>

(* POST v1/devices: the row only *)
RestRegister(t, u) ==
    /\ rest < MaxRest /\ rest' = rest + 1
    /\ row' = Claimed(t, u)
    /\ restOnly' = restOnly \cup {t}
    /\ UNCHANGED <<work, subscribed, faults, crashes, refused, staled, disordered>>

(* DELETE v1/devices: the row only *)
RestUnregister(t) ==
    /\ rest < MaxRest /\ rest' = rest + 1
    /\ row' = Deactivated(t)
    /\ restOnly' = restOnly \cup {t}
    /\ UNCHANGED <<work, subscribed, faults, crashes, refused, staled, disordered>>

(* markTokensStale, after FCM has reported the token, which the pipeline   *)
(* may have read from the registry long before                             *)
MarkStale(t) ==
    /\ rest < MaxRest /\ rest' = rest + 1
    /\ row' = Deactivated(t)
    /\ staled' = staled \cup {t}
    /\ UNCHANGED <<work, subscribed, faults, crashes, refused, restOnly, disordered>>

Handle(e) == Start(e) \/ RowCall(e) \/ TopicCall(e) \/ RowCallThrows(e)

Next ==
    \/ \E e \in Ids : Handle(e)
    \/ \E es \in SUBSET Ids : Crash(es)
    \/ \E t \in Tokens : (\E u \in Users : RestRegister(t, u)) \/ RestUnregister(t) \/ MarkStale(t)

Spec == Init /\ [][Next]_vars

-----------------------------------------------------------------------------
(* Properties *)

(* Every event of t whose handler was started has been handled. *)
Quiet(t) == \A e \in Of(t) : pc[e] \in {"queued", "done"}

(* However handlers overlap, fail and are run again: once those of a token  *)
(* are done, the device is subscribed if its row is active.  The router     *)
(* registers row first and unregisters topic first, so the interleavings    *)
(* err on one side only.  REST registers without the topic.                 *)
ActiveIsSubscribed ==
    \A t \in Tokens \ (refused \cup restOnly) :
        Quiet(t) /\ row[t].active => t \in subscribed

Last(t) == CHOOSE e \in Of(t) : pc[e] = "done" /\ \A d \in Of(t) : pc[d] = "done" => d <= e

(* When the events of a token were handled one after the other, row and     *)
(* topic are what the last of them said: a device that logged out is        *)
(* inactive and unsubscribed, one that logged in again belongs to its       *)
(* latest user.                                                             *)
LastEventWins ==
    \A t \in Tokens \ (refused \cup restOnly \cup staled \cup disordered) :
        Quiet(t) /\ (\E e \in Of(t) : pc[e] = "done") =>
            /\ row[t].active = Registers(Last(t))
            /\ (t \in subscribed) = Registers(Last(t))
            /\ Registers(Last(t)) => row[t].user = events[Last(t)].user
=============================================================================
