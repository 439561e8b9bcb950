------------------------------- MODULE RateLimit -------------------------------
(***************************************************************************)
(* RateLimitService of modules/rate-limit/rate-limit.service.ts, for one   *)
(* user: isAllowed() takes Date.now() once and runs two sliding-window     *)
(* scripts on Redis, for the key of the whole user and for the key of the  *)
(* notification type.  Each script is atomic; the two are not, and they    *)
(* run in either order, beside those of other requests.                    *)
(*                                                                         *)
(* The timestamp is the pod's.  When its script runs it may lag behind the *)
(* others by the latency of the call and the skew of the pods' clocks; Lag *)
(* bounds both together.                                                   *)
(*                                                                         *)
(* The specification is named Limiter..., so that one module can extend    *)
(* it together with NotificationProcessor, whose jobs it admits.           *)
(***************************************************************************)
EXTENDS Integers, FiniteSets

CONSTANTS
    Requests,  \* calls of isAllowed
    Types,     \* notification types
    Global,    \* the key rl:global:{userId}
    TypeOf,    \* TypeOf[i]
    Max,       \* Max[k]: LIMITS[k].max (LIMITS.global for a type without one)
    Window,    \* Window[k]: windowSec, in ticks
    Lag,       \* bound on latency and clock skew
    MaxTime    \* bound on the clock

WindowKeys == Types \cup {Global}

ASSUME RateAssumption ==
    /\ Global \notin Types
    /\ TypeOf \in [Requests -> Types]
    /\ Max \in [WindowKeys -> Nat]
    /\ Window \in [WindowKeys -> Nat]
    /\ Lag \in Nat /\ MaxTime \in Nat

VARIABLES
    clock,
    now,      \* now[i]: the Date.now() of request i, -1 before it asks
    todo,     \* todo[i]: windows request i has still to check
    granted,  \* granted[i]: windows that admitted request i
    zset,     \* zset[k]: the sorted set of k, entries [at, id]
    lastAdd,  \* lastAdd[k]: when the expiry of k was last renewed
    added     \* added[k]: every entry ever added to zset[k]

limiterVars == <<clock, now, todo, granted, zset, lastAdd, added>>

Entries == [at : Nat, id : Requests]

LimiterTypeOK ==
    /\ clock \in Nat
    /\ now \in [Requests -> Nat \cup {-1}]
    /\ todo \in [Requests -> SUBSET WindowKeys]
    /\ granted \in [Requests -> SUBSET WindowKeys]
    /\ zset \in [WindowKeys -> SUBSET Entries]
    /\ lastAdd \in [WindowKeys -> Nat]
    /\ added \in [WindowKeys -> SUBSET Entries]

LimiterInit ==
    /\ clock = 0
    /\ now = [i \in Requests |-> -1]
    /\ todo = [i \in Requests |-> {}]
    /\ granted = [i \in Requests |-> {}]
    /\ zset = [k \in WindowKeys |-> {}]
    /\ lastAdd = [k \in WindowKeys |-> 0]
    /\ added = [k \in WindowKeys |-> {}]

(* isAllowed(): take the timestamp, start both scripts. *)
Ask(i) ==
    /\ now[i] = -1
    /\ \E n \in 0 .. clock :
        /\ clock <= n + Lag
        /\ now' = [now EXCEPT ![i] = n]
    /\ todo' = [todo EXCEPT ![i] = {Global, TypeOf[i]}]
    /\ UNCHANGED <<clock, granted, zset, lastAdd, added>>

(* Mutant of Remaining: nothing is pruned *)
RemainingAll(k, n) == zset[k]

(* zremrangebyscore key 0 (now - window) leaves these. *)
Remaining(k, n) == {e \in zset[k] : e.at > n - Window[k]}

(* Mutant of HasRoom: off by one *)
HasRoomForOneMore(k, left) == Cardinality(left) <= Max[k]

(* if count < max *)
HasRoom(k, left) == Cardinality(left) < Max[k]

(* Mutant of Entry: scored with the start of the window *)
EntryAtStart(i, k) == [at |-> now[i] - Window[k], id |-> i]

(* The member zadd adds: the timestamp as score and as part of a unique id *)
Entry(i, k) == [at |-> now[i], id |-> i]

(* checkWindow: the script prunes, and adds an entry if there is room. *)
Check(i, k) ==
    LET left == Remaining(k, now[i])
        new  == Entry(i, k)
    IN
    /\ k \in todo[i]
    /\ clock <= now[i] + Lag
    /\ todo' = [todo EXCEPT ![i] = @ \ {k}]
    /\ IF HasRoom(k, left)
       THEN /\ zset' = [zset EXCEPT ![k] = left \cup {new}]
            /\ lastAdd' = [lastAdd EXCEPT ![k] = clock]
            /\ added' = [added EXCEPT ![k] = @ \cup {new}]
            /\ granted' = [granted EXCEPT ![i] = @ \cup {k}]
       ELSE /\ zset' = [zset EXCEPT ![k] = left]
            /\ UNCHANGED <<lastAdd, added, granted>>
    /\ UNCHANGED <<clock, now>>

(* Redis deletes the key a window after it was last added to. *)
WindowExpires(k) ==
    /\ zset[k] # {}
    /\ clock >= lastAdd[k] + Window[k]
    /\ zset' = [zset EXCEPT ![k] = {}]
    /\ UNCHANGED <<clock, now, todo, granted, lastAdd, added>>

Tick ==
    /\ clock < MaxTime
    /\ \A i \in Requests : todo[i] # {} => clock < now[i] + Lag
    /\ clock' = clock + 1
    /\ UNCHANGED <<now, todo, granted, zset, lastAdd, added>>

LimiterNext ==
    \/ \E i \in Requests : Ask(i) \/ \E k \in WindowKeys : Check(i, k)
    \/ \E k \in WindowKeys : WindowExpires(k)
    \/ Tick

LimiterSpec == LimiterInit /\ [][LimiterNext]_limiterVars

-----------------------------------------------------------------------------
(* Properties *)

(* Entries of k with a timestamp in the Window[k] - Lag ticks up to t *)
Within(k, t) == {e \in added[k] : t - (Window[k] - Lag) < e.at /\ e.at <= t}

(* No span of a window, less the lag of the timestamps, ever takes more    *)
(* than max notifications of its key, in whatever order the scripts run    *)
(* and although Redis expires entries and keys (checkWindow).              *)
WindowBound ==
    \A k \in WindowKeys : \A t \in 0 .. clock : Cardinality(Within(k, t)) <= Max[k]

Allowed(i) == now[i] # -1 /\ granted[i] = {Global, TypeOf[i]}

(* A request is refused only by a window in which max slots really were    *)
(* taken after its start: pruning and expiry never leave an old slot       *)
(* occupied (isAllowed).                                                   *)
RefusalJustified ==
    \A i \in Requests :
        now[i] # -1 /\ todo[i] = {} /\ ~Allowed(i) =>
            \E k \in {Global, TypeOf[i]} :
                /\ k \notin granted[i]
                /\ Cardinality({e \in added[k] : e.at > now[i] - Window[k]}) >= Max[k]
=============================================================================
