----------------------------- MODULE StationStats -----------------------------
(***************************************************************************)
(* The statistics of a charging station: the plain consumer of the OCPP    *)
(* queue (consume, startConsumer in rabbitmq.service.ts), handleOcppEvent  *)
(* of notification.router.ts, onSessionStarted and onSessionCompleted of   *)
(* aggregation.service.ts and the buckets of date.helper.ts.               *)
(*                                                                         *)
(* A row belongs to one station and no statement touches two, so one       *)
(* station is modelled; the counters added in the same statement as        *)
(* sessions_completed (energy, revenue, overstay) move with it.  Times are *)
(* ticks since an epoch at a UTC midnight, minutes are in units of the     *)
(* last digit avg_session_minutes stores.                                  *)
(***************************************************************************)
EXTENDS Integers, FiniteSets, Functions, FiniteSetsExt

CONSTANTS
    Ids,            \* the events of the station
    Times,          \* when sessions start and stop
    Minutes,        \* durations of sessions
    HourTicks,      \* ticks of an hour
    DayTicks,       \* ticks of a day
    Offset,         \* TZ_OFFSET_MS
    MaxDeliveries,  \* bound: deliveries of one event
    MaxOutages,     \* bound: connections lost and pod crashes
    MaxAffected,    \* bound: deliveries one outage takes along
    MaxFaults,      \* bound: database errors
    MaxExpiries     \* bound: tokens refused, past their 30 s for example

ASSUME StationAssumption ==
    /\ Times \subseteq Nat /\ Minutes \subseteq Nat
    /\ \E longest \in Minutes \cup {0} : \A m \in Minutes : m <= longest
    /\ HourTicks \in Nat \ {0} /\ DayTicks \in Nat \ {0}
    /\ DayTicks % HourTicks = 0
    /\ Offset \in Nat
    /\ MaxDeliveries \in Nat /\ MaxOutages \in Nat /\ MaxAffected \in Nat
    /\ MaxFaults \in Nat /\ MaxExpiries \in Nat

VARIABLES
    events,     \* what the peer published
    queue,      \* events ready for delivery
    open,       \* deliveries the broker waits to see settled
    pc,         \* pc[d]: the await the consume callback of delivery d is at
    seen,       \* events whose jti is in Redis
    hours,      \* hours[h]: started and completed of station_hourly_stats
    days,       \* days[d]: completed and avg of station_daily_stats
    outages, faults,
    expired,    \* events refused for their token
    raced       \* events two deliveries of which have passed the jti check together

consumer == <<queue, open, pc>>
rows     == <<hours, days>>
bounds   == <<outages, faults>>
vars     == <<events, consumer, seen, rows, bounds, expired, raced>>

Deliveries == Ids \X (1 .. MaxDeliveries)

(* "other": a routing key the router ignores, no station, or no JSON *)
Events ==
    [kind : {"transaction.started"}, time : Times, minutes : {0}]
      \cup [kind : {"transaction.stopped"}, time : Times, minutes : Minutes]
      \cup [kind : {"other"}, time : {0}, minutes : {0}]

(* Mutant of StartOfHour: the hour after *)
StartOfHourCeil(t) == (((t + Offset) \div HourTicks) + 1) * HourTicks - Offset

(* The start of the local hour, as a UTC time *)
StartOfHour(t) == ((t + Offset) \div HourTicks) * HourTicks - Offset

(* toVientianeDateStr *)
DateOf(t) == (t + Offset) \div DayTicks

Hours == {StartOfHour(t) : t \in Times}

Dates == {DateOf(t) : t \in Times}

(* get, set: at the Redis calls of verify; hour, day: at an upsert; reply,  *)
(* done: handled, and acked; half, failed: ended before the second upsert,  *)
(* before any; replayed: refused by verify                                  *)
Labels == {"none", "get", "set", "hour", "day", "reply", "done", "half", "failed", "replayed"}

Longest == Max(Minutes \cup {0})

TypeOK ==
    /\ events \in [Ids -> Events]
    /\ queue \in SUBSET Ids
    /\ open \in SUBSET Deliveries
    /\ pc \in [Deliveries -> Labels]
    /\ seen \in SUBSET Ids
    /\ hours \in [Hours -> [started : Nat, completed : Nat]]
    /\ days \in [Dates -> [completed : Nat, avg : 0 .. Longest]]
    /\ outages \in Nat /\ faults \in Nat
    /\ expired \in SUBSET Ids /\ raced \in SUBSET Ids

Init ==
    /\ events \in [Ids -> Events]
    /\ queue = Ids
    /\ open = {}
    /\ pc = [d \in Deliveries |-> "none"]
    /\ seen = {}
    /\ hours = [h \in Hours |-> [started |-> 0, completed |-> 0]]
    /\ days = [d \in Dates |-> [completed |-> 0, avg |-> 0]]
    /\ outages = 0 /\ faults = 0
    /\ expired = {} /\ raced = {}

-----------------------------------------------------------------------------
Event(d) == events[d[1]]

Go(d, label) == pc' = [pc EXCEPT ![d] = label]

Running(d) == pc[d] \in {"get", "set", "hour", "day", "reply"}

Affected(ds) == Cardinality(ds) <= MaxAffected

Requeue(ds) ==
    /\ Affected(ds)
    /\ open' = open \ ds
    /\ queue' = queue \cup {d[1] : d \in ds}

(* ack, or nack without requeue: the broker forgets the delivery.  From a  *)
(* callback that outlived its channel the call finds no channel, settles   *)
(* another delivery by its tag, or closes the channel.                     *)
Settle(d) ==
    \/ d \in open /\ open' = open \ {d} /\ UNCHANGED queue
    \/ d \notin open /\ UNCHANGED <<open, queue>>
    \/ d \notin open /\ \E o \in open : open' = open \ {o} /\ UNCHANGED queue
    \/ d \notin open /\ \E ds \in SUBSET open : Requeue(ds)

(* The consume callback starts; verify suspends at redis.get. *)
Deliver(d) ==
    LET e == d[1] IN
    /\ e \in queue
    /\ pc[d] = "none" /\ \A n \in 1 .. d[2] - 1 : pc[<<e, n>>] # "none"
    /\ queue' = queue \ {e}
    /\ open' = open \cup {d}
    /\ Go(d, "get")
    /\ UNCHANGED <<events, seen, rows, bounds, expired, raced>>

(* verify refuses the token without awaiting: nacked; no DLX on this queue *)
Refuse(e) ==
    /\ e \in queue
    /\ Cardinality(expired) < MaxExpiries
    /\ queue' = queue \ {e}
    /\ expired' = expired \cup {e}
    /\ UNCHANGED <<events, open, pc, seen, rows, bounds, raced>>

(* redis.get finds nothing *)
JtiUnseen(d) ==
    /\ pc[d] = "get" /\ d[1] \notin seen
    /\ Go(d, "set")
    /\ raced' = IF \E n \in 1 .. MaxDeliveries : pc[<<d[1], n>>] = "set"
                THEN raced \cup {d[1]} ELSE raced
    /\ UNCHANGED <<events, queue, open, seen, rows, bounds, expired>>

(* redis.get finds the jti: replayed, nacked *)
JtiReplayed(d) ==
    /\ pc[d] = "get" /\ d[1] \in seen
    /\ Go(d, "replayed")
    /\ Settle(d)
    /\ UNCHANGED <<events, seen, rows, bounds, expired, raced>>

Counts(d) == Event(d).kind # "other"

(* Mutant of Accept: the jti is not stored *)
AcceptUnstored(d) ==
    /\ pc[d] = "set" /\ Counts(d)
    /\ Go(d, "hour")
    /\ UNCHANGED <<events, queue, open, seen, rows, bounds, expired, raced>>

(* Mutant of Accept: acknowledged before it is handled *)
AcceptAndAck(d) ==
    /\ pc[d] = "set" /\ Counts(d)
    /\ seen' = seen \cup {d[1]}
    /\ Go(d, "hour")
    /\ Settle(d)
    /\ UNCHANGED <<events, rows, bounds, expired, raced>>

(* redis.set is done: handleOcppEvent awaits its first upsert. *)
Accept(d) ==
    /\ pc[d] = "set" /\ Counts(d)
    /\ seen' = seen \cup {d[1]}
    /\ Go(d, "hour")
    /\ UNCHANGED <<events, queue, open, rows, bounds, expired, raced>>

(* ... or it has nothing to await: acked at once, or nacked if unparsable *)
Ignore(d) ==
    /\ pc[d] = "set" /\ ~ Counts(d)
    /\ seen' = seen \cup {d[1]}
    /\ Go(d, "done")
    /\ Settle(d)
    /\ UNCHANGED <<events, rows, bounds, expired, raced>>

-----------------------------------------------------------------------------
(* The upsert of station_hourly_stats, of either handler *)
CountHour(d) ==
    LET h == StartOfHour(Event(d).time) IN
    /\ pc[d] = "hour"
    /\ IF Event(d).kind = "transaction.stopped"
       THEN hours' = [hours EXCEPT ![h].completed = @ + 1] /\ Go(d, "day")
       ELSE hours' = [hours EXCEPT ![h].started = @ + 1] /\ Go(d, "reply")
    /\ UNCHANGED <<events, queue, open, seen, days, bounds, expired, raced>>

(* Mutants of NewAverage: the new session is left out of the divisor, the *)
(* mean of the last two                                                   *)
NewAverageShort(avg, n, minutes) == (avg * n + minutes) \div n
NewAverageOfTwo(avg, n, minutes) == (avg + minutes + 1) \div 2

(* (avg * completed + minutes) / (completed + 1), rounded half up when the *)
(* column stores it                                                        *)
NewAverage(avg, n, minutes) == (2 * (avg * n + minutes) + n + 1) \div (2 * (n + 1))

(* The upsert of station_daily_stats: inserted with the minutes as they are *)
CountDay(d) ==
    LET day == days[DateOf(Event(d).time)]
        n   == day.completed
    IN
    /\ pc[d] = "day"
    /\ days' = [days EXCEPT ![DateOf(Event(d).time)] =
          [completed |-> n + 1,
           avg |-> IF n = 0 THEN Event(d).minutes ELSE NewAverage(day.avg, n, Event(d).minutes)]]
    /\ Go(d, "reply")
    /\ UNCHANGED <<events, queue, open, seen, hours, bounds, expired, raced>>

(* A query is rejected: caught, logged, the handler returns, and is acked. *)
CountFails(d) ==
    /\ pc[d] \in {"hour", "day"}
    /\ faults < MaxFaults /\ faults' = faults + 1
    /\ Go(d, IF pc[d] = "day" THEN "half" ELSE "failed")
    /\ Settle(d)
    /\ UNCHANGED <<events, seen, rows, outages, expired, raced>>

(* The handler has returned: acked *)
Acknowledge(d) ==
    /\ pc[d] = "reply"
    /\ Go(d, "done")
    /\ Settle(d)
    /\ UNCHANGED <<events, seen, rows, bounds, expired, raced>>

(* A connection is lost; its callbacks go on running. *)
Drop(ds) ==
    /\ ds # {}
    /\ outages < MaxOutages /\ outages' = outages + 1
    /\ Requeue(ds)
    /\ UNCHANGED <<events, pc, seen, rows, faults, expired, raced>>

(* What a delivery comes to when its pod ends *)
Ended(label) ==
    CASE label = "day" -> "half" [] label = "reply" -> "done" [] OTHER -> "failed"

(* A pod ends with its callbacks: of its own accord, or because a Redis *)
(* error in verify is an unhandled rejection.                           *)
Crash(ds) ==
    /\ ds # {} /\ Affected(ds) /\ \A d \in ds : Running(d)
    /\ outages < MaxOutages /\ outages' = outages + 1
    /\ pc' = [d \in Deliveries |-> IF d \in ds THEN Ended(pc[d]) ELSE pc[d]]
    /\ Requeue(ds \cap open)
    /\ UNCHANGED <<events, seen, rows, faults, expired, raced>>

Callback(d) ==
    \/ Deliver(d) \/ JtiUnseen(d) \/ JtiReplayed(d) \/ Accept(d) \/ Ignore(d)
    \/ CountHour(d) \/ CountDay(d) \/ CountFails(d) \/ Acknowledge(d)

Next ==
    \/ \E d \in Deliveries : Callback(d)
    \/ \E e \in Ids : Refuse(e)
    \/ \E ds \in SUBSET open : Drop(ds)
    \/ \E ds \in SUBSET Deliveries : Crash(ds)

Spec == Init /\ [][Next]_vars

-----------------------------------------------------------------------------
(* Properties *)

Of(e) == {d \in Deliveries : d[1] = e}

InHour == {d \in Deliveries : Counts(d) /\ pc[d] \in {"day", "half", "reply", "done"}}

InDay == {d \in InHour : Event(d).kind = "transaction.stopped" /\ pc[d] \in {"reply", "done"}}

On(day, ds) == {d \in ds : DateOf(Event(d).time) = day}

(* However often an event is delivered, it is counted once, unless two      *)
(* deliveries have both found its jti unseen: verify reads and stores it in *)
(* two calls.                                                               *)
CountedOnce == \A e \in Ids \ raced : Cardinality(Of(e) \cap InHour) <= 1

(* Without a fault, an event the broker has forgotten was refused for its   *)
(* token or is in its rows: it is acked after it was counted, not before.   *)
CountedWithoutFault ==
    outages + faults = 0 =>
        \A e \in Ids \ (queue \cup expired) :
            \/ \E d \in Of(e) : d \in open
            \/ events[e].kind = "other"
            \/ events[e].kind = "transaction.started" /\ Of(e) \cap InHour # {}
            \/ Of(e) \cap InDay # {}

(* Counted in the hourly row, not or not yet in the daily one *)
Pending == {d \in InHour : pc[d] \in {"day", "half"}}

HoursOf(day) == {h \in Hours : DateOf(h) = day}

(* The hours of a local day add up to its daily row, less the callbacks     *)
(* between the two upserts and those that never reached the second, because *)
(* both rows bucket a session by the same clock.                            *)
HoursAddUp ==
    \A day \in Dates :
        SumFunctionOnSet([h \in Hours |-> hours[h].completed], HoursOf(day))
          = days[day].completed + Cardinality(On(day, Pending))

(* The running average is rounded at every step; in whatever order sessions *)
(* are counted, it stays within the rounding of its n - 1 updates of the    *)
(* true mean: |avg * n - total| <= (2 + ... + n) / 2.                       *)
AverageWithinRounding ==
    \A day \in Dates :
        LET n     == days[day].completed
            total == SumFunctionOnSet([d \in Deliveries |-> Event(d).minutes], On(day, InDay))
            drift == days[day].avg * n - total
        IN  n > 0 => 4 * drift <= n * (n + 1) - 2 /\ 4 * drift >= 2 - n * (n + 1)

SessionsOf(day) ==
    {e \in Ids \ expired :
        events[e].kind = "transaction.stopped" /\ DateOf(events[e].time) = day}

(* What the rows are for: once every event is settled, without a fault,     *)
(* they tell how many of the published sessions that were not refused ended *)
(* on a day, and their mean.                                                *)
RowsComplete ==
    outages + faults = 0 /\ queue = {} /\ open = {} =>
        \A day \in Dates :
            LET n     == Cardinality(SessionsOf(day))
                total == SumFunctionOnSet([e \in Ids |-> events[e].minutes], SessionsOf(day))
                drift == days[day].avg * n - total
            IN  /\ days[day].completed = n
                /\ SumFunctionOnSet([h \in Hours |-> hours[h].completed], HoursOf(day)) = n
                /\ n > 0 => 4 * drift <= n * (n + 1) - 2 /\ 4 * drift >= 2 - n * (n + 1)
=============================================================================
