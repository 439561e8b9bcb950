-------------------------- MODULE StationStats_proofs --------------------------
(***************************************************************************)
(* Theorems about StationStats, for any number of events, deliveries,      *)
(* outages and database errors, any times and any length of hour and day:  *)
(*   - the type invariant, with the range of the running average;          *)
(*   - CountedOnce: what the replay check of verify() is good for;         *)
(*   - CountedWithoutFault: nothing is acked before it is counted;         *)
(*   - HoursAddUp and AverageWithinRounding, by an invariant that relates  *)
(*     the rows to the deliveries counted in them, and by lemmas about     *)
(*     sums over finite sets;                                              *)
(*   - RowsComplete, from all of these.                                    *)
(***************************************************************************)
EXTENDS StationStats, TLAPS, FiniteSetTheorems

(* Only events that are counted get as far as the upserts, and only a      *)
(* stopped transaction to the second.                                      *)
Upserting ==
    \A d \in Deliveries :
        /\ pc[d] \in {"hour", "day", "reply", "half"} => Counts(d)
        /\ pc[d] \in {"day", "half"} => Event(d).kind = "transaction.stopped"

TypeInv == TypeOK /\ Upserting

(* The callback has stored the jti. *)
Passed(d) == pc[d] \in {"hour", "day", "half", "reply", "done"}

(* verify() lets one delivery of e through. *)
OneThrough(e) ==
    /\ \A c, d \in Of(e) : pc[c] = "set" /\ pc[d] = "set" => c = d
    /\ \A d \in Of(e) : pc[d] = "set" => e \notin seen
    /\ \A d \in Of(e) : Passed(d) => e \in seen
    /\ \A c, d \in Of(e) : Passed(c) /\ Passed(d) => c = d

OnceInv == \A e \in Ids \ raced : OneThrough(e)

(* Without a fault there is one delivery, and it is open until it has done *)
(* all it has to do.                                                       *)
OneDelivery(e) ==
    /\ \A d \in Of(e) : e \in queue => pc[d] = "none"
    /\ \A c, d \in Of(e) : pc[c] # "none" /\ pc[d] # "none" => c = d
    /\ \A d \in Of(e) : pc[d] \in {"none", "get", "set", "hour", "day", "reply", "done"}
    /\ \A d \in Of(e) : d \in open <=> Running(d)
    /\ e \in seen => \E d \in Of(e) : Passed(d)
    /\ e \notin queue \cup expired => \E d \in Of(e) : pc[d] # "none"

CalmInv == outages + faults = 0 => \A e \in Ids : OneDelivery(e)

-----------------------------------------------------------------------------
LEMMA LongestIsLongest ==
    /\ Longest \in Nat
    /\ \A m \in Minutes : m \in 0 .. Longest
<1> DEFINE S == Minutes \cup {0}
<1>1. \A m \in S : m \in Nat
  BY StationAssumption
<1>2. \E x \in S : \A y \in S : x >= y
  <2>1. PICK longest \in S : \A m \in Minutes : m <= longest
    BY StationAssumption
  <2> QED
    BY <1>1, <2>1
<1>3. Longest \in S /\ \A y \in S : Longest >= y
  <2>1. Longest = CHOOSE x \in S : \A y \in S : x >= y
    BY DEF Longest, Max
  <2> QED
    BY <1>2, <2>1
<1> QED
  BY <1>1, <1>3

(* Rounding does not leave the range of what is averaged. *)
LEMMA AverageInRange ==
    ASSUME NEW longest \in Nat, NEW avg \in 0 .. longest, NEW minutes \in 0 .. longest,
           NEW n \in Nat
    PROVE  NewAverage(avg, n, minutes) \in 0 .. longest
<1> DEFINE sum  == 2 * (avg * n + minutes) + n + 1
           half == 2 * (n + 1)
           q    == sum \div half
<1>1. avg * n \in Nat /\ avg * n <= longest * n /\ longest * n \in Nat
  OBVIOUS
<1>2. sum \in Nat /\ half \in Nat /\ half > 0
  BY <1>1
<1>3. q \in Int /\ half * q <= sum /\ sum < half * q + half
  <2> HIDE DEF sum, half
  <2> QED
    BY <1>2
<1>4. sum <= 2 * (longest * n) + 2 * longest + n + 1
  BY <1>1
<1>5. half * longest = 2 * (longest * n) + 2 * longest
  OBVIOUS
<1>6. sum < half * longest + half
  BY <1>1, <1>4, <1>5
<1>7. q >= 0
  <2> HIDE DEF sum, half, q
  <2> SUFFICES ASSUME q <= -1 PROVE FALSE
    BY <1>3
  <2>1. half * q <= half * (-1)
    BY <1>2, <1>3
  <2> QED
    BY <1>2, <1>3, <2>1
<1>8. q <= longest
  <2> HIDE DEF sum, half, q
  <2> SUFFICES ASSUME q >= longest + 1 PROVE FALSE
    BY <1>3
  <2>1. half * (longest + 1) <= half * q
    BY <1>2, <1>3
  <2>2. half * (longest + 1) = half * longest + half
    BY <1>2
  <2> QED
    BY <1>2, <1>3, <1>6, <2>1, <2>2
<1> QED
  BY <1>3, <1>7, <1>8 DEF NewAverage

LEMMA BucketsOfEvent ==
    ASSUME TypeOK, NEW d \in Deliveries, Counts(d)
    PROVE  /\ StartOfHour(Event(d).time) \in Hours
           /\ DateOf(Event(d).time) \in Dates
           /\ Event(d).minutes \in 0 .. Longest
<1>1. Event(d) \in Events /\ Event(d).kind # "other"
  BY DEF TypeOK, Deliveries, Event, Counts
<1>2. Event(d).time \in Times /\ Event(d).minutes \in Minutes \cup {0}
  BY <1>1 DEF Events
<1> QED
  BY <1>2, LongestIsLongest DEF Hours, Dates

-----------------------------------------------------------------------------
(* What settling, by a callback of this or of a lost channel, may do *)
LEMMA SettleShape ==
    ASSUME TypeOK, NEW d \in Deliveries, Settle(d)
    PROVE  /\ open' \subseteq open /\ queue \subseteq queue' /\ queue' \subseteq Ids
           /\ d \in open => open' = open \ {d} /\ queue' = queue
BY DEF Settle, Requeue, Affected, TypeOK, Deliveries

LEMMA TypeStep ==
    ASSUME TypeInv, [Next]_vars
    PROVE  TypeInv'
<1> USE DEF TypeInv
<1> USE DEF TypeOK, Upserting, Go, Labels, consumer, rows, bounds, Counts, Event
<1>1. ASSUME NEW d \in Deliveries, Deliver(d) PROVE TypeInv'
  BY <1>1 DEF Deliver
<1>2. ASSUME NEW d \in Deliveries, JtiUnseen(d) PROVE TypeInv'
  BY <1>2 DEF JtiUnseen, Deliveries
<1>3. ASSUME NEW d \in Deliveries, JtiReplayed(d) PROVE TypeInv'
  BY <1>3, SettleShape DEF JtiReplayed
<1>4. ASSUME NEW d \in Deliveries, Accept(d) PROVE TypeInv'
  BY <1>4 DEF Accept, Deliveries
<1>5. ASSUME NEW d \in Deliveries, Ignore(d) PROVE TypeInv'
  <2>1. open' \subseteq Deliveries /\ queue' \subseteq Ids
    BY <1>5, SettleShape DEF Ignore
  <2>2. seen' \subseteq Ids
    BY <1>5 DEF Ignore, Deliveries
  <2> QED
    BY <1>5, <2>1, <2>2 DEF Ignore
<1>6. ASSUME NEW d \in Deliveries, CountHour(d) PROVE TypeInv'
  <2>1. StartOfHour(Event(d).time) \in Hours
    BY <1>6, BucketsOfEvent DEF CountHour
  <2>2. hours' \in [Hours -> [started : Nat, completed : Nat]]
    BY <1>6, <2>1 DEF CountHour
  <2> QED
    BY <1>6, <2>2 DEF CountHour
<1>7. ASSUME NEW d \in Deliveries, CountDay(d) PROVE TypeInv'
  <2>1. DateOf(Event(d).time) \in Dates /\ Event(d).minutes \in 0 .. Longest /\ Longest \in Nat
    BY <1>7, BucketsOfEvent, LongestIsLongest DEF CountDay
  <2> DEFINE day == days[DateOf(Event(d).time)]
  <2>2. day.completed \in Nat /\ day.avg \in 0 .. Longest
    BY <2>1
  <2>3. NewAverage(day.avg, day.completed, Event(d).minutes) \in 0 .. Longest
    BY <2>1, <2>2, AverageInRange
  <2>4. days' \in [Dates -> [completed : Nat, avg : 0 .. Longest]]
    <3> HIDE DEF Event
    <3>1. days' = [days EXCEPT ![DateOf(Event(d).time)] =
             [completed |-> day.completed + 1,
              avg |-> IF day.completed = 0 THEN Event(d).minutes
                      ELSE NewAverage(day.avg, day.completed, Event(d).minutes)]]
      BY <1>7 DEF CountDay
    <3> QED
      BY <2>1, <2>2, <2>3, <3>1
  <2> QED
    BY <1>7, <2>4 DEF CountDay
<1>8. ASSUME NEW d \in Deliveries, CountFails(d) PROVE TypeInv'
  <2>1. open' \subseteq Deliveries /\ queue' \subseteq Ids
    BY <1>8, SettleShape DEF CountFails
  <2> QED
    BY <1>8, <2>1 DEF CountFails
<1>9. ASSUME NEW d \in Deliveries, Acknowledge(d) PROVE TypeInv'
  <2>1. open' \subseteq Deliveries /\ queue' \subseteq Ids
    BY <1>9, SettleShape DEF Acknowledge
  <2> QED
    BY <1>9, <2>1 DEF Acknowledge
<1>10. ASSUME NEW e \in Ids, Refuse(e) PROVE TypeInv'
  BY <1>10 DEF Refuse
<1>11. ASSUME NEW ds \in SUBSET open, Drop(ds) PROVE TypeInv'
  BY <1>11 DEF Drop, Requeue, Deliveries
<1>12. ASSUME NEW ds \in SUBSET Deliveries, Crash(ds) PROVE TypeInv'
  <2>1. open' \subseteq Deliveries /\ queue' \subseteq Ids
    BY <1>12 DEF Crash, Requeue, Deliveries
  <2>2. \A d \in Deliveries :
          /\ pc'[d] \in Labels
          /\ pc'[d] = pc[d] \/ pc'[d] \in {"done", "failed"} \/ (pc[d] = "day" /\ pc'[d] = "half")
    BY <1>12 DEF Crash, Ended
  <2>3. pc' \in [Deliveries -> Labels]
    BY <1>12, <2>2 DEF Crash
  <2> QED
    BY <1>12, <2>1, <2>2, <2>3 DEF Crash
<1>13. CASE UNCHANGED vars
  BY <1>13 DEF vars
<1> QED
  BY <1>1, <1>2, <1>3, <1>4, <1>5, <1>6, <1>7, <1>8, <1>9, <1>10, <1>11, <1>12, <1>13
  DEF Next, Callback
LEMMA TypeInit == Init => TypeInv
<1> SUFFICES ASSUME Init PROVE TypeInv
  OBVIOUS
<1>1. Longest \in Nat /\ \A d \in Deliveries : pc[d] = "none"
  BY LongestIsLongest DEF Init
<1> QED
  BY <1>1 DEF Init, TypeInv, TypeOK, Upserting, Labels

(* The rows are well formed, and the average stays among what it averages. *)
THEOREM TypeCorrect == Spec => []TypeOK
<1>1. TypeInv => TypeOK
  BY DEF TypeInv
<1> QED
  BY <1>1, TypeInit, TypeStep, PTL DEF Spec

-----------------------------------------------------------------------------
(* A delivery passes the check alone, and what has passed keeps the rest   *)
(* from passing.                                                           *)
LEMMA OnceStep ==
    ASSUME TypeInv, OnceInv, [Next]_vars
    PROVE  OnceInv'
<1> SUFFICES ASSUME NEW e \in Ids, e \notin raced' PROVE OneThrough(e)'
  BY DEF OnceInv
<1> USE DEF TypeInv, TypeOK, Go, Passed
<1>1. OneThrough(e)
  <2>1. raced \subseteq raced'
    BY DEF Next, Callback, vars, Deliver, JtiUnseen, JtiReplayed, Accept, Ignore, CountHour,
           CountDay, CountFails, Acknowledge, Refuse, Drop, Crash
  <2> QED
    BY <2>1 DEF OnceInv
<1>2. Of(e)' = Of(e) /\ \A d \in Of(e) : d \in Deliveries /\ d[1] = e
  BY DEF Of, Deliveries
<1>3. ASSUME seen' = seen,
             \A d \in Of(e) : pc'[d] = "set" => pc[d] = "set",
             \A d \in Of(e) : Passed(d)' => Passed(d)
      PROVE  OneThrough(e)'
  BY <1>1, <1>2, <1>3 DEF OneThrough
<1>4. ASSUME NEW d \in Deliveries, JtiUnseen(d) PROVE OneThrough(e)'
  <2>1. /\ pc' = [pc EXCEPT ![d] = "set"] /\ seen' = seen /\ d[1] \notin seen
        /\ \A c \in Of(e) : d \in Of(e) => pc[c] # "set"
    <3>1. d \in Of(e) => \A n \in 1 .. MaxDeliveries : pc[<<e, n>>] # "set"
      BY <1>2, <1>4 DEF JtiUnseen
    <3>2. \A c \in Of(e) : \E n \in 1 .. MaxDeliveries : c = <<e, n>>
      BY DEF Of, Deliveries
    <3> QED
      BY <1>4, <3>1, <3>2 DEF JtiUnseen
  <2> QED
    BY <1>1, <1>2, <2>1 DEF OneThrough
<1>5. ASSUME NEW d \in Deliveries, NEW label \in {"hour", "done"}, pc[d] = "set",
             seen' = seen \cup {d[1]}, pc' = [pc EXCEPT ![d] = label]
      PROVE  OneThrough(e)'
  <2>1. CASE d \in Of(e)
    <3>1. \A c \in Of(e) : c # d => pc'[c] = pc[c] /\ pc[c] # "set" /\ ~Passed(c)
      BY <1>1, <1>2, <1>5, <2>1 DEF OneThrough
    <3>2. e \in seen' /\ pc'[d] = label
      BY <1>2, <1>5, <2>1
    <3> QED
      BY <1>2, <3>1, <3>2, <2>1 DEF OneThrough
  <2>2. CASE d \notin Of(e)
    <3>1. d[1] # e
      BY <2>2 DEF Of
    <3>2. \A c \in Of(e) : pc'[c] = pc[c]
      BY <1>2, <1>5, <2>2
    <3> QED
      BY <1>1, <1>2, <1>5, <3>1, <3>2 DEF OneThrough
  <2> QED
    BY <2>1, <2>2
<1>6. ASSUME NEW d \in Deliveries, seen' = seen, Passed(d) \/ pc[d] \in {"none", "get"},
             NEW label \in Labels, pc' = [pc EXCEPT ![d] = label],
             label \in {"get", "replayed", "failed"} \/ Passed(d)
      PROVE  label # "set" => OneThrough(e)'
  <2> SUFFICES ASSUME label # "set" PROVE OneThrough(e)'
    OBVIOUS
  <2>1. \A c \in Of(e) : pc'[c] = IF c = d THEN label ELSE pc[c]
    BY <1>2, <1>6
  <2> QED
    BY <1>3, <1>6, <2>1
<1>7. ASSUME NEW ds \in SUBSET Deliveries, Crash(ds) PROVE OneThrough(e)'
  <2>1. \A d \in Of(e) : pc'[d] = pc[d] \/ pc'[d] = "failed" \/ (Passed(d) /\ pc'[d] # "set")
    BY <1>2, <1>7 DEF Crash, Ended
  <2> QED
    BY <1>3, <1>7, <2>1 DEF Crash
<1>8. CASE UNCHANGED <<pc, seen>>
  BY <1>3, <1>8
<1>9. \/ UNCHANGED <<pc, seen>>
      \/ \E d \in Deliveries :
           \/ JtiUnseen(d)
           \/ \E label \in {"hour", "done"} :
                pc[d] = "set" /\ seen' = seen \cup {d[1]} /\ pc' = [pc EXCEPT ![d] = label]
           \/ \E label \in Labels \ {"set"} :
                /\ seen' = seen /\ pc' = [pc EXCEPT ![d] = label]
                /\ Passed(d) \/ pc[d] \in {"none", "get"}
                /\ label \in {"get", "replayed", "failed"} \/ Passed(d)
      \/ \E ds \in SUBSET Deliveries : Crash(ds)
  <2>1. ASSUME NEW d \in Deliveries, Callback(d)
        PROVE  \/ JtiUnseen(d)
               \/ \E label \in {"hour", "done"} :
                    pc[d] = "set" /\ seen' = seen \cup {d[1]} /\ pc' = [pc EXCEPT ![d] = label]
               \/ \E label \in Labels \ {"set"} :
                    /\ seen' = seen /\ pc' = [pc EXCEPT ![d] = label]
                    /\ Passed(d) \/ pc[d] \in {"none", "get"}
                    /\ label \in {"get", "replayed", "failed"} \/ Passed(d)
    BY <2>1 DEF Callback, Deliver, JtiReplayed, Accept, Ignore, CountHour, CountDay,
                CountFails, Acknowledge, Labels
  <2>2. (\E q \in Ids : Refuse(q)) \/ (\E ds \in SUBSET open : Drop(ds)) \/ UNCHANGED vars
          => UNCHANGED <<pc, seen>>
    BY DEF Refuse, Drop, vars, consumer
  <2> QED
    BY <2>1, <2>2 DEF Next
<1> QED
  BY <1>4, <1>5, <1>6, <1>7, <1>8, <1>9

(* However often the broker delivers an event, it is counted once, unless  *)
(* two deliveries have both found its jti unseen (verify, handleOcppEvent).*)
THEOREM EventsCountedOnce == Spec => []CountedOnce
<1>1. Init => OnceInv
  BY DEF Init, OnceInv, OneThrough, Of, Passed
<1>2. TypeInv /\ OnceInv /\ [Next]_vars => (TypeInv /\ OnceInv)'
  BY TypeStep, OnceStep
<1>3. TypeInv /\ OnceInv => CountedOnce
  <2> SUFFICES ASSUME TypeInv, OnceInv, NEW e \in Ids \ raced
               PROVE  Cardinality(Of(e) \cap InHour) <= 1
    BY DEF CountedOnce
  <2> DEFINE S == Of(e) \cap InHour
  <2>1. \A c, d \in S : c = d
    BY DEF OnceInv, OneThrough, InHour, Passed
  <2>2. S = {} \/ \E d : S = {d}
    <3>1. CASE S # {}
      <4>1. PICK d : d \in S
        BY <3>1
      <4>2. S = {d}
        BY <2>1, <4>1
      <4> QED
        BY <4>2
    <3> QED
      BY <3>1
  <2> HIDE DEF S
  <2>3. Cardinality(S) \in {0, 1}
    BY <2>2, FS_EmptySet, FS_Singleton
  <2> QED
    BY <2>3 DEF S
<1> QED
  BY <1>1, <1>2, <1>3, TypeInit, PTL DEF Spec
-----------------------------------------------------------------------------
Calm == outages + faults = 0

LEMMA CalmBefore ==
    ASSUME TypeOK, [Next]_vars, Calm'
    PROVE  /\ Calm
           /\ \A d \in Deliveries : ~CountFails(d)
           /\ \A ds : ~Drop(ds) /\ ~Crash(ds)
<1>1. outages \in Nat /\ faults \in Nat
  BY DEF TypeOK
<1>2. /\ \A d \in Deliveries : ~CountFails(d)
      /\ \A ds : ~Drop(ds) /\ ~Crash(ds)
  BY <1>1 DEF Calm, CountFails, Drop, Crash
<1>3. outages' = outages /\ faults' = faults
  BY <1>2 DEF Next, Callback, vars, bounds, Deliver, JtiUnseen, JtiReplayed, Accept, Ignore,
              CountHour, CountDay, Acknowledge, Refuse
<1> QED
  BY <1>2, <1>3 DEF Calm

(* A step that leaves the deliveries of e alone *)
LEMMA DeliveryKept ==
    ASSUME NEW e \in Ids, OneDelivery(e),
           \A d \in Of(e) : pc'[d] = pc[d] /\ (d \in open' <=> d \in open),
           e \in queue' => e \in queue,
           e \in seen' => e \in seen,
           e \in queue /\ e \notin queue' => e \in expired',
           expired \subseteq expired'
    PROVE  OneDelivery(e)'
<1>1. Of(e)' = Of(e) /\ \A d \in Of(e) : (Running(d)' <=> Running(d)) /\ (Passed(d)' <=> Passed(d))
  BY DEF Of, Running, Passed
<1> QED
  BY <1>1 DEF OneDelivery

(* A step of the one delivery of e, to another await or to its end *)
LEMMA DeliveryGoes ==
    ASSUME TypeOK, NEW e \in Ids, OneDelivery(e), NEW d \in Of(e), Running(d),
           NEW label \in {"set", "hour", "day", "reply", "done"},
           pc' = [pc EXCEPT ![d] = label],
           queue' = queue, expired' = expired,
           label = "set" => seen' = seen /\ ~Passed(d),
           label # "set" => seen' = seen \cup {e} \/ (seen' = seen /\ Passed(d)),
           open' = IF label = "done" THEN open \ {d} ELSE open
    PROVE  OneDelivery(e)'
<1>1. Of(e)' = Of(e) /\ \A c \in Of(e) : pc'[c] = IF c = d THEN label ELSE pc[c]
  BY DEF Of, TypeOK
<1>2. \A c \in Of(e) : c # d => pc[c] = "none"
  BY DEF OneDelivery, Running
<1>3. e \notin queue
  BY DEF OneDelivery, Running
<1>4. \A c \in Of(e) : c \in open' <=> Running(c)'
  BY <1>1, <1>2 DEF OneDelivery, Running
<1>5. e \in seen' => Passed(d)'
  <2>1. CASE label = "set"
    <3>1. e \notin seen
      BY <1>2, <2>1 DEF OneDelivery, Passed
    <3> QED
      BY <2>1, <3>1
  <2>2. CASE label # "set"
    BY <1>1, <2>2 DEF Passed
  <2> QED
    BY <2>1, <2>2
<1> QED
  BY <1>1, <1>2, <1>3, <1>4, <1>5 DEF OneDelivery

LEMMA CalmStep ==
    ASSUME TypeInv, CalmInv, [Next]_vars
    PROVE  CalmInv'
<1> SUFFICES ASSUME Calm', NEW e \in Ids PROVE OneDelivery(e)'
  BY DEF CalmInv, Calm
<1> USE DEF TypeInv
<1>1. \A q \in Ids : OneDelivery(q)
  BY CalmBefore DEF CalmInv, Calm
<1>2. \A q \in Ids : \A c \in Of(q) : c \in Deliveries /\ c[1] = q
  BY DEF Of, Deliveries
<1>3. \A d \in Deliveries : d[1] \in Ids /\ d \in Of(d[1]) /\ (d \in Of(e) <=> d[1] = e)
  BY DEF Of, Deliveries
<1>4. \A d \in Deliveries : d \in open <=> Running(d)
  BY <1>1, <1>3 DEF OneDelivery
<1>5. ASSUME NEW d \in Deliveries, Deliver(d) PROVE OneDelivery(e)'
  <2>1. /\ d[1] \in queue /\ pc' = [pc EXCEPT ![d] = "get"] /\ queue' = queue \ {d[1]}
        /\ open' = open \cup {d} /\ seen' = seen /\ expired' = expired
    BY <1>5 DEF Deliver, Go
  <2>2. CASE d[1] = e
    <3>1. Of(e)' = Of(e) /\ \A c \in Of(e) : pc[c] = "none" /\ pc'[c] = IF c = d THEN "get" ELSE "none"
      BY <1>1, <1>2, <2>1, <2>2 DEF OneDelivery, Of, TypeOK
    <3>2. e \notin seen /\ d \in Of(e)
      BY <1>1, <1>3, <2>2, <3>1 DEF OneDelivery, Passed
    <3>3. \A c \in Of(e) : c \in open' <=> Running(c)'
      BY <1>1, <2>1, <3>1 DEF OneDelivery, Running
    <3> QED
      BY <2>1, <2>2, <3>1, <3>2, <3>3 DEF OneDelivery
  <2>3. CASE d[1] # e
    <3>1. \A c \in Of(e) : pc'[c] = pc[c] /\ (c \in open' <=> c \in open)
      BY <1>2, <2>1, <2>3 DEF TypeOK
    <3> QED
      BY <1>1, <2>1, <2>3, <3>1, DeliveryKept
  <2> QED
    BY <2>2, <2>3
<1>6. ASSUME NEW d \in Deliveries, Running(d),
             NEW label \in {"set", "hour", "day", "reply", "done"},
             pc' = [pc EXCEPT ![d] = label],
             queue' = queue, expired' = expired,
             label = "set" => seen' = seen /\ ~Passed(d),
             label # "set" => seen' = seen \cup {d[1]} \/ (seen' = seen /\ Passed(d)),
             open' = IF label = "done" THEN open \ {d} ELSE open
      PROVE  OneDelivery(e)'
  <2>1. CASE d[1] = e
    BY <1>1, <1>3, <1>6, <2>1, DeliveryGoes
  <2>2. CASE d[1] # e
    <3>1. \A c \in Of(e) : pc'[c] = pc[c] /\ (c \in open' <=> c \in open)
      BY <1>2, <1>6, <2>2 DEF TypeOK
    <3>2. e \in seen' => e \in seen
      BY <1>6, <2>2
    <3> QED
      BY <1>1, <1>6, <3>1, <3>2, DeliveryKept
  <2> QED
    BY <2>1, <2>2
<1>7. ASSUME NEW d \in Deliveries, JtiUnseen(d) PROVE OneDelivery(e)'
  BY <1>6, <1>7 DEF JtiUnseen, Go, Running, Passed
<1>8. ASSUME NEW d \in Deliveries, JtiReplayed(d) PROVE OneDelivery(e)'
  <2>1. pc[d] = "get" /\ d[1] \in seen
    BY <1>8 DEF JtiReplayed
  <2>2. PICK c \in Of(d[1]) : Passed(c)
    BY <1>1, <1>3, <2>1 DEF OneDelivery
  <2>3. c = d
    BY <1>1, <1>3, <2>1, <2>2 DEF OneDelivery, Passed
  <2> QED
    BY <2>1, <2>2, <2>3 DEF Passed
<1>9. ASSUME NEW d \in Deliveries, Accept(d) PROVE OneDelivery(e)'
  BY <1>6, <1>9 DEF Accept, Go, Running
<1>10. ASSUME NEW d \in Deliveries, Running(d), Settle(d)
       PROVE  open' = open \ {d} /\ queue' = queue
  BY <1>4, <1>10, SettleShape
<1>11. ASSUME NEW d \in Deliveries, Ignore(d) PROVE OneDelivery(e)'
  <2>1. Running(d) /\ Settle(d)
    BY <1>11 DEF Ignore, Running
  <2> QED
    BY <1>6, <1>10, <1>11, <2>1 DEF Ignore, Go
<1>12. ASSUME NEW d \in Deliveries, CountHour(d) PROVE OneDelivery(e)'
  <2>1. Running(d) /\ Passed(d) /\ UNCHANGED <<queue, open, seen, expired>>
    BY <1>12 DEF CountHour, Running, Passed
  <2>2. pc' = [pc EXCEPT ![d] = "day"] \/ pc' = [pc EXCEPT ![d] = "reply"]
    BY <1>12 DEF CountHour, Go
  <2> QED
    BY <1>6, <2>1, <2>2
<1>13. ASSUME NEW d \in Deliveries, CountDay(d) PROVE OneDelivery(e)'
  <2>1. /\ Running(d) /\ Passed(d) /\ UNCHANGED <<queue, open, seen, expired>>
        /\ pc' = [pc EXCEPT ![d] = "reply"]
    BY <1>13 DEF CountDay, Running, Passed, Go
  <2> QED
    BY <1>6, <2>1
<1>14. ASSUME NEW d \in Deliveries, Acknowledge(d) PROVE OneDelivery(e)'
  <2>1. Running(d) /\ Passed(d) /\ Settle(d)
    BY <1>14 DEF Acknowledge, Running, Passed
  <2> QED
    BY <1>6, <1>10, <1>14, <2>1 DEF Acknowledge, Go
<1>15. ASSUME NEW q \in Ids, Refuse(q) PROVE OneDelivery(e)'
  BY <1>1, <1>15, DeliveryKept DEF Refuse
<1>16. CASE UNCHANGED vars
  BY <1>1, <1>16, DeliveryKept DEF vars, consumer
<1> QED
  BY <1>5, <1>7, <1>8, <1>9, <1>11, <1>12, <1>13, <1>14, <1>15, <1>16, CalmBefore
  DEF Next, Callback

(* Without a fault, an event the broker has forgotten has been counted in  *)
(* the rows of its kind, or its token was refused (startConsumer acks      *)
(* after the handler has returned).                                        *)
THEOREM NoEventUncounted == Spec => []CountedWithoutFault
<1>1. Init => CalmInv
  BY DEF Init, CalmInv, OneDelivery, Of, Running
<1>2. TypeInv /\ CalmInv /\ [Next]_vars => (TypeInv /\ CalmInv)'
  BY TypeStep, CalmStep
<1>3. TypeInv /\ CalmInv => CountedWithoutFault
  <2> SUFFICES ASSUME TypeInv, CalmInv, outages + faults = 0,
                      NEW e \in Ids \ (queue \cup expired), events[e].kind # "other",
                      \A d \in Of(e) : d \notin open
               PROVE  \/ events[e].kind = "transaction.started" /\ Of(e) \cap InHour # {}
                      \/ Of(e) \cap InDay # {}
    BY DEF CountedWithoutFault
  <2>1. OneDelivery(e)
    BY DEF CalmInv
  <2>2. PICK d \in Of(e) : pc[d] # "none"
    BY <2>1 DEF OneDelivery
  <2>3. pc[d] = "done" /\ d \in Deliveries /\ Event(d) = events[e]
    BY <2>1, <2>2 DEF OneDelivery, Running, Of, Event
  <2>4. events[e].kind \in {"transaction.started", "transaction.stopped", "other"}
    BY DEF TypeInv, TypeOK, Events
  <2> QED
    BY <2>3, <2>4 DEF InHour, InDay, Counts
<1> QED
  BY <1>1, <1>2, <1>3, TypeInit, PTL DEF Spec
-----------------------------------------------------------------------------
(* Sums.  The library states induction over finite sets for an operator;   *)
(* here it is first-order, for the set F of those a fact holds of.         *)

(* What holds of a finite set if it holds of every set all of whose proper *)
(* subsets it holds of                                                     *)
LEMMA SubsetInduction ==
    ASSUME NEW S, IsFiniteSet(S), NEW F,
           \A T \in SUBSET S : (\A U \in SUBSET T : U # T => U \in F) => T \in F
    PROVE  S \in F
<1> DEFINE R   == StrictSubsetOrdering(S)
           Bad == (SUBSET S) \ F
<1>1. IsWellFoundedOn(R, SUBSET S)
  BY FS_StrictSubsetOrderingWellFounded, FS_FiniteSubsetsOfFinite
<1>2. SUFFICES ASSUME Bad # {} PROVE FALSE
  OBVIOUS
<1>3. \E T \in Bad : \A U \in Bad : ~ (<<U, T>> \in R)
  <2> HIDE DEF R
  <2>1. Bad \subseteq SUBSET S
    OBVIOUS
  <2> HIDE DEF Bad
  <2> QED
    BY <1>1, <1>2, <2>1, WFMin
<1>4. PICK T \in Bad : \A U \in Bad : ~ (<<U, T>> \in R)
  BY <1>3
<1>5. \A U \in SUBSET T : U # T => U \in F
  BY <1>4 DEF StrictSubsetOrdering
<1> QED
  BY <1>4, <1>5

(* The community modules add up over a set by the function g. *)
Pick(s) == CHOOSE x \in s : TRUE

Adds(f, g, S) == g = [s \in SUBSET S |-> IF s = {} THEN 0 ELSE f[Pick(s)] + g[s \ {Pick(s)}]]

Adder(f, S) == CHOOSE g : Adds(f, g, S)

LEMMA SumByAdder ==
    ASSUME NEW f, NEW S
    PROVE  SumFunctionOnSet(f, S) = Adder(f, S)[S]
BY DEF SumFunctionOnSet, FoldFunctionOnSet, MapThenFoldSet, Adder, Adds, Pick

LEMMA PickOne == ASSUME NEW s, s # {} PROVE Pick(s) \in s /\ s \ {Pick(s)} # s
BY DEF Pick

LEMMA AddersAgree ==
    ASSUME NEW f, NEW S, NEW T, NEW g, NEW h, Adds(f, g, S), Adds(f, h, T),
           NEW U, U \subseteq S, U \subseteq T, IsFiniteSet(U)
    PROVE  g[U] = h[U]
<1> DEFINE F == {s \in SUBSET U : g[s] = h[s]}
<1>1. \A s \in SUBSET S : g[s] = IF s = {} THEN 0 ELSE f[Pick(s)] + g[s \ {Pick(s)}]
  BY DEF Adds
<1>2. \A s \in SUBSET T : h[s] = IF s = {} THEN 0 ELSE f[Pick(s)] + h[s \ {Pick(s)}]
  BY DEF Adds
<1>3. ASSUME NEW s \in SUBSET U, \A r \in SUBSET s : r # s => r \in F PROVE s \in F
  <2>1. CASE s = {}
    BY <1>1, <1>2, <2>1
  <2>2. CASE s # {}
    <3>1. g[s \ {Pick(s)}] = h[s \ {Pick(s)}]
      BY <1>3, <2>2, PickOne
    <3> QED
      BY <1>1, <1>2, <2>2, <3>1
  <2> QED
    BY <2>1, <2>2
<1>4. U \in F
  <2> HIDE DEF F
  <2> QED
    BY <1>3, SubsetInduction
<1> QED
  BY <1>4

LEMMA AdderAdds ==
    ASSUME NEW f, NEW S, IsFiniteSet(S)
    PROVE  Adds(f, Adder(f, S), S)
<1> DEFINE F == {T \in SUBSET S : \E g : Adds(f, g, T)}
<1>1. ASSUME NEW T \in SUBSET S, \A U \in SUBSET T : U # T => U \in F PROVE T \in F
  <2> DEFINE h == [s \in SUBSET T |->
                     IF s = {} THEN 0
                     ELSE IF s = T THEN f[Pick(T)] + Adder(f, T \ {Pick(T)})[T \ {Pick(T)}]
                     ELSE Adder(f, s)[s]]
  <2>1. \A s \in SUBSET T : s # T => Adds(f, Adder(f, s), s)
    BY <1>1 DEF Adder
  <2>2. ASSUME NEW s \in SUBSET T, s # {}
        PROVE  h[s] = f[Pick(s)] + h[s \ {Pick(s)}]
    <3> DEFINE r == s \ {Pick(s)}
    <3>1. r \in SUBSET T /\ r # T /\ IsFiniteSet(r) /\ r \subseteq s /\ r \in SUBSET r
      BY <2>2, PickOne, FS_Subset
    <3>2. Adds(f, Adder(f, r), r)
      BY <2>1, <3>1
    <3>3. h[r] = Adder(f, r)[r]
      <4>1. CASE r = {}
        <5>1. Adder(f, r)[r] = 0
          BY <3>1, <3>2, <4>1 DEF Adds
        <5> QED
          BY <3>1, <4>1, <5>1
      <4>2. CASE r # {}
        BY <3>1, <4>2
      <4> QED
        BY <4>1, <4>2
    <3>4. CASE s = T
      BY <2>2, <3>3, <3>4
    <3>5. CASE s # T
      <4>1. Adds(f, Adder(f, s), s)
        BY <2>1, <3>5
      <4>2. Adder(f, s)[s] = f[Pick(s)] + Adder(f, s)[r]
        BY <2>2, <4>1 DEF Adds
      <4>3. Adder(f, s)[r] = Adder(f, r)[r]
        BY <3>1, <3>2, <4>1, AddersAgree
      <4>4. h[s] = Adder(f, s)[s]
        BY <2>2, <3>5
      <4> HIDE DEF h, r
      <4> QED
        BY <3>3, <4>2, <4>3, <4>4 DEF r
    <3> QED
      BY <3>4, <3>5
  <2>3. h[{}] = 0
    OBVIOUS
  <2>4. h = [s \in SUBSET T |-> h[s]]
    OBVIOUS
  <2> HIDE DEF h
  <2>5. Adds(f, h, T)
    BY <2>2, <2>3, <2>4 DEF Adds
  <2> QED
    BY <2>5
<1>2. S \in F
  <2> HIDE DEF F
  <2> QED
    BY <1>1, SubsetInduction
<1> QED
  BY <1>2 DEF Adder

LEMMA SumEmpty == ASSUME NEW f PROVE SumFunctionOnSet(f, {}) = 0
<1>1. Adds(f, Adder(f, {}), {})
  BY AdderAdds, FS_EmptySet
<1>2. Adder(f, {})[{}] = 0
  BY <1>1 DEF Adds
<1> QED
  BY <1>2, SumByAdder

LEMMA SumPick ==
    ASSUME NEW f, NEW S, IsFiniteSet(S), S # {}
    PROVE  SumFunctionOnSet(f, S) = f[Pick(S)] + SumFunctionOnSet(f, S \ {Pick(S)})
<1> DEFINE r == S \ {Pick(S)}
<1>1. IsFiniteSet(r) /\ r \subseteq S
  BY FS_Subset
<1>2. Adds(f, Adder(f, S), S) /\ Adds(f, Adder(f, r), r)
  BY <1>1, AdderAdds
<1>3. Adder(f, S)[S] = f[Pick(S)] + Adder(f, S)[r]
  BY <1>2 DEF Adds
<1>4. Adder(f, S)[r] = Adder(f, r)[r]
  BY <1>1, <1>2, AddersAgree
<1> QED
  BY <1>3, <1>4, SumByAdder

LEMMA SumType ==
    ASSUME NEW S, IsFiniteSet(S), NEW f, \A x \in S : f[x] \in Int
    PROVE  SumFunctionOnSet(f, S) \in Int
<1> DEFINE F == {T \in SUBSET S : SumFunctionOnSet(f, T) \in Int}
<1>1. ASSUME NEW T \in SUBSET S, \A U \in SUBSET T : U # T => U \in F PROVE T \in F
  <2>1. CASE T = {}
    BY <2>1, SumEmpty
  <2>2. CASE T # {}
    <3>1. SumFunctionOnSet(f, T \ {Pick(T)}) \in Int /\ f[Pick(T)] \in Int
      BY <1>1, <2>2, PickOne
    <3>2. SumFunctionOnSet(f, T) = f[Pick(T)] + SumFunctionOnSet(f, T \ {Pick(T)})
      BY <2>2, SumPick, FS_Subset
    <3> QED
      BY <3>1, <3>2
  <2> QED
    BY <2>1, <2>2
<1>2. S \in F
  <2> HIDE DEF F
  <2> QED
    BY <1>1, SubsetInduction
<1> QED
  BY <1>2

(* It does not matter which element is taken out. *)
LEMMA SumRemove ==
    ASSUME NEW S, IsFiniteSet(S), NEW f, \A x \in S : f[x] \in Int, NEW e \in S
    PROVE  SumFunctionOnSet(f, S) = f[e] + SumFunctionOnSet(f, S \ {e})
<1> DEFINE F == {T \in SUBSET S :
                   \A x \in T : SumFunctionOnSet(f, T) = f[x] + SumFunctionOnSet(f, T \ {x})}
<1>1. ASSUME NEW T \in SUBSET S, \A U \in SUBSET T : U # T => U \in F PROVE T \in F
  <2> SUFFICES ASSUME NEW x \in T
               PROVE  SumFunctionOnSet(f, T) = f[x] + SumFunctionOnSet(f, T \ {x})
    OBVIOUS
  <2> DEFINE p == Pick(T)
  <2>1. p \in T /\ IsFiniteSet(T)
    BY PickOne, FS_Subset
  <2>2. SumFunctionOnSet(f, T) = f[p] + SumFunctionOnSet(f, T \ {p})
    BY <2>1, SumPick
  <2> HIDE DEF p
  <2>3. CASE x = p
    BY <2>2, <2>3
  <2>4. CASE x # p
    <3> DEFINE r == (T \ {p}) \ {x}
    <3>1. r = (T \ {x}) \ {p}
      OBVIOUS
    <3>2. SumFunctionOnSet(f, T \ {p}) = f[x] + SumFunctionOnSet(f, r)
      BY <1>1, <2>1, <2>4
    <3>3. SumFunctionOnSet(f, T \ {x}) = f[p] + SumFunctionOnSet(f, r)
      BY <1>1, <2>1, <2>4, <3>1
    <3>4. SumFunctionOnSet(f, r) \in Int /\ f[x] \in Int /\ f[p] \in Int
      <4>1. IsFiniteSet(r) /\ r \subseteq S
        BY <2>1, FS_Subset
      <4> HIDE DEF r
      <4> QED
        BY <2>1, <4>1, SumType
    <3> HIDE DEF r
    <3> QED
      BY <2>2, <3>2, <3>3, <3>4
  <2> QED
    BY <2>3, <2>4
<1>2. S \in F
  <2> HIDE DEF F
  <2> QED
    BY <1>1, SubsetInduction
<1> QED
  BY <1>2

LEMMA SumAgree ==
    ASSUME NEW S, IsFiniteSet(S), NEW f, NEW g, \A x \in S : f[x] = g[x]
    PROVE  SumFunctionOnSet(f, S) = SumFunctionOnSet(g, S)
<1> DEFINE F == {T \in SUBSET S : SumFunctionOnSet(f, T) = SumFunctionOnSet(g, T)}
<1>1. ASSUME NEW T \in SUBSET S, \A U \in SUBSET T : U # T => U \in F PROVE T \in F
  <2>1. CASE T = {}
    BY <2>1, SumEmpty
  <2>2. CASE T # {}
    <3>1. /\ SumFunctionOnSet(f, T \ {Pick(T)}) = SumFunctionOnSet(g, T \ {Pick(T)})
          /\ f[Pick(T)] = g[Pick(T)]
      BY <1>1, <2>2, PickOne
    <3>2. IsFiniteSet(T)
      BY FS_Subset
    <3> QED
      BY <2>2, <3>1, <3>2, SumPick
  <2> QED
    BY <2>1, <2>2
<1>2. S \in F
  <2> HIDE DEF F
  <2> QED
    BY <1>1, SubsetInduction
<1> QED
  BY <1>2

LEMMA SumZero ==
    ASSUME NEW S, IsFiniteSet(S), NEW f, \A x \in S : f[x] = 0
    PROVE  SumFunctionOnSet(f, S) = 0
<1> DEFINE F == {T \in SUBSET S : SumFunctionOnSet(f, T) = 0}
<1>1. ASSUME NEW T \in SUBSET S, \A U \in SUBSET T : U # T => U \in F PROVE T \in F
  <2>1. CASE T = {}
    BY <2>1, SumEmpty
  <2>2. CASE T # {}
    <3>1. SumFunctionOnSet(f, T \ {Pick(T)}) = 0 /\ f[Pick(T)] = 0
      BY <1>1, <2>2, PickOne
    <3>2. IsFiniteSet(T)
      BY FS_Subset
    <3> QED
      BY <2>2, <3>1, <3>2, SumPick
  <2> QED
    BY <2>1, <2>2
<1>2. S \in F
  <2> HIDE DEF F
  <2> QED
    BY <1>1, SubsetInduction
<1> QED
  BY <1>2

LEMMA SumAdd ==
    ASSUME NEW S, IsFiniteSet(S), NEW f, NEW e, e \notin S, \A x \in S \cup {e} : f[x] \in Int
    PROVE  SumFunctionOnSet(f, S \cup {e}) = f[e] + SumFunctionOnSet(f, S)
<1>1. IsFiniteSet(S \cup {e}) /\ (S \cup {e}) \ {e} = S
  BY FS_AddElement
<1> QED
  BY <1>1, SumRemove

(* One counter of those added up goes up by one. *)
LEMMA SumBump ==
    ASSUME NEW S, IsFiniteSet(S), NEW f, NEW g, NEW e \in S, \A x \in S : f[x] \in Int,
           g[e] = f[e] + 1, \A x \in S \ {e} : g[x] = f[x]
    PROVE  SumFunctionOnSet(g, S) = SumFunctionOnSet(f, S) + 1
<1> DEFINE r == S \ {e}
<1>1. IsFiniteSet(r) /\ \A x \in S : g[x] \in Int
  BY FS_Subset
<1>2. SumFunctionOnSet(f, S) = f[e] + SumFunctionOnSet(f, r)
  BY SumRemove
<1>3. SumFunctionOnSet(g, S) = g[e] + SumFunctionOnSet(g, r)
  BY <1>1, SumRemove
<1>4. SumFunctionOnSet(g, r) = SumFunctionOnSet(f, r)
  BY <1>1, SumAgree
<1>5. SumFunctionOnSet(f, r) \in Int /\ f[e] \in Int
  BY <1>1, SumType
<1> HIDE DEF r
<1> QED
  BY <1>2, <1>3, <1>4, <1>5

-----------------------------------------------------------------------------
(* Days are whole hours, so an hour does not reach into the next day. *)
LEMMA HourWithinDay ==
    ASSUME NEW n \in Nat, NEW H \in Nat \ {0}, NEW D \in Nat \ {0}, D % H = 0
    PROVE  ((n \div H) * H) \div D = n \div D
<1> DEFINE k == D \div H
           q == n \div H
           Q == n \div D
<1>1. k \in Int /\ D = k * H
  <2>1. k \in Int /\ D = H * k + (D % H)
    OBVIOUS
  <2> HIDE DEF k
  <2> QED
    BY <2>1
<1>2. q \in Int /\ q * H <= n /\ n < q * H + H
  OBVIOUS
<1>3. Q \in Int /\ Q * D <= n /\ n < Q * D + D
  OBVIOUS
<1> HIDE DEF k, q, Q
<1>4. Q * D = (Q * k) * H /\ Q * k \in Int
  BY <1>1, <1>3
<1>5. Q * k <= q
  <2> DEFINE p == Q * k
  <2>1. p \in Int /\ p * H < q * H + H
    BY <1>2, <1>3, <1>4
  <2> HIDE DEF p
  <2> SUFFICES ASSUME p >= q + 1 PROVE FALSE
    BY <1>2, <2>1 DEF p
  <2>2. (q + 1) * H <= p * H
    BY <1>2, <2>1
  <2>3. (q + 1) * H = q * H + H
    BY <1>2
  <2> QED
    BY <1>2, <2>1, <2>2, <2>3
<1>6. Q * D <= q * H
  <2> DEFINE p == Q * k
  <2>1. p \in Int /\ p <= q /\ Q * D = p * H
    BY <1>4, <1>5
  <2> HIDE DEF p
  <2>2. p * H <= q * H
    BY <1>2, <2>1
  <2> QED
    BY <2>1, <2>2
<1>7. q * H < Q * D + D
  BY <1>2, <1>3
<1>8. (q * H) \div D = Q
  <2> DEFINE m == q * H
             R == m \div D
  <2>1. m \in Int /\ Q * D <= m /\ m < Q * D + D
    BY <1>2, <1>6, <1>7
  <2> HIDE DEF m
  <2>2. R \in Int /\ R * D <= m /\ m < R * D + D
    BY <2>1
  <2> HIDE DEF R
  <2>3. ~ (R >= Q + 1)
    <3> SUFFICES ASSUME R >= Q + 1 PROVE FALSE
      OBVIOUS
    <3>1. (Q + 1) * D <= R * D /\ (Q + 1) * D = Q * D + D
      BY <1>3, <2>2
    <3> QED
      BY <1>3, <2>1, <2>2, <3>1
  <2>4. ~ (Q >= R + 1)
    <3> SUFFICES ASSUME Q >= R + 1 PROVE FALSE
      OBVIOUS
    <3>1. (R + 1) * D <= Q * D /\ (R + 1) * D = R * D + D
      BY <1>3, <2>2
    <3> QED
      BY <1>3, <2>1, <2>2, <3>1
  <2>5. R = Q
    BY <1>3, <2>2, <2>3, <2>4
  <2> QED
    BY <2>5 DEF R, m
<1> QED
  BY <1>8 DEF q, Q

LEMMA SameClock == \A t \in Times : DateOf(StartOfHour(t)) = DateOf(t)
<1> SUFFICES ASSUME NEW t \in Times PROVE DateOf(StartOfHour(t)) = DateOf(t)
  OBVIOUS
<1> DEFINE n == t + Offset
           m == (n \div HourTicks) * HourTicks
<1>1. n \in Nat /\ m \in Int /\ Offset \in Int
  BY StationAssumption
<1>2. m \div DayTicks = n \div DayTicks
  <2> HIDE DEF n
  <2> QED
    BY <1>1, StationAssumption, HourWithinDay
<1>3. StartOfHour(t) + Offset = m
  <2>1. StartOfHour(t) = m - Offset
    BY DEF StartOfHour
  <2> HIDE DEF m
  <2> QED
    BY <1>1, <2>1
<1> HIDE DEF m
<1> QED
  BY <1>2, <1>3 DEF DateOf

(* A day has finitely many hours, whatever the times. *)
LEMMA HoursOfFinite == \A day \in Dates : IsFiniteSet(HoursOf(day))
<1> SUFFICES ASSUME NEW day \in Dates PROVE IsFiniteSet(HoursOf(day))
  OBVIOUS
<1> DEFINE a == day * DayTicks - Offset
<1>1. day \in Int /\ DayTicks \in Nat \ {0} /\ Offset \in Nat
  BY StationAssumption DEF Dates, DateOf
<1>2. ASSUME NEW h \in HoursOf(day) PROVE h \in a .. a + DayTicks
  <2>1. h \in Int /\ (h + Offset) \div DayTicks = day
    BY <1>2, StationAssumption DEF HoursOf, Hours, StartOfHour, DateOf
  <2>2. day * DayTicks <= h + Offset /\ h + Offset < day * DayTicks + DayTicks
    BY <1>1, <2>1
  <2> QED
    BY <1>1, <2>1, <2>2
<1>3. HoursOf(day) \subseteq a .. a + DayTicks
  BY <1>2
<1>4. a \in Int /\ a + DayTicks \in Int
  BY <1>1
<1> HIDE DEF a
<1>5. IsFiniteSet(a .. a + DayTicks)
  BY <1>4, FS_Interval
<1> QED
  BY <1>3, <1>5, FS_Subset

-----------------------------------------------------------------------------
(* The daily row counts what reached the second upsert. *)
DaysCounted == \A day \in Dates : days[day].completed = Cardinality(On(day, InDay))

RowsInv ==
    /\ IsFiniteSet(InHour)
    /\ DaysCounted
    /\ HoursAddUp
    /\ AverageWithinRounding

(* Away from the upserts nothing enters or leaves a row. *)
LEMMA RowsKept ==
    ASSUME TypeInv, RowsInv, events' = events, rows' = rows,
           InHour' = InHour, InDay' = InDay, Pending' = Pending
    PROVE  RowsInv'
BY DEF RowsInv, DaysCounted, HoursAddUp, AverageWithinRounding, rows, On, Event

LEMMA RowsChange ==
    ASSUME TypeInv, [Next]_vars
    PROVE  \/ \E d \in Deliveries : CountHour(d) \/ CountDay(d)
           \/ /\ events' = events /\ rows' = rows
              /\ InHour' = InHour /\ InDay' = InDay /\ Pending' = Pending
<1> USE DEF TypeInv, TypeOK
<1>1. ASSUME NEW d \in Deliveries, Callback(d), ~CountHour(d), ~CountDay(d)
      PROVE  /\ events' = events /\ rows' = rows
             /\ \E label \in Labels :
                  /\ pc' = [pc EXCEPT ![d] = label]
                  /\ label \in {"day", "half"} <=> pc[d] \in {"day", "half"}
                  /\ Counts(d) => (label \in {"reply", "done"} <=> pc[d] \in {"reply", "done"})
  BY <1>1 DEF Callback, Deliver, JtiUnseen, JtiReplayed, Accept, Ignore, CountFails,
              Acknowledge, Go, Labels, rows
<1>2. ASSUME NEW ds \in SUBSET Deliveries, Crash(ds)
      PROVE  /\ events' = events /\ rows' = rows
             /\ \A d \in Deliveries :
                  /\ pc'[d] \in {"day", "half"} <=> pc[d] \in {"day", "half"}
                  /\ pc'[d] \in {"reply", "done"} <=> pc[d] \in {"reply", "done"}
  BY <1>2 DEF Crash, Ended, Running, rows
<1>3. ASSUME events' = events,
             \A d \in Deliveries :
               /\ pc'[d] \in {"day", "half"} <=> pc[d] \in {"day", "half"}
               /\ Counts(d) => (pc'[d] \in {"reply", "done"} <=> pc[d] \in {"reply", "done"})
      PROVE  InHour' = InHour /\ InDay' = InDay /\ Pending' = Pending
  <2>1. \A d \in Deliveries : Event(d)' = Event(d) /\ Counts(d)' = Counts(d)
    BY <1>3 DEF Event, Counts
  <2>2. InHour' = InHour
    BY <1>3, <2>1 DEF InHour
  <2>3. InDay' = InDay /\ Pending' = Pending
    <3>1. \A d \in InHour : d \in Deliveries /\ Counts(d)
      BY DEF InHour
    <3> QED
      BY <1>3, <2>1, <2>2, <3>1 DEF InDay, Pending
  <2> QED
    BY <2>2, <2>3
<1>4. ASSUME NEW d \in Deliveries, Callback(d), ~CountHour(d), ~CountDay(d)
      PROVE  /\ events' = events /\ rows' = rows
             /\ InHour' = InHour /\ InDay' = InDay /\ Pending' = Pending
  BY <1>1, <1>3, <1>4
<1>5. (\E e \in Ids : Refuse(e)) \/ (\E ds \in SUBSET open : Drop(ds)) \/ UNCHANGED vars
        => UNCHANGED <<events, rows, pc>>
  BY DEF Refuse, Drop, vars, consumer, rows
<1>6. UNCHANGED <<events, rows, pc>> => InHour' = InHour /\ InDay' = InDay /\ Pending' = Pending
  BY <1>3
<1>7. (\E ds \in SUBSET Deliveries : Crash(ds)) =>
        /\ events' = events /\ rows' = rows
        /\ InHour' = InHour /\ InDay' = InDay /\ Pending' = Pending
  BY <1>2, <1>3
<1> QED
  BY <1>4, <1>5, <1>6, <1>7 DEF Next

(* The first upsert: a session counted in its hour is pending for its day. *)
LEMMA HourCounted ==
    ASSUME TypeInv, RowsInv, NEW d \in Deliveries, CountHour(d)
    PROVE  RowsInv'
<1> DEFINE h == StartOfHour(Event(d).time)
           f == [x \in Hours |-> hours[x].completed]
           stopped == Event(d).kind = "transaction.stopped"
<1> USE DEF TypeInv, TypeOK
<1>1. /\ events' = events /\ days' = days /\ pc[d] = "hour" /\ Counts(d)
      /\ pc' = [pc EXCEPT ![d] = IF stopped THEN "day" ELSE "reply"]
      /\ hours' = IF stopped THEN [hours EXCEPT ![h].completed = @ + 1]
                             ELSE [hours EXCEPT ![h].started = @ + 1]
  BY DEF CountHour, Go, Upserting
<1>2. \A c \in Deliveries : Event(c)' = Event(c) /\ (Counts(c)' <=> Counts(c))
  BY <1>1 DEF Event, Counts
<1>3. InHour' = InHour \cup {d}
  BY <1>1, <1>2 DEF InHour
<1>4. InDay' = InDay
  BY <1>1, <1>2 DEF InHour, InDay
<1>5. Pending' = IF stopped THEN Pending \cup {d} ELSE Pending
  BY <1>1, <1>2 DEF InHour, Pending
<1>6. d \notin Pending /\ h \in Hours
  BY <1>1, BucketsOfEvent DEF Pending
<1>7. \A day : On(day, InDay)' = On(day, InDay)
  BY <1>2, <1>4 DEF On, InDay, InHour
<1>8. IsFiniteSet(InHour')
  BY <1>3, FS_AddElement DEF RowsInv
<1>9. DaysCounted' /\ AverageWithinRounding'
  BY <1>1, <1>7 DEF RowsInv, DaysCounted, AverageWithinRounding, Event
<1>10. ASSUME NEW day \in Dates
       PROVE  SumFunctionOnSet(f', HoursOf(day))
                = days'[day].completed + Cardinality(On(day, Pending)')
  <2>1. /\ SumFunctionOnSet(f, HoursOf(day)) = days[day].completed + Cardinality(On(day, Pending))
        /\ days[day].completed \in Int
    BY DEF RowsInv, HoursAddUp
  <2>2. IsFiniteSet(On(day, Pending)) /\ IsFiniteSet(HoursOf(day)) /\ HoursOf(day) \subseteq Hours
    BY FS_Subset, HoursOfFinite DEF RowsInv, On, Pending, HoursOf
  <2>3. Cardinality(On(day, Pending)) \in Nat /\ \A x \in Hours : f[x] \in Int
    BY <2>2, FS_CardinalityType
  <2>4. On(day, Pending)' = IF stopped /\ DateOf(Event(d).time) = day
                            THEN On(day, Pending) \cup {d} ELSE On(day, Pending)
    BY <1>2, <1>5 DEF On, Pending, InHour
  <2>5. DateOf(h) = DateOf(Event(d).time)
    BY <1>1, SameClock DEF Event, Events, Counts, Deliveries
  <2>6. \A x \in Hours : f'[x] = IF stopped /\ x = h THEN f[x] + 1 ELSE f[x]
    BY <1>1, <1>6
  <2>7. CASE stopped /\ DateOf(h) = day
    <3>1. h \in HoursOf(day)
      BY <1>6, <2>7 DEF HoursOf
    <3>2. SumFunctionOnSet(f', HoursOf(day)) = SumFunctionOnSet(f, HoursOf(day)) + 1
      <4>1. f'[h] = f[h] + 1 /\ \A x \in HoursOf(day) \ {h} : f'[x] = f[x]
        BY <1>6, <2>2, <2>6, <2>7
      <4> HIDE DEF f, h
      <4> QED
        BY <2>2, <2>3, <3>1, <4>1, SumBump
    <3>3. Cardinality(On(day, Pending)') = Cardinality(On(day, Pending)) + 1
      BY <1>6, <2>2, <2>4, <2>5, <2>7, FS_AddElement DEF On
    <3> HIDE DEF f
    <3> QED
      BY <1>1, <2>1, <2>3, <3>2, <3>3
  <2>8. CASE ~ (stopped /\ DateOf(h) = day)
    <3>1. SumFunctionOnSet(f', HoursOf(day)) = SumFunctionOnSet(f, HoursOf(day))
      <4>1. \A x \in HoursOf(day) : f'[x] = f[x]
        BY <2>2, <2>6, <2>8 DEF HoursOf
      <4> HIDE DEF f
      <4> QED
        BY <2>2, <4>1, SumAgree
    <3> HIDE DEF f
    <3> QED
      BY <1>1, <2>1, <2>4, <2>5, <2>8, <3>1
  <2> QED
    BY <2>7, <2>8
<1>11. HoursAddUp'
  BY <1>10 DEF HoursAddUp, HoursOf
<1> QED
  BY <1>8, <1>9, <1>11 DEF RowsInv

(* One rounded update adds half the new number of sessions to the drift. *)
LEMMA DriftGrows ==
    ASSUME NEW avg \in Nat, NEW minutes \in Nat, NEW total \in Int, NEW n \in Nat,
           4 * (avg * n - total) <= n * (n + 1) - 2,
           4 * (avg * n - total) >= 2 - n * (n + 1)
    PROVE  LET drift == NewAverage(avg, n, minutes) * (n + 1) - (total + minutes)
           IN  /\ 4 * drift <= (n + 1) * (n + 2) - 2
               /\ 4 * drift >= 2 - (n + 1) * (n + 2)
<1> DEFINE s   == avg * n
           sum == 2 * (s + minutes) + n + 1
           two == 2 * (n + 1)
           q   == sum \div two
           p   == q * (n + 1)
           sq  == n * (n + 1)
<1>1. s \in Int /\ sum \in Nat /\ two \in Nat \ {0} /\ sq \in Int
  OBVIOUS
<1>2. q \in Int /\ q * two <= sum /\ sum < q * two + two
  <2> HIDE DEF sum, two
  <2> QED
    BY <1>1
<1>3. p \in Int /\ q * two = 2 * p
  <2> HIDE DEF q
  <2> QED
    BY <1>2
<1>4. NewAverage(avg, n, minutes) = q
  BY DEF NewAverage
<1>5. (n + 1) * (n + 2) = sq + 2 * n + 2
  OBVIOUS
<1>6. 4 * (s - total) <= sq - 2 /\ 4 * (s - total) >= 2 - sq
  OBVIOUS
<1> HIDE DEF s, q, p, sq
<1>7. 2 * p <= 2 * (s + minutes) + n + 1 /\ 2 * (s + minutes) < 2 * p + n + 1
  BY <1>1, <1>2, <1>3
<1>8. /\ 4 * (p - (total + minutes)) <= sq + 2 * n
      /\ 4 * (p - (total + minutes)) >= - sq - 2 * n
  BY <1>1, <1>3, <1>6, <1>7
<1> QED
  BY <1>1, <1>3, <1>4, <1>5, <1>8 DEF p

(* The second upsert: a pending session is counted, and averaged, for its  *)
(* day.                                                                    *)
LEMMA DayCounted ==
    ASSUME TypeInv, RowsInv, NEW d \in Deliveries, CountDay(d)
    PROVE  RowsInv'
<1> DEFINE date == DateOf(Event(d).time)
           n    == days[date].completed
           m    == Event(d).minutes
           f    == [c \in Deliveries |-> Event(c).minutes]
<1> USE DEF TypeInv, TypeOK
<1>1. /\ events' = events /\ hours' = hours /\ pc[d] = "day" /\ Counts(d)
      /\ Event(d).kind = "transaction.stopped"
      /\ pc' = [pc EXCEPT ![d] = "reply"]
      /\ days' = [days EXCEPT ![date] =
            [completed |-> n + 1, avg |-> IF n = 0 THEN m ELSE NewAverage(days[date].avg, n, m)]]
  BY DEF CountDay, Go, Upserting
<1>2. \A c \in Deliveries : Event(c)' = Event(c) /\ (Counts(c)' <=> Counts(c))
  BY <1>1 DEF Event, Counts
<1>3. InHour' = InHour /\ d \in InHour
  BY <1>1, <1>2 DEF InHour
<1>4. InDay' = InDay \cup {d} /\ d \notin InDay
  BY <1>1, <1>2, <1>3 DEF InHour, InDay
<1>5. Pending' = Pending \ {d} /\ d \in Pending
  BY <1>1, <1>2, <1>3 DEF Pending
<1>6. date \in Dates /\ n \in Nat /\ m \in 0 .. Longest /\ Longest \in Nat
  BY <1>1, BucketsOfEvent, LongestIsLongest
<1>7. \A day : /\ IsFiniteSet(On(day, InDay)) /\ Cardinality(On(day, InDay)) \in Nat
               /\ IsFiniteSet(On(day, Pending)) /\ Cardinality(On(day, Pending)) \in Nat
               /\ On(day, InDay) \subseteq Deliveries
  <2> SUFFICES ASSUME NEW day
               PROVE  /\ IsFiniteSet(On(day, InDay)) /\ IsFiniteSet(On(day, Pending))
                      /\ On(day, InDay) \subseteq Deliveries
    BY FS_CardinalityType
  <2> QED
    BY FS_Subset DEF RowsInv, On, InDay, Pending, InHour
<1>8. \A day : On(day, InDay)' = IF day = date THEN On(day, InDay) \cup {d} ELSE On(day, InDay)
  BY <1>2, <1>4 DEF On, InDay, InHour
<1>9. \A day : On(day, Pending)' = IF day = date THEN On(day, Pending) \ {d} ELSE On(day, Pending)
  BY <1>2, <1>5 DEF On, Pending, InHour
<1>10. d \notin On(date, InDay) /\ d \in On(date, Pending)
  BY <1>4, <1>5 DEF On
<1>11. ASSUME NEW day, day = date
       PROVE  /\ Cardinality(On(day, InDay)') = Cardinality(On(day, InDay)) + 1
              /\ Cardinality(On(day, Pending)') = Cardinality(On(day, Pending)) - 1
  <2> DEFINE counted == On(day, InDay)
             pending == On(day, Pending)
  <2>1. On(day, InDay)' = counted \cup {d} /\ On(day, Pending)' = pending \ {d}
    BY <1>8, <1>9, <1>11
  <2>2. IsFiniteSet(counted) /\ IsFiniteSet(pending) /\ d \notin counted /\ d \in pending
    BY <1>7, <1>10, <1>11
  <2> HIDE DEF counted, pending
  <2>3. /\ Cardinality(counted \cup {d}) = Cardinality(counted) + 1
        /\ Cardinality(pending \ {d}) = Cardinality(pending) - 1
    BY <2>2, FS_AddElement, FS_RemoveElement
  <2> QED
    BY <2>1, <2>3 DEF counted, pending
<1>12. /\ days'[date].completed = n + 1
       /\ days'[date].avg = IF n = 0 THEN m ELSE NewAverage(days[date].avg, n, m)
       /\ \A day \in Dates \ {date} : days'[day] = days[day]
  BY <1>1, <1>6
<1>13. DaysCounted'
  <2> SUFFICES ASSUME NEW day \in Dates
               PROVE  days'[day].completed = Cardinality(On(day, InDay)')
    BY DEF DaysCounted
  <2>1. days[day].completed = Cardinality(On(day, InDay))
    BY DEF RowsInv, DaysCounted
  <2>2. CASE day = date
    <3>1. Cardinality(On(day, InDay)') = Cardinality(On(day, InDay)) + 1
      BY <1>11, <2>2
    <3>2. days'[day].completed = days[day].completed + 1
      BY <1>12, <2>2
    <3> QED
      BY <2>1, <3>1, <3>2
  <2>3. CASE day # date
    BY <1>8, <1>12, <2>1, <2>3
  <2> QED
    BY <2>2, <2>3
<1>14. HoursAddUp'
  <2> SUFFICES ASSUME NEW day \in Dates
               PROVE  SumFunctionOnSet([h \in Hours |-> hours[h].completed], HoursOf(day))
                        = days'[day].completed + Cardinality(On(day, Pending)')
    BY <1>1 DEF HoursAddUp, HoursOf
  <2>1. SumFunctionOnSet([h \in Hours |-> hours[h].completed], HoursOf(day))
          = days[day].completed + Cardinality(On(day, Pending))
    BY DEF RowsInv, HoursAddUp
  <2>2. CASE day = date
    <3> DEFINE k == days[day].completed
               b == Cardinality(On(day, Pending))
    <3>1. Cardinality(On(day, Pending)') = b - 1 /\ b \in Nat
      BY <1>7, <1>11, <2>2
    <3>2. days'[day].completed = k + 1 /\ k \in Nat
      BY <1>6, <1>12, <2>2
    <3>3. k + b = (k + 1) + (b - 1)
      <4> HIDE DEF k, b
      <4> QED
        BY <3>1, <3>2
    <3> QED
      BY <2>1, <3>1, <3>2, <3>3
  <2>3. CASE day # date
    BY <1>9, <1>12, <2>1, <2>3
  <2> QED
    BY <2>2, <2>3
<1>15. ASSUME NEW day \in Dates
       PROVE  LET k     == days'[day].completed
                  total == SumFunctionOnSet(f, On(day, InDay)')
                  drift == days'[day].avg * k - total
              IN  k > 0 => 4 * drift <= k * (k + 1) - 2 /\ 4 * drift >= 2 - k * (k + 1)
  <2> DEFINE total == SumFunctionOnSet(f, On(day, InDay))
             avg   == days[day].avg
  <2>1. days[day].completed > 0 =>
          /\ 4 * (avg * days[day].completed - total)
               <= days[day].completed * (days[day].completed + 1) - 2
          /\ 4 * (avg * days[day].completed - total)
               >= 2 - days[day].completed * (days[day].completed + 1)
    BY DEF RowsInv, AverageWithinRounding
  <2>2. CASE day # date
    BY <1>8, <1>12, <2>1, <2>2
  <2>3. CASE day = date
    <3>1. \A c \in On(day, InDay) \cup {d} : f[c] \in Int
      <4>1. \A c \in On(day, InDay) \cup {d} : c \in Deliveries /\ Counts(c)
        BY <1>1 DEF On, InDay, InHour
      <4>2. \A c \in On(day, InDay) \cup {d} : Event(c).minutes \in 0 .. Longest
        BY <4>1, BucketsOfEvent
      <4> QED
        BY <1>6, <4>1, <4>2
    <3>2. total \in Int
      <4> HIDE DEF f
      <4> QED
        BY <1>7, <3>1, SumType
    <3>3. SumFunctionOnSet(f, On(day, InDay)') = total + m
      <4>1. f[d] = m /\ m \in Int
        BY <1>6
      <4>2. On(day, InDay)' = On(day, InDay) \cup {d}
        BY <1>8, <2>3
      <4> HIDE DEF f, m, date
      <4>3. SumFunctionOnSet(f, On(day, InDay) \cup {d}) = f[d] + total
        BY <1>7, <1>10, <2>3, <3>1, SumAdd
      <4> HIDE DEF total
      <4> QED
        BY <3>2, <4>1, <4>2, <4>3
    <3>4. avg \in Nat /\ m \in Nat
      BY <1>6
    <3>5. days'[day].completed = n + 1
          /\ days'[day].avg = IF n = 0 THEN m ELSE NewAverage(avg, n, m)
      BY <1>12, <2>3
    <3>6. CASE n = 0
      <4>1. On(day, InDay) = {}
        BY <1>7, <2>3, <3>6, FS_EmptySet DEF RowsInv, DaysCounted
      <4>2. total = 0
        BY <4>1, SumEmpty
      <4> HIDE DEF total, m, n, f
      <4> QED
        BY <3>3, <3>4, <3>5, <3>6, <4>2
    <3>7. CASE n # 0
      <4>1. /\ 4 * (avg * n - total) <= n * (n + 1) - 2
            /\ 4 * (avg * n - total) >= 2 - n * (n + 1)
        BY <1>6, <2>1, <2>3, <3>7
      <4>2. days'[day].avg = NewAverage(avg, n, m)
        BY <3>5, <3>7
      <4> DEFINE drift == NewAverage(avg, n, m) * (n + 1) - (total + m)
      <4> HIDE DEF total, m, n, avg, f
      <4>3. /\ 4 * drift <= (n + 1) * (n + 2) - 2
            /\ 4 * drift >= 2 - (n + 1) * (n + 2)
        BY <1>6, <3>2, <3>4, <4>1, DriftGrows
      <4>4. n + 1 + 1 = n + 2
        BY <1>6
      <4> QED
        BY <3>3, <3>5, <4>2, <4>3, <4>4
    <3> QED
      BY <3>6, <3>7
  <2> QED
    BY <2>2, <2>3
<1>16. AverageWithinRounding'
  <2>1. [c \in Deliveries |-> Event(c).minutes]' = f
    BY <1>2
  <2> HIDE DEF f
  <2> QED
    BY <1>15, <2>1 DEF AverageWithinRounding
<1> QED
  BY <1>3, <1>13, <1>14, <1>16 DEF RowsInv

LEMMA RowsInit == Init => RowsInv
<1> SUFFICES ASSUME Init PROVE RowsInv
  OBVIOUS
<1>1. InHour = {} /\ InDay = {} /\ Pending = {}
  BY DEF Init, InHour, InDay, Pending
<1>2. \A day : On(day, InDay) = {} /\ On(day, Pending) = {}
  BY <1>1 DEF On
<1>3. \A day \in Dates : days[day].completed = 0
  BY DEF Init
<1>4. ASSUME NEW day \in Dates
      PROVE  SumFunctionOnSet([h \in Hours |-> hours[h].completed], HoursOf(day)) = 0
  <2> DEFINE f == [h \in Hours |-> hours[h].completed]
  <2>1. \A h \in HoursOf(day) : f[h] = 0
    BY DEF Init, HoursOf
  <2> HIDE DEF f
  <2>2. SumFunctionOnSet(f, HoursOf(day)) = 0
    BY <2>1, HoursOfFinite, SumZero
  <2> QED
    BY <2>2 DEF f
<1>5. IsFiniteSet(InHour) /\ DaysCounted
  BY <1>1, <1>2, <1>3, FS_EmptySet DEF DaysCounted
<1>6. HoursAddUp
  BY <1>2, <1>3, <1>4, FS_EmptySet DEF HoursAddUp
<1>7. AverageWithinRounding
  BY <1>3 DEF AverageWithinRounding
<1> QED
  BY <1>5, <1>6, <1>7 DEF RowsInv

LEMMA RowsStep == TypeInv /\ RowsInv /\ [Next]_vars => RowsInv'
BY RowsChange, RowsKept, HourCounted, DayCounted

(* Whatever the events, the crashes and the errors, the hourly rows of a   *)
(* local day add up to its daily row and the callbacks that did not get    *)
(* from the one to the other (onSessionCompleted).                         *)
THEOREM HoursAgreeWithDays == Spec => []HoursAddUp
<1>1. TypeInv /\ RowsInv /\ [Next]_vars => (TypeInv /\ RowsInv)'
  BY TypeStep, RowsStep
<1>2. RowsInv => HoursAddUp
  BY DEF RowsInv
<1> QED
  BY <1>1, <1>2, TypeInit, RowsInit, PTL DEF Spec

(* However many sessions a day has, and in whatever order they are         *)
(* counted, the stored average is within the rounding of its updates of    *)
(* the mean of the sessions counted (avg_session_minutes).                 *)
THEOREM AverageStaysClose == Spec => []AverageWithinRounding
<1>1. TypeInv /\ RowsInv /\ [Next]_vars => (TypeInv /\ RowsInv)'
  BY TypeStep, RowsStep
<1>2. RowsInv => AverageWithinRounding
  BY DEF RowsInv
<1> QED
  BY <1>1, <1>2, TypeInit, RowsInit, PTL DEF Spec
-----------------------------------------------------------------------------
(* Until a fault, a refused event was never delivered. *)
RefusedForGood ==
    outages + faults = 0 =>
        \A e \in expired : e \notin queue /\ \A d \in Of(e) : pc[d] = "none"

LEMMA RefusedStep ==
    ASSUME TypeInv, CalmInv, RefusedForGood, [Next]_vars
    PROVE  RefusedForGood'
<1> SUFFICES ASSUME Calm', NEW e \in expired'
             PROVE  e \notin queue' /\ \A d \in Of(e) : pc'[d] = "none"
  BY DEF RefusedForGood, Calm, Of
<1> USE DEF TypeInv, TypeOK
<1>1. Calm /\ \A q \in Ids : OneDelivery(q)
  BY CalmBefore DEF CalmInv, Calm
<1>2. \A q \in Ids : \A d \in Of(q) : d \in Deliveries /\ d[1] = q
  BY DEF Of, Deliveries
<1>3. \A d \in Deliveries : d[1] \in Ids /\ d \in Of(d[1])
  BY DEF Of, Deliveries
<1>4. \A d \in Deliveries : d \in open <=> Running(d)
  BY <1>1, <1>3 DEF OneDelivery
<1>5. \A d \in Deliveries : Running(d) /\ Settle(d) => queue' = queue
  BY <1>4, SettleShape
<1>6. ASSUME e \in expired, e \notin queue', \A d \in Of(e) : pc'[d] = pc[d]
      PROVE  e \notin queue' /\ \A d \in Of(e) : pc'[d] = "none"
  BY <1>1, <1>6 DEF RefusedForGood, Calm
<1>7. ASSUME NEW d \in Deliveries, expired' = expired, queue' \subseteq queue,
             \E label \in Labels : pc' = [pc EXCEPT ![d] = label],
             pc[d] # "none" \/ d[1] \in queue
      PROVE  e \notin queue' /\ \A c \in Of(e) : pc'[c] = "none"
  <2>1. e \in Ids /\ e \notin queue /\ \A c \in Of(e) : pc[c] = "none"
    BY <1>1, <1>7 DEF RefusedForGood, Calm
  <2>2. d \notin Of(e)
    BY <1>2, <1>7, <2>1
  <2> QED
    BY <1>2, <1>7, <2>1, <2>2
<1>8. ASSUME NEW d \in Deliveries, Callback(d)
      PROVE  e \notin queue' /\ \A c \in Of(e) : pc'[c] = "none"
  <2>1. /\ expired' = expired
        /\ \E label \in Labels : pc' = [pc EXCEPT ![d] = label]
        /\ pc[d] # "none" \/ d[1] \in queue
    BY <1>8 DEF Callback, Deliver, JtiUnseen, JtiReplayed, Accept, Ignore, CountHour, CountDay,
                CountFails, Acknowledge, Go, Labels
  <2>2. queue' \subseteq queue \/ (Running(d) /\ Settle(d))
    BY <1>8 DEF Callback, Deliver, JtiUnseen, JtiReplayed, Accept, Ignore, CountHour, CountDay,
                CountFails, Acknowledge, Running
  <2> QED
    BY <1>5, <1>7, <2>1, <2>2
<1>9. ASSUME NEW q \in Ids, Refuse(q)
      PROVE  e \notin queue' /\ \A c \in Of(e) : pc'[c] = "none"
  <2>1. pc' = pc /\ queue' = queue \ {q} /\ expired' = expired \cup {q} /\ q \in queue
    BY <1>9 DEF Refuse
  <2>2. \A c \in Of(q) : pc[c] = "none"
    BY <1>1, <2>1 DEF OneDelivery
  <2> QED
    BY <1>1, <2>1, <2>2 DEF RefusedForGood, Calm
<1>10. CASE UNCHANGED vars
  BY <1>1, <1>10 DEF vars, consumer, RefusedForGood, Calm
<1> QED
  BY <1>8, <1>9, <1>10, CalmBefore DEF Next

(* A sum may be taken over the images of what it was taken over. *)
LEMMA SumRenamed ==
    ASSUME NEW S, IsFiniteSet(S), NEW f, NEW b, NEW g, NEW I,
           \A x \in S : f[x] \in Int /\ f[x] = g[b[x]] /\ b[x] \in I,
           \A x, y \in S : b[x] = b[y] => x = y,
           \A y \in I : \E x \in S : y = b[x]
    PROVE  Cardinality(I) = Cardinality(S) /\ SumFunctionOnSet(g, I) = SumFunctionOnSet(f, S)
<1> DEFINE F == {T \in SUBSET S :
                   /\ IsFiniteSet({b[x] : x \in T})
                   /\ Cardinality({b[x] : x \in T}) = Cardinality(T)
                   /\ SumFunctionOnSet(g, {b[x] : x \in T}) = SumFunctionOnSet(f, T)}
<1>1. ASSUME NEW T \in SUBSET S, \A U \in SUBSET T : U # T => U \in F PROVE T \in F
  <2>1. CASE T = {}
    <3>1. {b[x] : x \in T} = {}
      BY <2>1
    <3> QED
      BY <2>1, <3>1, SumEmpty, FS_EmptySet
  <2>2. CASE T # {}
    <3> DEFINE p == Pick(T)
               r == T \ {p}
               R == {b[x] : x \in r}
    <3>1. p \in T /\ r # T /\ r \in SUBSET T /\ IsFiniteSet(T) /\ IsFiniteSet(r)
      BY <2>2, PickOne, FS_Subset
    <3>2. /\ IsFiniteSet(R) /\ Cardinality(R) = Cardinality(r)
          /\ SumFunctionOnSet(g, R) = SumFunctionOnSet(f, r)
      BY <1>1, <3>1
    <3>3. {b[x] : x \in T} = R \cup {b[p]} /\ b[p] \notin R
      BY <3>1
    <3>4. \A y \in R \cup {b[p]} : g[y] \in Int
      BY <3>1
    <3>5. SumFunctionOnSet(f, T) = f[p] + SumFunctionOnSet(f, r) /\ f[p] = g[b[p]]
      BY <2>2, <3>1, SumPick
    <3> HIDE DEF p, r, R
    <3>6. SumFunctionOnSet(g, R \cup {b[p]}) = g[b[p]] + SumFunctionOnSet(g, R)
      BY <3>2, <3>3, <3>4, SumAdd
    <3>7. IsFiniteSet(R \cup {b[p]}) /\ Cardinality(R \cup {b[p]}) = Cardinality(R) + 1
      BY <3>2, <3>3, FS_AddElement
    <3>8. Cardinality(T) = Cardinality(r) + 1
      <4>1. T = r \cup {p} /\ p \notin r
        BY <3>1 DEF r
      <4> QED
        BY <3>1, <4>1, FS_AddElement
    <3> QED
      BY <3>2, <3>3, <3>5, <3>6, <3>7, <3>8
  <2> QED
    BY <2>1, <2>2
<1>2. S \in F
  <2> HIDE DEF F
  <2> QED
    BY <1>1, SubsetInduction
<1>3. I = {b[x] : x \in S}
  OBVIOUS
<1> QED
  BY <1>2, <1>3

(* Once all is settled, without a fault, the rows of a day are exactly the *)
(* sessions published for it and not refused, each counted once, and their *)
(* mean up to rounding (startConsumer, handleOcppEvent and                 *)
(* onSessionCompleted together).                                           *)
THEOREM RowsTellTheSessions == Spec => []RowsComplete
<1> DEFINE Inv == TypeInv /\ CalmInv /\ RefusedForGood /\ RowsInv
<1>1. Init => Inv
  <2>1. Init => CalmInv
    BY DEF Init, CalmInv, OneDelivery, Of, Running
  <2>2. Init => RefusedForGood
    BY DEF Init, RefusedForGood
  <2> QED
    BY <2>1, <2>2, TypeInit, RowsInit
<1>2. Inv /\ [Next]_vars => Inv'
  BY TypeStep, CalmStep, RefusedStep, RowsStep
<1>3. Inv => RowsComplete
  <2> SUFFICES ASSUME Inv, Calm, queue = {}, open = {}, NEW day \in Dates
               PROVE  LET n     == Cardinality(SessionsOf(day))
                          total == SumFunctionOnSet([e \in Ids |-> events[e].minutes],
                                                    SessionsOf(day))
                          drift == days[day].avg * n - total
                      IN  /\ days[day].completed = n
                          /\ SumFunctionOnSet([h \in Hours |-> hours[h].completed],
                                              HoursOf(day)) = n
                          /\ n > 0 => /\ 4 * drift <= n * (n + 1) - 2
                                      /\ 4 * drift >= 2 - n * (n + 1)
    BY DEF RowsComplete, Calm
  <2> USE DEF TypeInv, TypeOK
  <2> DEFINE S == On(day, InDay)
             f == [d \in Deliveries |-> Event(d).minutes]
             g == [e \in Ids |-> events[e].minutes]
             b == [d \in Deliveries |-> d[1]]
  <2>1. \A e \in Ids : OneDelivery(e)
    BY DEF CalmInv, Calm
  <2>2. \A d \in Deliveries : d[1] \in Ids /\ d \in Of(d[1]) /\ d \notin open
    BY DEF Of, Deliveries
  <2>3. \A d \in S : /\ d \in Deliveries /\ pc[d] \in {"reply", "done"} /\ Counts(d)
                     /\ Event(d).kind = "transaction.stopped" /\ DateOf(Event(d).time) = day
    BY DEF On, InDay, InHour
  <2>4. \A c, d \in S : b[c] = b[d] => c = d
    <3> SUFFICES ASSUME NEW c \in S, NEW d \in S, c[1] = d[1] PROVE c = d
      BY <2>3
    <3>1. c \in Of(d[1]) /\ d \in Of(d[1]) /\ pc[c] # "none" /\ pc[d] # "none"
      BY <2>2, <2>3
    <3> QED
      BY <2>1, <2>2, <2>3, <3>1 DEF OneDelivery
  <2>5. /\ \A d \in S : b[d] \in SessionsOf(day)
        /\ \A e \in SessionsOf(day) : \E d \in S : e = b[d]
    <3>1. ASSUME NEW d \in S PROVE d[1] \in SessionsOf(day)
      <4>1. d[1] \in Ids /\ d \in Of(d[1]) /\ pc[d] # "none"
        BY <2>2, <2>3
      <4>2. d[1] \notin expired
        BY <4>1 DEF RefusedForGood, Calm
      <4> QED
        BY <2>3, <4>1, <4>2 DEF SessionsOf, Event
    <3>2. ASSUME NEW e \in SessionsOf(day) PROVE \E d \in S : d[1] = e
      <4>1. e \in Ids /\ e \notin expired /\ events[e].kind = "transaction.stopped"
            /\ DateOf(events[e].time) = day
        BY DEF SessionsOf
      <4>2. PICK d \in Of(e) : pc[d] # "none"
        BY <2>1, <4>1 DEF OneDelivery
      <4>3. d \in Deliveries /\ d[1] = e /\ Event(d) = events[e]
        BY <4>2 DEF Of, Event
      <4>4. pc[d] = "done"
        BY <2>1, <2>2, <4>1, <4>2, <4>3 DEF OneDelivery, Running
      <4>5. d \in S
        BY <4>1, <4>3, <4>4 DEF On, InDay, InHour, Counts
      <4> QED
        BY <4>3, <4>5
    <3>3. \A d \in S : b[d] = d[1]
      BY <2>3
    <3> HIDE DEF S, b
    <3> QED
      BY <3>1, <3>2, <3>3
  <2>6. \A d \in S : f[d] \in Int /\ f[d] = g[b[d]]
    <3>1. \A d \in S : Event(d).minutes \in 0 .. Longest
      BY <2>3, BucketsOfEvent
    <3>2. \A d \in S : f[d] = Event(d).minutes /\ g[b[d]] = Event(d).minutes
      BY <2>2, <2>3 DEF Event
    <3> HIDE DEF S, f, g, b
    <3> QED
      BY <3>1, <3>2
  <2>7. IsFiniteSet(S)
    BY FS_Subset DEF RowsInv, On, InDay
  <2>8. /\ Cardinality(SessionsOf(day)) = Cardinality(S)
        /\ SumFunctionOnSet(g, SessionsOf(day)) = SumFunctionOnSet(f, S)
    <3> HIDE DEF S, f, g, b
    <3> QED
      BY <2>4, <2>5, <2>6, <2>7, SumRenamed
  <2>9. days[day].completed = Cardinality(S)
    BY DEF RowsInv, DaysCounted
  <2>10. SumFunctionOnSet([h \in Hours |-> hours[h].completed], HoursOf(day))
           = days[day].completed
    <3>1. On(day, Pending) = {}
      <4>1. ASSUME NEW d \in On(day, Pending) PROVE FALSE
        <5>1. d \in Deliveries /\ pc[d] \in {"day", "half"}
          BY <4>1 DEF On, Pending, InHour
        <5>2. OneDelivery(d[1]) /\ d \in Of(d[1]) /\ d \notin open
          BY <2>1, <2>2, <5>1
        <5> QED
          BY <5>1, <5>2 DEF OneDelivery, Running
      <4> QED
        BY <4>1
    <3>2. days[day].completed \in Nat
      OBVIOUS
    <3>3. SumFunctionOnSet([h \in Hours |-> hours[h].completed], HoursOf(day))
            = days[day].completed + Cardinality(On(day, Pending))
      BY DEF RowsInv, HoursAddUp
    <3> QED
      BY <3>1, <3>2, <3>3, FS_EmptySet
  <2>11. LET n     == days[day].completed
             drift == days[day].avg * n - SumFunctionOnSet(f, S)
         IN  n > 0 => 4 * drift <= n * (n + 1) - 2 /\ 4 * drift >= 2 - n * (n + 1)
    BY DEF RowsInv, AverageWithinRounding
  <2> HIDE DEF S, f, g
  <2>12. Cardinality(SessionsOf(day)) = days[day].completed
    BY <2>8, <2>9
  <2> QED
    BY <2>8, <2>10, <2>11, <2>12 DEF g
<1> QED
  BY <1>1, <1>2, <1>3, PTL DEF Spec
=============================================================================
