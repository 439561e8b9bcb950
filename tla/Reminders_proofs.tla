--------------------------- MODULE Reminders_proofs ---------------------------
(***************************************************************************)
(* Theorems about Reminders, for any number of reminders and messages, any *)
(* prefetch, times, retries and faults:                                    *)
(*   - the type invariant;                                                 *)
(*   - SentOnceWhenDue: no call of process() but the first and one for     *)
(*     each that threw, and none early;                                    *)
(*   - NothingLost: the two ways to lose a message;                        *)
(*   - OnTime: what a service without faults does, and does not do, as it  *)
(*     trusts its own tokens or not.                                       *)
(***************************************************************************)
EXTENDS Reminders, TLAPS, FiniteSetTheorems, SequenceTheorems

(* The places of the queue *)
Ready == 1 .. Len(queue)

In(c, q) == \E i \in 1 .. Len(q) : q[i] = c

IsHeld(c) == \E d \in unacked : d.copy = c

(* What the types do not say of the channel: its tags are given out once,  *)
(* and every jti has been given out.                                       *)
BrokerInv ==
    /\ queue \in Seq(Copies)
    /\ unacked \subseteq [tag : Nat, copy : Copies]
    /\ IsFiniteSet(unacked) /\ Cardinality(unacked) <= Prefetch
    /\ up \in BOOLEAN /\ nextTag \in Nat /\ nextJti \in Nat
    /\ \A i \in Ready : queue[i].jti < nextJti
    /\ \A d \in unacked : d.tag < nextTag /\ d.copy.jti < nextJti
    /\ \A d, e \in unacked : d.tag = e.tag => d = e
    /\ ~up => unacked = {}

HandlersInv ==
    /\ handlers \subseteq Handlers
    /\ \A h \in handlers :
          /\ h.copy.jti < nextJti
          /\ h.pc = "sleep" =>
                /\ h.copy.msg \in Reminders /\ h.wake >= clock
                /\ h.wake <= NotifyAt[h.copy.msg] /\ h.wake <= clock + MaxSleep
          /\ h.pc = "retry" => h.copy.retry < MaxRetries

TypeInv == TypeOK /\ BrokerInv /\ HandlersInv

(* The queue is q, behind the copies whose n deliveries were open. *)
InFront(n, q) ==
    /\ Len(queue') = n + Len(q)
    /\ \A i \in 1 .. n : \E d \in unacked : queue'[i] = d.copy
    /\ \A i \in 1 .. Len(q) : queue'[n + i] = q[i]
    /\ \A i, j \in 1 .. n : i # j =>
          \E d, e \in unacked : d # e /\ queue'[i] = d.copy /\ queue'[j] = e.copy

LEMMA SameLength ==
    ASSUME NEW a \in Nat, NEW b \in Nat, 1 .. a = 1 .. b
    PROVE  a = b
<1>1. Cardinality(1 .. a) = a
  <2>1. a = IF 1 > a THEN 0 ELSE a - 1 + 1
    OBVIOUS
  <2> QED
    BY <2>1, FS_Interval
<1>2. Cardinality(1 .. b) = b
  <2>1. b = IF 1 > b THEN 0 ELSE b - 1 + 1
    OBVIOUS
  <2> QED
    BY <2>1, FS_Interval
<1> QED
  BY <1>1, <1>2

LEMMA CopyFields ==
    ASSUME NEW c \in Copies
    PROVE  /\ c.msg \in Msgs /\ c.retry \in 0 .. MaxRetries /\ c.retry \in Nat
           /\ c.jti \in Nat /\ c.exp \in Nat /\ c.iss \in {"peer", "self"}
BY RemindersAssumption DEF Copies

(* A lost connection puts every open delivery back, and changes nothing    *)
(* about what is behind them.                                              *)
LEMMA Requeued ==
    ASSUME BrokerInv, NEW q \in Seq(Copies), Requeue(q)
    PROVE  /\ queue' \in Seq(Copies) /\ unacked' = {} /\ up' = FALSE
           /\ \E n \in Nat : InFront(n, q)
           /\ \A c : In(c, queue') <=> In(c, q) \/ IsHeld(c)
<1> DEFINE n == Cardinality(unacked)
<1>1. n \in Nat /\ IsFiniteSet(unacked)
  BY FS_CardinalityType DEF BrokerInv
<1>2. PICK ds \in [1 .. n -> unacked] :
         /\ \A i, j \in DOMAIN ds : i < j => ds[i].tag < ds[j].tag
         /\ queue' = [i \in DOMAIN ds |-> ds[i].copy] \o q
  BY DEF Requeue
<1> DEFINE r == [i \in DOMAIN ds |-> ds[i].copy]
<1>3. \A d \in unacked : d.tag \in Nat /\ d.copy \in Copies
  BY DEF BrokerInv
<1>4. /\ r \in Seq(Copies) /\ Len(r) = n
      /\ \A i \in 1 .. n : ds[i] \in unacked /\ r[i] = ds[i].copy
  <2>1. \A i \in 1 .. n : ds[i] \in unacked /\ r[i] = ds[i].copy
    BY <1>2
  <2>2. r \in [1 .. n -> Copies]
    BY <1>2, <1>3
  <2> HIDE DEF r, n
  <2>3. r \in Seq(Copies)
    BY <1>1, <2>2, SeqDef
  <2>4. DOMAIN r = 1 .. Len(r) /\ DOMAIN r = 1 .. n /\ Len(r) \in Nat
    BY <2>2, <2>3, LenProperties
  <2>5. Len(r) = n
    BY <1>1, <2>4, SameLength
  <2> QED
    BY <2>1, <2>3, <2>5
<1>5. /\ \A i, j \in 1 .. n : i # j => ds[i] # ds[j]
      /\ \A d \in unacked : \E i \in 1 .. n : ds[i] = d
  <2>1. \A i, j \in 1 .. n : ds[i] = ds[j] => i = j
    <3> SUFFICES ASSUME NEW i \in 1 .. n, NEW j \in 1 .. n, ds[i] = ds[j], i # j PROVE FALSE
      OBVIOUS
    <3>1. ds[i].tag < ds[j].tag \/ ds[j].tag < ds[i].tag
      BY <1>1, <1>2
    <3> QED
      BY <1>3, <1>4, <3>1
  <2>2. ds \in Injection(1 .. n, unacked)
    BY <1>2, <2>1 DEF Injection, IsInjective
  <2>3. Cardinality(1 .. n) = n
    BY <1>1, FS_Interval
  <2>4. ds \in Surjection(1 .. n, unacked)
    BY <1>1, <2>2, <2>3, FS_Injection
  <2> QED
    BY <2>1, <2>4 DEF Surjection
<1>6. /\ queue' \in Seq(Copies) /\ Len(queue') = n + Len(q)
      /\ \A i \in 1 .. n + Len(q) : queue'[i] = IF i <= n THEN r[i] ELSE q[i - n]
  BY <1>2, <1>4, ConcatProperties
<1> HIDE DEF n, r
<1>7. Len(q) \in Nat
  OBVIOUS
<1>8. /\ \A i \in 1 .. n : i \in 1 .. Len(queue') /\ queue'[i] = ds[i].copy /\ ds[i] \in unacked
      /\ \A i \in 1 .. Len(q) : n + i \in 1 .. Len(queue') /\ queue'[n + i] = q[i]
  <2>1. ASSUME NEW i \in 1 .. n
        PROVE  i \in 1 .. Len(queue') /\ queue'[i] = ds[i].copy /\ ds[i] \in unacked
    <3>1. i \in 1 .. n + Len(q) /\ i <= n
      BY <1>1, <1>7
    <3> QED
      BY <1>4, <1>6, <3>1
  <2>2. ASSUME NEW i \in 1 .. Len(q)
        PROVE  n + i \in 1 .. Len(queue') /\ queue'[n + i] = q[i]
    <3>1. n + i \in 1 .. n + Len(q) /\ ~(n + i <= n) /\ (n + i) - n = i
      BY <1>1, <1>7
    <3> QED
      BY <1>6, <3>1
  <2> QED
    BY <2>1, <2>2
<1>9. InFront(n, q)
  <2>1. \A i, j \in 1 .. n : i # j =>
          \E d, e \in unacked : d # e /\ queue'[i] = d.copy /\ queue'[j] = e.copy
    BY <1>5, <1>8
  <2> QED
    BY <1>6, <1>8, <2>1 DEF InFront
<1>10. ASSUME NEW c, In(c, queue') PROVE In(c, q) \/ IsHeld(c)
  <2>1. PICK i \in 1 .. Len(queue') : queue'[i] = c
    BY <1>10 DEF In
  <2>2. CASE i \in 1 .. n
    BY <1>8, <2>1, <2>2 DEF IsHeld
  <2>3. CASE i \notin 1 .. n
    <3>1. i - n \in 1 .. Len(q) /\ n + (i - n) = i
      BY <1>1, <1>6, <1>7, <2>3
    <3> QED
      BY <1>8, <2>1, <3>1 DEF In
  <2> QED
    BY <2>2, <2>3
<1>11. ASSUME NEW c, In(c, q) \/ IsHeld(c) PROVE In(c, queue')
  <2>1. CASE In(c, q)
    BY <1>8, <2>1 DEF In
  <2>2. CASE IsHeld(c)
    BY <1>5, <1>8, <2>2 DEF In, IsHeld
  <2> QED
    BY <1>11, <2>1, <2>2
<1> QED
  BY <1>1, <1>6, <1>9, <1>10, <1>11 DEF Requeue

(* An ack or nack settles the delivery that has its tag now, if any, or    *)
(* takes the connection down.                                              *)
LEMMA Settled ==
    ASSUME BrokerInv, NEW tag, NEW q \in Seq(Copies), Settle(tag, q)
    PROVE  /\ queue' \in Seq(Copies) /\ unacked' \subseteq unacked
           /\ up' \in BOOLEAN /\ (~up' => unacked' = {})
           /\ \A c : In(c, q) => In(c, queue')
           /\ \A c : In(c, queue') => In(c, q) \/ IsHeld(c)
           /\ \A d \in unacked : d \in unacked' \/ d \in Held(tag) \/ In(d.copy, queue')
<1>1. CASE up /\ Held(tag) = {}
  <2>1. Requeue(q)
    BY <1>1 DEF Settle
  <2> QED
    BY <2>1, Requeued DEF IsHeld
<1>2. CASE ~(up /\ Held(tag) = {})
  <2>1. queue' = q /\ unacked' = unacked \ Held(tag) /\ up' = up
    BY <1>2 DEF Settle
  <2> QED
    BY <2>1 DEF BrokerInv
<1> QED
  BY <1>1, <1>2

(* What an ack settles is the copy of its handler or counted in misacked. *)
LEMMA Acked ==
    ASSUME BrokerInv, NEW h, NEW q \in Seq(Copies), Ack(h, q)
    PROVE  /\ Settle(h.tag, q) /\ misacked \subseteq misacked'
           /\ (misacked \subseteq Msgs => misacked' \subseteq Msgs)
           /\ \A d \in Held(h.tag) : d.copy = h.copy \/ d.copy.msg \in misacked'
<1>1. misacked' = misacked \cup {d.copy.msg : d \in {e \in Held(h.tag) : e.copy # h.copy}}
  BY DEF Ack
<1>2. \A d \in Held(h.tag) : d.copy.msg \in Msgs
  BY CopyFields DEF Held, BrokerInv
<1> QED
  BY <1>1, <1>2 DEF Ack

LEMMA SignedCopy ==
    ASSUME TypeInv, NEW m \in Msgs, NEW n \in 0 .. MaxRetries, NEW s \in {"peer", "self"},
           NEW c, c = Signed(m, n, s)
    PROVE  /\ c \in Copies /\ c.msg = m /\ c.retry = n /\ c.iss = s
           /\ c.jti = nextJti /\ c.exp = clock + TokenTtl
           /\ Append(queue, c) \in Seq(Copies)
           /\ Len(Append(queue, c)) = Len(queue) + 1
           /\ \A i \in Ready : Append(queue, c)[i] = queue[i]
           /\ Append(queue, c)[Len(queue) + 1] = c
           /\ \A b : In(b, Append(queue, c)) <=> In(b, queue) \/ b = c
<1>1. clock + TokenTtl \in Nat /\ nextJti \in Nat /\ queue \in Seq(Copies) /\ Len(queue) \in Nat
  BY RemindersAssumption DEF TypeInv, TypeOK
<1>2. /\ c \in Copies /\ c.msg = m /\ c.retry = n /\ c.iss = s
      /\ c.jti = nextJti /\ c.exp = clock + TokenTtl
  BY <1>1 DEF Signed, Copies
<1> DEFINE q == Append(queue, c)
<1>3. /\ q \in Seq(Copies) /\ Len(q) = Len(queue) + 1
      /\ \A i \in 1 .. Len(queue) : q[i] = queue[i]
      /\ q[Len(queue) + 1] = c
  BY <1>1, <1>2, AppendProperties
<1> HIDE DEF q
<1>4. \A b : In(b, q) <=> In(b, queue) \/ b = c
  <2>1. \A i \in 1 .. Len(q) : i \in 1 .. Len(queue) \/ i = Len(queue) + 1
    BY <1>1, <1>3
  <2>2. Len(queue) + 1 \in 1 .. Len(q) /\ \A i \in 1 .. Len(queue) : i \in 1 .. Len(q)
    BY <1>1, <1>3
  <2> QED
    BY <1>3, <2>1, <2>2 DEF In
<1> QED
  BY <1>2, <1>3, <1>4 DEF q, Ready

(* The head of the queue leaves it, every other copy moves up. *)
LEMMA Delivered ==
    ASSUME TypeInv, Deliverable, queue' = Tail(queue)
    PROVE  /\ Head(queue) = queue[1] /\ queue[1] \in Copies /\ 1 \in Ready
           /\ queue' \in Seq(Copies) /\ Len(queue') = Len(queue) - 1
           /\ \A i \in Ready' : queue'[i] = queue[i + 1] /\ i + 1 \in Ready /\ i + 1 # 1
           /\ \A c : In(c, queue') => In(c, queue)
           /\ \A c : In(c, queue) => In(c, queue') \/ c = queue[1]
           /\ In(queue[1], queue)
           /\ up /\ Cardinality(unacked) < Prefetch
<1>1. queue \in Seq(Copies) /\ queue # <<>> /\ queue' = Tail(queue)
  BY DEF TypeInv, TypeOK, Deliverable
<1>2. Len(queue) \in Nat /\ Len(queue) # 0
  BY <1>1, EmptySeq
<1>3. /\ Head(queue) = queue[1] /\ queue[1] \in Copies /\ 1 \in Ready
      /\ queue' \in Seq(Copies) /\ Len(queue') = Len(queue) - 1
      /\ \A i \in 1 .. Len(queue') : queue'[i] = queue[i + 1]
  BY <1>1, <1>2, HeadTailProperties DEF Ready
<1>4. \A i \in Ready' : queue'[i] = queue[i + 1] /\ i + 1 \in Ready /\ i + 1 # 1
  BY <1>2, <1>3 DEF Ready
<1>5. \A i \in Ready : i # 1 => i - 1 \in Ready' /\ queue'[i - 1] = queue[i]
  <2> TAKE i \in Ready
  <2> HAVE i # 1
  <2>1. i - 1 \in 1 .. Len(queue') /\ (i - 1) + 1 = i
    BY <1>2, <1>3 DEF Ready
  <2> QED
    BY <1>3, <2>1 DEF Ready
<1>6. \A c : In(c, queue') => In(c, queue)
  BY <1>4 DEF In, Ready
<1>7. \A c : In(c, queue) => In(c, queue') \/ c = queue[1]
  BY <1>5 DEF In, Ready
<1> QED
  BY <1>3, <1>4, <1>6, <1>7 DEF Deliverable, In, Ready

(* A sleep ends before the reminder is due, and after MaxSleep at most. *)
LEMMA SleepEnds ==
    ASSUME TypeInv, NEW m, Early(m)
    PROVE  /\ m \in Reminders /\ clock + Sleep(m) \in Nat /\ clock + Sleep(m) >= clock
           /\ clock + Sleep(m) <= NotifyAt[m] /\ clock + Sleep(m) <= clock + MaxSleep
           /\ clock + Sleep(m) = NotifyAt[m] \/ clock + Sleep(m) = clock + MaxSleep
<1>1. m \in Reminders /\ Delay(m) > Threshold
  BY DEF Early
<1>2. /\ NotifyAt[m] \in Nat /\ Threshold \in Nat /\ MaxSleep \in Nat
      /\ clock \in 0 .. MaxTime /\ MaxTime \in Nat
  BY <1>1, RemindersAssumption DEF TypeInv, TypeOK
<1> QED
  BY <1>1, <1>2 DEF Delay, Sleep

-----------------------------------------------------------------------------
(* The type invariant, part by part *)

RestOK ==
    /\ trustsSelf \in BOOLEAN
    /\ clock \in 0 .. MaxTime
    /\ publishedAt \in [Msgs -> Nat \cup {-1}]
    /\ seen \subseteq 0 .. nextJti - 1
    /\ dlq \subseteq Msgs /\ conn \in Nat
    /\ calls \in [Msgs -> Nat] /\ done \subseteq Msgs
    /\ misacked \subseteq Msgs /\ dropped \subseteq Msgs /\ raced \subseteq Msgs
    /\ crowded \in BOOLEAN
    /\ throws \in Nat /\ drops \in Nat /\ crashes \in Nat

LEMMA TypeParts == TypeInv <=> BrokerInv /\ HandlersInv /\ RestOK
BY DEF TypeInv, TypeOK, BrokerInv, HandlersInv, RestOK

(* The facts the steps below start from *)
LEMMA Numbers ==
    ASSUME TypeInv
    PROVE  /\ clock \in Nat /\ nextJti \in Nat /\ nextTag \in Nat /\ Len(queue) \in Nat
           /\ queue \in Seq(Copies) /\ nextJti \notin seen
           /\ MaxTime \in Nat /\ MaxSleep \in Nat /\ TokenTtl \in Nat
           /\ Prefetch \in Nat \ {0} /\ MaxRetries \in Nat
           /\ throws \in Nat /\ drops \in Nat /\ crashes \in Nat
           /\ \A i \in Ready : queue[i] \in Copies /\ queue[i].jti < nextJti
           /\ \A d \in unacked : d.copy \in Copies /\ d.copy.jti < nextJti /\ d.tag \in Nat
           /\ \A h \in handlers : /\ h \in Handlers /\ h.copy \in Copies /\ h.copy.jti < nextJti
                                  /\ h.wake \in Nat /\ h.tag \in Nat
<1>1. queue \in Seq(Copies) /\ clock \in 0 .. MaxTime /\ seen \subseteq 0 .. nextJti - 1
  BY DEF TypeInv, TypeOK
<1>2. {TokenTtl, MaxSleep, MaxTime, MaxRetries} \subseteq Nat /\ Prefetch \in Nat \ {0}
  BY RemindersAssumption
<1>3. Len(queue) \in Nat /\ \A i \in Ready : queue[i] \in Copies
  BY <1>1 DEF Ready
<1>4. nextJti \in Nat /\ nextTag \in Nat /\ throws \in Nat /\ drops \in Nat /\ crashes \in Nat
  BY DEF TypeInv, TypeOK
<1>5. nextJti \notin seen
  BY <1>1, <1>4
<1>6. \A h \in handlers : h \in Handlers /\ h.copy \in Copies /\ h.wake \in Nat /\ h.tag \in Nat
  BY DEF TypeInv, HandlersInv, Handlers
<1> QED
  BY <1>1, <1>2, <1>3, <1>4, <1>5, <1>6 DEF TypeInv, BrokerInv, HandlersInv

(* The queue becomes q, or q behind deliveries that were open. *)
LEMMA BrokerSettles ==
    ASSUME TypeInv, NEW q \in Seq(Copies), UNCHANGED nextTag,
           nextJti' \in Nat, nextJti <= nextJti',
           \A c : In(c, q) => c.jti < nextJti',
           (\E tag : Settle(tag, q)) \/ Requeue(q)
    PROVE  BrokerInv'
<1>1. BrokerInv
  BY DEF TypeInv
<1>2. /\ queue' \in Seq(Copies) /\ unacked' \subseteq unacked
      /\ up' \in BOOLEAN /\ (~up' => unacked' = {})
      /\ \A c : In(c, queue') => In(c, q) \/ IsHeld(c)
  BY <1>1, Settled, Requeued
<1>3. \A c : IsHeld(c) => c.jti < nextJti'
  <2> SUFFICES ASSUME NEW d \in unacked PROVE d.copy.jti < nextJti'
    BY DEF IsHeld
  <2>1. d.copy.jti < nextJti /\ d.copy.jti \in Nat /\ nextJti \in Nat
    BY Numbers, CopyFields
  <2> QED
    BY <2>1
<1>4. \A i \in Ready' : queue'[i].jti < nextJti'
  BY <1>2, <1>3 DEF In, Ready
<1>5. IsFiniteSet(unacked') /\ Cardinality(unacked') <= Prefetch
  <2>1. IsFiniteSet(unacked) /\ Cardinality(unacked) <= Prefetch /\ Prefetch \in Nat
    BY <1>1, Numbers DEF BrokerInv
  <2>2. IsFiniteSet(unacked') /\ Cardinality(unacked') <= Cardinality(unacked)
    BY <1>2, <2>1, FS_Subset
  <2>3. Cardinality(unacked) \in Nat /\ Cardinality(unacked') \in Nat
    BY <2>1, <2>2, FS_CardinalityType
  <2> QED
    BY <2>1, <2>2, <2>3
<1>6. \A d \in unacked' : d.tag < nextTag' /\ d.copy.jti < nextJti'
  BY <1>1, <1>2, <1>3 DEF BrokerInv, IsHeld
<1> QED
  BY <1>1, <1>2, <1>4, <1>5, <1>6 DEF BrokerInv

(* A new copy at the end of the queue *)
LEMMA BrokerAppends ==
    ASSUME TypeInv, NEW m \in Msgs, NEW n \in 0 .. MaxRetries, NEW s \in {"peer", "self"},
           queue' = Append(queue, Signed(m, n, s)), nextJti' = nextJti + 1,
           UNCHANGED <<unacked, up, nextTag>>
    PROVE  BrokerInv'
<1> DEFINE c == Signed(m, n, s)
<1>1. /\ queue' \in Seq(Copies) /\ c.jti = nextJti
      /\ \A b : In(b, queue') => In(b, queue) \/ b = c
  BY SignedCopy
<1> HIDE DEF c
<1>2. \A b : In(b, queue') => b.jti < nextJti'
  <2> SUFFICES ASSUME NEW b, In(b, queue) \/ b = c PROVE b.jti < nextJti'
    BY <1>1
  <2>1. CASE In(b, queue)
    <3>1. b.jti < nextJti /\ b.jti \in Nat
      BY <2>1, Numbers, CopyFields DEF In, Ready
    <3> QED
      BY <3>1, Numbers
  <2>2. CASE b = c
    BY <1>1, <2>2, Numbers
  <2> QED
    BY <2>1, <2>2
<1>3. \A i \in Ready' : queue'[i].jti < nextJti'
  BY <1>2 DEF In, Ready
<1>4. \A d \in unacked' : d.copy.jti < nextJti'
  BY Numbers, CopyFields
<1>5. BrokerInv /\ nextJti' \in Nat
  BY Numbers DEF TypeInv
<1> QED
  BY <1>1, <1>3, <1>4, <1>5 DEF BrokerInv

(* The head of the queue is delivered, and settled at once or left open. *)
LEMMA BrokerDelivers ==
    ASSUME TypeInv, Deliverable, queue' = Tail(queue), nextTag' = nextTag + 1,
           UNCHANGED <<up, nextJti>>,
           \/ UNCHANGED unacked
           \/ unacked' = unacked \cup {[tag |-> nextTag, copy |-> Head(queue)]}
    PROVE  BrokerInv'
<1> DEFINE d == [tag |-> nextTag, copy |-> Head(queue)]
<1>1. /\ queue' \in Seq(Copies) /\ Head(queue) = queue[1] /\ queue[1] \in Copies /\ 1 \in Ready
      /\ \A i \in Ready' : queue'[i] = queue[i + 1] /\ i + 1 \in Ready
      /\ up /\ Cardinality(unacked) < Prefetch
  BY Delivered
<1>2. \A i \in Ready' : queue'[i].jti < nextJti'
  BY <1>1, Numbers
<1>3. nextTag' \in Nat /\ \A e \in unacked : e.tag < nextTag' /\ e.tag # nextTag
  BY Numbers DEF TypeInv, BrokerInv
<1>4. d \in [tag : Nat, copy : Copies] /\ d.tag = nextTag /\ d.copy = queue[1]
  BY <1>1, Numbers
<1>5. d.tag < nextTag' /\ d.copy.jti < nextJti'
  BY <1>1, <1>4, Numbers
<1>6. IsFiniteSet(unacked) /\ BrokerInv
  BY DEF TypeInv, BrokerInv
<1>7. CASE UNCHANGED unacked
  BY <1>1, <1>2, <1>3, <1>6, <1>7, Numbers DEF BrokerInv
<1>8. CASE unacked' = unacked \cup {d}
  <2> HIDE DEF d
  <2>1. Cardinality(unacked') = IF d \in unacked THEN Cardinality(unacked)
                                ELSE Cardinality(unacked) + 1
    BY <1>6, <1>8, FS_AddElement
  <2>2. Cardinality(unacked) \in Nat /\ Prefetch \in Nat
    BY <1>6, FS_CardinalityType, Numbers
  <2>3. IsFiniteSet(unacked')
    BY <1>6, <1>8, FS_AddElement
  <2>4. Cardinality(unacked') <= Prefetch
    BY <1>1, <2>1, <2>2
  <2>5. \A e \in unacked' : e.tag < nextTag' /\ e.copy.jti < nextJti'
    BY <1>3, <1>5, <1>6, <1>8 DEF BrokerInv
  <2>6. \A e, f \in unacked' : e.tag = f.tag => e = f
    BY <1>3, <1>4, <1>6, <1>8 DEF BrokerInv
  <2> QED
    BY <1>1, <1>2, <1>3, <1>4, <1>6, <1>8, <2>3, <2>4, <2>5, <2>6 DEF BrokerInv
<1> QED
  BY <1>7, <1>8

(* A handler goes to its next pc. *)
LEMMA HandlerBecomes ==
    ASSUME TypeInv, NEW h \in handlers, NEW p \in {"get", "set", "sleep", "run", "retry"},
           NEW w \in Nat, Become(h, p, w), UNCHANGED <<clock, nextJti>>,
           p = "sleep" => /\ h.copy.msg \in Reminders /\ w >= clock
                          /\ w <= NotifyAt[h.copy.msg] /\ w <= clock + MaxSleep,
           p = "retry" => h.copy.retry < MaxRetries
    PROVE  HandlersInv'
<1> DEFINE k == [h EXCEPT !.pc = p, !.wake = w]
<1>1. h \in Handlers
  BY Numbers
<1>2. k \in Handlers /\ k.copy = h.copy /\ k.pc = p /\ k.wake = w
  BY <1>1 DEF Handlers
<1>3. handlers' = (handlers \ {h}) \cup {k}
  BY DEF Become
<1> HIDE DEF k
<1>4. HandlersInv
  BY DEF TypeInv
<1>5. \A g \in handlers' : g \in handlers \/ g = k
  BY <1>3
<1> QED
  BY <1>2, <1>4, <1>5 DEF HandlersInv

LEMMA HandlersEnd ==
    ASSUME TypeInv, handlers' \subseteq handlers, UNCHANGED clock,
           nextJti' \in Nat, nextJti <= nextJti'
    PROVE  HandlersInv'
<1>1. \A h \in handlers : h.copy.jti < nextJti'
  BY Numbers, CopyFields
<1> QED
  BY <1>1 DEF TypeInv, HandlersInv

(* A new handler, about to GET the jti of the head of the queue *)
LEMMA HandlerStarts ==
    ASSUME TypeInv, Deliver
    PROVE  HandlersInv'
<1> DEFINE k == [conn |-> conn, tag |-> nextTag, copy |-> Head(queue), pc |-> "get", wake |-> 0]
<1>1. /\ handlers' = handlers \cup {k} /\ UNCHANGED <<clock, nextJti>>
      /\ Deliverable /\ queue' = Tail(queue)
  BY DEF Deliver
<1>2. Head(queue) = queue[1] /\ queue[1] \in Copies /\ queue[1].jti < nextJti
  BY <1>1, Delivered, Numbers
<1>3. k \in Handlers /\ k.pc = "get" /\ k.copy.jti < nextJti
  BY <1>2, Numbers DEF Handlers, TypeInv, TypeOK
<1> HIDE DEF k
<1>4. HandlersInv
  BY DEF TypeInv
<1> QED
  BY <1>1, <1>3, <1>4 DEF HandlersInv

(* A timer that runs on the next instant is not late. *)
LEMMA HandlersTick ==
    ASSUME TypeInv, Tick
    PROVE  HandlersInv'
<1>1. HandlersInv /\ handlers' = handlers /\ nextJti' = nextJti /\ clock' = clock + 1
  BY DEF TypeInv, Tick, process
<1>2. \A h \in handlers : h.pc = "sleep" => h.wake >= clock + 1 /\ h.wake <= clock + 1 + MaxSleep
  <2> SUFFICES ASSUME NEW h \in handlers, h.pc = "sleep"
               PROVE  h.wake >= clock + 1 /\ h.wake <= clock + 1 + MaxSleep
    OBVIOUS
  <2>1. ~(h.wake <= clock)
    BY DEF Tick, Awake
  <2>2. h.wake <= clock + MaxSleep /\ h.wake \in Nat /\ clock \in Nat /\ MaxSleep \in Nat
    BY <1>1, Numbers DEF HandlersInv
  <2> QED
    BY <2>1, <2>2
<1> QED
  BY <1>1, <1>2 DEF HandlersInv

LEMMA BrokerStep ==
    ASSUME TypeInv, [Next]_vars
    PROVE  BrokerInv'
<1> USE RemindersAssumption
<1>1. /\ queue \in Seq(Copies) /\ nextJti \in Nat /\ nextJti + 1 \in Nat /\ BrokerInv
      /\ \A b : In(b, queue) => b.jti < nextJti /\ b.jti < nextJti + 1
  <2>1. \A b : In(b, queue) => b.jti < nextJti /\ b.jti \in Nat
    BY Numbers, CopyFields DEF In, Ready
  <2> QED
    BY <2>1, Numbers DEF TypeInv
<1>2. ASSUME NEW m \in Msgs, Publish(m) PROVE BrokerInv'
  <2>1. 0 \in 0 .. MaxRetries
    OBVIOUS
  <2>2. /\ queue' = Append(queue, Signed(m, 0, "peer")) /\ nextJti' = nextJti + 1
        /\ UNCHANGED <<unacked, up, nextTag>>
    BY <1>2 DEF Publish
  <2> QED
    BY <2>1, <2>2, BrokerAppends
<1>3. CASE DeliverRefused
  BY <1>3, BrokerDelivers DEF DeliverRefused
<1>4. CASE Deliver
  BY <1>4, BrokerDelivers DEF Deliver
<1>5. ASSUME NEW h \in handlers, JtiReplayed(h) PROVE BrokerInv'
  <2>1. Settle(h.tag, queue) /\ UNCHANGED <<nextTag, nextJti>>
    BY <1>5 DEF JtiReplayed, Nack
  <2> QED
    BY <1>1, <2>1, BrokerSettles
<1>6. ASSUME NEW h \in handlers, Republish(h) PROVE BrokerInv'
  <2>1. h.copy.msg \in Msgs /\ 0 \in 0 .. MaxRetries /\ "self" \in {"peer", "self"}
    BY Numbers, CopyFields
  <2> DEFINE c == Signed(h.copy.msg, 0, "self")
             q == IF up THEN Append(queue, c) ELSE queue
  <2>2. /\ Append(queue, c) \in Seq(Copies) /\ c.jti = nextJti
        /\ \A b : In(b, Append(queue, c)) <=> In(b, queue) \/ b = c
    BY <2>1, SignedCopy
  <2>3. Settle(h.tag, q) /\ UNCHANGED nextTag /\ nextJti' = IF up THEN nextJti + 1 ELSE nextJti
    BY <1>6 DEF Republish, Ack
  <2> HIDE DEF c
  <2>4. q \in Seq(Copies) /\ \A b : In(b, q) => b.jti < nextJti'
    BY <1>1, <2>2, <2>3
  <2> HIDE DEF q
  <2>5. nextJti' \in Nat /\ nextJti <= nextJti'
    BY <1>1, <2>3
  <2> QED
    BY <2>3, <2>4, <2>5, BrokerSettles
<1>7. ASSUME NEW h \in handlers, Processed(h) \/ ScheduleRetry(h) \/ DeadLetter(h)
      PROVE  BrokerInv'
  <2>1. Settle(h.tag, queue) /\ UNCHANGED <<nextTag, nextJti>>
    BY <1>7 DEF Processed, ScheduleRetry, DeadLetter, Ack
  <2> QED
    BY <1>1, <2>1, BrokerSettles
<1>8. ASSUME NEW h \in handlers, RetryFires(h) PROVE BrokerInv'
  <2>1. CASE up
    <3>1. /\ queue' = Append(queue, Signed(h.copy.msg, h.copy.retry + 1, "self"))
          /\ nextJti' = nextJti + 1 /\ UNCHANGED <<unacked, up, nextTag>>
      BY <1>8, <2>1 DEF RetryFires
    <3>2. h.copy.msg \in Msgs /\ h.copy.retry \in Nat
      BY Numbers, CopyFields
    <3>3. h.copy.retry < MaxRetries
      BY <1>8 DEF RetryFires, TypeInv, HandlersInv
    <3>4. h.copy.retry + 1 \in 0 .. MaxRetries
      BY <3>2, <3>3
    <3> QED
      BY <3>1, <3>2, <3>4, BrokerAppends
  <2>2. CASE ~up
    BY <1>1, <1>8, <2>2 DEF RetryFires, BrokerInv, Ready
  <2> QED
    BY <2>1, <2>2
<1>9. ASSUME Drop \/ Crash PROVE BrokerInv'
  <2>1. Requeue(queue) /\ UNCHANGED <<nextTag, nextJti>>
    BY <1>9 DEF Drop, Crash
  <2> QED
    BY <1>1, <2>1, BrokerSettles
<1>10. CASE Reconnect
  BY <1>1, <1>10 DEF Reconnect, BrokerInv, Ready
<1>11. ASSUME \/ UNCHANGED vars \/ Tick
              \/ \E h \in handlers : JtiUnseen(h) \/ StartDue(h) \/ StartEarly(h) \/ WakeDue(h)
       PROVE  BrokerInv'
  <2>1. UNCHANGED <<queue, unacked, up, nextJti, nextTag>>
    BY <1>11 DEF vars, broker, Tick, JtiUnseen, StartDue, StartEarly, WakeDue
  <2> QED
    BY <1>1, <2>1 DEF BrokerInv, Ready
<1> QED
  BY <1>2, <1>3, <1>4, <1>5, <1>6, <1>7, <1>8, <1>9, <1>10, <1>11
  DEF Next, Verify, Handle, Outcome

LEMMA HandlersStep ==
    ASSUME TypeInv, [Next]_vars
    PROVE  HandlersInv'
<1>1. nextJti \in Nat /\ nextJti + 1 \in Nat /\ clock \in Nat
  BY Numbers
<1>2. ASSUME \/ UNCHANGED vars \/ DeliverRefused \/ Drop \/ Crash \/ Reconnect
             \/ \E m \in Msgs : Publish(m)
             \/ \E h \in handlers : \/ JtiReplayed(h) \/ Republish(h) \/ Processed(h)
                                    \/ DeadLetter(h) \/ RetryFires(h)
      PROVE  HandlersInv'
  <2>1. handlers' \subseteq handlers /\ UNCHANGED clock
    BY <1>2 DEF vars, process, Publish, DeliverRefused, Drop, Crash, Reconnect, JtiReplayed,
                Republish, Processed, DeadLetter, RetryFires, Finish
  <2>2. nextJti' = nextJti \/ nextJti' = nextJti + 1
    BY <1>2 DEF vars, Publish, DeliverRefused, Drop, Crash, Reconnect, JtiReplayed, Republish,
                Processed, DeadLetter, RetryFires
  <2>3. nextJti' \in Nat /\ nextJti <= nextJti'
    BY <1>1, <2>2
  <2> QED
    BY <2>1, <2>3, HandlersEnd
<1>3. CASE Deliver
  BY <1>3, HandlerStarts
<1>4. CASE Tick
  BY <1>4, HandlersTick
<1>5. ASSUME NEW h \in handlers, JtiUnseen(h) PROVE HandlersInv'
  <2>1. Become(h, "set", 0) /\ UNCHANGED <<clock, nextJti>>
    BY <1>5 DEF JtiUnseen
  <2> QED
    BY <2>1, HandlerBecomes
<1>6. ASSUME NEW h \in handlers, StartDue(h) \/ WakeDue(h) PROVE HandlersInv'
  <2>1. Become(h, "run", 0) /\ UNCHANGED <<clock, nextJti>>
    BY <1>6 DEF StartDue, WakeDue, Call
  <2> QED
    BY <2>1, HandlerBecomes
<1>7. ASSUME NEW h \in handlers, StartEarly(h) PROVE HandlersInv'
  <2>1. /\ Early(h.copy.msg) /\ Become(h, "sleep", clock + Sleep(h.copy.msg))
        /\ UNCHANGED <<clock, nextJti>>
    BY <1>7 DEF StartEarly
  <2> QED
    BY <2>1, SleepEnds, HandlerBecomes
<1>8. ASSUME NEW h \in handlers, ScheduleRetry(h) PROVE HandlersInv'
  <2>1. /\ Become(h, "retry", clock + RetryDelay[h.copy.retry])
        /\ h.copy.retry < MaxRetries /\ UNCHANGED <<clock, nextJti>>
    BY <1>8 DEF ScheduleRetry
  <2>2. h.copy.retry \in 0 .. MaxRetries - 1
    BY <2>1, Numbers, CopyFields
  <2>3. clock + RetryDelay[h.copy.retry] \in Nat
    BY <1>1, <2>2, RemindersAssumption
  <2> QED
    BY <2>1, <2>3, HandlerBecomes
<1> QED
  BY <1>2, <1>3, <1>4, <1>5, <1>6, <1>7, <1>8 DEF Next, Verify, Handle, Outcome

LEMMA RestStep ==
    ASSUME TypeInv, [Next]_vars
    PROVE  RestOK'
<1>1. RestOK /\ BrokerInv /\ HandlersInv
  BY TypeParts
<1>2. /\ clock \in Nat /\ nextJti \in Nat /\ MaxTime \in Nat
      /\ \A h \in handlers : /\ h.copy.msg \in Msgs /\ h.copy.jti \in Nat
                             /\ h.copy.jti < nextJti
      /\ \A d \in unacked : d.copy.msg \in Msgs
  BY Numbers, CopyFields
<1>3. ASSUME NEW m \in Msgs, Publish(m) PROVE RestOK'
  <2>1. seen' \subseteq 0 .. nextJti' - 1
    BY <1>1, <1>2, <1>3 DEF Publish, RestOK
  <2> QED
    BY <1>1, <1>2, <1>3, <2>1 DEF Publish, RestOK, process, ghosts, faults
<1>4. ASSUME DeliverRefused \/ Deliver PROVE RestOK'
  <2>1. Head(queue).msg \in Msgs
    BY <1>4, Delivered, CopyFields DEF DeliverRefused, Deliver
  <2> QED
    BY <1>1, <1>4, <2>1 DEF DeliverRefused, Deliver, RestOK, process, ghosts, faults
<1>5. ASSUME NEW h \in handlers, JtiUnseen(h) PROVE RestOK'
  <2>1. raced' \subseteq Msgs
    BY <1>1, <1>2, <1>5 DEF JtiUnseen, RestOK
  <2> QED
    BY <1>1, <1>5, <2>1 DEF JtiUnseen, RestOK, broker, faults
<1>6. ASSUME NEW h \in handlers, JtiReplayed(h) PROVE RestOK'
  <2>1. dlq' \subseteq Msgs
    BY <1>1, <1>2, <1>6 DEF JtiReplayed, Nack, Held, RestOK
  <2> QED
    BY <1>1, <1>6, <2>1 DEF JtiReplayed, RestOK, ghosts, faults
<1>7. ASSUME NEW h \in handlers, StartDue(h) \/ StartEarly(h) \/ WakeDue(h) PROVE RestOK'
  <2>1. seen' \subseteq 0 .. nextJti' - 1
    <3>1. nextJti' = nextJti /\ seen' \subseteq seen \cup {h.copy.jti}
      BY <1>7 DEF StartDue, StartEarly, WakeDue
    <3>2. h.copy.jti \in 0 .. nextJti - 1
      BY <1>2
    <3> QED
      BY <1>1, <3>1, <3>2 DEF RestOK
  <2>2. calls' \in [Msgs -> Nat]
    BY <1>1, <1>2, <1>7 DEF StartDue, StartEarly, WakeDue, Call, RestOK
  <2> QED
    BY <1>1, <1>7, <2>1, <2>2
    DEF StartDue, StartEarly, WakeDue, RestOK, broker, ghosts, faults
<1>8. ASSUME NEW h \in handlers,
             Republish(h) \/ Processed(h) \/ ScheduleRetry(h) \/ DeadLetter(h)
      PROVE  RestOK'
  <2>1. misacked' \subseteq Msgs
    <3>1. \E q : Ack(h, q)
      BY <1>8 DEF Republish, Processed, ScheduleRetry, DeadLetter
    <3> QED
      BY <1>1, <1>2, <3>1 DEF Ack, Held, RestOK
  <2>2. seen' \subseteq 0 .. nextJti' - 1
    <3>1. seen' = seen /\ (nextJti' = nextJti \/ nextJti' = nextJti + 1)
      BY <1>8 DEF Republish, Processed, ScheduleRetry, DeadLetter
    <3> QED
      BY <1>1, <1>2, <3>1 DEF RestOK
  <2>3. dlq' \subseteq Msgs /\ done' \subseteq Msgs
    BY <1>1, <1>2, <1>8 DEF Republish, Processed, ScheduleRetry, DeadLetter, RestOK
  <2>4. throws' \in Nat /\ drops' \in Nat /\ crashes' \in Nat
    BY <1>1, <1>8
    DEF Republish, Processed, ScheduleRetry, DeadLetter, Throws, RestOK, faults
  <2> QED
    BY <1>1, <1>8, <2>1, <2>2, <2>3, <2>4
    DEF Republish, Processed, ScheduleRetry, DeadLetter, RestOK
<1>9. ASSUME NEW h \in handlers, RetryFires(h) PROVE RestOK'
  <2>1. dropped' \subseteq Msgs
    BY <1>1, <1>2, <1>9 DEF RetryFires, RestOK
  <2>2. seen' \subseteq 0 .. nextJti' - 1
    BY <1>1, <1>2, <1>9 DEF RetryFires, RestOK
  <2> QED
    BY <1>1, <1>9, <2>1, <2>2 DEF RetryFires, RestOK, faults
<1>10. ASSUME Drop \/ Crash \/ Reconnect PROVE RestOK'
  <2>1. dropped' \subseteq Msgs
    <3>1. dropped \subseteq Msgs
      BY <1>1 DEF RestOK
    <3>2. dropped' = dropped \/ dropped' = dropped \cup {h.copy.msg : h \in {g \in handlers : g.pc = "retry"}}
      BY <1>10 DEF Drop, Crash, Reconnect, ghosts
    <3> QED
      BY <1>2, <3>1, <3>2
  <2> QED
    <3>1. conn' \in Nat /\ drops' \in Nat /\ crashes' \in Nat /\ throws' = throws
      BY <1>1, <1>10 DEF Drop, Crash, Reconnect, RestOK, faults
    <3>2. /\ UNCHANGED <<trustsSelf, clock, publishedAt, dlq, seen, nextJti, calls, done>>
          /\ UNCHANGED <<misacked, raced, crowded>>
      BY <1>10 DEF Drop, Crash, Reconnect, process, ghosts
    <3> QED
      BY <1>1, <2>1, <3>1, <3>2 DEF RestOK
<1>11. CASE Tick
  <2>1. clock' \in 0 .. MaxTime /\ crowded' \in BOOLEAN
    BY <1>1, <1>2, <1>11 DEF Tick, RestOK
  <2> QED
    BY <1>1, <1>11, <2>1 DEF Tick, RestOK, broker, process, faults
<1>12. CASE UNCHANGED vars
  BY <1>1, <1>12 DEF vars, RestOK, broker, process, ghosts, faults
<1> QED
  BY <1>3, <1>4, <1>5, <1>6, <1>7, <1>8, <1>9, <1>10, <1>11, <1>12
  DEF Next, Verify, Handle, Outcome

LEMMA TypeInit == Init => TypeInv
<1> SUFFICES ASSUME Init PROVE TypeInv
  OBVIOUS
<1>1. BrokerInv
  <2>1. queue = <<>> /\ unacked = {} /\ up = TRUE /\ nextTag = 1 /\ nextJti = 0
    BY DEF Init
  <2>2. IsFiniteSet(unacked) /\ Cardinality(unacked) = 0 /\ Prefetch \in Nat
    BY <2>1, FS_EmptySet, RemindersAssumption
  <2>3. queue \in Seq(Copies) /\ Ready = {}
    BY <2>1 DEF Ready
  <2> QED
    BY <2>1, <2>2, <2>3 DEF BrokerInv
<1>2. RestOK
  <2>1. publishedAt \in [Msgs -> Nat \cup {-1}] /\ calls \in [Msgs -> Nat]
    BY DEF Init
  <2>2. clock \in 0 .. MaxTime
    BY RemindersAssumption DEF Init
  <2> QED
    BY <2>1, <2>2 DEF Init, RestOK
<1>3. HandlersInv
  BY DEF Init, HandlersInv
<1> QED
  BY <1>1, <1>2, <1>3, TypeParts

LEMMA TypeStep == TypeInv /\ [Next]_vars => TypeInv'
<1> SUFFICES ASSUME TypeInv, [Next]_vars PROVE TypeInv'
  OBVIOUS
<1>1. BrokerInv' /\ HandlersInv' /\ RestOK'
  BY BrokerStep, HandlersStep, RestStep
<1> QED
  BY <1>1 DEF TypeInv, TypeOK, BrokerInv, HandlersInv, RestOK

LEMMA TypesHold == Spec => []TypeInv
BY TypeInit, TypeStep, PTL DEF Spec

(* Every variable keeps its type, no more deliveries are open than the     *)
(* prefetch allows, and a sleep ends in the future.                        *)
THEOREM TypeCorrect == Spec => []TypeOK
<1>1. TypeInv => TypeOK
  BY DEF TypeInv
<1> QED
  BY <1>1, TypesHold, PTL

-----------------------------------------------------------------------------
(* Copies that may still be verified, and what their handlers do. *)

Verifying(h) == h.pc \in {"get", "set"}

Active(h) == h.pc \in {"sleep", "run", "retry"}

Around ==
    {queue[i] : i \in Ready} \cup {d.copy : d \in unacked}
        \cup {h.copy : h \in {g \in handlers : Verifying(g)}}

Live == {c \in Around : c.jti \notin seen}

(* The copy a step publishes *)
Fresh(c) ==
    \/ \E m \in Msgs : Publish(m) /\ c = Signed(m, 0, "peer")
    \/ \E h \in handlers : Republish(h) /\ c = Signed(h.copy.msg, 0, "self")
    \/ \E h \in handlers : RetryFires(h) /\ c = Signed(h.copy.msg, h.copy.retry + 1, "self")

LEMMA AroundFacts ==
    ASSUME TypeInv, NEW c \in Around
    PROVE  /\ c \in Copies /\ c.msg \in Msgs /\ c.jti \in Nat /\ c.jti < nextJti
           /\ c.retry \in 0 .. MaxRetries /\ c.retry \in Nat /\ c.exp \in Nat
<1>1. c \in Copies /\ c.jti < nextJti
  BY Numbers DEF Around
<1> QED
  BY <1>1, CopyFields

LEMMA AroundParts ==
    /\ \A c : In(c, queue) \/ IsHeld(c) => c \in Around
    /\ \A i \in Ready : queue[i] \in Around
    /\ \A d \in unacked : d.copy \in Around
    /\ \A h \in handlers : Verifying(h) => h.copy \in Around
BY DEF Around, In, IsHeld, Ready

LEMMA FreshFacts ==
    ASSUME TypeInv, NEW c, Fresh(c)
    PROVE  c.jti = nextJti /\ c.jti \notin seen
BY Numbers DEF Fresh, Signed

(* The step of one handler, which keeps its copy *)
LEMMA HandlersNext ==
    ASSUME TypeInv, [Next]_vars, NEW g \in handlers', g \notin handlers
    PROVE  \/ /\ Deliver /\ g.pc = "get" /\ g.copy = Head(queue)
           \/ \E h \in handlers :
                 /\ g.copy = h.copy
                 /\ \/ JtiUnseen(h) /\ g.pc = "set"
                    \/ (StartDue(h) \/ WakeDue(h)) /\ g.pc = "run"
                    \/ StartEarly(h) /\ g.pc = "sleep" /\ g.wake = clock + Sleep(h.copy.msg)
                    \/ ScheduleRetry(h) /\ g.pc = "retry"
<1>1. ASSUME NEW h \in handlers, NEW p, NEW w, Become(h, p, w)
      PROVE  g.copy = h.copy /\ g.pc = p /\ g.wake = w
  <2>1. g = [h EXCEPT !.pc = p, !.wake = w] /\ h \in Handlers
    BY <1>1, Numbers DEF Become
  <2> QED
    BY <2>1 DEF Handlers
<1>2. ASSUME NEW h \in handlers, JtiUnseen(h) PROVE g.copy = h.copy /\ g.pc = "set"
  BY <1>1, <1>2 DEF JtiUnseen
<1>3. ASSUME NEW h \in handlers, StartDue(h) \/ WakeDue(h) PROVE g.copy = h.copy /\ g.pc = "run"
  BY <1>1, <1>3 DEF StartDue, WakeDue, Call
<1>4. ASSUME NEW h \in handlers, StartEarly(h)
      PROVE  g.copy = h.copy /\ g.pc = "sleep" /\ g.wake = clock + Sleep(h.copy.msg)
  BY <1>1, <1>4 DEF StartEarly
<1>5. ASSUME NEW h \in handlers, ScheduleRetry(h) PROVE g.copy = h.copy /\ g.pc = "retry"
  BY <1>1, <1>5 DEF ScheduleRetry
<1>6. Deliver => g.pc = "get" /\ g.copy = Head(queue)
  BY DEF Deliver
<1>7. \/ Deliver
      \/ \E h \in handlers : \/ JtiUnseen(h) \/ StartDue(h) \/ WakeDue(h) \/ StartEarly(h)
                             \/ ScheduleRetry(h)
  BY DEF Next, Publish, DeliverRefused, Verify, JtiReplayed, Handle, Republish, Outcome,
         Processed, DeadLetter, RetryFires, Drop, Crash, Reconnect, Tick, vars, process, Finish
<1> QED
  BY <1>2, <1>3, <1>4, <1>5, <1>6, <1>7

(* Nothing but what a step publishes comes around. *)
LEMMA AroundStep ==
    ASSUME TypeInv, [Next]_vars, NEW c \in Around'
    PROVE  c \in Around \/ (Fresh(c) /\ nextJti' = nextJti + 1)
<1>1. BrokerInv /\ queue \in Seq(Copies)
  BY Numbers DEF TypeInv
<1>2. /\ \A b : In(b, queue) \/ IsHeld(b) => b \in Around
      /\ \A h \in handlers : Verifying(h) => h.copy \in Around
  BY AroundParts
(* What may be left to see of the broker's part *)
<1>3. ASSUME \A g \in handlers' : Verifying(g) => g.copy \in Around,
             \A b : In(b, queue') => b \in Around \/ (Fresh(b) /\ nextJti' = nextJti + 1),
             \A d \in unacked' : d.copy \in Around
      PROVE  c \in Around \/ (Fresh(c) /\ nextJti' = nextJti + 1)
  <2>1. CASE In(c, queue')
    BY <1>3, <2>1
  <2>2. CASE \E d \in unacked' : c = d.copy
    BY <1>3, <2>2
  <2>3. CASE \E g \in handlers' : Verifying(g) /\ c = g.copy
    BY <1>3, <2>3
  <2> QED
    BY <2>1, <2>2, <2>3 DEF Around, In, Ready, Verifying
<1>4. ASSUME UNCHANGED <<queue, unacked>>,
             \A g \in handlers' : Verifying(g) => g.copy \in Around
      PROVE  c \in Around \/ (Fresh(c) /\ nextJti' = nextJti + 1)
  BY <1>2, <1>3, <1>4 DEF In, IsHeld
<1>5. ASSUME NEW q \in Seq(Copies), (\E tag : Settle(tag, q)) \/ Requeue(q),
             \A b : In(b, q) => b \in Around \/ (Fresh(b) /\ nextJti' = nextJti + 1),
             \A g \in handlers' : Verifying(g) => g \in handlers
      PROVE  c \in Around \/ (Fresh(c) /\ nextJti' = nextJti + 1)
  <2>1. /\ \A b : In(b, queue') => In(b, q) \/ IsHeld(b)
        /\ unacked' \subseteq unacked
    BY <1>1, <1>5, Settled, Requeued
  <2> QED
    BY <1>2, <1>3, <1>5, <2>1 DEF IsHeld
<1>6. ASSUME \/ UNCHANGED vars \/ Reconnect \/ Tick
             \/ \E h \in handlers : StartDue(h) \/ StartEarly(h) \/ WakeDue(h)
      PROVE  c \in Around \/ (Fresh(c) /\ nextJti' = nextJti + 1)
  <2>1. UNCHANGED <<queue, unacked>> /\ \A g \in handlers' : Verifying(g) => g \in handlers
    <3>1. UNCHANGED <<queue, unacked>>
      BY <1>6 DEF vars, broker, Reconnect, Tick, StartDue, StartEarly, WakeDue
    <3>2. CASE UNCHANGED vars \/ Reconnect \/ Tick
      BY <3>1, <3>2 DEF vars, process, Reconnect, Tick
    <3>3. ASSUME NEW h \in handlers, StartDue(h) \/ StartEarly(h) \/ WakeDue(h),
                 NEW g \in handlers', Verifying(g)
          PROVE  g \in handlers
      <4>1. \/ g \in handlers
            \/ g = [h EXCEPT !.pc = "run", !.wake = 0]
            \/ g = [h EXCEPT !.pc = "sleep", !.wake = clock + Sleep(h.copy.msg)]
        BY <3>3 DEF StartDue, StartEarly, WakeDue, Call, Become
      <4>2. h \in Handlers
        BY Numbers
      <4> QED
        BY <3>3, <4>1, <4>2 DEF Handlers, Verifying
    <3> QED
      BY <1>6, <3>1, <3>2, <3>3
  <2> QED
    BY <1>2, <1>4, <2>1
<1>7. ASSUME NEW h \in handlers, JtiUnseen(h)
      PROVE  c \in Around \/ (Fresh(c) /\ nextJti' = nextJti + 1)
  <2> DEFINE k == [h EXCEPT !.pc = "set", !.wake = 0]
  <2>1. UNCHANGED <<queue, unacked>> /\ handlers' = (handlers \ {h}) \cup {k} /\ h.pc = "get"
    BY <1>7 DEF JtiUnseen, broker, Become
  <2>2. k.copy = h.copy
    BY Numbers DEF Handlers
  <2> HIDE DEF k
  <2>3. \A g \in handlers' : Verifying(g) => g.copy \in Around
    BY <1>2, <2>1, <2>2 DEF Verifying
  <2> QED
    BY <1>4, <2>1, <2>3
<1>8. ASSUME \/ Drop \/ Crash
             \/ \E h \in handlers : JtiReplayed(h) \/ Processed(h) \/ ScheduleRetry(h) \/ DeadLetter(h)
      PROVE  c \in Around \/ (Fresh(c) /\ nextJti' = nextJti + 1)
  <2>1. (\E tag : Settle(tag, queue)) \/ Requeue(queue)
    BY <1>8 DEF Drop, Crash, JtiReplayed, Nack, Processed, ScheduleRetry, DeadLetter, Ack
  <2>2. \A g \in handlers' : Verifying(g) => g \in handlers
    <3>1. CASE Drop \/ Crash \/ \E h \in handlers : JtiReplayed(h) \/ Processed(h) \/ DeadLetter(h)
      BY <3>1 DEF Drop, Crash, process, JtiReplayed, Processed, DeadLetter, Finish
    <3>2. ASSUME NEW h \in handlers, ScheduleRetry(h), NEW g \in handlers', Verifying(g)
          PROVE  g \in handlers
      <4>1. PICK w : g \in handlers \/ g = [h EXCEPT !.pc = "retry", !.wake = w]
        BY <3>2 DEF ScheduleRetry, Become
      <4>2. h \in Handlers
        BY Numbers
      <4> QED
        BY <3>2, <4>1, <4>2 DEF Handlers, Verifying
    <3> QED
      BY <1>8, <3>1, <3>2
  <2> QED
    BY <1>1, <1>2, <1>5, <2>1, <2>2
<1>9. ASSUME NEW h \in handlers, Republish(h)
      PROVE  c \in Around \/ (Fresh(c) /\ nextJti' = nextJti + 1)
  <2> DEFINE b == Signed(h.copy.msg, 0, "self")
             q == IF up THEN Append(queue, b) ELSE queue
  <2>1. h.copy.msg \in Msgs /\ 0 \in 0 .. MaxRetries /\ "self" \in {"peer", "self"}
    BY Numbers, CopyFields
  <2>2. /\ Append(queue, b) \in Seq(Copies)
        /\ \A a : In(a, Append(queue, b)) <=> In(a, queue) \/ a = b
    BY <2>1, SignedCopy
  <2>3. /\ Settle(h.tag, q) /\ handlers' = handlers \ {h}
        /\ up => nextJti' = nextJti + 1
    BY <1>9 DEF Republish, Ack, Finish
  <2>4. Fresh(b)
    BY <1>9 DEF Fresh
  <2> HIDE DEF b
  <2>5. /\ q \in Seq(Copies)
        /\ \A a : In(a, q) => a \in Around \/ (Fresh(a) /\ nextJti' = nextJti + 1)
    BY <1>1, <1>2, <2>2, <2>3, <2>4
  <2> HIDE DEF q
  <2> QED
    BY <1>5, <2>3, <2>5
<1>10. ASSUME NEW h \in handlers, RetryFires(h)
       PROVE  c \in Around \/ (Fresh(c) /\ nextJti' = nextJti + 1)
  <2> DEFINE b == Signed(h.copy.msg, h.copy.retry + 1, "self")
  <2>1. h.copy.msg \in Msgs /\ h.copy.retry + 1 \in 0 .. MaxRetries /\ "self" \in {"peer", "self"}
    <3>1. h.copy \in Copies /\ h.copy.retry < MaxRetries
      BY <1>10, Numbers DEF RetryFires, TypeInv, HandlersInv
    <3> QED
      BY <3>1, CopyFields, Numbers, SMTT(30)
  <2>2. \A a : In(a, Append(queue, b)) <=> In(a, queue) \/ a = b
    BY <2>1, SignedCopy
  <2>3. /\ UNCHANGED unacked /\ handlers' = handlers \ {h}
        /\ \/ queue' = Append(queue, b) /\ nextJti' = nextJti + 1
           \/ queue' = queue
    BY <1>10 DEF RetryFires, Finish
  <2>4. Fresh(b)
    BY <1>10 DEF Fresh
  <2> HIDE DEF b
  <2>5. \A a : In(a, queue') => a \in Around \/ (Fresh(a) /\ nextJti' = nextJti + 1)
    BY <1>2, <2>2, <2>3, <2>4
  <2> QED
    BY <1>2, <1>3, <2>3, <2>5 DEF IsHeld
<1>11. ASSUME NEW m \in Msgs, Publish(m)
       PROVE  c \in Around \/ (Fresh(c) /\ nextJti' = nextJti + 1)
  <2> DEFINE b == Signed(m, 0, "peer")
  <2>1. 0 \in 0 .. MaxRetries /\ "peer" \in {"peer", "self"}
    BY Numbers
  <2>2. \A a : In(a, Append(queue, b)) <=> In(a, queue) \/ a = b
    BY <2>1, SignedCopy
  <2>3. /\ UNCHANGED <<unacked, handlers>>
        /\ queue' = Append(queue, b) /\ nextJti' = nextJti + 1
    BY <1>11 DEF Publish, process
  <2>4. Fresh(b)
    BY <1>11 DEF Fresh
  <2> HIDE DEF b
  <2>5. \A a : In(a, queue') => a \in Around \/ (Fresh(a) /\ nextJti' = nextJti + 1)
    BY <1>2, <2>2, <2>3, <2>4
  <2> QED
    BY <1>2, <1>3, <2>3, <2>5 DEF IsHeld
<1>12. ASSUME DeliverRefused \/ Deliver
       PROVE  c \in Around \/ (Fresh(c) /\ nextJti' = nextJti + 1)
  <2>1. /\ \A a : In(a, queue') => In(a, queue)
        /\ In(Head(queue), queue)
    BY <1>12, Delivered DEF DeliverRefused, Deliver
  <2>2. Head(queue) \in Around
    BY <1>2, <2>1
  <2>3. \A d \in unacked' : d \in unacked \/ d.copy = Head(queue)
    BY <1>12 DEF DeliverRefused, Deliver
  <2>4. \A g \in handlers' : g \in handlers \/ g.copy = Head(queue)
    BY <1>12 DEF DeliverRefused, Deliver, process
  <2> QED
    BY <1>2, <1>3, <2>1, <2>2, <2>3, <2>4 DEF IsHeld
<1> QED
  BY <1>6, <1>7, <1>8, <1>9, <1>10, <1>11, <1>12 DEF Next, Verify, Handle, Outcome

(* What only grows *)
LEMMA Grows ==
    ASSUME TypeInv, [Next]_vars
    PROVE  /\ clock <= clock' /\ clock' \in Nat
           /\ \A m \in Msgs : publishedAt[m] # -1 => publishedAt'[m] = publishedAt[m]
           /\ seen \subseteq seen' /\ done \subseteq done'
           /\ raced \subseteq raced' /\ misacked \subseteq misacked' /\ dropped \subseteq dropped'
           /\ throws <= throws' /\ drops <= drops' /\ crashes <= crashes'
           /\ throws' \in Nat /\ drops' \in Nat /\ crashes' \in Nat
           /\ UNCHANGED trustsSelf
<1>1. clock \in Nat /\ throws \in Nat /\ drops \in Nat /\ crashes \in Nat
  BY Numbers
<1>2. clock' = clock \/ clock' = clock + 1
  BY DEF Next, Publish, DeliverRefused, Deliver, Verify, JtiUnseen, JtiReplayed, Handle, StartDue,
         StartEarly, Republish, WakeDue, Outcome, Processed, ScheduleRetry, DeadLetter,
         RetryFires, Drop, Crash, Reconnect, Tick, vars
<1>3. \A m \in Msgs : publishedAt[m] # -1 => publishedAt'[m] = publishedAt[m]
  <2>1. UNCHANGED publishedAt \/ \E m \in Msgs : Publish(m)
    BY DEF Next, DeliverRefused, Deliver, Verify, JtiUnseen, JtiReplayed, Handle, StartDue,
           StartEarly, Republish, WakeDue, Outcome, Processed, ScheduleRetry, DeadLetter,
           RetryFires, Drop, Crash, Reconnect, Tick, vars
  <2> QED
    BY <2>1 DEF Publish, TypeInv, TypeOK
<1>4. seen \subseteq seen' /\ done \subseteq done'
  BY DEF Next, Publish, DeliverRefused, Deliver, Verify, JtiUnseen, JtiReplayed, Handle, StartDue,
         StartEarly, Republish, WakeDue, Outcome, Processed, ScheduleRetry, DeadLetter,
         RetryFires, Drop, Crash, Reconnect, Tick, vars, process
<1>5. raced \subseteq raced' /\ misacked \subseteq misacked' /\ dropped \subseteq dropped'
  BY DEF Next, Publish, DeliverRefused, Deliver, Verify, JtiUnseen, JtiReplayed, Handle, StartDue,
         StartEarly, Republish, WakeDue, Outcome, Processed, ScheduleRetry, DeadLetter,
         RetryFires, Drop, Crash, Reconnect, Tick, vars, ghosts, Ack
<1>6. /\ throws' = throws \/ throws' = throws + 1
      /\ drops' = drops \/ drops' = drops + 1
      /\ crashes' = crashes \/ crashes' = crashes + 1
  BY DEF Next, Publish, DeliverRefused, Deliver, Verify, JtiUnseen, JtiReplayed, Handle, StartDue,
         StartEarly, Republish, WakeDue, Outcome, Processed, ScheduleRetry, DeadLetter,
         RetryFires, Drop, Crash, Reconnect, Tick, vars, faults, Throws
<1>7. UNCHANGED trustsSelf
  BY DEF Next, Publish, DeliverRefused, Deliver, Verify, JtiUnseen, JtiReplayed, Handle, StartDue,
         StartEarly, Republish, WakeDue, Outcome, Processed, ScheduleRetry, DeadLetter,
         RetryFires, Drop, Crash, Reconnect, Tick, vars
<1> QED
  BY <1>1, <1>2, <1>3, <1>4, <1>5, <1>6, <1>7

(* Copies that are around or that a handler still has *)
Carried == Around \cup {h.copy : h \in handlers}

LEMMA CarriedFacts ==
    ASSUME TypeInv, NEW c \in Carried
    PROVE  c \in Copies /\ c.msg \in Msgs /\ c.retry \in Nat
<1>1. c \in Copies
  BY AroundFacts, Numbers DEF Carried
<1> QED
  BY <1>1, CopyFields

LEMMA CarriedStep ==
    ASSUME TypeInv, [Next]_vars, NEW c \in Carried'
    PROVE  c \in Carried \/ (Fresh(c) /\ nextJti' = nextJti + 1)
<1>1. CASE c \in Around'
  BY <1>1, AroundStep DEF Carried
<1>2. CASE \E g \in handlers' : c = g.copy
  <2>1. PICK g \in handlers' : c = g.copy
    BY <1>2
  <2>2. CASE g \in handlers
    BY <2>1, <2>2 DEF Carried
  <2>3. CASE g \notin handlers /\ Deliver
    <3>1. g.copy = Head(queue) \/ \E h \in handlers : g.copy = h.copy
      BY <2>3, HandlersNext
    <3>2. In(Head(queue), queue)
      BY <2>3, Delivered DEF Deliver
    <3>3. Head(queue) \in Around
      BY <3>2, AroundParts
    <3> QED
      BY <2>1, <3>1, <3>3 DEF Carried
  <2>4. CASE g \notin handlers /\ ~Deliver
    BY <2>1, <2>4, HandlersNext DEF Carried
  <2> QED
    BY <2>2, <2>3, <2>4
<1> QED
  BY <1>1, <1>2 DEF Carried

-----------------------------------------------------------------------------
(* The inductive invariant of SentOnceWhenDue. *)

(* Where a copy and its message come from: jtis are unique, what has not   *)
(* been published is nowhere, and what has been tried was due.             *)
TraceInv ==
    /\ \A b, c \in Around : b.jti = c.jti => b = c
    /\ \A c \in Carried : publishedAt[c.msg] # -1
    /\ \A m \in Msgs : publishedAt[m] = -1 => calls[m] = 0 /\ m \notin done
    /\ \A c \in Carried : c.msg \in Reminders /\ c.retry > 0 => Delay(c.msg) <= Threshold
    /\ \A h \in handlers :
          h.copy.msg \in Reminders /\ h.pc \in {"run", "retry"} => Delay(h.copy.msg) <= Threshold

LEMMA TraceStep ==
    ASSUME TypeInv, TraceInv, [Next]_vars
    PROVE  TraceInv'
<1>1. /\ clock <= clock' /\ clock \in Nat /\ clock' \in Nat /\ nextJti \in Nat
      /\ Slack \in Nat /\ Threshold \in Nat /\ Slack <= Threshold
      /\ \A m \in Msgs : publishedAt[m] # -1 => publishedAt'[m] # -1
  BY Grows, Numbers, RemindersAssumption
<1>2. \A m \in Reminders : Delay(m) <= Threshold => Delay(m)' <= Threshold
  <2> TAKE m \in Reminders
  <2>1. NotifyAt[m] \in Nat
    BY RemindersAssumption
  <2> QED
    BY <1>1, <2>1 DEF Delay
<1>3. \A h \in handlers : h.copy \in Carried
  BY DEF Carried
<1>4. ASSUME NEW b \in Around', NEW c \in Around', b.jti = c.jti PROVE b = c
  <2>1. /\ b \in Around \/ Fresh(b)
        /\ c \in Around \/ Fresh(c)
    BY AroundStep
  <2>2. \A a : Fresh(a) => a.jti = nextJti
    BY FreshFacts
  <2>3. \A a \in Around : a.jti # nextJti
    BY <1>1, AroundFacts
  <2>4. \A a, d : Fresh(a) /\ Fresh(d) => a = d
    <3> SUFFICES ASSUME NEW a, NEW d, Fresh(a), Fresh(d) PROVE a = d
      OBVIOUS
    <3>1. CASE \E m \in Msgs : Publish(m) /\ a = Signed(m, 0, "peer")
      <4>1. UNCHANGED handlers
        BY <3>1 DEF Publish, process
      <4>2. PICK m \in Msgs : Publish(m) /\ a = Signed(m, 0, "peer")
        BY <3>1
      <4>3. \A n \in Msgs : Publish(n) => n = m
        <5> SUFFICES ASSUME NEW n \in Msgs, Publish(n), n # m PROVE FALSE
          OBVIOUS
        <5>1. publishedAt'[m] = clock /\ publishedAt'[m] = publishedAt[m] /\ publishedAt[m] = -1
          BY <4>2 DEF Publish, TypeInv, TypeOK
        <5> QED
          BY <1>1, <5>1
      <4>4. \A h \in handlers : ~Republish(h) /\ ~RetryFires(h)
        BY <4>1 DEF Republish, RetryFires, Finish
      <4> QED
        BY <4>2, <4>3, <4>4 DEF Fresh
    <3>2. CASE \E h \in handlers : \/ Republish(h) /\ a = Signed(h.copy.msg, 0, "self")
                                   \/ RetryFires(h) /\ a = Signed(h.copy.msg, h.copy.retry + 1, "self")
      <4>1. PICK h \in handlers : \/ Republish(h) /\ a = Signed(h.copy.msg, 0, "self")
                                  \/ RetryFires(h) /\ a = Signed(h.copy.msg, h.copy.retry + 1, "self")
        BY <3>2
      <4>2. handlers' = handlers \ {h}
        BY <4>1 DEF Republish, RetryFires, Finish
      <4>3. \A g \in handlers : Republish(g) \/ RetryFires(g) => g = h
        BY <4>2 DEF Republish, RetryFires, Finish
      <4>4. \A m \in Msgs : ~Publish(m)
        BY <4>2 DEF Publish, process
      <4>5. ~(Republish(h) /\ RetryFires(h))
        BY DEF Republish, RetryFires
      <4> QED
        BY <4>1, <4>3, <4>4, <4>5 DEF Fresh
    <3> QED
      BY <3>1, <3>2 DEF Fresh
  <2> QED
    BY <1>4, <2>1, <2>2, <2>3, <2>4 DEF TraceInv
<1>5. ASSUME NEW c \in Carried' PROVE publishedAt'[c.msg] # -1
  <2>1. CASE c \in Carried
    BY <1>1, <2>1, CarriedFacts DEF TraceInv
  <2>2. CASE Fresh(c)
    <3>1. CASE \E m \in Msgs : Publish(m) /\ c = Signed(m, 0, "peer")
      <4>1. PICK m \in Msgs : Publish(m) /\ c.msg = m
        BY <3>1 DEF Signed
      <4>2. publishedAt'[m] = clock
        BY <4>1 DEF Publish, TypeInv, TypeOK
      <4> QED
        BY <1>1, <4>1, <4>2
    <3>2. CASE \E h \in handlers : c.msg = h.copy.msg
      BY <1>1, <1>3, <3>2, CarriedFacts DEF TraceInv
    <3> QED
      BY <2>2, <3>1, <3>2 DEF Fresh, Signed
  <2> QED
    BY <2>1, <2>2, CarriedStep
<1>6. ASSUME NEW m \in Msgs, publishedAt'[m] = -1 PROVE calls'[m] = 0 /\ m \notin done'
  <2>1. publishedAt[m] = -1
    BY <1>1, <1>6
  <2>2. \A h \in handlers : h.copy.msg # m
    BY <1>3, <2>1 DEF TraceInv
  <2>3. calls[m] = 0 /\ m \notin done
    BY <2>1 DEF TraceInv
  <2>4. \/ UNCHANGED <<calls, done>>
        \/ \E h \in handlers : \/ StartDue(h) \/ WakeDue(h) \/ Processed(h)
    BY DEF Next, Publish, DeliverRefused, Deliver, Verify, JtiUnseen, JtiReplayed, Handle,
           StartEarly, Republish, Outcome, ScheduleRetry, DeadLetter, RetryFires, Drop, Crash,
           Reconnect, Tick, vars, process
  <2> QED
    BY <2>2, <2>3, <2>4 DEF StartDue, WakeDue, Processed, Call, TypeInv, TypeOK
<1>7. ASSUME NEW c \in Carried', c.msg \in Reminders, c.retry > 0
      PROVE  Delay(c.msg)' <= Threshold
  <2>1. CASE c \in Carried
    BY <1>2, <1>7, <2>1 DEF TraceInv
  <2>2. CASE Fresh(c)
    <3>1. PICK h \in handlers : RetryFires(h) /\ c = Signed(h.copy.msg, h.copy.retry + 1, "self")
      BY <1>7, <2>2 DEF Fresh, Signed
    <3>2. Delay(h.copy.msg) <= Threshold /\ c.msg = h.copy.msg
      BY <1>7, <3>1 DEF RetryFires, Signed, TraceInv
    <3> QED
      BY <1>2, <1>7, <3>2
  <2> QED
    BY <2>1, <2>2, CarriedStep
<1>8. ASSUME NEW g \in handlers', g.copy.msg \in Reminders, g.pc \in {"run", "retry"}
      PROVE  Delay(g.copy.msg)' <= Threshold
  <2>1. CASE g \in handlers
    BY <1>2, <1>8, <2>1 DEF TraceInv
  <2>2. CASE g \notin handlers
    <3>1. PICK h \in handlers : g.copy = h.copy /\ (StartDue(h) \/ WakeDue(h) \/ ScheduleRetry(h))
      BY <1>8, <2>2, HandlersNext
    <3>2. h.copy.msg \in Reminders /\ NotifyAt[h.copy.msg] \in Nat
      BY <1>8, <3>1, RemindersAssumption
    <3>3. CASE StartDue(h)
      <4>1. Delay(h.copy.msg) <= Threshold
        BY <1>1, <3>2, <3>3 DEF StartDue, Early, Delay
      <4> QED
        BY <1>2, <3>1, <3>2, <4>1
    <3>4. CASE WakeDue(h)
      <4>1. Delay(h.copy.msg) <= Threshold
        BY <1>1, <3>2, <3>4 DEF WakeDue, StillEarly, Delay
      <4> QED
        BY <1>2, <3>1, <3>2, <4>1
    <3>5. CASE ScheduleRetry(h)
      BY <1>2, <3>1, <3>2, <3>5 DEF ScheduleRetry, Throws, TraceInv
    <3> QED
      BY <3>1, <3>3, <3>4, <3>5
  <2> QED
    BY <2>1, <2>2
<1> QED
  BY <1>4, <1>5, <1>6, <1>7, <1>8 DEF TraceInv, Delay

(* A message whose token is still unseen has no handler at work on it, and *)
(* as many calls behind it as its copy says.                               *)
LiveOnce(m) ==
    \A c \in Live : c.msg = m =>
        /\ calls[m] = c.retry /\ c.retry <= throws /\ m \notin done
        /\ \A b \in Live : b.msg = m => b = c
        /\ \A h \in handlers : Active(h) => h.copy.msg # m

(* A handler past verify() is the only one of its message. *)
RunOnce(m) ==
    \A h \in handlers : h.copy.msg = m =>
        /\ Active(h) => m \notin done /\ \A g \in handlers : Active(g) /\ g.copy.msg = m => g = h
        /\ h.pc = "sleep" => calls[m] = 0 /\ h.copy.retry = 0
        /\ h.pc = "run" => calls[m] = h.copy.retry + 1 /\ h.copy.retry <= throws
        /\ h.pc = "retry" => calls[m] = h.copy.retry + 1 /\ h.copy.retry + 1 <= throws
        /\ h.pc = "set" => /\ h.copy.jti \notin seen
                           /\ \A g \in handlers : g.pc = "set" /\ g.copy.msg = m => g = h

Once(m) ==
    /\ LiveOnce(m) /\ RunOnce(m)
    /\ calls[m] <= 1 + throws /\ calls[m] <= 1 + MaxRetries

OnceInv == \A m \in Msgs \ raced : Once(m)

(* Nothing is unseen of a message one handler of which is past verify(). *)
LEMMA Alone ==
    ASSUME TypeInv, NEW h \in handlers, Active(h), Once(h.copy.msg)
    PROVE  /\ \A c \in Live : c.msg # h.copy.msg
           /\ \A g \in handlers : g.copy.msg = h.copy.msg => g.pc # "set"
           /\ \A g \in handlers : g.copy.msg = h.copy.msg /\ Active(g) => g = h
<1>1. \A c \in Live : c.msg # h.copy.msg
  BY DEF Once, LiveOnce
<1>2. ASSUME NEW g \in handlers, g.copy.msg = h.copy.msg, g.pc = "set" PROVE FALSE
  <2>1. g.copy.jti \notin seen
    BY <1>2 DEF Once, RunOnce
  <2>2. g.copy \in Live
    BY <1>2, <2>1, AroundParts DEF Live, Verifying
  <2> QED
    BY <1>1, <1>2, <2>2
<1>3. \A g \in handlers : g.copy.msg = h.copy.msg /\ Active(g) => g = h
  BY DEF Once, RunOnce
<1> QED
  BY <1>1, <1>2, <1>3

(* A step of the handler of another message, or of none that is past       *)
(* verify()                                                                *)
LEMMA OnceKept ==
    ASSUME TypeInv, [Next]_vars, NEW m \in Msgs, Once(m),
           \A c \in Around' : c.msg = m => c \in Around,
           \A g \in handlers' : g.copy.msg = m => g \in handlers \/ g.pc = "get",
           \A g \in handlers' : g.copy.msg = m /\ g.pc = "set" => g.copy.jti \notin seen',
           calls'[m] = calls[m], m \in done' => m \in done
    PROVE  Once(m)'
<1>1. /\ seen \subseteq seen' /\ throws <= throws' /\ throws \in Nat /\ throws' \in Nat
      /\ calls[m] \in Nat /\ MaxRetries \in Nat
      /\ \A c \in Around : c.retry \in Nat
      /\ \A h \in handlers : h.copy.retry \in Nat
  BY Grows, Numbers, AroundFacts, CopyFields DEF TypeInv, TypeOK
<1>2. \A c \in Live' : c.msg = m => c \in Live
  BY <1>1 DEF Live
<1>3. LiveOnce(m)'
  <2> SUFFICES ASSUME NEW c \in Live', c.msg = m
               PROVE  /\ calls'[m] = c.retry /\ c.retry <= throws' /\ m \notin done'
                      /\ \A b \in Live' : b.msg = m => b = c
                      /\ \A h \in handlers' : Active(h) => h.copy.msg # m
    BY DEF LiveOnce, Active
  <2>1. c \in Live /\ c.retry \in Nat
    BY <1>1, <1>2 DEF Live
  <2>2. /\ calls[m] = c.retry /\ c.retry <= throws /\ m \notin done
        /\ \A b \in Live : b.msg = m => b = c
        /\ \A h \in handlers : Active(h) => h.copy.msg # m
    BY <2>1 DEF Once, LiveOnce
  <2>3. c.retry <= throws'
    BY <1>1, <2>1, <2>2
  <2>4. \A h \in handlers' : Active(h) => h.copy.msg # m
    BY <2>2 DEF Active
  <2> QED
    BY <1>2, <2>2, <2>3, <2>4
<1>4. RunOnce(m)'
  <2> SUFFICES ASSUME NEW h \in handlers', h.copy.msg = m
               PROVE  /\ Active(h) => /\ m \notin done'
                                      /\ \A g \in handlers' : Active(g) /\ g.copy.msg = m => g = h
                      /\ h.pc = "sleep" => calls'[m] = 0 /\ h.copy.retry = 0
                      /\ h.pc = "run" => calls'[m] = h.copy.retry + 1 /\ h.copy.retry <= throws'
                      /\ h.pc = "retry" => /\ calls'[m] = h.copy.retry + 1
                                           /\ h.copy.retry + 1 <= throws'
                      /\ h.pc = "set" => /\ h.copy.jti \notin seen'
                                         /\ \A g \in handlers' :
                                               g.pc = "set" /\ g.copy.msg = m => g = h
    BY DEF RunOnce, Active
  <2>1. CASE h.pc = "get"
    BY <2>1 DEF Active
  <2>2. CASE h \in handlers /\ h.pc # "get"
    <3>1. /\ Active(h) => m \notin done /\ \A g \in handlers : Active(g) /\ g.copy.msg = m => g = h
          /\ h.pc = "sleep" => calls[m] = 0 /\ h.copy.retry = 0
          /\ h.pc = "run" => calls[m] = h.copy.retry + 1 /\ h.copy.retry <= throws
          /\ h.pc = "retry" => calls[m] = h.copy.retry + 1 /\ h.copy.retry + 1 <= throws
          /\ h.pc = "set" => \A g \in handlers : g.pc = "set" /\ g.copy.msg = m => g = h
      BY <2>2 DEF Once, RunOnce
    <3>2. \A g \in handlers' : Active(g) /\ g.copy.msg = m => g \in handlers
      BY DEF Active
    <3>3. \A g \in handlers' : g.pc = "set" /\ g.copy.msg = m => g \in handlers
      OBVIOUS
    <3>4. /\ h.copy.retry <= throws => h.copy.retry <= throws'
          /\ h.copy.retry + 1 <= throws => h.copy.retry + 1 <= throws'
      BY <1>1, <2>2
    <3> QED
      BY <3>1, <3>2, <3>3, <3>4
  <2> QED
    BY <2>1, <2>2
<1>5. calls'[m] <= 1 + throws' /\ calls'[m] <= 1 + MaxRetries
  BY <1>1 DEF Once
<1> QED
  BY <1>3, <1>4, <1>5 DEF Once

(* A message that no handler has verified, with b as its only unseen copy *)
LEMMA OnceIdle ==
    ASSUME NEW m \in Msgs, NEW b,
           \A g \in handlers' : g.copy.msg = m => g.pc = "get",
           \A c \in Live' : c.msg = m =>
              c = b /\ calls'[m] = b.retry /\ b.retry <= throws' /\ m \notin done',
           calls'[m] <= 1 + throws', calls'[m] <= 1 + MaxRetries
    PROVE  Once(m)'
<1>1. LiveOnce(m)'
  BY DEF LiveOnce, Active
<1>2. RunOnce(m)'
  BY DEF RunOnce, Active
<1> QED
  BY <1>1, <1>2 DEF Once

(* A message with k as its only handler past verify() *)
LEMMA OnceBusy ==
    ASSUME NEW m \in Msgs, NEW k \in handlers', k.copy.msg = m, Active(k),
           \A g \in handlers' : g.copy.msg = m => g = k \/ g.pc = "get",
           \A c \in Live' : c.msg # m, m \notin done',
           k.pc = "sleep" => calls'[m] = 0 /\ k.copy.retry = 0,
           k.pc = "run" => calls'[m] = k.copy.retry + 1 /\ k.copy.retry <= throws',
           k.pc = "retry" => calls'[m] = k.copy.retry + 1 /\ k.copy.retry + 1 <= throws',
           calls'[m] <= 1 + throws', calls'[m] <= 1 + MaxRetries
    PROVE  Once(m)'
<1>1. LiveOnce(m)'
  BY DEF LiveOnce
<1>2. RunOnce(m)'
  <2> SUFFICES ASSUME NEW h \in handlers', h.copy.msg = m
               PROVE  /\ Active(h) => /\ m \notin done'
                                      /\ \A g \in handlers' : Active(g) /\ g.copy.msg = m => g = h
                      /\ h.pc = "sleep" => calls'[m] = 0 /\ h.copy.retry = 0
                      /\ h.pc = "run" => calls'[m] = h.copy.retry + 1 /\ h.copy.retry <= throws'
                      /\ h.pc = "retry" => /\ calls'[m] = h.copy.retry + 1
                                           /\ h.copy.retry + 1 <= throws'
                      /\ h.pc # "set"
    BY DEF RunOnce, Active
  <2>1. CASE h = k
    BY <2>1 DEF Active
  <2>2. CASE h.pc = "get"
    BY <2>2 DEF Active
  <2> QED
    BY <2>1, <2>2
<1> QED
  BY <1>1, <1>2 DEF Once

(* The step of a handler leaves no handler at its former pc. *)
LEMMA Moves ==
    ASSUME TypeInv, NEW h \in handlers, Verify(h) \/ Handle(h) \/ Outcome(h)
    PROVE  /\ h \notin handlers'
           /\ \A g \in handlers' : g \in handlers \/ g.copy = h.copy
           /\ \A g \in handlers : g # h => g \in handlers'
           /\ \A c : Fresh(c) => c.msg = h.copy.msg
<1>1. h \in Handlers
  BY Numbers
<1>2. ASSUME NEW p, NEW w, Become(h, p, w), p # h.pc
      PROVE  /\ h \notin handlers'
             /\ \A g \in handlers' : g \in handlers \/ g.copy = h.copy
             /\ \A g \in handlers : g # h => g \in handlers'
  <2> DEFINE k == [h EXCEPT !.pc = p, !.wake = w]
  <2>1. k.pc = p /\ k.copy = h.copy
    BY <1>1 DEF Handlers
  <2>2. handlers' = (handlers \ {h}) \cup {k}
    BY <1>2 DEF Become
  <2> HIDE DEF k
  <2> QED
    BY <1>2, <2>1, <2>2
<1>3. ASSUME Finish(h)
      PROVE  /\ h \notin handlers'
             /\ \A g \in handlers' : g \in handlers \/ g.copy = h.copy
             /\ \A g \in handlers : g # h => g \in handlers'
  BY <1>3 DEF Finish
<1>4. Finish(h) \/ \E p, w : Become(h, p, w) /\ p # h.pc
  BY DEF Verify, Handle, Outcome, JtiUnseen, JtiReplayed, StartDue, StartEarly, Republish, WakeDue,
         Processed, ScheduleRetry, DeadLetter, RetryFires, Call, Throws
<1>5. /\ h \notin handlers'
      /\ \A g \in handlers' : g \in handlers \/ g.copy = h.copy
      /\ \A g \in handlers : g # h => g \in handlers'
  BY <1>2, <1>3, <1>4
<1>6. ASSUME NEW c, Fresh(c) PROVE c.msg = h.copy.msg
  <2>1. \A m \in Msgs : ~Publish(m)
    BY <1>5 DEF Publish, process
  <2>2. ASSUME NEW g \in handlers, Republish(g) \/ RetryFires(g) PROVE g = h
    <3>1. handlers' = handlers \ {g}
      BY <2>2 DEF Republish, RetryFires, Finish
    <3> QED
      BY <1>5, <3>1
  <2> QED
    BY <1>6, <2>1, <2>2 DEF Fresh, Signed
<1> QED
  BY <1>5, <1>6

LEMMA OnceOfPublished ==
    ASSUME TypeInv, TraceInv, [Next]_vars, NEW m \in Msgs, Publish(m), Once(m)
    PROVE  Once(m)'
<1> DEFINE b == Signed(m, 0, "peer")
<1>1. \A c \in Carried : c.msg # m
  BY DEF TraceInv, Publish
<1>2. calls[m] = 0 /\ m \notin done
  BY DEF TraceInv, Publish
<1>3. UNCHANGED <<handlers, calls, done, throws>>
  BY DEF Publish, process, faults
<1>4. b.msg = m /\ b.retry = 0
  BY DEF Signed
<1>5. \A c : Fresh(c) => c = b
  <2>1. \A n \in Msgs : Publish(n) => n = m
    <3> SUFFICES ASSUME NEW n \in Msgs, Publish(n), n # m PROVE FALSE
      OBVIOUS
    <3>1. publishedAt'[m] = clock /\ publishedAt'[m] = publishedAt[m] /\ publishedAt[m] = -1
      BY DEF Publish, TypeInv, TypeOK
    <3> QED
      BY <3>1, Numbers
  <2>2. \A h \in handlers : ~Republish(h) /\ ~RetryFires(h)
    BY <1>3 DEF Republish, RetryFires, Finish
  <2> QED
    BY <2>1, <2>2 DEF Fresh
<1> HIDE DEF b
<1>6. \A c \in Live' : c.msg = m => c = b
  BY <1>1, <1>5, AroundStep DEF Live, Carried
<1>7. \A g \in handlers' : g.copy.msg # m
  BY <1>1, <1>3 DEF Carried
<1>8. throws \in Nat /\ MaxRetries \in Nat
  BY Numbers
<1> QED
  BY <1>2, <1>3, <1>4, <1>6, <1>7, <1>8, OnceIdle

(* The step of a handler, for the messages of the others *)
LEMMA OnceOfOthers ==
    ASSUME TypeInv, TraceInv, [Next]_vars, NEW h \in handlers,
           Verify(h) \/ Handle(h) \/ Outcome(h), NEW m \in Msgs, m # h.copy.msg, Once(m)
    PROVE  Once(m)'
<1>1. \A c \in Around' : c.msg = m => c \in Around
  BY AroundStep, Moves
<1>2. \A g \in handlers' : g.copy.msg = m => g \in handlers
  BY Moves
<1>3. ASSUME NEW g \in handlers', g.copy.msg = m, g.pc = "set" PROVE g.copy.jti \notin seen'
  <2>1. g \in handlers /\ g.copy.jti \notin seen
    BY <1>2, <1>3 DEF Once, RunOnce
  <2>2. seen' = seen \/ (h.pc = "set" /\ seen' = seen \cup {h.copy.jti})
    BY DEF Verify, Handle, Outcome, JtiUnseen, JtiReplayed, StartDue, StartEarly, Republish,
           WakeDue, Processed, ScheduleRetry, DeadLetter, RetryFires
  <2>3. h.pc = "set" => h.copy.jti # g.copy.jti
    BY <1>3, <2>1, AroundParts DEF TraceInv, Verifying
  <2> QED
    BY <2>1, <2>2, <2>3
<1>4. calls'[m] = calls[m] /\ (m \in done' => m \in done)
  BY DEF Verify, Handle, Outcome, JtiUnseen, JtiReplayed, StartDue, StartEarly, Republish, WakeDue,
         Processed, ScheduleRetry, DeadLetter, RetryFires, Call, TypeInv, TypeOK
<1> QED
  BY <1>1, <1>2, <1>3, <1>4, OnceKept

(* The step of a handler, for its own message *)
LEMMA OnceOfOwn ==
    ASSUME TypeInv, TraceInv, [Next]_vars, NEW h \in handlers,
           Verify(h) \/ Handle(h) \/ Outcome(h), Once(h.copy.msg), h.copy.msg \notin raced'
    PROVE  Once(h.copy.msg)'
<1> DEFINE m == h.copy.msg
           n == h.copy.retry
<1>1. /\ h \in Handlers /\ h.copy \in Copies /\ m \in Msgs /\ n \in Nat /\ n <= MaxRetries
      /\ throws \in Nat /\ MaxRetries \in Nat /\ calls[m] \in Nat
      /\ calls[m] <= 1 + throws /\ calls[m] <= 1 + MaxRetries
      /\ throws <= throws' /\ throws' \in Nat
  <2>1. m \in Msgs /\ n \in 0 .. MaxRetries
    BY Numbers, CopyFields
  <2>2. n <= MaxRetries /\ n \in Nat
    BY <2>1, Numbers
  <2>3. calls[m] \in Nat /\ calls[m] <= 1 + throws /\ calls[m] <= 1 + MaxRetries
    BY <2>1 DEF Once, TypeInv, TypeOK
  <2> QED
    BY <2>1, <2>2, <2>3, Numbers, Grows
<1>2. /\ seen \subseteq seen'
      /\ \A g \in handlers' : g \in handlers \/ g.copy = h.copy
      /\ h \notin handlers'
  BY Grows, Moves
<1>3. ASSUME NEW p, NEW w, Become(h, p, w)
      PROVE  \E k \in handlers' : /\ k.copy = h.copy /\ k.pc = p
                                  /\ \A g \in handlers' : g \in handlers \/ g = k
  <2> DEFINE k == [h EXCEPT !.pc = p, !.wake = w]
  <2>1. k.pc = p /\ k.copy = h.copy
    BY <1>1 DEF Handlers
  <2>2. handlers' = (handlers \ {h}) \cup {k}
    BY <1>3 DEF Become
  <2> HIDE DEF k
  <2> QED
    BY <2>1, <2>2
<1>4. ASSUME NEW c \in Live', ~Fresh(c) PROVE c \in Live
  BY <1>2, <1>4, AroundStep DEF Live
<1>5. h.copy \in Live => /\ calls[m] = n /\ n <= throws /\ m \notin done
                         /\ \A b \in Live : b.msg = m => b = h.copy
                         /\ \A g \in handlers : Active(g) => g.copy.msg # m
  BY DEF Once, LiveOnce
<1>6. h.pc = "set" => /\ h.copy \in Live
                      /\ \A g \in handlers : g.pc = "set" /\ g.copy.msg = m => g = h
  BY <1>1, AroundParts DEF Live, Verifying, Once, RunOnce
<1>7. CASE JtiUnseen(h)
  <2>1. /\ Become(h, "set", 0) /\ h.pc = "get" /\ h.copy.jti \notin seen
        /\ UNCHANGED <<seen, calls, done, throws>>
        /\ \A g \in handlers : g.pc = "set" /\ g.copy.jti = h.copy.jti => g.copy.msg \in raced'
    BY <1>7 DEF JtiUnseen, faults
  <2>2. h.copy \in Live
    BY <2>1, AroundParts DEF Live, Verifying
  <2>3. PICK k \in handlers' : /\ k.copy = h.copy /\ k.pc = "set"
                               /\ \A g \in handlers' : g \in handlers \/ g = k
    BY <1>3, <2>1
  <2>4. \A c : ~Fresh(c)
    BY <1>7, <2>3 DEF Fresh, JtiUnseen, Publish, Republish, RetryFires, process, Finish
  <2>5. \A g \in handlers' : g # k => g \in handlers
    BY <2>3
  <2>6. \A g \in handlers : g.pc = "set" => g.copy.msg # m
    <3> SUFFICES ASSUME NEW g \in handlers, g.pc = "set", g.copy.msg = m PROVE FALSE
      OBVIOUS
    <3>1. g.copy \in Live
      BY AroundParts DEF Live, Verifying, Once, RunOnce
    <3>2. g.copy = h.copy
      BY <1>5, <2>2, <3>1
    <3> QED
      BY <2>1, <3>2
  <2>7. LiveOnce(m)'
    <3>1. \A c \in Live' : c.msg = m => c = h.copy
      BY <1>4, <1>5, <2>2, <2>4
    <3>2. \A g \in handlers' : Active(g) => g.copy.msg # m
      BY <1>5, <2>2, <2>3, <2>5 DEF Active
    <3> QED
      BY <1>5, <2>1, <2>2, <3>1, <3>2 DEF LiveOnce, Active
  <2>8. RunOnce(m)'
    <3>1. \A g \in handlers' : g.copy.msg = m => g = k \/ g.pc = "get"
      <4> SUFFICES ASSUME NEW g \in handlers', g.copy.msg = m, g # k PROVE g.pc = "get"
        OBVIOUS
      <4>1. g \in handlers /\ ~Active(g) /\ g.pc # "set" /\ g \in Handlers
        BY <1>5, <2>2, <2>5, <2>6, Numbers
      <4> QED
        BY <4>1 DEF Active, Handlers
    <3> QED
      BY <2>1, <2>3, <3>1 DEF RunOnce, Active
  <2> QED
    BY <1>1, <2>1, <2>7, <2>8 DEF Once
(* A handler that goes past verify() leaves no copy unseen. *)
<1>8. ASSUME StartDue(h) \/ StartEarly(h)
      PROVE  /\ \A c \in Live' : c.msg # m
             /\ \A g \in handlers' : g.copy.msg = m => g \notin handlers \/ g.pc = "get"
             /\ h.copy \in Live
  <2>1. h.pc = "set" /\ seen' = seen \cup {h.copy.jti}
    BY <1>8 DEF StartDue, StartEarly
  <2>2. h.copy \in Live
    BY <1>6, <2>1
  <2>3. \A c : ~Fresh(c)
    BY <1>8, Moves DEF Fresh, Publish, process, Republish, RetryFires, StartDue, StartEarly, Finish,
                       Call, Become
  <2>4. \A c \in Live' : c.msg # m
    <3> SUFFICES ASSUME NEW c \in Live', c.msg = m PROVE FALSE
      OBVIOUS
    <3>1. c = h.copy
      BY <1>4, <1>5, <2>2, <2>3
    <3> QED
      BY <2>1, <3>1 DEF Live
  <2>5. ASSUME NEW g \in handlers', g.copy.msg = m, g \in handlers PROVE g.pc = "get"
    <3>1. ~Active(g) /\ g.pc # "set" /\ g \in Handlers
      BY <1>2, <1>5, <1>6, <2>1, <2>2, <2>5, Numbers
    <3> QED
      BY <3>1 DEF Active, Handlers
  <2> QED
    BY <2>2, <2>4, <2>5
<1>9. CASE StartDue(h)
  <2>1. Become(h, "run", 0) /\ calls'[m] = calls[m] + 1 /\ UNCHANGED <<done, throws>>
    BY <1>1, <1>9 DEF StartDue, Call, faults, TypeInv, TypeOK
  <2>2. PICK k \in handlers' : /\ k.copy = h.copy /\ k.pc = "run"
                               /\ \A g \in handlers' : g \in handlers \/ g = k
    BY <1>3, <2>1
  <2>3. calls[m] = n /\ n <= throws /\ m \notin done
    BY <1>5, <1>8, <1>9
  <2>4. calls'[m] = n + 1 /\ calls'[m] <= 1 + throws' /\ calls'[m] <= 1 + MaxRetries
    BY <1>1, <2>1, <2>3
  <2>5. \A g \in handlers' : g.copy.msg = m => g = k \/ g.pc = "get"
    BY <1>8, <1>9, <2>2
  <2> QED
    BY <1>1, <1>8, <1>9, <2>1, <2>2, <2>3, <2>4, <2>5, OnceBusy DEF Active
<1>10. CASE StartEarly(h)
  <2>1. /\ Become(h, "sleep", clock + Sleep(m)) /\ Early(m)
        /\ UNCHANGED <<calls, done, throws>>
    BY <1>10 DEF StartEarly, faults
  <2>2. PICK k \in handlers' : /\ k.copy = h.copy /\ k.pc = "sleep"
                               /\ \A g \in handlers' : g \in handlers \/ g = k
    BY <1>3, <2>1
  <2>3. calls[m] = n /\ n <= throws /\ m \notin done
    BY <1>5, <1>8, <1>10
  <2>4. n = 0
    <3>1. h.copy \in Carried
      BY DEF Carried
    <3>2. m \in Reminders /\ Delay(m) > Threshold /\ NotifyAt[m] \in Nat /\ Threshold \in Nat
      BY <2>1, RemindersAssumption DEF Early
    <3>3. ~(Delay(m) <= Threshold)
      BY <3>2, Numbers, SMTT(30) DEF Delay
    <3> QED
      BY <1>1, <3>1, <3>2, <3>3 DEF TraceInv
  <2>5. \A g \in handlers' : g.copy.msg = m => g = k \/ g.pc = "get"
    BY <1>8, <1>10, <2>2
  <2> QED
    BY <1>1, <1>8, <1>10, <2>1, <2>2, <2>3, <2>4, <2>5, OnceBusy DEF Active
(* A handler past verify() is alone with its message. *)
<1>11. ASSUME Active(h)
       PROVE  /\ \A c \in Live : c.msg # m
              /\ \A g \in handlers : g.copy.msg = m => g = h \/ g.pc = "get"
              /\ m \notin done
              /\ h.pc = "sleep" => calls[m] = 0 /\ n = 0
              /\ h.pc = "run" => calls[m] = n + 1 /\ n <= throws
              /\ h.pc = "retry" => calls[m] = n + 1 /\ n + 1 <= throws
  <2>1. /\ \A c \in Live : c.msg # m
        /\ \A g \in handlers : g.copy.msg = m /\ g # h => g.pc # "set" /\ ~Active(g)
    BY <1>11, Alone
  <2>2. \A g \in handlers : g.copy.msg = m => g = h \/ g.pc = "get"
    BY <2>1, Numbers DEF Active, Handlers
  <2> QED
    BY <1>11, <2>1, <2>2 DEF Once, RunOnce
<1>12. CASE WakeDue(h)
  <2>1. Become(h, "run", 0) /\ calls'[m] = calls[m] + 1 /\ UNCHANGED <<done, throws>> /\ Active(h)
    BY <1>1, <1>12 DEF WakeDue, Call, faults, TypeInv, TypeOK, Active
  <2>2. PICK k \in handlers' : /\ k.copy = h.copy /\ k.pc = "run"
                               /\ \A g \in handlers' : g \in handlers \/ g = k
    BY <1>3, <2>1
  <2>3. \A c : ~Fresh(c)
    <3>1. ASSUME NEW g \in handlers, Republish(g) \/ RetryFires(g) PROVE FALSE
      <4>1. handlers' = handlers \ {g}
        BY <3>1 DEF Republish, RetryFires, Finish
      <4>2. g = h
        BY <1>12, <4>1, Moves DEF Handle
      <4> QED
        BY <1>12, <3>1, <4>2 DEF Republish, RetryFires, WakeDue
    <3> QED
      BY <1>2, <3>1 DEF Fresh, Publish, process
  <2>4. calls'[m] = 1 /\ n = 0 /\ n <= throws'
    BY <1>1, <1>11, <1>12, <2>1 DEF WakeDue
  <2>5. \A g \in handlers' : g.copy.msg = m => g = k \/ g.pc = "get"
    BY <1>2, <1>11, <2>1, <2>2
  <2> QED
    BY <1>1, <1>4, <1>11, <2>1, <2>2, <2>3, <2>4, <2>5, OnceBusy DEF Active
<1>13. CASE ScheduleRetry(h)
  <2>1. /\ \E w : Become(h, "retry", w)
        /\ UNCHANGED <<calls, done>> /\ throws' = throws + 1 /\ Active(h) /\ h.pc = "run"
    BY <1>13 DEF ScheduleRetry, Throws, Active
  <2>2. PICK k \in handlers' : /\ k.copy = h.copy /\ k.pc = "retry"
                               /\ \A g \in handlers' : g \in handlers \/ g = k
    BY <1>3, <2>1
  <2>3. \A c : ~Fresh(c)
    BY <1>2, <1>13, <2>2
    DEF Fresh, ScheduleRetry, Throws, Publish, process, Republish, RetryFires, Finish
  <2>4. calls'[m] = n + 1 /\ n + 1 <= throws'
    BY <1>1, <1>11, <2>1
  <2>5. \A g \in handlers' : g.copy.msg = m => g = k \/ g.pc = "get"
    BY <1>2, <1>11, <2>1, <2>2
  <2>6. calls'[m] <= 1 + throws' /\ calls'[m] <= 1 + MaxRetries
    BY <1>1, <2>1
  <2> QED
    BY <1>1, <1>4, <1>11, <2>1, <2>2, <2>3, <2>4, <2>5, <2>6, OnceBusy DEF Active
(* A handler that ends leaves the message, with a new copy of it or none. *)
<1>14. ASSUME Finish(h), Active(h)
       PROVE  /\ \A g \in handlers' : g.copy.msg = m => g.pc = "get"
              /\ \A c \in Live' : c.msg = m => Fresh(c)
  BY <1>4, <1>11, <1>14 DEF Finish
<1>15. CASE Processed(h) \/ DeadLetter(h)
  <2>1. Finish(h) /\ Active(h) /\ UNCHANGED calls
    BY <1>15 DEF Processed, DeadLetter, Throws, Active
  <2>2. \A c : ~Fresh(c)
    <3>1. ASSUME NEW g \in handlers, Republish(g) \/ RetryFires(g) PROVE FALSE
      <4>1. handlers' = handlers \ {g} /\ g.pc \in {"sleep", "retry"}
        BY <3>1 DEF Republish, RetryFires, Finish
      <4> QED
        BY <1>2, <1>15, <4>1 DEF Processed, DeadLetter, Throws
    <3> QED
      BY <1>2, <3>1 DEF Fresh, Publish, process
  <2>3. calls'[m] <= 1 + throws' /\ calls'[m] <= 1 + MaxRetries
    BY <1>1, <2>1
  <2> QED
    BY <1>1, <1>14, <2>1, <2>2, <2>3, OnceIdle
<1>16. CASE Republish(h)
  <2> DEFINE b == Signed(m, 0, "self")
  <2>1. Finish(h) /\ Active(h) /\ UNCHANGED <<calls, done, throws>> /\ h.pc = "sleep"
    BY <1>16 DEF Republish, Active, faults
  <2>2. \A c : Fresh(c) => c = b
    <3>1. \A g \in handlers : Republish(g) \/ RetryFires(g) => g = h
      BY <2>1 DEF Republish, RetryFires, Finish
    <3> QED
      BY <1>2, <1>16, <3>1 DEF Fresh, Publish, process, Republish, RetryFires
  <2>3. b.retry = 0
    BY DEF Signed
  <2> HIDE DEF b
  <2>4. calls'[m] = 0 /\ m \notin done'
    BY <1>11, <2>1
  <2> QED
    BY <1>1, <1>14, <2>1, <2>2, <2>3, <2>4, OnceIdle
<1>17. CASE RetryFires(h)
  <2> DEFINE b == Signed(m, n + 1, "self")
  <2>1. Finish(h) /\ Active(h) /\ UNCHANGED <<calls, done, throws>> /\ h.pc = "retry"
    BY <1>17 DEF RetryFires, Active, faults
  <2>2. \A c : Fresh(c) => c = b
    <3>1. \A g \in handlers : Republish(g) \/ RetryFires(g) => g = h
      BY <2>1 DEF Republish, RetryFires, Finish
    <3> QED
      BY <1>2, <1>17, <3>1 DEF Fresh, Publish, process, Republish, RetryFires
  <2>3. b.retry = n + 1
    BY DEF Signed
  <2> HIDE DEF b
  <2>4. calls'[m] = n + 1 /\ n + 1 <= throws' /\ m \notin done'
    BY <1>11, <2>1
  <2> QED
    BY <1>1, <1>14, <2>1, <2>2, <2>3, <2>4, OnceIdle
<1>18. CASE JtiReplayed(h)
  <2>1. Finish(h) /\ UNCHANGED <<calls, done, throws, seen>> /\ h.pc = "get"
    BY <1>18 DEF JtiReplayed, faults
  <2>2. \A c : ~Fresh(c)
    <3>1. ASSUME NEW g \in handlers, Republish(g) \/ RetryFires(g) PROVE FALSE
      <4>1. handlers' = handlers \ {g} /\ g.pc \in {"sleep", "retry"}
        BY <3>1 DEF Republish, RetryFires, Finish
      <4> QED
        BY <1>2, <2>1, <4>1
    <3> QED
      BY <1>2, <3>1 DEF Fresh, Publish, process
  <2>3. \A c \in Around' : c.msg = m => c \in Around
    BY <2>2, AroundStep
  <2>4. \A g \in handlers' : g \in handlers
    BY <2>1 DEF Finish
  <2>5. \A g \in handlers' : g.copy.msg = m /\ g.pc = "set" => g.copy.jti \notin seen'
    BY <2>1, <2>4 DEF Once, RunOnce
  <2> QED
    BY <1>1, <2>1, <2>3, <2>4, <2>5, OnceKept
<1> QED
  BY <1>7, <1>9, <1>10, <1>12, <1>13, <1>15, <1>16, <1>17, <1>18 DEF Verify, Handle, Outcome

LEMMA OnceStep ==
    ASSUME TypeInv, TraceInv, OnceInv, [Next]_vars
    PROVE  OnceInv'
<1> SUFFICES ASSUME NEW m \in Msgs \ raced' PROVE Once(m)'
  BY DEF OnceInv
<1>1. Once(m) /\ raced \subseteq raced' /\ seen \subseteq seen'
  BY Grows DEF OnceInv
<1>2. CASE \E n \in Msgs : Publish(n)
  <2>1. PICK n \in Msgs : Publish(n)
    BY <1>2
  <2>2. CASE n = m
    BY <1>1, <2>1, <2>2, OnceOfPublished
  <2>3. CASE n # m
    <3>1. UNCHANGED <<handlers, calls, done, seen>>
      BY <2>1 DEF Publish, process
    <3>2. \A c : Fresh(c) => c.msg # m
      <4>1. ~Publish(m)
        <5> SUFFICES ASSUME Publish(m) PROVE FALSE
          OBVIOUS
        <5>1. publishedAt'[m] = clock /\ publishedAt'[m] = publishedAt[m] /\ publishedAt[m] = -1
          BY <2>1, <2>3 DEF Publish, TypeInv, TypeOK
        <5> QED
          BY <5>1, Numbers
      <4>2. \A h \in handlers : ~Republish(h) /\ ~RetryFires(h)
        BY <3>1 DEF Republish, RetryFires, Finish
      <4> QED
        BY <4>1, <4>2 DEF Fresh, Signed
    <3>3. \A c \in Around' : c.msg = m => c \in Around
      BY <3>2, AroundStep
    <3>4. \A g \in handlers' : g.copy.msg = m /\ g.pc = "set" => g.copy.jti \notin seen'
      BY <1>1, <3>1 DEF Once, RunOnce
    <3> QED
      BY <1>1, <3>1, <3>3, <3>4, OnceKept
  <2> QED
    BY <2>2, <2>3
<1>3. CASE \E h \in handlers : Verify(h) \/ Handle(h) \/ Outcome(h)
  BY <1>1, <1>3, OnceOfOwn, OnceOfOthers
<1>4. ASSUME UNCHANGED vars \/ DeliverRefused \/ Deliver \/ Drop \/ Crash \/ Reconnect \/ Tick
      PROVE  Once(m)'
  <2>1. /\ UNCHANGED <<calls, done, seen>>
        /\ \A g \in handlers' : g \in handlers \/ g.pc = "get"
    BY <1>4 DEF vars, process, DeliverRefused, Deliver, Drop, Crash, Reconnect, Tick
  <2>2. \A c : ~Fresh(c)
    <3>1. \A n \in Msgs : ~Publish(n)
      <4> SUFFICES ASSUME NEW n \in Msgs, Publish(n) PROVE FALSE
        OBVIOUS
      <4>1. publishedAt' # publishedAt
        BY Numbers DEF Publish, TypeInv, TypeOK
      <4> QED
        BY <1>4, <4>1 DEF vars, DeliverRefused, Deliver, Drop, Crash, Reconnect, Tick
    <3>2. ASSUME NEW h \in handlers, Republish(h) \/ RetryFires(h) PROVE FALSE
      <4>1. handlers' # handlers /\ UNCHANGED <<clock, crashes>>
        BY <3>2 DEF Republish, RetryFires, Finish, faults
      <4>2. Crash \/ Deliver
        BY <1>4, <4>1 DEF vars, process, DeliverRefused, Drop, Reconnect, Tick
      <4>3. ~Crash
        BY <4>1, Numbers DEF Crash
      <4>4. ~Deliver
        BY <3>2 DEF Deliver, Republish, RetryFires, Finish
      <4> QED
        BY <4>2, <4>3, <4>4
    <3> QED
      BY <3>1, <3>2 DEF Fresh
  <2>3. \A c \in Around' : c.msg = m => c \in Around
    BY <2>2, AroundStep
  <2>4. \A g \in handlers' : g.copy.msg = m /\ g.pc = "set" => g.copy.jti \notin seen'
    BY <1>1, <2>1 DEF Once, RunOnce
  <2> QED
    BY <1>1, <2>1, <2>3, <2>4, OnceKept
<1> QED
  BY <1>2, <1>3, <1>4 DEF Next

LEMMA OnceHolds == Spec => [](TraceInv /\ OnceInv)
<1>1. Init => TraceInv /\ OnceInv
  <2> SUFFICES ASSUME Init PROVE TraceInv /\ OnceInv
    OBVIOUS
  <2>1. Around = {} /\ handlers = {} /\ queue = <<>> /\ unacked = {}
    BY DEF Init, Around, Ready
  <2>2. TraceInv
    BY <2>1 DEF Init, TraceInv, Carried
  <2>3. OnceInv
    BY <2>1, RemindersAssumption DEF Init, OnceInv, Once, LiveOnce, RunOnce, Live
  <2> QED
    BY <2>2, <2>3
<1>2. TypeInv /\ TraceInv /\ OnceInv /\ [Next]_vars => (TraceInv /\ OnceInv)'
  BY TraceStep, OnceStep
<1> QED
  BY <1>1, <1>2, TypesHold, PTL DEF Spec

-----------------------------------------------------------------------------
(* As long as no connection is lost, a handler that has not settled its     *)
(* delivery still has it on the channel it came on.                         *)

Delivery(h) == [tag |-> h.tag, copy |-> h.copy]

DistinctJtis ==
    /\ \A i, j \in Ready : queue[i].jti = queue[j].jti => i = j
    /\ \A d, e \in unacked : d.copy.jti = e.copy.jti => d = e
    /\ \A i \in Ready, d \in unacked : queue[i].jti # d.copy.jti

OwnDeliveries ==
    /\ \A h \in handlers : h.pc # "retry" => Delivery(h) \in unacked
    /\ \A g, h \in handlers : g.pc # "retry" /\ h.pc # "retry" /\ g.tag = h.tag => g = h

TidyInv ==
    /\ drops = 0 => misacked = {} /\ raced = {} /\ OwnDeliveries /\ DistinctJtis
    /\ drops + crashes = 0 => up /\ dropped = {}
    /\ throws = 0 => dropped = {} /\ \A h \in handlers : h.pc # "retry"

(* There an ack or nack settles the delivery of its own handler. *)
LEMMA TidySettle ==
    ASSUME TypeInv, TidyInv, drops = 0, NEW h \in handlers, h.pc # "retry", NEW q,
           Settle(h.tag, q)
    PROVE  /\ up /\ up' = up /\ queue' = q /\ unacked' = unacked \ {Delivery(h)}
           /\ Held(h.tag) = {Delivery(h)} /\ Delivery(h).copy = h.copy
<1>1. Delivery(h) \in unacked /\ Delivery(h).tag = h.tag /\ Delivery(h).copy = h.copy
  BY DEF TidyInv, OwnDeliveries, Delivery
<1>2. up
  BY <1>1 DEF TypeInv, BrokerInv
<1>3. Held(h.tag) = {Delivery(h)}
  BY <1>1 DEF Held, TypeInv, BrokerInv
<1> QED
  BY <1>1, <1>2, <1>3 DEF Settle

LEMMA TidyAck ==
    ASSUME TypeInv, TidyInv, drops = 0, NEW h \in handlers, h.pc # "retry", NEW q, Ack(h, q)
    PROVE  /\ up /\ up' = up /\ queue' = q /\ unacked' = unacked \ {Delivery(h)}
           /\ misacked' = misacked
<1>1. Settle(h.tag, q)
  BY DEF Ack
<1>2. /\ up /\ up' = up /\ queue' = q /\ unacked' = unacked \ {Delivery(h)}
      /\ Held(h.tag) = {Delivery(h)} /\ Delivery(h).copy = h.copy
  BY <1>1, TidySettle
<1>3. {d.copy.msg : d \in {e \in Held(h.tag) : e.copy # h.copy}} = {}
  BY <1>2
<1> QED
  BY <1>2, <1>3 DEF Ack

LEMMA JtisAppended ==
    ASSUME TypeInv, DistinctJtis, NEW m \in Msgs, NEW n \in 0 .. MaxRetries,
           NEW s \in {"peer", "self"}, queue' = Append(queue, Signed(m, n, s)),
           unacked' \subseteq unacked
    PROVE  DistinctJtis'
<1>0. PICK c : c = Signed(m, n, s)
  OBVIOUS
<1>1. /\ Len(queue') = Len(queue) + 1 /\ c.jti = nextJti
      /\ \A i \in Ready : queue'[i] = queue[i]
      /\ queue'[Len(queue) + 1] = c
  <2>1. c \in Copies /\ c.jti = nextJti
    BY <1>0, SignedCopy
  <2>2. queue \in Seq(Copies) /\ queue' = Append(queue, c)
    BY <1>0, Numbers
  <2> QED
    BY <2>1, <2>2, AppendProperties DEF Ready
<1>2. /\ Len(queue) \in Nat /\ nextJti \in Nat
      /\ \A i \in Ready : queue[i].jti # nextJti
      /\ \A d \in unacked : d.copy.jti # nextJti
  BY Numbers
<1>3. \A i \in Ready' : i \in Ready \/ (i = Len(queue) + 1 /\ i \notin Ready)
  BY <1>1, <1>2 DEF Ready
<1>4. \A i \in Ready' : \/ i \in Ready /\ queue'[i] = queue[i]
                        \/ i = Len(queue) + 1 /\ queue'[i].jti = nextJti
  BY <1>1, <1>3
<1>5. ASSUME NEW i \in Ready', NEW j \in Ready', queue'[i].jti = queue'[j].jti PROVE i = j
  <2>1. CASE i \in Ready /\ j \in Ready
    <3>1. queue'[i] = queue[i] /\ queue'[j] = queue[j]
      BY <1>1, <2>1
    <3> QED
      BY <1>5, <2>1, <3>1 DEF DistinctJtis
  <2>2. CASE i \in Ready /\ j \notin Ready
    BY <1>2, <1>4, <1>5, <2>2
  <2>3. CASE i \notin Ready /\ j \in Ready
    BY <1>2, <1>4, <1>5, <2>3
  <2>4. CASE i \notin Ready /\ j \notin Ready
    BY <1>4, <2>4
  <2> QED
    BY <2>1, <2>2, <2>3, <2>4
<1>6. \A i \in Ready', d \in unacked' : queue'[i].jti # d.copy.jti
  BY <1>2, <1>4, ZenonT(30) DEF DistinctJtis
<1> QED
  BY <1>5, <1>6 DEF DistinctJtis

LEMMA JtisDelivered ==
    ASSUME TypeInv, DistinctJtis, Deliverable, queue' = Tail(queue),
           \/ UNCHANGED unacked
           \/ unacked' = unacked \cup {[tag |-> nextTag, copy |-> Head(queue)]}
    PROVE  DistinctJtis'
<1> DEFINE d == [tag |-> nextTag, copy |-> Head(queue)]
<1>1. /\ 1 \in Ready /\ Head(queue) = queue[1]
      /\ \A i \in Ready' : queue'[i] = queue[i + 1] /\ i + 1 \in Ready /\ i + 1 # 1
  BY Delivered
<1>2. d.copy = queue[1]
  BY <1>1
<1>3. \A e \in unacked' : e \in unacked \/ e = d
  OBVIOUS
<1> HIDE DEF d
<1>4. \A i, j \in Ready' : queue'[i].jti = queue'[j].jti => i = j
  <2> SUFFICES ASSUME NEW i \in Ready', NEW j \in Ready', queue'[i].jti = queue'[j].jti PROVE i = j
    OBVIOUS
  <2>1. /\ queue[i + 1].jti = queue[j + 1].jti
        /\ i + 1 \in Ready /\ j + 1 \in Ready
    BY <1>1
  <2>2. i + 1 = j + 1
    BY <2>1 DEF DistinctJtis
  <2> QED
    BY <2>2 DEF Ready
<1>5. \A e, f \in unacked' : e.copy.jti = f.copy.jti => e = f
  BY <1>1, <1>2, <1>3 DEF DistinctJtis
<1>6. ASSUME NEW i \in Ready', NEW e \in unacked' PROVE queue'[i].jti # e.copy.jti
  <2>1. queue'[i] = queue[i + 1] /\ i + 1 \in Ready /\ i + 1 # 1
    BY <1>1
  <2>2. CASE e \in unacked
    BY <2>1, <2>2 DEF DistinctJtis
  <2>3. CASE e = d
    BY <1>1, <1>2, <2>1, <2>3 DEF DistinctJtis
  <2> QED
    BY <1>3, <2>2, <2>3
<1> QED
  BY <1>4, <1>5, <1>6 DEF DistinctJtis

LEMMA JtisRequeued ==
    ASSUME TypeInv, DistinctJtis, Requeue(queue)
    PROVE  DistinctJtis'
<1>1. BrokerInv /\ queue \in Seq(Copies) /\ Len(queue) \in Nat
  BY Numbers DEF TypeInv
<1>2. PICK n \in Nat : InFront(n, queue)
  BY <1>1, Requeued
<1>3. unacked' = {}
  BY <1>1, Requeued
<1>4. /\ \A i \in 1 .. n : \E d \in unacked : queue'[i] = d.copy
      /\ \A i \in Ready : queue'[n + i] = queue[i]
      /\ \A i, j \in 1 .. n : i # j =>
            \E d, e \in unacked : d # e /\ queue'[i] = d.copy /\ queue'[j] = e.copy
      /\ Len(queue') = n + Len(queue)
  BY <1>2 DEF InFront, Ready
<1>5. \A i \in Ready' : i \in 1 .. n \/ (i - n \in Ready /\ queue'[i] = queue[i - n])
  <2> SUFFICES ASSUME NEW i \in Ready', i \notin 1 .. n
               PROVE  i - n \in Ready /\ queue'[i] = queue[i - n]
    OBVIOUS
  <2>1. i - n \in 1 .. Len(queue) /\ n + (i - n) = i
    BY <1>1, <1>4 DEF Ready
  <2> QED
    BY <1>4, <2>1 DEF Ready
<1>6. ASSUME NEW i \in Ready', NEW j \in Ready', queue'[i].jti = queue'[j].jti PROVE i = j
  <2>1. CASE i \in 1 .. n /\ j \in 1 .. n
    BY <1>4, <1>6, <2>1 DEF DistinctJtis
  <2>2. CASE i \in 1 .. n /\ j \notin 1 .. n
    BY <1>4, <1>5, <1>6, <2>2 DEF DistinctJtis
  <2>3. CASE i \notin 1 .. n /\ j \in 1 .. n
    BY <1>4, <1>5, <1>6, <2>3 DEF DistinctJtis
  <2>4. CASE i \notin 1 .. n /\ j \notin 1 .. n
    <3>1. i - n = j - n
      BY <1>5, <1>6, <2>4 DEF DistinctJtis
    <3> QED
      BY <3>1 DEF Ready
  <2> QED
    BY <2>1, <2>2, <2>3, <2>4
<1> QED
  BY <1>3, <1>6 DEF DistinctJtis

LEMMA JtisSubset ==
    ASSUME DistinctJtis, UNCHANGED queue, unacked' \subseteq unacked
    PROVE  DistinctJtis'
BY DEF DistinctJtis, Ready

(* The steps that settle nothing, and the record a handler becomes *)
LEMMA TidyBecomes ==
    ASSUME TypeInv, OwnDeliveries, NEW h \in handlers, h.pc # "retry",
           NEW p \in {"get", "set", "sleep", "run", "retry"}, NEW w \in Nat, Become(h, p, w),
           UNCHANGED unacked
    PROVE  OwnDeliveries'
<1> DEFINE k == [h EXCEPT !.pc = p, !.wake = w]
<1>1. h \in Handlers
  BY Numbers
<1>2. k.copy = h.copy /\ k.tag = h.tag /\ k.pc = p
  BY <1>1 DEF Handlers
<1>3. handlers' = (handlers \ {h}) \cup {k}
  BY DEF Become
<1> HIDE DEF k
<1>4. \A g \in handlers' : g = k \/ (g \in handlers /\ g # h)
  BY <1>3
<1>5. Delivery(k) = Delivery(h)
  BY <1>2 DEF Delivery
<1>6. ASSUME NEW g \in handlers', g.pc # "retry" PROVE Delivery(g)' \in unacked'
  BY <1>4, <1>5, <1>6 DEF OwnDeliveries, Delivery
<1>7. ASSUME NEW f \in handlers', NEW g \in handlers', f.pc # "retry", g.pc # "retry",
             f.tag = g.tag
      PROVE  f = g
  BY <1>2, <1>4, <1>7 DEF OwnDeliveries
<1> QED
  BY <1>6, <1>7 DEF OwnDeliveries

(* A handler settles its delivery and ends, or waits to retry. *)
LEMMA TidySettled ==
    ASSUME TypeInv, OwnDeliveries, NEW h \in handlers, h.pc # "retry",
           unacked' = unacked \ {Delivery(h)}, h \notin handlers',
           \A g \in handlers' : g \in handlers \/ g.pc = "retry"
    PROVE  OwnDeliveries'
<1>1. ASSUME NEW g \in handlers', g.pc # "retry" PROVE Delivery(g) \in unacked'
  <2>1. g \in handlers /\ g # h
    BY <1>1
  <2>2. Delivery(g) \in unacked /\ g.tag # h.tag
    BY <1>1, <2>1 DEF OwnDeliveries
  <2>3. Delivery(g) # Delivery(h)
    BY <2>2 DEF Delivery
  <2> QED
    BY <2>2, <2>3
<1>2. \A f, g \in handlers' : f.pc # "retry" /\ g.pc # "retry" /\ f.tag = g.tag => f = g
  BY DEF OwnDeliveries
<1> QED
  BY <1>1, <1>2 DEF OwnDeliveries, Delivery

LEMMA TidyDelivered ==
    ASSUME TypeInv, OwnDeliveries, Deliver
    PROVE  OwnDeliveries'
<1> DEFINE k == [conn |-> conn, tag |-> nextTag, copy |-> Head(queue), pc |-> "get", wake |-> 0]
<1>1. /\ handlers' = handlers \cup {k}
      /\ unacked' = unacked \cup {[tag |-> nextTag, copy |-> Head(queue)]}
  BY DEF Deliver
<1>2. Delivery(k) = [tag |-> nextTag, copy |-> Head(queue)] /\ k.tag = nextTag
  BY DEF Delivery
<1> HIDE DEF k
<1>3. \A d \in unacked : d.tag # nextTag
  BY Numbers DEF TypeInv, BrokerInv
<1>4. \A g \in handlers : g.pc # "retry" => g.tag # nextTag
  <2> SUFFICES ASSUME NEW g \in handlers, g.pc # "retry" PROVE g.tag # nextTag
    OBVIOUS
  <2>1. Delivery(g) \in unacked /\ Delivery(g).tag = g.tag
    BY DEF OwnDeliveries, Delivery
  <2> QED
    BY <1>3, <2>1
<1>5. \A g \in handlers' : g.pc # "retry" => Delivery(g) \in unacked'
  BY <1>1, <1>2 DEF OwnDeliveries
<1>6. \A f, g \in handlers' : f.pc # "retry" /\ g.pc # "retry" /\ f.tag = g.tag => f = g
  BY <1>1, <1>2, <1>4 DEF OwnDeliveries
<1> QED
  BY <1>5, <1>6 DEF OwnDeliveries, Delivery

LEMMA TidyStep ==
    ASSUME TypeInv, TidyInv, [Next]_vars
    PROVE  TidyInv'
<1>1. /\ throws \in Nat /\ drops \in Nat /\ crashes \in Nat
      /\ throws' \in Nat /\ drops' \in Nat /\ crashes' \in Nat
      /\ throws <= throws' /\ drops <= drops' /\ crashes <= crashes'
  BY Numbers, Grows
(* Without a lost connection *)
<1>2. ASSUME drops' = 0
      PROVE  /\ misacked' = {} /\ raced' = {} /\ OwnDeliveries' /\ DistinctJtis'
             /\ crashes' = 0 => up' /\ dropped' = {}
  <2>1. drops = 0 /\ (crashes' = 0 => crashes = 0)
    BY <1>1, <1>2
  <2>2. /\ misacked = {} /\ raced = {} /\ OwnDeliveries /\ DistinctJtis
        /\ crashes = 0 => up /\ dropped = {}
    BY <1>1, <2>1 DEF TidyInv
  <2>3. ASSUME UNCHANGED <<misacked, raced>>, OwnDeliveries', DistinctJtis',
               crashes' = 0 => UNCHANGED <<up, dropped>>
        PROVE  /\ misacked' = {} /\ raced' = {} /\ OwnDeliveries' /\ DistinctJtis'
               /\ crashes' = 0 => up' /\ dropped' = {}
    BY <2>1, <2>2, <2>3
  <2>4. CASE UNCHANGED vars \/ Tick \/ Reconnect
    <3>1. UNCHANGED <<misacked, raced, dropped, handlers, unacked, queue>>
      BY <2>4 DEF vars, broker, ghosts, process, Tick, Reconnect
    <3>2. crashes' = 0 => UNCHANGED up
      BY <2>1, <2>2, <2>4 DEF vars, broker, Tick, Reconnect
    <3>3. OwnDeliveries' /\ DistinctJtis'
      BY <2>2, <3>1 DEF OwnDeliveries, Delivery, DistinctJtis, Ready
    <3> QED
      BY <2>3, <3>1, <3>2, <3>3
  <2>5. ASSUME NEW m \in Msgs, Publish(m) PROVE OwnDeliveries' /\ DistinctJtis'
    <3>1. /\ queue' = Append(queue, Signed(m, 0, "peer"))
          /\ UNCHANGED <<unacked, handlers>>
      BY <2>5 DEF Publish, process
    <3>2. 0 \in 0 .. MaxRetries /\ "peer" \in {"peer", "self"}
      BY Numbers
    <3>3. DistinctJtis'
      BY <2>2, <3>1, <3>2, JtisAppended
    <3>4. OwnDeliveries'
      BY <2>2, <3>1 DEF OwnDeliveries, Delivery
    <3> QED
      BY <3>3, <3>4
  <2>6. CASE \E m \in Msgs : Publish(m)
    <3>1. UNCHANGED <<misacked, raced, up, dropped>>
      BY <2>6 DEF Publish, ghosts
    <3> QED
      BY <2>3, <2>5, <2>6, <3>1
  <2>7. CASE DeliverRefused
    <3>1. UNCHANGED <<misacked, raced, up, dropped, unacked, handlers>>
      BY <2>7 DEF DeliverRefused, ghosts, process
    <3>2. DistinctJtis'
      BY <2>2, <2>7, JtisDelivered DEF DeliverRefused
    <3>3. OwnDeliveries'
      BY <2>2, <3>1 DEF OwnDeliveries, Delivery
    <3> QED
      BY <2>3, <3>1, <3>2, <3>3
  <2>8. CASE Deliver
    <3>1. UNCHANGED <<misacked, raced, up, dropped>>
      BY <2>8 DEF Deliver, ghosts
    <3>2. DistinctJtis'
      BY <2>2, <2>8, JtisDelivered DEF Deliver
    <3> QED
      BY <2>2, <2>3, <2>8, <3>1, <3>2, TidyDelivered
  <2>9. ASSUME NEW h \in handlers, JtiUnseen(h)
        PROVE  UNCHANGED <<misacked, raced, up, dropped, unacked, queue>> /\ OwnDeliveries'
    <3>1. UNCHANGED <<misacked, up, dropped, unacked, queue>> /\ Become(h, "set", 0) /\ h.pc = "get"
      BY <2>9 DEF JtiUnseen, broker
    <3>2. OwnDeliveries'
      BY <2>2, <3>1, TidyBecomes
    <3>3. ASSUME NEW g \in handlers, g.pc = "set", g.copy.jti = h.copy.jti PROVE FALSE
      <4>1. /\ Delivery(g) \in unacked /\ Delivery(g).copy = g.copy /\ Delivery(g).tag = g.tag
            /\ Delivery(h) \in unacked /\ Delivery(h).copy = h.copy /\ Delivery(h).tag = h.tag
        BY <2>2, <3>1, <3>3 DEF OwnDeliveries, Delivery
      <4>2. Delivery(g) = Delivery(h)
        BY <2>2, <3>3, <4>1 DEF DistinctJtis
      <4>3. g = h
        BY <2>2, <3>1, <3>3, <4>1, <4>2 DEF OwnDeliveries
      <4> QED
        BY <3>1, <3>3, <4>3
    <3>4. raced' = raced
      BY <2>9, <3>3 DEF JtiUnseen
    <3> QED
      BY <3>1, <3>2, <3>4
  <2>10. ASSUME NEW h \in handlers, StartDue(h) \/ StartEarly(h) \/ WakeDue(h)
         PROVE  UNCHANGED <<misacked, raced, up, dropped, unacked, queue>> /\ OwnDeliveries'
    <3>1. UNCHANGED <<misacked, raced, up, dropped, unacked, queue>> /\ h.pc # "retry"
      BY <2>10 DEF StartDue, StartEarly, WakeDue, ghosts, broker
    <3>2. CASE StartDue(h) \/ WakeDue(h)
      <4>1. Become(h, "run", 0)
        BY <3>2 DEF StartDue, WakeDue, Call
      <4> QED
        BY <2>2, <3>1, <4>1, TidyBecomes
    <3>3. CASE StartEarly(h)
      <4>1. Become(h, "sleep", clock + Sleep(h.copy.msg)) /\ clock + Sleep(h.copy.msg) \in Nat
        BY <3>3, SleepEnds DEF StartEarly
      <4> QED
        BY <2>2, <3>1, <4>1, TidyBecomes
    <3> QED
      BY <2>10, <3>1, <3>2, <3>3
  <2>11. CASE \E h \in handlers : JtiUnseen(h) \/ StartDue(h) \/ StartEarly(h) \/ WakeDue(h)
    <3>1. UNCHANGED <<misacked, raced, up, dropped, unacked, queue>> /\ OwnDeliveries'
      BY <2>9, <2>10, <2>11
    <3>2. DistinctJtis'
      BY <2>2, <3>1, JtisSubset
    <3> QED
      BY <2>3, <3>1, <3>2
  <2>12. CASE \E h \in handlers : JtiReplayed(h)
    <3>1. PICK h \in handlers : JtiReplayed(h)
      BY <2>12
    <3>2. /\ Settle(h.tag, queue) /\ h.pc # "retry" /\ handlers' = handlers \ {h}
          /\ UNCHANGED <<misacked, raced, dropped>>
      BY <3>1 DEF JtiReplayed, Nack, Finish, ghosts
    <3>3. up' = up /\ queue' = queue /\ unacked' = unacked \ {Delivery(h)}
      BY <2>1, <3>2, TidySettle
    <3>4. OwnDeliveries'
      BY <2>2, <3>2, <3>3, TidySettled
    <3> QED
      BY <2>2, <2>3, <3>2, <3>3, <3>4, JtisSubset
  <2>13. ASSUME NEW h \in handlers, Processed(h) \/ ScheduleRetry(h) \/ DeadLetter(h)
         PROVE  UNCHANGED <<misacked, raced, up, dropped>> /\ OwnDeliveries' /\ DistinctJtis'
    <3>1. Ack(h, queue) /\ h.pc # "retry" /\ UNCHANGED <<raced, dropped>>
      BY <2>13 DEF Processed, ScheduleRetry, DeadLetter, Throws
    <3>2. /\ up' = up /\ queue' = queue /\ unacked' = unacked \ {Delivery(h)}
          /\ misacked' = misacked
      BY <2>1, <3>1, TidyAck
    <3>3. h \notin handlers'
      BY <2>13, Moves DEF Outcome
    <3>4. \A g \in handlers' : g \in handlers \/ g.pc = "retry"
      <4>1. ASSUME ScheduleRetry(h), NEW g \in handlers', g \notin handlers PROVE g.pc = "retry"
        <5>1. PICK w : g = [h EXCEPT !.pc = "retry", !.wake = w]
          BY <4>1 DEF ScheduleRetry, Become
        <5>2. h \in Handlers
          BY Numbers
        <5> QED
          BY <5>1, <5>2 DEF Handlers
      <4> QED
        BY <2>13, <4>1 DEF Processed, DeadLetter, Finish
    <3>5. OwnDeliveries'
      BY <2>2, <3>1, <3>2, <3>3, <3>4, TidySettled
    <3> QED
      BY <2>2, <3>1, <3>2, <3>5, JtisSubset
  <2>14. CASE \E h \in handlers : Processed(h) \/ ScheduleRetry(h) \/ DeadLetter(h)
    BY <2>3, <2>13, <2>14
  <2>15. CASE \E h \in handlers : Republish(h)
    <3>1. PICK h \in handlers : Republish(h)
      BY <2>15
    <3> DEFINE q == IF up THEN Append(queue, Signed(h.copy.msg, 0, "self")) ELSE queue
    <3>2. /\ Ack(h, q) /\ h.pc # "retry" /\ handlers' = handlers \ {h}
          /\ UNCHANGED <<raced, dropped>>
      BY <3>1 DEF Republish, Finish
    <3>3. /\ up /\ up' = up /\ queue' = q /\ unacked' = unacked \ {Delivery(h)}
          /\ misacked' = misacked
      BY <2>1, <3>2, TidyAck
    <3>4. OwnDeliveries'
      BY <2>2, <3>2, <3>3, TidySettled
    <3>5. h.copy.msg \in Msgs /\ 0 \in 0 .. MaxRetries /\ "self" \in {"peer", "self"}
      BY Numbers, CopyFields
    <3>6. queue' = Append(queue, Signed(h.copy.msg, 0, "self")) /\ unacked' \subseteq unacked
      BY <3>3
    <3>7. DistinctJtis'
      BY <2>2, <3>5, <3>6, JtisAppended
    <3> QED
      BY <2>3, <3>2, <3>3, <3>4, <3>7
  <2>16. CASE \E h \in handlers : RetryFires(h)
    <3>1. PICK h \in handlers : RetryFires(h)
      BY <2>16
    <3>2. /\ handlers' = handlers \ {h} /\ UNCHANGED <<misacked, raced, up, unacked, crashes>>
          /\ h.pc = "retry" /\ (up => UNCHANGED dropped)
      BY <3>1 DEF RetryFires, Finish, faults
    <3>3. OwnDeliveries'
      BY <2>2, <3>2 DEF OwnDeliveries, Delivery
    <3>4. DistinctJtis'
      <4>1. CASE up
        <5>1. h.copy.msg \in Msgs /\ h.copy.retry + 1 \in 0 .. MaxRetries
          <6>1. h.copy \in Copies /\ h.copy.retry < MaxRetries
            BY <3>2, Numbers DEF TypeInv, HandlersInv
          <6> QED
            BY <6>1, CopyFields, Numbers, SMTT(30)
        <5>2. /\ queue' = Append(queue, Signed(h.copy.msg, h.copy.retry + 1, "self"))
              /\ unacked' \subseteq unacked
          BY <3>1, <3>2, <4>1 DEF RetryFires
        <5> QED
          BY <2>2, <5>1, <5>2, JtisAppended
      <4>2. CASE ~up
        BY <2>2, <3>1, <3>2, <4>2, JtisSubset DEF RetryFires
      <4> QED
        BY <4>1, <4>2
    <3> QED
      BY <2>1, <2>2, <2>3, <3>2, <3>3, <3>4
  <2>17. CASE Crash
    <3>1. /\ Requeue(queue) /\ handlers' = {} /\ crashes' # 0 /\ UNCHANGED <<misacked, raced>>
      BY <1>1, <2>17 DEF Crash
    <3>2. OwnDeliveries' /\ DistinctJtis'
      BY <2>2, <3>1, JtisRequeued DEF OwnDeliveries
    <3> QED
      BY <2>3, <3>1, <3>2
  <2>18. ~Drop
    BY <1>1, <1>2 DEF Drop
  <2> QED
    BY <2>4, <2>6, <2>7, <2>8, <2>11, <2>12, <2>14, <2>15, <2>16, <2>17, <2>18
    DEF Next, Verify, Handle, Outcome
(* Without a throw *)
<1>3. ASSUME throws' = 0 PROVE dropped' = {} /\ \A h \in handlers' : h.pc # "retry"
  <2>1. dropped = {} /\ \A h \in handlers : h.pc # "retry"
    BY <1>1, <1>3 DEF TidyInv
  <2>2. \A h \in handlers : ~ScheduleRetry(h) /\ ~RetryFires(h)
    BY <1>1, <1>3, <2>1 DEF ScheduleRetry, Throws, RetryFires
  <2>3. \A h \in handlers' : h.pc # "retry"
    BY <2>1, <2>2, HandlersNext
  <2>4. dropped' = {}
    <3>1. dropped' = dropped \/ Crash
      BY <2>2 DEF Next, Publish, DeliverRefused, Deliver, Verify, JtiUnseen, JtiReplayed, Handle,
                  StartDue, StartEarly, Republish, WakeDue, Outcome, Processed, DeadLetter, Drop,
                  Reconnect, Tick, vars, ghosts
    <3>2. Crash => dropped' = {}
      BY <2>1 DEF Crash
    <3> QED
      BY <2>1, <3>1, <3>2
  <2> QED
    BY <2>3, <2>4
<1>4. drops' + crashes' = 0 => drops' = 0 /\ crashes' = 0
  <2>1. \A a, b \in Nat : a + b = 0 => a = 0 /\ b = 0
    OBVIOUS
  <2> QED
    BY <1>1, <2>1
<1>5. drops' = 0 => misacked' = {} /\ raced' = {} /\ OwnDeliveries' /\ DistinctJtis'
  BY <1>2
<1>6. drops' + crashes' = 0 => up' /\ dropped' = {}
  BY <1>2, <1>4
<1>7. throws' = 0 => dropped' = {} /\ \A h \in handlers' : h.pc # "retry"
  BY <1>3
<1> QED
  BY <1>5, <1>6, <1>7 DEF TidyInv

LEMMA TidyHolds == Spec => []TidyInv
<1>1. Init => TidyInv
  BY DEF Init, TidyInv, OwnDeliveries, DistinctJtis, Ready
<1>2. TypeInv /\ TidyInv /\ [Next]_vars => TidyInv'
  BY TidyStep
<1> QED
  BY <1>1, <1>2, TypesHold, PTL DEF Spec

(* Whatever connections are lost, redelivered, retried or republished, a   *)
(* message is processed once, and once more for each call that threw, up   *)
(* to MaxRetries times, not again after a call that returned, and never    *)
(* before its time less the threshold; two deliveries of one copy between  *)
(* each other's GET and SET are excepted, for which a connection must have *)
(* been lost.                                                              *)
THEOREM RemindersSentOnce == Spec => []SentOnceWhenDue
<1>1. TypeInv /\ TraceInv /\ OnceInv /\ TidyInv => SentOnceWhenDue
  <2> SUFFICES ASSUME TypeInv, TraceInv, OnceInv, TidyInv PROVE SentOnceWhenDue
    OBVIOUS
  <2>1. ASSUME NEW m \in Msgs \ raced
        PROVE  /\ calls[m] <= 1 + throws /\ calls[m] <= 1 + MaxRetries
               /\ \A h \in handlers : h.pc = "run" /\ h.copy.msg = m => m \notin done
    BY <2>1 DEF OnceInv, Once, RunOnce, Active
  <2>2. \A h \in handlers :
           h.pc = "run" /\ h.copy.msg \in Reminders => Delay(h.copy.msg) <= Threshold
    BY DEF TraceInv
  <2>3. drops = 0 => raced = {}
    BY DEF TidyInv
  <2> QED
    BY <2>1, <2>2, <2>3 DEF SentOnceWhenDue
<1> QED
  BY <1>1, TypesHold, OnceHolds, TidyHolds, PTL

-----------------------------------------------------------------------------
(* The inductive invariant of NothingLost *)

KeptInv == \A m \in Msgs \ (misacked \cup dropped) : publishedAt[m] # -1 => Accounted(m)

(* A place a message keeps: the deliveries put back, or those no ack or     *)
(* nack settled                                                             *)
LEMMA KeptBehind ==
    ASSUME TypeInv, NEW m, NEW q \in Seq(Copies), \A c : In(c, queue) => In(c, q),
           (\E tag : Settle(tag, q) /\ \A d \in Held(tag) : d.copy.msg # m) \/ Requeue(q),
           InQueue(m) \/ IsOpen(m)
    PROVE  InQueue(m)' \/ IsOpen(m)'
<1>1. BrokerInv
  BY DEF TypeInv
<1>2. CASE InQueue(m)
  <2>1. PICK c : In(c, queue) /\ c.msg = m
    BY <1>2 DEF InQueue, In
  <2>2. In(c, queue')
    BY <1>1, <2>1, Settled, Requeued
  <2> QED
    BY <2>1, <2>2 DEF InQueue, In
<1>3. CASE IsOpen(m)
  <2>1. PICK d \in unacked : d.copy.msg = m
    BY <1>3 DEF IsOpen
  <2>2. d \in unacked' \/ In(d.copy, queue')
    <3>1. CASE Requeue(q)
      BY <1>1, <2>1, <3>1, Requeued DEF IsHeld
    <3>2. CASE \E tag : Settle(tag, q) /\ \A e \in Held(tag) : e.copy.msg # m
      BY <1>1, <2>1, <3>2, Settled
    <3> QED
      BY <3>1, <3>2
  <2> QED
    BY <2>1, <2>2 DEF InQueue, IsOpen, In
<1> QED
  BY <1>2, <1>3

(* The ack of a handler leaves every message its place but that of the     *)
(* handler.                                                                *)
LEMMA KeptAck ==
    ASSUME TypeInv, NEW m, NEW h, NEW q \in Seq(Copies), Ack(h, q), m # h.copy.msg,
           m \notin misacked', \A c : In(c, queue) => In(c, q), InQueue(m) \/ IsOpen(m)
    PROVE  InQueue(m)' \/ IsOpen(m)'
<1>1. Settle(h.tag, q) /\ \A d \in Held(h.tag) : d.copy.msg # m
  BY Acked DEF TypeInv
<1> QED
  BY <1>1, KeptBehind

LEMMA KeptStep ==
    ASSUME TypeInv, KeptInv, [Next]_vars
    PROVE  KeptInv'
<1> SUFFICES ASSUME NEW m \in Msgs, m \notin misacked', m \notin dropped', publishedAt'[m] # -1
             PROVE  Accounted(m)'
  BY DEF KeptInv, Accounted, InQueue, IsOpen, Retrying
<1>1. queue \in Seq(Copies) /\ Len(queue) \in Nat /\ \A h \in handlers : h.copy.msg \in Msgs
  BY Numbers, CopyFields
<1>2. m \notin misacked /\ m \notin dropped /\ done \subseteq done'
  BY Grows
<1>3. CASE \E n \in Msgs : Publish(n)
  <2>1. PICK n \in Msgs : Publish(n)
    BY <1>3
  <2> DEFINE b == Signed(n, 0, "peer")
  <2>2. /\ queue' = Append(queue, b) /\ UNCHANGED <<unacked, dlq, handlers, done>>
        /\ publishedAt' = [publishedAt EXCEPT ![n] = clock]
    BY <2>1 DEF Publish, process
  <2>3. 0 \in 0 .. MaxRetries /\ "peer" \in {"peer", "self"}
    BY Numbers
  <2>4. b.msg = n /\ \A a : In(a, Append(queue, b)) <=> In(a, queue) \/ a = b
    BY <2>3, SignedCopy
  <2> HIDE DEF b
  <2>5. \A a : In(a, queue) \/ a = b => In(a, queue')
    BY <2>2, <2>4
  <2>6. CASE m = n
    BY <2>4, <2>5, <2>6 DEF Accounted, InQueue, In
  <2>7. CASE m # n
    <3>1. Accounted(m)
      BY <1>2, <2>2, <2>7 DEF KeptInv, TypeInv, TypeOK
    <3>2. InQueue(m) => InQueue(m)'
      BY <2>5 DEF InQueue, In
    <3> QED
      BY <2>2, <3>1, <3>2 DEF Accounted, IsOpen, Retrying
  <2> QED
    BY <2>6, <2>7
<1>4. ASSUME ~(\E n \in Msgs : Publish(n)) PROVE Accounted(m)
  <2>1. UNCHANGED publishedAt
    BY <1>4 DEF Next, DeliverRefused, Deliver, Verify, JtiUnseen, JtiReplayed, Handle, StartDue,
                StartEarly, Republish, WakeDue, Outcome, Processed, ScheduleRetry, DeadLetter,
                RetryFires, Drop, Crash, Reconnect, Tick, vars
  <2> QED
    BY <1>2, <2>1 DEF KeptInv
<1>5. CASE DeliverRefused \/ Deliver
  <2>1. Accounted(m)
    <3>1. UNCHANGED publishedAt
      BY <1>5 DEF DeliverRefused, Deliver
    <3> QED
      BY <1>2, <3>1 DEF KeptInv
  <2>2. \A c : In(c, queue) => In(c, queue') \/ c = Head(queue)
    BY <1>5, Delivered DEF DeliverRefused, Deliver
  <2>3. /\ unacked \subseteq unacked' /\ dlq \subseteq dlq' /\ handlers \subseteq handlers'
        /\ \/ Head(queue).msg \in dlq'
           \/ \E d \in unacked' : d.copy = Head(queue)
    <3>1. CASE DeliverRefused
      BY <3>1 DEF DeliverRefused, process
    <3>2. CASE Deliver
      <4>1. [tag |-> nextTag, copy |-> Head(queue)] \in unacked'
        BY <3>2 DEF Deliver
      <4> QED
        BY <3>2, <4>1 DEF Deliver
    <3> QED
      BY <1>5, <3>1, <3>2
  <2>4. InQueue(m) => InQueue(m)' \/ IsOpen(m)' \/ m \in dlq'
    BY <2>2, <2>3 DEF InQueue, In, IsOpen
  <2> QED
    BY <1>2, <2>1, <2>3, <2>4 DEF Accounted, IsOpen, Retrying
<1>6. CASE \E h \in handlers : JtiReplayed(h)
  <2>1. PICK h \in handlers : JtiReplayed(h)
    BY <1>6
  <2>2. /\ Settle(h.tag, queue) /\ dlq' = dlq \cup {d.copy.msg : d \in Held(h.tag)}
        /\ handlers' = handlers \ {h} /\ h.pc = "get" /\ UNCHANGED publishedAt
    BY <2>1 DEF JtiReplayed, Nack, Finish
  <2>3. Accounted(m)
    BY <1>2, <2>2 DEF KeptInv
  <2>4. InQueue(m) \/ IsOpen(m) => InQueue(m)' \/ IsOpen(m)' \/ m \in dlq'
    BY <1>1, <2>2, KeptBehind
  <2> QED
    BY <1>2, <2>2, <2>3, <2>4 DEF Accounted, Retrying
<1>7. CASE \E h \in handlers : Republish(h)
  <2>1. PICK h \in handlers : Republish(h)
    BY <1>7
  <2> DEFINE b == Signed(h.copy.msg, 0, "self")
             q == IF up THEN Append(queue, b) ELSE queue
  <2>2. /\ Ack(h, q) /\ handlers' = handlers \ {h} /\ h.pc = "sleep"
        /\ UNCHANGED <<publishedAt, dlq>>
    BY <2>1 DEF Republish, Finish
  <2>3. h.copy.msg \in Msgs /\ 0 \in 0 .. MaxRetries /\ "self" \in {"peer", "self"}
    BY <1>1, Numbers
  <2>4. /\ b.msg = h.copy.msg /\ Append(queue, b) \in Seq(Copies)
        /\ \A a : In(a, Append(queue, b)) <=> In(a, queue) \/ a = b
    BY <2>3, SignedCopy
  <2>5. Accounted(m)
    BY <1>2, <2>2 DEF KeptInv
  <2> HIDE DEF b
  <2>6. q \in Seq(Copies) /\ (\A c : In(c, queue) => In(c, q)) /\ (up => In(b, q))
    BY <1>1, <2>4
  <2> HIDE DEF q
  <2>7. InQueue(m) \/ IsOpen(m) => InQueue(m)' \/ IsOpen(m)'
    <3>1. CASE m # h.copy.msg
      BY <2>2, <2>6, <3>1, KeptAck
    <3>2. CASE m = h.copy.msg /\ up
      <4>1. Settle(h.tag, q) /\ BrokerInv
        BY <2>2 DEF Ack, TypeInv
      <4>2. In(b, queue')
        BY <2>6, <3>2, <4>1, Settled
      <4> QED
        BY <2>4, <3>2, <4>2 DEF InQueue, In
    <3>3. CASE ~up
      <4>1. unacked = {} /\ Held(h.tag) = {}
        BY <3>3 DEF TypeInv, BrokerInv, Held
      <4>2. Settle(h.tag, q)
        BY <2>2 DEF Ack
      <4> QED
        BY <2>6, <4>1, <4>2, KeptBehind
    <3> QED
      BY <3>1, <3>2, <3>3
  <2> QED
    BY <1>2, <2>2, <2>5, <2>7 DEF Accounted, Retrying
<1>8. CASE \E h \in handlers : Processed(h) \/ ScheduleRetry(h) \/ DeadLetter(h)
  <2>1. PICK h \in handlers : Processed(h) \/ ScheduleRetry(h) \/ DeadLetter(h)
    BY <1>8
  <2>2. /\ Ack(h, queue) /\ UNCHANGED publishedAt /\ dlq \subseteq dlq' /\ h.pc = "run"
    BY <2>1 DEF Processed, ScheduleRetry, DeadLetter, Throws
  <2>3. \A g \in handlers : g # h => g \in handlers'
    BY <2>1, Moves DEF Outcome
  <2>4. Accounted(m)
    BY <1>2, <2>2 DEF KeptInv
  <2>5. Retrying(m) => Retrying(m)'
    BY <2>2, <2>3 DEF Retrying
  <2>6. CASE m # h.copy.msg
    <3>1. InQueue(m) \/ IsOpen(m) => InQueue(m)' \/ IsOpen(m)'
      BY <1>1, <2>2, <2>6, KeptAck
    <3> QED
      BY <1>2, <2>2, <2>4, <2>5, <3>1 DEF Accounted
  <2>7. CASE m = h.copy.msg /\ Processed(h)
    BY <2>7 DEF Accounted, Processed
  <2>8. CASE m = h.copy.msg /\ ScheduleRetry(h)
    <3>1. PICK w : [h EXCEPT !.pc = "retry", !.wake = w] \in handlers'
      BY <2>8 DEF ScheduleRetry, Become
    <3>2. h \in Handlers
      BY Numbers
    <3>3. Retrying(m)'
      BY <2>8, <3>1, <3>2 DEF Retrying, Handlers
    <3> QED
      BY <3>3 DEF Accounted
  <2>9. CASE m = h.copy.msg /\ DeadLetter(h) /\ up
    BY <2>9 DEF Accounted, DeadLetter
  <2>10. CASE DeadLetter(h) /\ ~up
    <3>1. unacked = {} /\ Held(h.tag) = {}
      BY <2>10 DEF TypeInv, BrokerInv, Held
    <3>2. Settle(h.tag, queue)
      BY <2>2 DEF Ack
    <3>3. InQueue(m) \/ IsOpen(m) => InQueue(m)' \/ IsOpen(m)'
      BY <1>1, <3>1, <3>2, KeptBehind
    <3> QED
      BY <1>2, <2>2, <2>4, <2>5, <3>3 DEF Accounted
  <2> QED
    BY <2>1, <2>6, <2>7, <2>8, <2>9, <2>10
<1>9. CASE \E h \in handlers : RetryFires(h)
  <2>1. PICK h \in handlers : RetryFires(h)
    BY <1>9
  <2> DEFINE b == Signed(h.copy.msg, h.copy.retry + 1, "self")
  <2>2. /\ handlers' = handlers \ {h} /\ h.pc = "retry" /\ UNCHANGED <<publishedAt, unacked, dlq>>
        /\ IF up THEN queue' = Append(queue, b)
                 ELSE queue' = queue /\ h.copy.msg \in dropped'
    BY <2>1 DEF RetryFires, Finish
  <2>3. Accounted(m)
    BY <1>2, <2>2 DEF KeptInv
  <2>4. h.copy.msg \in Msgs /\ h.copy.retry + 1 \in 0 .. MaxRetries
    <3>1. h.copy \in Copies /\ h.copy.retry < MaxRetries
      BY <2>2, Numbers DEF TypeInv, HandlersInv
    <3> QED
      BY <3>1, CopyFields, Numbers, SMTT(30)
  <2>5. b.msg = h.copy.msg /\ \A a : In(a, Append(queue, b)) <=> In(a, queue) \/ a = b
    BY <2>4, SignedCopy
  <2> HIDE DEF b
  <2>6. InQueue(m) => InQueue(m)'
    <3>1. \A c : In(c, queue) => In(c, queue')
      BY <2>2, <2>5
    <3> QED
      BY <3>1 DEF InQueue, In
  <2>7. Retrying(m) => Retrying(m)' \/ InQueue(m)'
    <3>1. CASE m # h.copy.msg
      BY <2>2, <3>1 DEF Retrying
    <3>2. CASE m = h.copy.msg
      <4>1. In(b, queue')
        BY <2>2, <2>5, <3>2
      <4> QED
        BY <2>5, <3>2, <4>1 DEF InQueue, In
    <3> QED
      BY <3>1, <3>2
  <2> QED
    BY <1>2, <2>2, <2>3, <2>6, <2>7 DEF Accounted, IsOpen
<1>10. CASE Drop \/ Crash
  <2>1. /\ Requeue(queue) /\ UNCHANGED <<publishedAt, dlq>>
        /\ (UNCHANGED handlers \/ \A h \in handlers : h.pc = "retry" => h.copy.msg \in dropped')
    BY <1>10 DEF Drop, Crash, process
  <2>2. Accounted(m)
    BY <1>2, <2>1 DEF KeptInv
  <2>3. InQueue(m) \/ IsOpen(m) => InQueue(m)' \/ IsOpen(m)'
    BY <1>1, <2>1, KeptBehind
  <2>4. Retrying(m) => Retrying(m)'
    BY <2>1 DEF Retrying
  <2> QED
    BY <1>2, <2>1, <2>2, <2>3, <2>4 DEF Accounted
<1>11. CASE UNCHANGED vars \/ Tick \/ Reconnect
  <2>1. UNCHANGED <<publishedAt, queue, unacked, dlq, handlers, done>>
    BY <1>11 DEF vars, broker, process, Tick, Reconnect
  <2>2. Accounted(m)
    BY <1>2, <2>1 DEF KeptInv
  <2> QED
    BY <2>1, <2>2 DEF Accounted, InQueue, IsOpen, Retrying
<1>12. CASE \E h \in handlers : JtiUnseen(h) \/ StartDue(h) \/ StartEarly(h) \/ WakeDue(h)
  <2>1. PICK h \in handlers : JtiUnseen(h) \/ StartDue(h) \/ StartEarly(h) \/ WakeDue(h)
    BY <1>12
  <2>2. UNCHANGED <<publishedAt, queue, unacked, dlq, done>> /\ h.pc # "retry"
    BY <2>1 DEF broker, JtiUnseen, StartDue, StartEarly, WakeDue
  <2>3. \A g \in handlers : g # h => g \in handlers'
    BY <2>1, Moves DEF Verify, Handle
  <2>4. Accounted(m)
    BY <1>2, <2>2 DEF KeptInv
  <2> QED
    BY <2>2, <2>3, <2>4 DEF Accounted, InQueue, IsOpen, Retrying
<1> QED
  BY <1>3, <1>5, <1>6, <1>7, <1>8, <1>9, <1>10, <1>11, <1>12 DEF Next, Verify, Handle, Outcome

LEMMA KeptHolds == Spec => []KeptInv
<1>1. Init => KeptInv
  BY DEF Init, KeptInv
<1>2. TypeInv /\ KeptInv /\ [Next]_vars => KeptInv'
  BY KeptStep
<1> QED
  BY <1>1, <1>2, TypesHold, PTL DEF Spec

(* However many connections and processes end, and although publish()      *)
(* drops a copy without a word when there is no channel, a message that    *)
(* was published stays somewhere, unless the ack of another handler, sent  *)
(* on a channel opened since, has settled its delivery, or process() threw *)
(* and its retry timer ran without a channel or ended with its process.    *)
THEOREM RemindersNotLost == Spec => []NothingLost
<1>1. KeptInv /\ TidyInv => NothingLost
  BY DEF KeptInv, TidyInv, NothingLost
<1> QED
  BY <1>1, KeptHolds, TidyHolds, PTL

-----------------------------------------------------------------------------
(* The inductive invariant of OnTime. *)

(* A copy in the queue: delivered for the first time, if at all, and       *)
(* published once more only if its first sleep did not bring the reminder  *)
(* to its time                                                             *)
CalmCopy(c) ==
    /\ c.jti \notin seen /\ c.exp <= clock + TokenTtl
    /\ c.iss = "self" => c.msg \in Reminders /\ ~OneSleep(c.msg)

CalmHandler(h) ==
    /\ Verifying(h) => h.copy.jti \notin seen
    /\ h.copy.iss = "self" => trustsSelf
    /\ h.pc = "sleep" =>
          \/ h.wake = NotifyAt[h.copy.msg]
          \/ h.wake >= publishedAt[h.copy.msg] + MaxSleep

(* Without a fault every open delivery has its handler. *)
CalmInv ==
    Faults = 0 =>
        /\ \A d \in unacked : \E h \in handlers : d = Delivery(h)
        /\ \A c : In(c, queue) => CalmCopy(c)
        /\ \A h \in handlers : CalmHandler(h)
        /\ \A m \in Msgs : publishedAt[m] <= clock

LEMMA NoFaults ==
    ASSUME TypeInv, TidyInv, Faults = 0
    PROVE  /\ up /\ misacked = {} /\ dropped = {} /\ OwnDeliveries /\ DistinctJtis
           /\ drops = 0 /\ \A h \in handlers : h.pc # "retry"
<1>1. drops = 0 /\ drops + crashes = 0 /\ throws = 0
  BY Numbers DEF Faults
<1> QED
  BY <1>1 DEF TidyInv

(* What a step without a fault is *)
LEMMA CalmCases ==
    ASSUME TypeInv, TidyInv, CalmInv, [Next]_vars, Faults' = 0
    PROVE  /\ Faults = 0
           /\ \/ UNCHANGED vars \/ DeliverRefused \/ Deliver \/ Tick
              \/ \E m \in Msgs : Publish(m)
              \/ \E h \in handlers : JtiUnseen(h) \/ StartDue(h) \/ StartEarly(h) \/ WakeDue(h)
              \/ \E h \in handlers :
                    /\ Republish(h) \/ Processed(h)
                    /\ queue' = IF Republish(h) THEN Append(queue, Signed(h.copy.msg, 0, "self"))
                                                ELSE queue
                    /\ unacked' = unacked \ {Delivery(h)} /\ handlers' = handlers \ {h}
                    /\ UNCHANGED <<trustsSelf, clock, publishedAt, dlq, seen, crowded>>
<1>1. /\ throws \in Nat /\ drops \in Nat /\ crashes \in Nat
      /\ throws' \in Nat /\ drops' \in Nat /\ crashes' \in Nat
      /\ throws <= throws' /\ drops <= drops' /\ crashes <= crashes'
  BY Numbers, Grows
<1>2. throws' = 0 /\ drops' = 0 /\ crashes' = 0 /\ throws = 0 /\ drops = 0 /\ crashes = 0
  <2>1. \A a, b, c \in Nat : a + b + c = 0 => a = 0 /\ b = 0 /\ c = 0
    OBVIOUS
  <2>2. throws' = 0 /\ drops' = 0 /\ crashes' = 0
    BY <1>1, <2>1 DEF Faults
  <2> QED
    BY <1>1, <2>2
<1>3. Faults = 0
  BY <1>2 DEF Faults
<1>4. /\ up /\ drops = 0 /\ OwnDeliveries /\ \A h \in handlers : h.pc # "retry"
  BY <1>3, NoFaults
<1>5. ~Drop /\ ~Crash /\ ~Reconnect
  BY <1>2, <1>4 DEF Drop, Crash, Reconnect
<1>6. \A h \in handlers : ~ScheduleRetry(h) /\ ~DeadLetter(h) /\ ~RetryFires(h)
  <2>1. \A h \in handlers : ~Throws(h)
    BY <1>2 DEF Throws
  <2>2. \A h \in handlers : ~RetryFires(h)
    BY <1>4 DEF RetryFires
  <2> QED
    BY <2>1, <2>2 DEF ScheduleRetry, DeadLetter
<1>7. \A h \in handlers : ~JtiReplayed(h)
  BY <1>3 DEF JtiReplayed, CalmInv, CalmHandler, Verifying
<1>8. ASSUME NEW h \in handlers, Republish(h)
      PROVE  /\ queue' = Append(queue, Signed(h.copy.msg, 0, "self"))
             /\ unacked' = unacked \ {Delivery(h)} /\ handlers' = handlers \ {h}
             /\ UNCHANGED <<trustsSelf, clock, publishedAt, dlq, seen, crowded>>
  <2> DEFINE q == IF up THEN Append(queue, Signed(h.copy.msg, 0, "self")) ELSE queue
  <2>1. Ack(h, q) /\ h.pc # "retry"
    BY <1>4, <1>8 DEF Republish
  <2>2. queue' = q /\ unacked' = unacked \ {Delivery(h)}
    BY <1>4, <2>1, TidyAck
  <2> QED
    BY <1>4, <1>8, <2>2 DEF Republish, Finish
<1>9. ASSUME NEW h \in handlers, Processed(h)
      PROVE  /\ queue' = queue /\ ~Republish(h)
             /\ unacked' = unacked \ {Delivery(h)} /\ handlers' = handlers \ {h}
             /\ UNCHANGED <<trustsSelf, clock, publishedAt, dlq, seen, crowded>>
  <2>1. Ack(h, queue) /\ h.pc # "retry"
    BY <1>4, <1>9 DEF Processed
  <2>2. queue' = queue /\ unacked' = unacked \ {Delivery(h)}
    BY <1>4, <2>1, TidyAck
  <2> QED
    BY <1>9, <2>2 DEF Processed, Finish, Republish
<1> QED
  BY <1>3, <1>5, <1>6, <1>7, <1>8, <1>9 DEF Next, Verify, Handle, Outcome

LEMMA QueueFacts ==
    ASSUME TypeInv
    PROVE  /\ \A i \in Ready : /\ queue[i].exp \in Nat /\ queue[i].msg \in Msgs
                               /\ In(queue[i], queue)
           /\ \A m \in Msgs : publishedAt[m] \in Int
<1>1. \A i \in Ready : queue[i].exp \in Nat /\ queue[i].msg \in Msgs
  BY Numbers, CopyFields
<1> QED
  BY <1>1 DEF TypeInv, TypeOK, In, Ready

(* The reminder a handler republishes was not due when a sleep of MaxSleep *)
(* after it was published was over.                                        *)
LEMMA RepublishedLate ==
    ASSUME TypeInv, CalmInv, Faults = 0, NEW h \in handlers, Republish(h)
    PROVE  /\ h.copy.msg \in Reminders /\ ~OneSleep(h.copy.msg)
           /\ clock < NotifyAt[h.copy.msg]
<1> DEFINE m == h.copy.msg
<1>1. h.pc = "sleep" /\ h.wake <= clock /\ StillEarly(m)
  BY DEF Republish, Awake
<1>2. /\ m \in Reminders /\ m \in Msgs /\ NotifyAt[m] \in Nat /\ publishedAt[m] \in Int
      /\ clock \in Nat /\ Slack \in Nat /\ MaxSleep \in Nat /\ h.wake \in Nat
  <2>1. m \in Reminders
    BY <1>1 DEF TypeInv, HandlersInv
  <2> QED
    BY <2>1, Numbers, QueueFacts, RemindersAssumption DEF Msgs
<1>3. h.wake = NotifyAt[m] \/ h.wake >= publishedAt[m] + MaxSleep
  BY <1>1 DEF CalmInv, CalmHandler
<1> HIDE DEF m
<1>4. clock < NotifyAt[m] /\ ~OneSleep(m)
  BY <1>1, <1>2, <1>3 DEF StillEarly, OneSleep
<1> QED
  BY <1>2, <1>4 DEF m

(* A handler that starts to work on a message marks a jti nobody else has. *)
LEMMA OwnJti ==
    ASSUME TypeInv, TidyInv, Faults = 0, NEW h \in handlers
    PROVE  /\ \A c : In(c, queue) => c.jti # h.copy.jti
           /\ \A g \in handlers : g.copy.jti = h.copy.jti => g = h
<1>1. OwnDeliveries /\ DistinctJtis /\ \A g \in handlers : g.pc # "retry"
  BY NoFaults
<1>2. \A g \in handlers : /\ Delivery(g) \in unacked
                          /\ Delivery(g).copy = g.copy /\ Delivery(g).tag = g.tag
  BY <1>1 DEF OwnDeliveries, Delivery
<1>3. \A c : In(c, queue) => c.jti # h.copy.jti
  BY <1>1, <1>2 DEF DistinctJtis, In, Ready
<1>4. \A g \in handlers : g.copy.jti = h.copy.jti => Delivery(g) = Delivery(h)
  BY <1>1, <1>2 DEF DistinctJtis
<1>5. \A g \in handlers : g.copy.jti = h.copy.jti => g.tag = h.tag
  BY <1>2, <1>4
<1> QED
  BY <1>1, <1>3, <1>5 DEF OwnDeliveries

LEMMA CalmStep ==
    ASSUME TypeInv, TraceInv, TidyInv, CalmInv, [Next]_vars
    PROVE  CalmInv'
<1> SUFFICES ASSUME Faults' = 0
             PROVE  /\ \A d \in unacked' : \E h \in handlers' : d = Delivery(h)
                    /\ \A c : In(c, queue') => CalmCopy(c)'
                    /\ \A h \in handlers' : CalmHandler(h)'
                    /\ \A m \in Msgs : publishedAt'[m] <= clock'
  BY DEF CalmInv, In, Delivery
<1>1. Faults = 0
  BY CalmCases
<1>2. /\ \A d \in unacked : \E h \in handlers : d = Delivery(h)
      /\ \A c : In(c, queue) => CalmCopy(c)
      /\ \A h \in handlers : CalmHandler(h)
      /\ \A m \in Msgs : publishedAt[m] <= clock
  BY <1>1 DEF CalmInv
<1>3. /\ clock \in Nat /\ clock' \in Nat /\ clock <= clock' /\ TokenTtl \in Nat
      /\ \A m \in Msgs : publishedAt[m] \in Int
      /\ \A m \in Msgs : publishedAt[m] # -1 => publishedAt'[m] = publishedAt[m]
      /\ UNCHANGED trustsSelf
  BY Numbers, Grows, QueueFacts
<1>4. \A c : In(c, queue) => c.msg \in Msgs /\ c.exp \in Nat /\ publishedAt[c.msg] # -1
  <2>1. \A c : In(c, queue) => c \in Copies /\ c \in Carried
    BY Numbers, AroundParts DEF In, Ready, Carried
  <2> QED
    BY <2>1, CopyFields DEF TraceInv
<1>5. \A h \in handlers : h.copy.msg \in Msgs /\ publishedAt[h.copy.msg] # -1
  <2>1. \A h \in handlers : h.copy \in Carried
    BY DEF Carried
  <2> QED
    BY <2>1, CarriedFacts DEF TraceInv
(* What keeps its jti unseen keeps what it is said of it. *)
<1>6. ASSUME NEW c, In(c, queue), c.jti \notin seen' PROVE CalmCopy(c)'
  <2>1. CalmCopy(c) /\ publishedAt'[c.msg] = publishedAt[c.msg]
    BY <1>2, <1>3, <1>4, <1>6
  <2>2. c.exp <= clock' + TokenTtl
    BY <1>3, <1>4, <1>6, <2>1 DEF CalmCopy
  <2> QED
    BY <1>6, <2>1, <2>2 DEF CalmCopy, OneSleep
<1>7. ASSUME NEW h \in handlers, Verifying(h) => h.copy.jti \notin seen' PROVE CalmHandler(h)'
  <2>1. CalmHandler(h) /\ publishedAt'[h.copy.msg] = publishedAt[h.copy.msg]
    BY <1>2, <1>3, <1>5
  <2> QED
    BY <1>3, <1>7, <2>1 DEF CalmHandler, Verifying
<1>8. UNCHANGED publishedAt => \A m \in Msgs : publishedAt'[m] <= clock'
  BY <1>2, <1>3
<1>9. UNCHANGED seen => /\ \A c : In(c, queue) => CalmCopy(c)'
                        /\ \A h \in handlers : CalmHandler(h)'
  BY <1>2, <1>6, <1>7 DEF CalmCopy, CalmHandler
<1>10. CASE UNCHANGED vars \/ Tick
  <2>1. UNCHANGED <<queue, unacked, handlers, seen, publishedAt>>
    BY <1>10 DEF vars, broker, process, Tick
  <2> QED
    BY <1>2, <1>8, <1>9, <2>1
<1>11. CASE \E m \in Msgs : Publish(m)
  <2>1. PICK m \in Msgs : Publish(m)
    BY <1>11
  <2>2. PICK c : c = Signed(m, 0, "peer")
    OBVIOUS
  <2>3. /\ queue' = Append(queue, c) /\ UNCHANGED <<unacked, handlers, seen, clock>>
        /\ publishedAt' = [publishedAt EXCEPT ![m] = clock]
    BY <2>1, <2>2 DEF Publish, process
  <2>4. /\ c.iss = "peer" /\ c.jti = nextJti /\ c.exp = clock + TokenTtl
        /\ \A b : In(b, Append(queue, c)) <=> In(b, queue) \/ b = c
    <3>1. 0 \in 0 .. MaxRetries
      BY Numbers
    <3> QED
      BY <2>2, <3>1, SignedCopy
  <2>5. CalmCopy(c)'
    <3>1. c.jti \notin seen
      BY <2>4, Numbers
    <3> QED
      BY <1>3, <2>3, <2>4, <3>1 DEF CalmCopy
  <2>6. \A n \in Msgs : publishedAt'[n] <= clock'
    BY <1>2, <1>3, <2>3 DEF TypeInv, TypeOK
  <2> QED
    BY <1>2, <1>9, <2>3, <2>4, <2>5, <2>6
<1>12. CASE DeliverRefused
  <2>1. /\ UNCHANGED <<unacked, handlers, seen, publishedAt>>
        /\ Deliverable /\ queue' = Tail(queue)
    BY <1>12 DEF DeliverRefused, process
  <2> QED
    BY <1>2, <1>8, <1>9, <2>1, Delivered
<1>13. CASE Deliver
  <2>1. PICK c, d, k :
           /\ c = Head(queue) /\ d = [tag |-> nextTag, copy |-> c]
           /\ k = [conn |-> conn, tag |-> nextTag, copy |-> c, pc |-> "get", wake |-> 0]
    OBVIOUS
  <2>2. /\ UNCHANGED <<seen, publishedAt>> /\ Deliverable /\ queue' = Tail(queue)
        /\ unacked' = unacked \cup {d} /\ handlers' = handlers \cup {k} /\ ~Refused(c)
    BY <1>13, <2>1 DEF Deliver
  <2>3. In(c, queue) /\ \A b : In(b, queue') => In(b, queue)
    BY <2>1, <2>2, Delivered
  <2>4. d = Delivery(k) /\ k.copy = c /\ k.pc = "get"
    BY <2>1 DEF Delivery
  <2>5. CalmHandler(k)'
    <3>1. c.jti \notin seen /\ (c.iss = "self" => trustsSelf)
      BY <1>2, <2>2, <2>3 DEF CalmCopy, Refused
    <3> QED
      BY <1>3, <2>2, <2>4, <3>1 DEF CalmHandler
  <2> QED
    BY <1>2, <1>8, <1>9, <2>2, <2>3, <2>4, <2>5
<1>14. CASE \E h \in handlers : JtiUnseen(h) \/ StartDue(h) \/ StartEarly(h) \/ WakeDue(h)
  <2>1. PICK h \in handlers : JtiUnseen(h) \/ StartDue(h) \/ StartEarly(h) \/ WakeDue(h)
    BY <1>14
  <2>2. UNCHANGED <<queue, unacked, publishedAt, clock>>
    BY <2>1 DEF JtiUnseen, StartDue, StartEarly, WakeDue, broker
  <2>3. PICK k \in handlers' :
           /\ k.copy = h.copy /\ k.tag = h.tag /\ handlers' = (handlers \ {h}) \cup {k}
           /\ \/ JtiUnseen(h) /\ k.pc = "set"
              \/ k.pc = "run"
              \/ StartEarly(h) /\ k.pc = "sleep" /\ k.wake = clock + Sleep(h.copy.msg)
    <3>1. ASSUME NEW p \in {"set", "sleep", "run"}, NEW w \in Nat, Become(h, p, w)
          PROVE  \E k \in handlers' :
                    /\ k.copy = h.copy /\ k.tag = h.tag /\ k.pc = p /\ k.wake = w
                    /\ handlers' = (handlers \ {h}) \cup {k}
      <4>1. PICK k : k = [h EXCEPT !.pc = p, !.wake = w]
        OBVIOUS
      <4>2. h \in Handlers
        BY Numbers
      <4>3. k.copy = h.copy /\ k.tag = h.tag /\ k.pc = p /\ k.wake = w
        BY <4>1, <4>2 DEF Handlers
      <4> QED
        BY <3>1, <4>1, <4>3 DEF Become
    <3>2. CASE JtiUnseen(h)
      BY <3>1, <3>2 DEF JtiUnseen
    <3>3. CASE StartDue(h) \/ WakeDue(h)
      BY <3>1, <3>3 DEF StartDue, WakeDue, Call
    <3>4. CASE StartEarly(h)
      BY <3>1, <3>4, SleepEnds DEF StartEarly
    <3> QED
      BY <2>1, <3>2, <3>3, <3>4
  <2>4. /\ seen' \subseteq seen \cup {h.copy.jti}
        /\ JtiUnseen(h) => UNCHANGED seen
    BY <2>1 DEF JtiUnseen, StartDue, StartEarly, WakeDue
  <2>5. \A c : In(c, queue) => CalmCopy(c)'
    BY <1>1, <1>2, <1>6, <2>4, OwnJti DEF CalmCopy
  <2>6. \A g \in handlers : g # h => CalmHandler(g)'
    BY <1>1, <1>2, <1>7, <2>4, OwnJti DEF CalmHandler
  <2>7. CalmHandler(k)'
    <3>1. CalmHandler(h)
      BY <1>2
    <3>2. k.pc = "set" /\ JtiUnseen(h) => h.copy.jti \notin seen'
      BY <2>4 DEF JtiUnseen
    <3>3. k.pc = "sleep" =>
             \/ k.wake = NotifyAt[h.copy.msg]
             \/ k.wake >= publishedAt[h.copy.msg] + MaxSleep
      <4>1. CASE StartEarly(h) /\ k.wake = clock + Sleep(h.copy.msg)
        <5>1. \/ clock + Sleep(h.copy.msg) = NotifyAt[h.copy.msg]
              \/ clock + Sleep(h.copy.msg) = clock + MaxSleep
          BY <4>1, SleepEnds DEF StartEarly
        <5>2. clock + MaxSleep >= publishedAt[h.copy.msg] + MaxSleep
          BY <1>2, <1>3, <1>5, Numbers, SMTT(30)
        <5> QED
          BY <4>1, <5>1, <5>2
      <4> QED
        BY <2>3, <4>1
    <3> QED
      BY <1>3, <2>2, <2>3, <3>1, <3>2, <3>3 DEF CalmHandler, Verifying
  <2>8. \A d \in unacked' : \E g \in handlers' : d = Delivery(g)
    BY <1>2, <2>2, <2>3 DEF Delivery
  <2> QED
    BY <1>8, <2>2, <2>3, <2>5, <2>6, <2>7, <2>8
<1>15. ASSUME NEW h \in handlers, Republish(h) \/ Processed(h),
              queue' = IF Republish(h) THEN Append(queue, Signed(h.copy.msg, 0, "self"))
                                       ELSE queue,
              unacked' = unacked \ {Delivery(h)}, handlers' = handlers \ {h},
              UNCHANGED <<trustsSelf, clock, publishedAt, dlq, seen, crowded>>
       PROVE  /\ \A d \in unacked' : \E g \in handlers' : d = Delivery(g)
              /\ \A c : In(c, queue') => CalmCopy(c)'
  <2>1. \A c : In(c, queue') => CalmCopy(c)'
    <3>1. CASE Republish(h)
      <4>1. h.copy.msg \in Reminders /\ ~OneSleep(h.copy.msg)
        BY <1>1, <3>1, RepublishedLate
      <4>2. PICK c : c = Signed(h.copy.msg, 0, "self")
        OBVIOUS
      <4>3. /\ c.iss = "self" /\ c.jti = nextJti /\ c.exp = clock + TokenTtl
            /\ c.msg = h.copy.msg
            /\ \A b : In(b, Append(queue, c)) <=> In(b, queue) \/ b = c
        <5>1. 0 \in 0 .. MaxRetries
          BY Numbers
        <5> QED
          BY <1>5, <4>2, <5>1, SignedCopy
      <4>4. c.jti \notin seen
        BY <4>3, Numbers
      <4>5. CalmCopy(c)'
        BY <1>3, <1>15, <4>1, <4>3, <4>4 DEF CalmCopy, OneSleep
      <4> QED
        BY <1>9, <1>15, <3>1, <4>2, <4>3, <4>5
    <3> QED
      BY <1>9, <1>15, <3>1
  <2> QED
    BY <1>2, <1>15, <2>1
<1>16. CASE \E h \in handlers :
               /\ Republish(h) \/ Processed(h)
               /\ queue' = IF Republish(h) THEN Append(queue, Signed(h.copy.msg, 0, "self"))
                                           ELSE queue
               /\ unacked' = unacked \ {Delivery(h)} /\ handlers' = handlers \ {h}
               /\ UNCHANGED <<trustsSelf, clock, publishedAt, dlq, seen, crowded>>
  BY <1>8, <1>9, <1>15, <1>16
<1> QED
  BY <1>10, <1>11, <1>12, <1>13, <1>14, <1>16, CalmCases

(* The window of the prefetch: while less than two windows of reminders    *)
(* exist, a copy published before the present instant has less than a      *)
(* window of reminders before it that could still hold a slot when a sleep *)
(* that began as it was published is over.                                 *)
SignedAt(i) == queue[i].exp - TokenTtl

Waits(i) ==
    {m \in Reminders :
        \/ \E j \in 1 .. i - 1 : queue[j].msg = m
        \/ \E h \in handlers : Verifying(h) /\ h.copy.msg = m
        \/ \E h \in handlers :
              h.pc = "sleep" /\ h.copy.msg = m /\ h.wake > SignedAt(i) + MaxSleep}

(* The reminders a service that does not trust its own tokens dead-letters *)
Hopeless == {m \in Reminders : ~trustsSelf /\ publishedAt[m] # -1 /\ ~OneSleep(m)}

WindowInv ==
    Faults = 0 /\ Cardinality(Reminders) < 2 * Prefetch /\ MaxSleep <= TokenTtl =>
        /\ dlq \subseteq Hopeless
        /\ \A i \in Ready :
              SignedAt(i) < clock => Cardinality(Waits(i)) < Prefetch /\ queue[i].exp >= clock

LEMMA Newcomers ==
    ASSUME TypeInv, [Next]_vars, NEW g \in handlers', g \notin handlers,
           Verifying(g) \/ g.pc = "sleep"
    PROVE  \/ Deliver /\ g.copy = Head(queue)
           \/ \E h \in handlers : Verifying(h) /\ h.copy = g.copy
<1>1. \/ Deliver /\ g.copy = Head(queue)
      \/ \E h \in handlers :
            g.copy = h.copy /\ (JtiUnseen(h) \/ StartEarly(h) \/ g.pc \in {"run", "retry"})
  BY HandlersNext
<1> QED
  BY <1>1 DEF JtiUnseen, StartEarly, Verifying

(* A copy that keeps its place, or moves up, waits for no more than before. *)
LEMMA WaitsKeep ==
    ASSUME TypeInv, [Next]_vars, UNCHANGED clock, NEW i \in Ready', NEW j \in Ready,
           queue'[i] = queue[j], Deliver => 1 \in 1 .. j - 1,
           \A m : (\E k \in 1 .. i - 1 : queue'[k].msg = m) =>
                      \E k \in 1 .. j - 1 : queue[k].msg = m
    PROVE  Waits(i)' \subseteq Waits(j)
<1> SUFFICES ASSUME NEW m \in Reminders, m \in Waits(i)' PROVE m \in Waits(j)
  BY DEF Waits
<1>1. SignedAt(i)' = SignedAt(j)
  BY DEF SignedAt
<1>2. CASE \E k \in 1 .. i - 1 : queue'[k].msg = m
  BY <1>2 DEF Waits
<1>3. ASSUME NEW g \in handlers', g \notin handlers, g.copy.msg = m, Verifying(g) \/ g.pc = "sleep"
      PROVE  m \in Waits(j)
  <2>1. CASE Deliver /\ g.copy = Head(queue)
    <3>1. Head(queue) = queue[1]
      BY <2>1, Delivered DEF Deliver
    <3> QED
      BY <1>3, <2>1, <3>1 DEF Waits
  <2>2. CASE \E h \in handlers : Verifying(h) /\ h.copy = g.copy
    BY <1>3, <2>2 DEF Waits
  <2> QED
    BY <1>3, <2>1, <2>2, Newcomers
<1>4. CASE \E g \in handlers' : Verifying(g) /\ g.copy.msg = m
  BY <1>3, <1>4 DEF Waits
<1>5. CASE \E g \in handlers' :
              g.pc = "sleep" /\ g.copy.msg = m /\ g.wake > SignedAt(i)' + MaxSleep
  BY <1>1, <1>3, <1>5 DEF Waits
<1> QED
  BY <1>2, <1>4, <1>5 DEF Waits, Verifying

LEMMA Fewer ==
    ASSUME NEW B \in SUBSET Reminders, NEW A \in SUBSET B, Cardinality(B) < Prefetch
    PROVE  Cardinality(A) < Prefetch
<1>1. IsFiniteSet(B)
  BY RemindersAssumption, FS_Subset
<1>2. IsFiniteSet(A) /\ Cardinality(A) <= Cardinality(B)
  BY <1>1, FS_Subset
<1>3. Cardinality(A) \in Nat /\ Cardinality(B) \in Nat /\ Prefetch \in Nat
  BY <1>1, <1>2, FS_CardinalityType, RemindersAssumption
<1> QED
  BY <1>2, <1>3

(* When time passes while no slot is free, as many reminders as there are  *)
(* slots sleep, and none of them is in the queue.                          *)
LEMMA FullWindow ==
    ASSUME TypeInv, OnceInv, TidyInv, CalmInv, Faults = 0, ~(Cardinality(unacked) < Prefetch),
           \A h \in handlers : h.pc \in {"sleep", "retry"}
    PROVE  \E S \in SUBSET Reminders :
              /\ S = {h.copy.msg : h \in handlers}
              /\ IsFiniteSet(S) /\ Prefetch <= Cardinality(S)
              /\ \A i \in Ready : queue[i].msg \notin S
<1> DEFINE S == {h.copy.msg : h \in handlers}
           f == [d \in unacked |-> d.copy.msg]
<1>1. raced = {} /\ \A h \in handlers : h.pc = "sleep" /\ h.copy.msg \in Reminders
  BY NoFaults DEF TidyInv, TypeInv, HandlersInv
<1>2. S \subseteq Reminders /\ IsFiniteSet(S)
  BY <1>1, RemindersAssumption, FS_Subset, SMTT(30)
<1>3. \A m \in Reminders : Once(m)
  BY <1>1 DEF OnceInv, Msgs
<1>4. \A d \in unacked : \E h \in handlers : d = Delivery(h) /\ d.copy.msg = h.copy.msg
  BY DEF CalmInv, Delivery
<1>5. IsFiniteSet(unacked)
  BY DEF TypeInv, BrokerInv
<1>6. f \in [unacked -> S]
  BY <1>4
<1>7. ASSUME NEW d \in unacked, NEW e \in unacked, f[d] = f[e] PROVE d = e
  <2>1. PICK g \in handlers : d = Delivery(g) /\ d.copy.msg = g.copy.msg
    BY <1>4
  <2>2. PICK h \in handlers : e = Delivery(h) /\ e.copy.msg = h.copy.msg
    BY <1>4
  <2>3. g.copy.msg = h.copy.msg /\ Active(g) /\ Active(h) /\ Once(h.copy.msg)
    BY <1>1, <1>3, <1>7, <2>1, <2>2 DEF Active
  <2> QED
    BY <2>1, <2>2, <2>3 DEF Once, RunOnce
<1>8. f \in Injection(unacked, S)
  BY <1>6, <1>7 DEF Injection, IsInjective
<1>9. Cardinality(unacked) <= Cardinality(S)
  BY <1>2, <1>8, FS_Injection
<1>10. Cardinality(unacked) \in Nat /\ Cardinality(S) \in Nat /\ Prefetch \in Nat
  BY <1>2, <1>5, FS_CardinalityType, RemindersAssumption
<1>11. Prefetch <= Cardinality(S)
  BY <1>9, <1>10
<1>12. ASSUME NEW i \in Ready, NEW h \in handlers, queue[i].msg = h.copy.msg PROVE FALSE
  <2>1. queue[i] \in Live
    BY QueueFacts, AroundParts DEF CalmInv, CalmCopy, Live
  <2>2. Active(h) /\ Once(h.copy.msg)
    BY <1>1, <1>3 DEF Active
  <2> QED
    BY <1>12, <2>1, <2>2 DEF Once, LiveOnce
<1> QED
  BY <1>2, <1>11, <1>12

(* What a step without a fault does to the queue, as long as no time       *)
(* passes                                                                  *)
LEMMA QueueMoves ==
    ASSUME TypeInv, TraceInv, TidyInv, CalmInv, [Next]_vars, Faults' = 0, ~Tick
    PROVE  /\ UNCHANGED <<clock, crowded, trustsSelf>>
           /\ \/ UNCHANGED <<queue, dlq>> /\ ~Deliver
              \/ /\ Deliverable /\ queue' = Tail(queue)
                 /\ (UNCHANGED dlq \/ (DeliverRefused /\ dlq' = dlq \cup {queue[1].msg}))
              \/ /\ ~Deliver /\ UNCHANGED dlq
                 /\ \E c \in Copies : /\ queue' = Append(queue, c)
                                      /\ c.exp = clock + TokenTtl
                                      /\ \/ Publish(c.msg) /\ c.iss = "peer"
                                         \/ /\ c.msg \in Reminders /\ clock < NotifyAt[c.msg]
                                            /\ c.iss = "self" /\ UNCHANGED publishedAt
<1>1. Faults = 0 /\ 0 \in 0 .. MaxRetries
  BY CalmCases, Numbers
<1>2. CASE UNCHANGED vars
  BY <1>2 DEF vars, broker, ghosts, Deliver, Deliverable
<1>3. CASE DeliverRefused
  BY <1>3, Delivered DEF DeliverRefused, ghosts
<1>4. CASE Deliver
  BY <1>4 DEF Deliver, ghosts
<1>5. CASE \E m \in Msgs : Publish(m)
  <2>1. PICK m \in Msgs : Publish(m)
    BY <1>5
  <2>2. PICK c : c = Signed(m, 0, "peer")
    OBVIOUS
  <2>3. c \in Copies /\ c.msg = m /\ c.exp = clock + TokenTtl /\ c.iss = "peer"
    BY <1>1, <2>2, SignedCopy
  <2>4. /\ queue' = Append(queue, c) /\ UNCHANGED <<clock, crowded, trustsSelf, dlq, unacked>>
    BY <2>1, <2>2 DEF Publish, ghosts
  <2>5. ~Deliver
    BY <2>1 DEF Publish, process, Deliver
  <2>6. Publish(c.msg)
    BY <2>1, <2>3
  <2> QED
    BY <2>3, <2>4, <2>5, <2>6
<1>6. CASE \E h \in handlers : JtiUnseen(h) \/ StartDue(h) \/ StartEarly(h) \/ WakeDue(h)
  BY <1>6 DEF JtiUnseen, StartDue, StartEarly, WakeDue, broker, ghosts, Deliver
<1>7. ASSUME NEW h \in handlers, Republish(h) \/ Processed(h),
             queue' = IF Republish(h) THEN Append(queue, Signed(h.copy.msg, 0, "self"))
                                      ELSE queue,
             unacked' = unacked \ {Delivery(h)}, handlers' = handlers \ {h},
             UNCHANGED <<trustsSelf, clock, publishedAt, dlq, seen, crowded>>
      PROVE  /\ ~Deliver
             /\ \/ UNCHANGED queue
                \/ \E c \in Copies :
                      /\ queue' = Append(queue, c) /\ c.exp = clock + TokenTtl
                      /\ c.msg \in Reminders /\ clock < NotifyAt[c.msg] /\ c.iss = "self"
  <2>1. ~Deliver
    BY <1>7 DEF Deliver
  <2>2. CASE Republish(h)
    <3>1. h.copy.msg \in Reminders /\ clock < NotifyAt[h.copy.msg]
      BY <1>1, <2>2, RepublishedLate
    <3>2. PICK c : c = Signed(h.copy.msg, 0, "self")
      OBVIOUS
    <3>3. c \in Copies /\ c.msg = h.copy.msg /\ c.exp = clock + TokenTtl /\ c.iss = "self"
      BY <1>1, <3>1, <3>2, SignedCopy DEF Msgs
    <3> QED
      BY <1>7, <2>1, <2>2, <3>1, <3>2, <3>3
  <2> QED
    BY <1>7, <2>1, <2>2
<1>8. CASE \E h \in handlers :
              /\ Republish(h) \/ Processed(h)
              /\ queue' = IF Republish(h) THEN Append(queue, Signed(h.copy.msg, 0, "self"))
                                          ELSE queue
              /\ unacked' = unacked \ {Delivery(h)} /\ handlers' = handlers \ {h}
              /\ UNCHANGED <<trustsSelf, clock, publishedAt, dlq, seen, crowded>>
  BY <1>7, <1>8
<1> QED
  BY <1>2, <1>3, <1>4, <1>5, <1>6, <1>8, CalmCases

(* Whether a published reminder is hopeless does not change, and only such *)
(* reminders are refused while their tokens are in date.                   *)
LEMMA HopelessStay ==
    ASSUME TypeInv, [Next]_vars
    PROVE  /\ Hopeless \subseteq Hopeless'
           /\ \A m \in Reminders : publishedAt[m] # -1 /\ m \in Hopeless' => m \in Hopeless
<1>1. \A m \in Reminders : publishedAt[m] # -1 => publishedAt'[m] = publishedAt[m]
  BY Grows DEF Msgs
<1> QED
  BY <1>1, Grows DEF Hopeless, OneSleep

LEMMA HopelessRefused ==
    ASSUME TypeInv, TraceInv, CalmInv, Faults = 0, DeliverRefused, queue[1].exp >= clock
    PROVE  queue[1].msg \in Hopeless
<1>1. Head(queue) = queue[1] /\ queue[1] \in Copies /\ 1 \in Ready /\ Refused(queue[1])
  BY Delivered DEF DeliverRefused
<1>2. queue[1].exp \in Nat /\ clock \in Nat
  BY <1>1, CopyFields, Numbers, SMTT(30)
<1>3. queue[1].iss = "self" /\ ~trustsSelf
  BY <1>1, <1>2 DEF Refused
<1>4. CalmCopy(queue[1]) /\ queue[1] \in Carried
  BY <1>1, QueueFacts, AroundParts DEF CalmInv, Carried
<1> QED
  BY <1>3, <1>4 DEF CalmCopy, TraceInv, Hopeless

(* Time passes: a full window sleeps, and wakes before a token expires. *)
LEMMA WindowTick ==
    ASSUME TypeInv, OnceInv, TidyInv, CalmInv, Faults = 0, Tick,
           Cardinality(Reminders) < 2 * Prefetch, MaxSleep <= TokenTtl, NEW i \in Ready,
           SignedAt(i) < clock => Cardinality(Waits(i)) < Prefetch /\ queue[i].exp >= clock,
           SignedAt(i) < clock + 1
    PROVE  Cardinality(Waits(i)) < Prefetch /\ queue[i].exp >= clock + 1
<1>1. /\ ~Deliverable /\ queue # <<>> /\ up
      /\ \A h \in handlers : h.pc \in {"sleep", "retry"} /\ ~Awake(h)
  <2>1. queue # <<>>
    <3>1. Len(queue) # 0
      BY Numbers DEF Ready
    <3> QED
      BY <3>1, Numbers, EmptySeq
  <2> QED
    BY <2>1, NoFaults DEF Tick
<1>2. /\ Len(queue) \in Nat /\ clock \in Nat /\ TokenTtl \in Nat /\ MaxSleep \in Nat
      /\ Prefetch \in Nat \ {0} /\ queue[i].exp \in Nat
      /\ \A h \in handlers : h.wake \in Nat
  BY Numbers, QueueFacts
<1>3. ~(Cardinality(unacked) < Prefetch)
  BY <1>1 DEF Deliverable
<1>4. PICK S \in SUBSET Reminders :
         /\ S = {h.copy.msg : h \in handlers} /\ IsFiniteSet(S) /\ Prefetch <= Cardinality(S)
         /\ \A j \in Ready : queue[j].msg \notin S
  BY <1>1, <1>3, FullWindow
<1>5. Cardinality(S) \in Nat /\ S # {}
  BY <1>2, <1>4, FS_CardinalityType, FS_EmptySet
<1>6. \A h \in handlers : h.pc = "sleep" /\ h.wake > clock /\ h.wake <= clock + MaxSleep
  <2>1. \A h \in handlers : h.pc = "sleep"
    BY <1>1, NoFaults
  <2> QED
    BY <1>1, <1>2, <2>1 DEF Awake, TypeInv, HandlersInv
<1>7. CASE SignedAt(i) < clock
  <2>1. Cardinality(Waits(i)) < Prefetch /\ queue[i].exp >= clock
    BY <1>7
  <2>2. ASSUME queue[i].exp = clock PROVE FALSE
    <3>1. SignedAt(i) + MaxSleep <= clock
      BY <1>2, <2>2 DEF SignedAt
    <3>2. \A h \in handlers : h.wake > SignedAt(i) + MaxSleep
      BY <1>2, <1>6, <3>1 DEF SignedAt
    <3>3. S \subseteq Waits(i)
      BY <1>4, <1>6, <3>2 DEF Waits
    <3>4. Waits(i) \in SUBSET Reminders
      BY DEF Waits
    <3>5. Cardinality(S) < Prefetch
      BY <2>1, <3>3, <3>4, Fewer
    <3> QED
      BY <1>2, <1>4, <1>5, <3>5
  <2> QED
    BY <1>2, <2>1, <2>2
<1>8. CASE ~(SignedAt(i) < clock)
  <2>1. SignedAt(i) = clock
    BY <1>2, <1>8 DEF SignedAt
  <2>2. queue[i].exp >= clock + 1
    <3>1. PICK h \in handlers : TRUE
      BY <1>4, <1>5
    <3>2. MaxSleep >= 1
      BY <1>2, <1>6, <3>1
    <3> QED
      BY <1>2, <2>1, <3>2 DEF SignedAt
  <2> DEFINE A == {m \in Reminders : \E j \in 1 .. i - 1 : queue[j].msg = m}
  <2>3. Waits(i) = A
    <3>1. \A h \in handlers : ~(h.wake > SignedAt(i) + MaxSleep) /\ ~Verifying(h)
      BY <1>2, <1>6, <2>1 DEF Verifying
    <3> QED
      BY <3>1 DEF Waits
  <2>4. A \cap S = {}
    <3>1. \A j \in 1 .. i - 1 : j \in Ready
      BY <1>2 DEF Ready
    <3> QED
      BY <1>4, <3>1
  <2>5. A \subseteq Reminders
    OBVIOUS
  <2> HIDE DEF A
  <2>6. IsFiniteSet(A) /\ IsFiniteSet(A \cup S) /\ Cardinality(A \cup S) <= Cardinality(Reminders)
    <3>1. A \cup S \in SUBSET Reminders
      BY <2>5
    <3> QED
      BY <2>5, <3>1, RemindersAssumption, FS_Subset
  <2>7. Cardinality(A \cup S) = Cardinality(A) + Cardinality(S)
    <3>1. Cardinality(A \cup S) = Cardinality(A) + Cardinality(S) - Cardinality(A \cap S)
      BY <1>4, <2>6, FS_Union
    <3>2. Cardinality(A \cap S) = 0
      BY <2>4, FS_EmptySet
    <3>3. Cardinality(A) \in Nat
      BY <2>6, FS_CardinalityType
    <3> QED
      BY <1>5, <3>1, <3>2, <3>3
  <2>8. Cardinality(A) \in Nat /\ Cardinality(Reminders) \in Nat
    BY <2>6, FS_CardinalityType, RemindersAssumption
  <2>9. Cardinality(A) < Prefetch
    BY <1>2, <1>4, <1>5, <2>6, <2>7, <2>8
  <2> QED
    BY <2>2, <2>3, <2>9
<1> QED
  BY <1>7, <1>8

LEMMA WindowStep ==
    ASSUME TypeInv, TraceInv, OnceInv, TidyInv, CalmInv, WindowInv, [Next]_vars
    PROVE  WindowInv'
<1> SUFFICES ASSUME Faults' = 0, Cardinality(Reminders) < 2 * Prefetch, MaxSleep <= TokenTtl
             PROVE  /\ dlq' \subseteq Hopeless'
                    /\ \A i \in Ready' : SignedAt(i)' < clock' =>
                          Cardinality(Waits(i)') < Prefetch /\ queue'[i].exp >= clock'
  BY DEF WindowInv
<1>1. Faults = 0
  BY CalmCases
<1>2. /\ dlq \subseteq Hopeless
      /\ \A i \in Ready :
            SignedAt(i) < clock => Cardinality(Waits(i)) < Prefetch /\ queue[i].exp >= clock
  BY <1>1 DEF WindowInv
<1>3. /\ Len(queue) \in Nat /\ queue \in Seq(Copies) /\ clock \in Nat /\ TokenTtl \in Nat
      /\ \A i \in Ready : queue[i].exp \in Nat
  BY Numbers, QueueFacts
<1>4. dlq' = dlq \/ (DeliverRefused /\ dlq' = dlq \cup {queue[1].msg})
      => dlq' \subseteq Hopeless'
  <2>1. DeliverRefused => queue[1].exp >= clock
    <3>1. DeliverRefused => 1 \in Ready
      BY Delivered DEF DeliverRefused
    <3> QED
      BY <1>2, <1>3, <3>1 DEF SignedAt
  <2> QED
    BY <1>1, <1>2, <2>1, HopelessRefused, HopelessStay
<1>5. CASE Tick
  <2>1. clock' = clock + 1 /\ UNCHANGED <<queue, handlers, dlq>>
    BY <1>5 DEF Tick, broker, process
  <2>2. Ready' = Ready /\ \A i \in Ready : Waits(i)' = Waits(i) /\ SignedAt(i)' = SignedAt(i)
    BY <2>1 DEF Waits, SignedAt, Ready
  <2>3. \A i \in Ready : SignedAt(i) < clock + 1 =>
           Cardinality(Waits(i)) < Prefetch /\ queue[i].exp >= clock + 1
    BY <1>1, <1>2, <1>5, WindowTick
  <2> QED
    BY <1>4, <2>1, <2>2, <2>3
<1>6. CASE ~Tick
  <2>1. UNCHANGED <<clock, crowded, trustsSelf>>
    BY <1>6, QueueMoves
  <2>2. ASSUME NEW i \in Ready', NEW j \in Ready, queue'[i] = queue[j], SignedAt(i)' < clock',
               Deliver => 1 \in 1 .. j - 1,
               \A m : (\E k \in 1 .. i - 1 : queue'[k].msg = m) =>
                          \E k \in 1 .. j - 1 : queue[k].msg = m
        PROVE  Cardinality(Waits(i)') < Prefetch /\ queue'[i].exp >= clock'
    <3>1. SignedAt(j) < clock
      BY <2>1, <2>2 DEF SignedAt
    <3>2. Waits(j) \in SUBSET Reminders
      BY DEF Waits
    <3>3. Waits(i)' \subseteq Waits(j)
      BY <2>1, <2>2, WaitsKeep
    <3>4. Cardinality(Waits(i)') < Prefetch
      BY <1>2, <3>1, <3>2, <3>3, Fewer
    <3> QED
      BY <1>2, <2>1, <2>2, <3>1, <3>4
  <2>3. CASE UNCHANGED <<queue, dlq>> /\ ~Deliver
    <3>1. Ready' = Ready
      BY <2>3 DEF Ready
    <3> QED
      BY <1>4, <2>2, <2>3, <3>1
  <2>4. CASE /\ Deliverable /\ queue' = Tail(queue)
             /\ (UNCHANGED dlq \/ (DeliverRefused /\ dlq' = dlq \cup {queue[1].msg}))
    <3>1. /\ \A i \in Ready' : queue'[i] = queue[i + 1] /\ i + 1 \in Ready
          /\ Len(queue') = Len(queue) - 1
      BY <2>4, Delivered
    <3>2. ASSUME NEW i \in Ready', SignedAt(i)' < clock'
          PROVE  Cardinality(Waits(i)') < Prefetch /\ queue'[i].exp >= clock'
      <4>1. \A k \in 1 .. i - 1 : /\ k + 1 \in 1 .. (i + 1) - 1 /\ k \in Ready'
        BY <1>3, <3>1 DEF Ready
      <4>2. 1 \in 1 .. (i + 1) - 1
        BY DEF Ready
      <4>3. \A m : (\E k \in 1 .. i - 1 : queue'[k].msg = m) =>
                       \E k \in 1 .. (i + 1) - 1 : queue[k].msg = m
        BY <3>1, <4>1
      <4> QED
        BY <2>2, <3>1, <3>2, <4>2, <4>3
    <3> QED
      BY <1>4, <2>4, <3>2
  <2>5. ASSUME NEW c \in Copies, queue' = Append(queue, c), c.exp = clock + TokenTtl,
               UNCHANGED dlq, ~Deliver
        PROVE  /\ dlq' \subseteq Hopeless'
               /\ \A i \in Ready' : SignedAt(i)' < clock' =>
                     Cardinality(Waits(i)') < Prefetch /\ queue'[i].exp >= clock'
    <3>1. /\ Len(queue') = Len(queue) + 1 /\ queue'[Len(queue) + 1] = c
          /\ \A i \in Ready : queue'[i] = queue[i]
      BY <1>3, <2>5, AppendProperties DEF Ready
    <3>2. ASSUME NEW i \in Ready', SignedAt(i)' < clock'
          PROVE  Cardinality(Waits(i)') < Prefetch /\ queue'[i].exp >= clock'
      <4>1. i \in Ready \/ queue'[i] = c
        BY <1>3, <3>1 DEF Ready
      <4>2. queue'[i] # c
        <5>1. queue'[i] = c => SignedAt(i)' = (clock + TokenTtl) - TokenTtl
          BY <2>5 DEF SignedAt
        <5>2. (clock + TokenTtl) - TokenTtl = clock /\ ~(clock < clock)
          BY <1>3
        <5> QED
          BY <2>1, <3>2, <5>1, <5>2
      <4>3. \A k \in 1 .. i - 1 : k \in Ready
        BY <1>3, <4>1, <4>2 DEF Ready
      <4> QED
        BY <2>2, <2>5, <3>1, <3>2, <4>1, <4>2, <4>3
    <3> QED
      BY <1>4, <2>5, <3>2
  <2> QED
    BY <1>6, <2>3, <2>4, <2>5, QueueMoves
<1> QED
  BY <1>5, <1>6

(* While no message waits for a slot: what is in the queue has just been   *)
(* published, and no reminder that is not asleep is past its time, unless  *)
(* it has just been published; a service that does not trust its own       *)
(* tokens starts no work on a hopeless reminder.                           *)
Timely(m) == m \in Reminders => publishedAt[m] = clock \/ clock <= NotifyAt[m]

PromptCopy(c) ==
    /\ c.exp = clock + TokenTtl /\ Timely(c.msg)
    /\ c.iss = "peer" => publishedAt[c.msg] = clock

PromptHandler(h) ==
    /\ h.pc # "sleep" => Timely(h.copy.msg)
    /\ ~trustsSelf =>
          /\ Verifying(h) => publishedAt[h.copy.msg] = clock
          /\ h.pc = "sleep" =>
                \/ h.wake = publishedAt[h.copy.msg] + MaxSleep
                \/ NotifyAt[h.copy.msg] <= publishedAt[h.copy.msg] + MaxSleep
          /\ h.pc = "run" => h.copy.msg \notin Hopeless

PromptInv ==
    Faults = 0 /\ ~crowded =>
        /\ dlq \subseteq Hopeless
        /\ \A c : In(c, queue) => PromptCopy(c)
        /\ \A h \in handlers : PromptHandler(h)
        /\ done \cap Hopeless = {}

(* The handler a step starts or takes further *)
LEMMA PromptStarts ==
    ASSUME TypeInv, TraceInv, CalmInv, PromptInv, [Next]_vars, Faults = 0, Faults' = 0, ~crowded,
           UNCHANGED <<clock, publishedAt>>, NEW g \in handlers', g \notin handlers
    PROVE  PromptHandler(g)'
<1> DEFINE m == g.copy.msg
<1>1. /\ clock \in Nat /\ MaxSleep \in Nat /\ Slack \in Nat /\ Threshold \in Nat
      /\ Slack <= Threshold /\ Threshold <= MaxSleep /\ UNCHANGED trustsSelf
  BY Numbers, Grows, RemindersAssumption
<1>2. /\ \A c : In(c, queue) => PromptCopy(c)
      /\ \A h \in handlers : PromptHandler(h) /\ h.copy.msg \in Msgs /\ publishedAt[h.copy.msg] # -1
  <2>1. \A h \in handlers : h.copy \in Carried
    BY DEF Carried
  <2> QED
    BY <2>1, CarriedFacts DEF PromptInv, TraceInv
<1>3. Timely(m)' <=> Timely(m)
  BY DEF Timely
<1>4. CASE Deliver /\ g.pc = "get" /\ g.copy = Head(queue)
  <2>1. In(g.copy, queue) /\ ~Refused(g.copy) /\ g.copy \in Copies
    BY <1>4, Delivered DEF Deliver
  <2>2. PromptCopy(g.copy) /\ g.copy.iss \in {"peer", "self"}
    BY <1>2, <2>1, CopyFields
  <2>3. ~trustsSelf => publishedAt[m] = clock
    BY <2>1, <2>2 DEF Refused, PromptCopy
  <2>4. Timely(m)
    BY <2>2 DEF PromptCopy
  <2> QED
    BY <1>1, <1>3, <1>4, <2>3, <2>4 DEF PromptHandler
<1>5. ASSUME NEW h \in handlers, g.copy = h.copy, JtiUnseen(h), g.pc = "set"
      PROVE  PromptHandler(g)'
  <2>1. Timely(m) /\ (~trustsSelf => publishedAt[m] = clock)
    BY <1>2, <1>5 DEF JtiUnseen, PromptHandler, Verifying
  <2> QED
    BY <1>1, <1>3, <1>5, <2>1 DEF PromptHandler
<1>6. ASSUME NEW h \in handlers, g.copy = h.copy, StartEarly(h), g.pc = "sleep",
             g.wake = clock + Sleep(h.copy.msg)
      PROVE  PromptHandler(g)'
  <2>1. ~trustsSelf => publishedAt[m] = clock
    BY <1>2, <1>6 DEF StartEarly, PromptHandler, Verifying
  <2>2. /\ m \in Reminders /\ g.wake <= NotifyAt[m] /\ g.wake <= clock + MaxSleep
        /\ g.wake = NotifyAt[m] \/ g.wake = clock + MaxSleep
    BY <1>6, SleepEnds DEF StartEarly
  <2> QED
    BY <1>1, <1>6, <2>1, <2>2 DEF PromptHandler, Verifying
(* process() is called with a reminder that one sleep brought to its time. *)
<1>7. ASSUME NEW h \in handlers, g.copy = h.copy, StartDue(h) \/ WakeDue(h), g.pc = "run"
      PROVE  PromptHandler(g)'
  <2> SUFFICES Timely(m) /\ (~trustsSelf => m \notin Hopeless')
    BY <1>1, <1>3, <1>7 DEF PromptHandler, Verifying
  <2>1. CASE m \notin Reminders
    BY <2>1 DEF Timely, Hopeless
  <2>2. CASE m \in Reminders
    <3>1. NotifyAt[m] \in Nat /\ publishedAt[m] \in Int
      BY <1>2, <1>7, <2>2, QueueFacts, RemindersAssumption
    <3>2. CASE StartDue(h)
      <4>1. Timely(m) /\ (~trustsSelf => publishedAt[m] = clock)
        BY <1>2, <1>7, <3>2 DEF StartDue, PromptHandler, Verifying
      <4>2. NotifyAt[m] - clock <= Threshold
        BY <1>1, <1>7, <2>2, <3>1, <3>2 DEF StartDue, Early, Delay
      <4>3. ~trustsSelf => OneSleep(m)'
        BY <1>1, <3>1, <4>1, <4>2 DEF OneSleep
      <4> QED
        BY <1>1, <4>1, <4>3 DEF Hopeless
    <3>3. CASE WakeDue(h)
      <4>1. h.pc = "sleep" /\ h.wake <= clock /\ ~StillEarly(m)
        BY <1>7, <3>3 DEF WakeDue, Awake
      <4>2. h.wake >= clock /\ h.wake <= NotifyAt[m] /\ h.wake \in Nat
        BY <1>7, <4>1, Numbers DEF TypeInv, HandlersInv
      <4>3. ~trustsSelf => \/ h.wake = publishedAt[m] + MaxSleep
                           \/ NotifyAt[m] <= publishedAt[m] + MaxSleep
        BY <1>2, <1>7, <4>1 DEF PromptHandler
      <4>4. clock <= NotifyAt[m]
        BY <1>1, <3>1, <4>1, <4>2
      <4>5. ~trustsSelf => OneSleep(m)'
        BY <1>1, <3>1, <4>1, <4>2, <4>3 DEF StillEarly, OneSleep
      <4> QED
        BY <1>1, <4>4, <4>5 DEF Hopeless, Timely
    <3> QED
      BY <1>7, <3>2, <3>3
  <2> QED
    BY <2>1, <2>2
<1>8. \A h \in handlers : ~ScheduleRetry(h)
  <2>1. throws = 0 /\ throws' = 0
    <3>1. \A a, b, c \in Nat : a + b + c = 0 => a = 0
      OBVIOUS
    <3> QED
      BY <3>1, Numbers, Grows DEF Faults
  <2> QED
    BY <2>1 DEF ScheduleRetry, Throws
<1> QED
  BY <1>4, <1>5, <1>6, <1>7, <1>8, HandlersNext

LEMMA PromptStep ==
    ASSUME TypeInv, TraceInv, TidyInv, CalmInv, PromptInv, [Next]_vars
    PROVE  PromptInv'
<1> SUFFICES ASSUME Faults' = 0, ~crowded'
             PROVE  /\ dlq' \subseteq Hopeless'
                    /\ \A c : In(c, queue') => PromptCopy(c)'
                    /\ \A h \in handlers' : PromptHandler(h)'
                    /\ done' \cap Hopeless' = {}
  BY DEF PromptInv, In
<1>1. Faults = 0 /\ up
  BY CalmCases, NoFaults
<1>2. ~crowded
  BY QueueMoves DEF Tick, TypeInv, TypeOK
<1>3. /\ dlq \subseteq Hopeless /\ done \cap Hopeless = {}
      /\ \A c : In(c, queue) => PromptCopy(c)
      /\ \A h \in handlers : PromptHandler(h)
  BY <1>1, <1>2 DEF PromptInv
<1>4. /\ clock \in Nat /\ TokenTtl \in Nat /\ UNCHANGED trustsSelf
      /\ \A m \in Msgs : publishedAt[m] # -1 => publishedAt'[m] = publishedAt[m]
  BY Numbers, Grows
<1>5. /\ \A c : In(c, queue) => c.msg \in Msgs /\ publishedAt[c.msg] # -1
      /\ \A h \in handlers : h.copy.msg \in Msgs /\ publishedAt[h.copy.msg] # -1
  <2>1. /\ \A h \in handlers : h.copy \in Carried
        /\ \A c : In(c, queue) => c \in Carried
    BY AroundParts DEF Carried
  <2> QED
    BY <2>1, CarriedFacts DEF TraceInv
<1>6. done' \cap Hopeless' = {}
  <2> SUFFICES ASSUME NEW m \in Reminders, m \in done', m \in Hopeless' PROVE FALSE
    BY DEF Hopeless
  <2>1. m \in done => m \in Hopeless
    BY HopelessStay DEF TraceInv, Msgs
  <2>2. \/ m \in done
        \/ \E h \in handlers : Processed(h) /\ h.copy.msg = m
    BY DEF Next, Publish, DeliverRefused, Deliver, Verify, JtiUnseen, JtiReplayed, Handle, StartDue,
           StartEarly, Republish, WakeDue, Outcome, Processed, ScheduleRetry, DeadLetter,
           RetryFires, Drop, Crash, Reconnect, Tick, vars, process
  <2>3. ASSUME NEW h \in handlers, Processed(h), h.copy.msg = m PROVE FALSE
    <3>1. PromptHandler(h) /\ h.pc = "run" /\ publishedAt[m] # -1
      BY <1>3, <1>5, <2>3 DEF Processed
    <3>2. m \in Hopeless /\ ~trustsSelf
      BY <3>1, <1>4, HopelessStay DEF Hopeless
    <3> QED
      BY <2>3, <3>1, <3>2 DEF PromptHandler
  <2> QED
    BY <1>3, <2>1, <2>2, <2>3
<1>7. CASE Tick
  <2>1. /\ UNCHANGED <<queue, handlers, dlq, publishedAt>>
        /\ crowded' = (crowded \/ (up /\ queue # <<>>))
        /\ \A h \in handlers : h.pc \in {"sleep", "retry"}
    BY <1>7 DEF Tick, broker, process
  <2>2. \A c : ~In(c, queue')
    <3>1. queue' = <<>>
      BY <1>1, <2>1
    <3>2. Len(queue') = 0 /\ 1 .. 0 = {}
      BY <3>1, EmptySeq
    <3> QED
      BY <3>2 DEF In
  <2>3. \A h \in handlers' : PromptHandler(h)'
    <3>1. \A h \in handlers : h.pc = "sleep"
      BY <1>1, <2>1, NoFaults
    <3> QED
      BY <1>3, <1>4, <2>1, <3>1 DEF PromptHandler, Verifying
  <2> QED
    BY <1>3, <1>6, <2>1, <2>2, <2>3, HopelessStay
<1>8. CASE ~Tick
  <2>1. UNCHANGED clock
    BY <1>8, QueueMoves
  <2>2. ASSUME NEW c, In(c, queue) PROVE PromptCopy(c)'
    <3>1. PromptCopy(c) /\ publishedAt'[c.msg] = publishedAt[c.msg]
      BY <1>3, <1>4, <1>5, <2>2
    <3> QED
      BY <2>1, <3>1 DEF PromptCopy, Timely
  <2>3. ASSUME NEW h \in handlers PROVE PromptHandler(h)'
    <3>1. PromptHandler(h) /\ publishedAt'[h.copy.msg] = publishedAt[h.copy.msg]
      BY <1>3, <1>4, <1>5
    <3>2. h.copy.msg \in Hopeless' => h.copy.msg \in Hopeless
      BY <1>5, HopelessStay DEF Hopeless
    <3> QED
      BY <1>4, <2>1, <3>1, <3>2 DEF PromptHandler, Timely
  <2>4. \A h \in handlers' : PromptHandler(h)'
    <3> SUFFICES ASSUME NEW g \in handlers', g \notin handlers PROVE PromptHandler(g)'
      BY <2>3
    <3>1. UNCHANGED publishedAt
      <4>1. UNCHANGED publishedAt \/ UNCHANGED handlers
        BY DEF Next, Publish, DeliverRefused, Deliver, Verify, JtiUnseen, JtiReplayed, Handle,
               StartDue, StartEarly, Republish, WakeDue, Outcome, Processed, ScheduleRetry,
               DeadLetter, RetryFires, Drop, Crash, Reconnect, Tick, vars, process
      <4> QED
        BY <4>1
    <3> QED
      BY <1>1, <1>2, <2>1, <3>1, PromptStarts
  <2>5. UNCHANGED dlq => dlq' \subseteq Hopeless'
    BY <1>3, HopelessStay
  <2>6. CASE UNCHANGED <<queue, dlq>>
    BY <1>6, <2>2, <2>4, <2>5, <2>6
  <2>7. CASE /\ Deliverable /\ queue' = Tail(queue)
             /\ (UNCHANGED dlq \/ (DeliverRefused /\ dlq' = dlq \cup {queue[1].msg}))
    <3>1. /\ \A c : In(c, queue') => In(c, queue)
          /\ In(queue[1], queue) /\ queue[1] \in Copies
      BY <2>7, Delivered
    <3>2. queue[1].exp >= clock
      BY <1>3, <1>4, <3>1 DEF PromptCopy
    <3>3. dlq' \subseteq Hopeless'
      BY <1>1, <1>3, <2>5, <2>7, <3>2, HopelessRefused, HopelessStay
    <3> QED
      BY <1>6, <2>2, <2>4, <3>1, <3>3
  <2>8. ASSUME NEW c \in Copies, queue' = Append(queue, c), c.exp = clock + TokenTtl,
               UNCHANGED dlq,
               \/ Publish(c.msg) /\ c.iss = "peer"
               \/ /\ c.msg \in Reminders /\ clock < NotifyAt[c.msg]
                  /\ c.iss = "self" /\ UNCHANGED publishedAt
        PROVE  \A b : In(b, queue') => PromptCopy(b)'
    <3>1. \A b : In(b, queue') => In(b, queue) \/ b = c
      <4>1. /\ Len(queue') = Len(queue) + 1 /\ queue'[Len(queue) + 1] = c
            /\ \A i \in 1 .. Len(queue) : queue'[i] = queue[i]
        BY <2>8, Numbers, AppendProperties
      <4>2. \A i \in 1 .. Len(queue) + 1 : i \in 1 .. Len(queue) \/ i = Len(queue) + 1
        BY Numbers
      <4> QED
        BY <4>1, <4>2 DEF In
    <3>2. PromptCopy(c)'
      <4>1. CASE Publish(c.msg) /\ c.iss = "peer"
        <5>1. publishedAt'[c.msg] = clock
          BY <4>1, <2>8, CopyFields DEF Publish, TypeInv, TypeOK
        <5> QED
          BY <2>1, <2>8, <5>1 DEF PromptCopy, Timely
      <4>2. CASE /\ c.msg \in Reminders /\ clock < NotifyAt[c.msg] /\ c.iss = "self"
        <5>1. NotifyAt[c.msg] \in Nat
          BY <4>2, RemindersAssumption
        <5> QED
          BY <1>4, <2>1, <2>8, <4>2, <5>1 DEF PromptCopy, Timely
      <4> QED
        BY <2>8, <4>1, <4>2
    <3> QED
      BY <2>2, <3>1, <3>2
  <2> QED
    BY <1>6, <1>8, <2>4, <2>5, <2>6, <2>7, <2>8, QueueMoves
<1> QED
  BY <1>7, <1>8

LEMMA CalmHolds == Spec => [](CalmInv /\ WindowInv /\ PromptInv)
<1>1. Init => CalmInv /\ WindowInv /\ PromptInv
  <2> SUFFICES ASSUME Init PROVE CalmInv /\ WindowInv /\ PromptInv
    OBVIOUS
  <2>1. /\ unacked = {} /\ handlers = {} /\ dlq = {} /\ done = {} /\ clock = 0
        /\ \A m \in Msgs : publishedAt[m] = -1
    BY DEF Init
  <2>2. Ready = {} /\ \A c : ~In(c, queue)
    BY DEF Init, Ready, In
  <2>3. \A m \in Msgs : publishedAt[m] <= clock
    BY <2>1
  <2> QED
    BY <2>1, <2>2, <2>3 DEF CalmInv, WindowInv, PromptInv
<1>2. /\ TypeInv /\ TraceInv /\ OnceInv /\ TidyInv /\ CalmInv /\ WindowInv /\ PromptInv
      /\ [Next]_vars
      => (CalmInv /\ WindowInv /\ PromptInv)'
  BY CalmStep, WindowStep, PromptStep
<1> QED
  BY <1>1, <1>2, TypesHold, OnceHolds, TidyHolds, PTL DEF Spec

(* Without a fault, less than two windows of reminders never keep a        *)
(* message waiting until its token has expired, as a sleep is no longer    *)
(* than a token lives: only a reminder that is republished to a service    *)
(* that does not trust its own tokens is dead-lettered.  And while no      *)
(* message waits for a slot, every reminder is processed by the time it is *)
(* due, or, if it is one of those, dead-lettered and never processed.      *)
THEOREM RemindersOnTime == Spec => []OnTime
<1>1. TypeInv /\ TidyInv /\ KeptInv /\ CalmInv /\ WindowInv /\ PromptInv => OnTime
  <2> SUFFICES ASSUME TypeInv, TidyInv, KeptInv, CalmInv, WindowInv, PromptInv, Faults = 0 PROVE
         /\ Cardinality(Reminders) < 2 * Prefetch /\ MaxSleep <= TokenTtl =>
               \A m \in dlq : ~trustsSelf /\ m \in Reminders /\ ~OneSleep(m)
         /\ ~crowded =>
               \A m \in Reminders :
                   publishedAt[m] # -1 /\ clock > NotifyAt[m] /\ clock > publishedAt[m] =>
                       IF trustsSelf \/ OneSleep(m) THEN m \in done ELSE m \in dlq \ done
    BY DEF OnTime
  <2>1. Cardinality(Reminders) < 2 * Prefetch /\ MaxSleep <= TokenTtl =>
           \A m \in dlq : ~trustsSelf /\ m \in Reminders /\ ~OneSleep(m)
    BY DEF WindowInv, Hopeless
  <2>2. ASSUME ~crowded, NEW m \in Reminders,
               publishedAt[m] # -1, clock > NotifyAt[m], clock > publishedAt[m]
        PROVE  IF trustsSelf \/ OneSleep(m) THEN m \in done ELSE m \in dlq \ done
    <3>1. m \in Msgs /\ misacked = {} /\ dropped = {} /\ ~Retrying(m)
      BY NoFaults DEF Msgs, Retrying
    <3>2. Accounted(m)
      BY <2>2, <3>1 DEF KeptInv
    <3>3. clock \in Nat /\ NotifyAt[m] \in Nat /\ publishedAt[m] \in Int
      BY <3>1, Numbers, QueueFacts, RemindersAssumption
    <3>4. ~Timely(m)
      BY <2>2, <3>3 DEF Timely
    <3>5. /\ dlq \subseteq Hopeless /\ done \cap Hopeless = {}
          /\ \A c : In(c, queue) => Timely(c.msg)
          /\ \A h \in handlers : h.pc # "sleep" => Timely(h.copy.msg)
      BY <2>2 DEF PromptInv, PromptCopy, PromptHandler
    <3>6. ~InQueue(m)
      BY <3>4, <3>5 DEF InQueue, In
    <3>7. ~IsOpen(m)
      <4> SUFFICES ASSUME NEW d \in unacked, d.copy.msg = m PROVE FALSE
        BY DEF IsOpen
      <4>1. PICK h \in handlers : d = Delivery(h)
        BY DEF CalmInv
      <4>2. h.copy.msg = m /\ h.pc = "sleep"
        BY <3>4, <3>5, <4>1 DEF Delivery
      <4>3. h.wake <= NotifyAt[m] /\ h.wake >= clock /\ h.wake \in Nat
        BY <4>2, Numbers DEF TypeInv, HandlersInv
      <4> QED
        BY <2>2, <3>3, <4>3
    <3>8. m \in done \/ m \in dlq
      BY <3>1, <3>2, <3>6, <3>7 DEF Accounted
    <3>9. m \in Hopeless <=> ~trustsSelf /\ ~OneSleep(m)
      BY <2>2 DEF Hopeless
    <3> QED
      BY <3>5, <3>8, <3>9
  <2> QED
    BY <2>1, <2>2
<1> QED
  BY <1>1, TypesHold, TidyHolds, KeptHolds, CalmHolds, PTL
=============================================================================
