-------------------------- MODULE DlqConsumer_proofs --------------------------
(***************************************************************************)
(* Theorems about DlqConsumer, for every number of payloads, replicas,     *)
(* retries and faults:                                                     *)
(*   - the type invariant;                                                 *)
(*   - DeliveriesAttended: the broker never waits for an acknowledgement   *)
(*     nobody is going to send;                                            *)
(*   - ImplementsDelivery: with any number of lost connections and crashes *)
(*     the consumer implements MessageDelivery;                            *)
(*   - OnePlaceWithoutFault: without faults a payload is in exactly one    *)
(*     place;                                                              *)
(*   - FullRetryBudget: without faults and expiries none is dead-lettered  *)
(*     before its last retry.                                              *)
(***************************************************************************)
EXTENDS DlqConsumer, TLAPS, FiniteSetTheorems

(* A retry is scheduled only below the limit (retryCount < maxRetries), so *)
(* the copy it publishes still has a legal x-retry-count.                  *)
RetriesLeft == \A r \in Replicas : \A h \in timers[r] : h.copy.retry < MaxRetries

TypeInv == TypeOK /\ RetriesLeft

-----------------------------------------------------------------------------
(* Acknowledging, whatever it finds on the channel, requeues or forgets    *)
(* copies that were open and touches nothing else (Ack).                   *)
LEMMA AckType ==
    ASSUME TypeOK, NEW r \in Replicas, NEW tag \in Nat, Ack(r, tag)
    PROVE  /\ queue' \in SUBSET Copies
           /\ unacked' \in [Replicas -> SUBSET Deliveries]
           /\ up' \in [Replicas -> BOOLEAN]
<1>1. CASE up[r] /\ Held(r, tag) = {}
  <2>1. Close(r) BY <1>1 DEF Ack
  <2>2. \A d \in unacked[r] : d.copy \in Copies BY DEF TypeOK, Deliveries
  <2> QED BY <2>1, <2>2 DEF Close, TypeOK
<1>2. CASE ~ (up[r] /\ Held(r, tag) = {})
  BY <1>2 DEF Ack, TypeOK
<1> QED BY <1>1, <1>2

(* The process of every action: what it writes has the right type. *)
LEMMA TypeStep ==
    ASSUME ConsumerAssumption, TypeInv, [Next]_vars
    PROVE  TypeInv'
<1> USE DEF TypeInv
<1>1. ASSUME NEW m \in Msgs, NEW iss \in Peers, Publish(m, iss)
      PROVE  TypeInv'
  <2>1. Copy(m, 0, iss) \in Copies
    BY DEF Copy, Copies, TypeOK, ConsumerAssumption
  <2> QED BY <1>1, <2>1 DEF Publish, TypeOK, RetriesLeft, replica, outcome
<1>2. ASSUME NEW j \in 0 .. (nextJti - 1), TokenExpires(j)
      PROVE  TypeInv'
  <2>1. j \in Nat BY DEF TypeOK
  <2> QED BY <1>2, <2>1 DEF TokenExpires, TypeOK, RetriesLeft, replica, outcome
<1>3. ASSUME NEW r \in Replicas, Connect(r)
      PROVE  TypeInv'
  BY <1>3 DEF Connect, TypeOK, RetriesLeft, broker, outcome
<1>4. ASSUME NEW r \in Replicas, NEW c \in queue, Deliver(r, c)
      PROVE  TypeInv'
  <2>1. /\ [tag |-> nextTag[r], copy |-> c] \in Deliveries
        /\ [conn |-> conn[r], tag |-> nextTag[r], copy |-> c, pc |-> "get"] \in Invocations
    BY DEF TypeOK, Deliveries, Invocations
  <2> QED BY <1>4, <2>1 DEF Deliver, TypeOK, RetriesLeft, outcome
<1>5. ASSUME NEW r \in Replicas, NEW c \in queue, DeliverRejected(r, c)
      PROVE  TypeInv'
  <2>1. c.msg \in Msgs BY DEF TypeOK, Copies
  <2> QED BY <1>5, <2>1 DEF DeliverRejected, TypeOK, RetriesLeft, outcome
<1>6. ASSUME NEW r \in Replicas, NEW h \in handlers[r]
      PROVE  /\ h \in Invocations /\ h.tag \in Nat /\ h.copy \in Copies
             /\ h.copy.msg \in Msgs /\ h.copy.jti \in Nat
             /\ \A pc \in {"get", "set", "run"} : [h EXCEPT !.pc = pc] \in Invocations
  BY DEF TypeOK, Invocations, Copies
<1>7. ASSUME NEW r \in Replicas, NEW h \in handlers[r], JtiUnseen(r, h)
      PROVE  TypeInv'
  BY <1>6, <1>7 DEF JtiUnseen, Become, TypeOK, RetriesLeft, broker, outcome
<1>8. ASSUME NEW r \in Replicas, NEW h \in handlers[r], JtiReplayed(r, h)
      PROVE  TypeInv'
  <2>1. Ack(r, h.tag) BY <1>8 DEF JtiReplayed, Nack
  <2>2. \A d \in Held(r, h.tag) : d.copy.msg \in Msgs
    BY DEF Held, TypeOK, Deliveries, Copies
  <2>3. dlq' \in SUBSET Msgs BY <1>8, <2>2 DEF JtiReplayed, Nack, TypeOK
  <2> QED BY <1>6, <1>8, <2>1, <2>3, AckType DEF JtiReplayed, Finish, TypeOK, RetriesLeft, outcome
<1>9. ASSUME NEW r \in Replicas, NEW h \in handlers[r], StartHandler(r, h)
      PROVE  TypeInv'
  <2>1. handlers' \in [Replicas -> SUBSET Invocations]
    <3>1. [h EXCEPT !.pc = "run"] \in Invocations BY <1>6
    <3>2. handlers' = Become(r, h, "run") BY <1>9 DEF StartHandler
    <3>3. handlers \in [Replicas -> SUBSET Invocations] BY DEF TypeOK
    <3> QED BY <3>1, <3>2, <3>3 DEF Become
  <2>2. attempts' \in [Msgs -> Nat]
    <3>1. attempts' = [attempts EXCEPT ![h.copy.msg] = @ + 1] BY <1>9 DEF StartHandler
    <3>2. attempts \in [Msgs -> Nat] BY DEF TypeOK
    <3>3. attempts' = [m \in Msgs |-> IF m = h.copy.msg THEN attempts[m] + 1 ELSE attempts[m]]
      BY <3>1, <3>2
    <3>4. \A m \in Msgs : attempts[m] \in Nat /\ attempts[m] + 1 \in Nat
      BY <3>2
    <3> QED BY <3>3, <3>4
  <2>3. seen' \in SUBSET Nat
    BY <1>6, <1>9 DEF StartHandler, TypeOK
  <2> QED BY <1>9, <2>1, <2>2, <2>3 DEF StartHandler, TypeOK, RetriesLeft
<1>10. ASSUME NEW r \in Replicas, NEW h \in handlers[r], DiscardUnparsable(r, h)
       PROVE  TypeInv'
  <2>1. Ack(r, h.tag) BY <1>10 DEF DiscardUnparsable
  <2> QED BY <1>6, <1>10, <2>1, AckType DEF DiscardUnparsable, Finish, TypeOK, RetriesLeft
<1>11. ASSUME NEW r \in Replicas, NEW h \in handlers[r], HandlerReturns(r, h)
       PROVE  TypeInv'
  <2>1. Ack(r, h.tag) BY <1>11 DEF HandlerReturns
  <2> QED BY <1>6, <1>11, <2>1, AckType DEF HandlerReturns, Finish, TypeOK, RetriesLeft
<1>12. ASSUME NEW r \in Replicas, NEW h \in handlers[r], ScheduleRetry(r, h)
       PROVE  TypeInv'
  <2>1. Ack(r, h.tag) BY <1>12 DEF ScheduleRetry
  <2> QED BY <1>6, <1>12, <2>1, AckType
          DEF ScheduleRetry, RetriesRemain, Finish, TypeOK, RetriesLeft, outcome
<1>13. ASSUME NEW r \in Replicas, NEW h \in handlers[r], DeadLetter(r, h)
       PROVE  TypeInv'
  <2>1. Ack(r, h.tag) BY <1>13 DEF DeadLetter
  <2> QED BY <1>6, <1>13, <2>1, AckType DEF DeadLetter, Finish, TypeOK, RetriesLeft, outcome
<1>14. ASSUME NEW r \in Replicas, NEW h \in timers[r], RetryFires(r, h)
       PROVE  TypeInv'
  <2>1. h.copy.retry + 1 \in 0 .. MaxRetries
    BY DEF TypeOK, Invocations, Copies, RetriesLeft, ConsumerAssumption
  <2>2. Copy(h.copy.msg, h.copy.retry + 1, Self) \in Copies
    BY <2>1 DEF Copy, Copies, TypeOK, Invocations
  <2> QED BY <1>14, <2>2 DEF RetryFires, TypeOK, RetriesLeft, outcome
<1>15. ASSUME NEW r \in Replicas, Close(r)
       PROVE  /\ queue' \in SUBSET Copies
             /\ unacked' \in [Replicas -> SUBSET Deliveries]
             /\ up' \in [Replicas -> BOOLEAN]
  <2>1. \A d \in unacked[r] : d.copy \in Copies BY DEF TypeOK, Deliveries
  <2> QED BY <1>15, <2>1 DEF Close, TypeOK
<1>16. ASSUME NEW r \in Replicas, Drop(r)
       PROVE  TypeInv'
  <2>1. Close(r) BY <1>16 DEF Drop
  <2>2. drops' \in Nat BY <1>16 DEF Drop, TypeOK
  <2> QED BY <1>15, <1>16, <2>1, <2>2 DEF Drop, TypeOK, RetriesLeft
<1>17. ASSUME NEW r \in Replicas, Crash(r)
       PROVE  TypeInv'
  <2>1. Close(r) BY <1>17 DEF Crash
  <2>2. /\ handlers' \in [Replicas -> SUBSET Invocations]
        /\ timers' \in [Replicas -> SUBSET Invocations]
        /\ crashes' \in Nat
    BY <1>17 DEF Crash, TypeOK
  <2>3. RetriesLeft' BY <1>17 DEF Crash, RetriesLeft, TypeOK
  <2> QED BY <1>15, <1>17, <2>1, <2>2, <2>3 DEF Crash, TypeOK
<1>18. ASSUME UNCHANGED vars
       PROVE  TypeInv'
  BY <1>18 DEF vars, broker, replica, outcome, TypeOK, RetriesLeft
<1> QED
  BY <1>1, <1>2, <1>3, <1>4, <1>5, <1>7, <1>8, <1>9, <1>10, <1>11, <1>12, <1>13,
     <1>14, <1>16, <1>17, <1>18
  DEF Next, Consume, Verify, Handle, Settle, FireRetry

(* The variables hold what their declarations say, in every reachable state. *)
THEOREM TypeCorrect == Spec => []TypeOK
<1>1. ConsumerAssumption BY ConsumerAssumption
<1>2. Init => TypeInv
  BY <1>1 DEF Init, TypeInv, TypeOK, RetriesLeft, ConsumerAssumption
<1>3. TypeInv /\ [Next]_vars => TypeInv'
  BY <1>1, TypeStep
<1>4. TypeInv => TypeOK
  BY DEF TypeInv
<1> QED BY <1>2, <1>3, <1>4, PTL DEF Spec

-----------------------------------------------------------------------------
(* A replica without a channel holds no delivery: the broker has requeued  *)
(* them with the connection.                                               *)
DownHoldsNothing == \A r \in Replicas : ~up[r] => unacked[r] = {}

AttendedInv == TypeInv /\ DownHoldsNothing /\ DeliveriesAttended

(* An acknowledgement removes from the channel at most the deliveries with *)
(* its tag, and the one callback that ends had that tag: the deliveries    *)
(* that stay open belong to other callbacks.                               *)
LEMMA SettleKeepsAttended ==
    ASSUME AttendedInv, NEW r \in Replicas, NEW h \in handlers[r],
           Ack(r, h.tag), handlers' = Finish(r, h), conn' = conn
    PROVE  DownHoldsNothing' /\ DeliveriesAttended'
<1> USE DEF AttendedInv, TypeInv
<1>1. CASE up[r] /\ Held(r, h.tag) = {}
  <2>1. Close(r) BY <1>1 DEF Ack
  <2> QED BY <2>1 DEF Close, Finish, DownHoldsNothing, DeliveriesAttended, TypeOK
<1>2. CASE ~ (up[r] /\ Held(r, h.tag) = {})
  <2>1. /\ up' = up
        /\ unacked' = [unacked EXCEPT ![r] = @ \ Held(r, h.tag)]
    BY <1>2 DEF Ack
  <2>2. DownHoldsNothing' BY <2>1 DEF DownHoldsNothing, TypeOK
  <2>3. ASSUME NEW q \in Replicas, NEW d \in unacked'[q]
        PROVE  \E g \in handlers'[q] : g.conn = conn'[q] /\ g.tag = d.tag /\ g.copy = d.copy
    <3>1. d \in unacked[q] BY <2>1 DEF TypeOK
    <3>2. PICK g \in handlers[q] : g.conn = conn[q] /\ g.tag = d.tag /\ g.copy = d.copy
      BY <3>1 DEF DeliveriesAttended
    <3>3. q = r => g # h
      BY <2>1, <3>2 DEF Held, TypeOK
    <3>4. g \in handlers'[q] BY <3>3 DEF Finish, TypeOK
    <3> QED BY <3>2, <3>4
  <2> QED BY <2>2, <2>3 DEF DeliveriesAttended
<1> QED BY <1>1, <1>2

LEMMA AttendedStep ==
    ASSUME ConsumerAssumption, AttendedInv, [Next]_vars
    PROVE  AttendedInv'
<1> USE DEF AttendedInv
<1>1. TypeInv' BY TypeStep
<1>2. ASSUME unacked' = unacked, up' = up, conn' = conn, handlers' = handlers
      PROVE  DownHoldsNothing' /\ DeliveriesAttended'
  BY <1>2 DEF DownHoldsNothing, DeliveriesAttended
<1>3. ASSUME NEW r \in Replicas, Connect(r)
      PROVE  DownHoldsNothing' /\ DeliveriesAttended'
  BY <1>3 DEF Connect, broker, DownHoldsNothing, DeliveriesAttended, TypeInv, TypeOK
<1>4. ASSUME NEW r \in Replicas, NEW c \in queue, Deliver(r, c)
      PROVE  DownHoldsNothing' /\ DeliveriesAttended'
  <2>1. DownHoldsNothing'
    BY <1>4 DEF Deliver, DownHoldsNothing, TypeInv, TypeOK
  <2>2. ASSUME NEW q \in Replicas, NEW d \in unacked'[q]
        PROVE  \E g \in handlers'[q] : g.conn = conn'[q] /\ g.tag = d.tag /\ g.copy = d.copy
    <3>1. CASE d \in unacked[q]
      <4>1. PICK g \in handlers[q] : g.conn = conn[q] /\ g.tag = d.tag /\ g.copy = d.copy
        BY <3>1 DEF DeliveriesAttended
      <4>2. g \in handlers'[q] BY <1>4 DEF Deliver, TypeInv, TypeOK
      <4> QED BY <1>4, <4>1, <4>2 DEF Deliver
    <3>2. CASE d \notin unacked[q]
      <4>1. q = r /\ d = [tag |-> nextTag[r], copy |-> c]
        BY <1>4, <3>2 DEF Deliver, TypeInv, TypeOK
      <4>2. [conn |-> conn[r], tag |-> nextTag[r], copy |-> c, pc |-> "get"] \in handlers'[r]
        BY <1>4 DEF Deliver, TypeInv, TypeOK
      <4> QED BY <1>4, <4>1, <4>2 DEF Deliver
    <3> QED BY <3>1, <3>2
  <2> QED BY <2>1, <2>2 DEF DeliveriesAttended
<1>5. ASSUME NEW r \in Replicas, NEW h \in handlers[r], NEW pc \in {"set", "run"},
             handlers' = Become(r, h, pc), unacked' = unacked, up' = up, conn' = conn
      PROVE  DownHoldsNothing' /\ DeliveriesAttended'
  <2>1. DownHoldsNothing' BY <1>5 DEF DownHoldsNothing
  <2>2. ASSUME NEW q \in Replicas, NEW d \in unacked[q]
        PROVE  \E g \in handlers'[q] : g.conn = conn[q] /\ g.tag = d.tag /\ g.copy = d.copy
    <3>1. PICK g \in handlers[q] : g.conn = conn[q] /\ g.tag = d.tag /\ g.copy = d.copy
      BY DEF DeliveriesAttended
    <3>2. CASE q = r /\ g = h
      <4>1. [h EXCEPT !.pc = pc] \in handlers'[r]
        BY <1>5 DEF Become, TypeInv, TypeOK
      <4>2. /\ [h EXCEPT !.pc = pc].conn = h.conn
            /\ [h EXCEPT !.pc = pc].tag = h.tag
            /\ [h EXCEPT !.pc = pc].copy = h.copy
        BY DEF TypeInv, TypeOK, Invocations
      <4> QED BY <3>1, <3>2, <4>1, <4>2
    <3>3. CASE ~ (q = r /\ g = h)
      BY <1>5, <3>1, <3>3 DEF Become, TypeInv, TypeOK
    <3> QED BY <3>2, <3>3
  <2> QED BY <1>5, <2>1, <2>2 DEF DeliveriesAttended
<1>6. ASSUME NEW r \in Replicas, Close(r), conn' = conn,
             \A q \in Replicas \ {r} : handlers'[q] = handlers[q]
      PROVE  DownHoldsNothing' /\ DeliveriesAttended'
  BY <1>6 DEF Close, DownHoldsNothing, DeliveriesAttended, TypeInv, TypeOK
<1>7. ASSUME NEW r \in Replicas, Consume(r)
      PROVE  DownHoldsNothing' /\ DeliveriesAttended'
  BY <1>2, <1>4, <1>7 DEF Consume, DeliverRejected
<1>8. ASSUME NEW r \in Replicas, NEW h \in handlers[r],
             JtiUnseen(r, h) \/ JtiReplayed(r, h) \/ StartHandler(r, h) \/ DiscardUnparsable(r, h)
      PROVE  DownHoldsNothing' /\ DeliveriesAttended'
  BY <1>5, <1>8, SettleKeepsAttended
  DEF JtiUnseen, JtiReplayed, Nack, StartHandler, DiscardUnparsable, broker
<1>9. ASSUME NEW r \in Replicas, NEW h \in handlers[r],
             HandlerReturns(r, h) \/ ScheduleRetry(r, h) \/ DeadLetter(r, h)
      PROVE  DownHoldsNothing' /\ DeliveriesAttended'
  BY <1>9, SettleKeepsAttended DEF HandlerReturns, ScheduleRetry, DeadLetter
<1>10. ASSUME NEW r \in Replicas, Drop(r) \/ Crash(r)
       PROVE  DownHoldsNothing' /\ DeliveriesAttended'
  BY <1>6, <1>10 DEF Drop, Crash, TypeInv, TypeOK
<1>11. ASSUME \/ \E m \in Msgs, iss \in Peers : Publish(m, iss)
              \/ \E j \in 0 .. (nextJti - 1) : TokenExpires(j)
              \/ \E r \in Replicas : FireRetry(r)
              \/ UNCHANGED vars
       PROVE  DownHoldsNothing' /\ DeliveriesAttended'
  BY <1>2, <1>11 DEF Publish, TokenExpires, FireRetry, RetryFires, vars, broker, replica
<1> QED
  BY <1>1, <1>3, <1>7, <1>8, <1>9, <1>10, <1>11 DEF Next, Verify, Handle, Settle

(* Every open delivery has a callback of the current connection that will  *)
(* settle it, whatever connections drop and processes crash: the current   *)
(* channel's tags are only ever given to callbacks of that channel, and a  *)
(* callback that outlives its connection can close the new one but cannot  *)
(* orphan a delivery on it (startDlqConsumer).                             *)
THEOREM NoDeliveryIsOrphaned == Spec => []DeliveriesAttended
<1>1. ConsumerAssumption BY ConsumerAssumption
<1>2. Init => AttendedInv
  BY <1>1 DEF Init, AttendedInv, TypeInv, TypeOK, RetriesLeft, ConsumerAssumption,
              DownHoldsNothing, DeliveriesAttended
<1>3. AttendedInv /\ [Next]_vars => AttendedInv'
  BY <1>1, AttendedStep
<1>4. AttendedInv => DeliveriesAttended
  BY DEF AttendedInv
<1> QED BY <1>2, <1>3, <1>4, PTL DEF Spec

-----------------------------------------------------------------------------

(* While nothing has failed, a callback still holds its own delivery open  *)
(* on a channel that is there, and no other callback has the same tag, so  *)
(* that its ack is never a channel error and never hits another delivery.  *)
UndisturbedCallbacks ==
    ~Faulted => \A r \in Replicas :
        /\ ~up[r] => handlers[r] = {} /\ timers[r] = {}
        /\ \A h \in handlers[r] :
            /\ h.tag < nextTag[r]
            /\ \E d \in unacked[r] : d.tag = h.tag /\ d.copy = h.copy
            /\ \A g \in handlers[r] : g.tag = h.tag => g = h

(* Nothing is handled, settled or waiting that was not published. *)
Provenance == \A m \in Msgs : Live(m) \/ Settled(m) => m \in published

(* ... and without a fault everything published is somewhere. *)
NoLossWithoutFault ==
    ~Faulted => \A m \in published : Live(m) \/ Settled(m)

DeliveryInv ==
    /\ AttendedInv
    /\ UndisturbedCallbacks
    /\ Provenance
    /\ NoLossWithoutFault

(* What a step may do to the whereabouts of the payloads *)
OutcomesGrow ==
    /\ published \subseteq published' /\ done \subseteq done'
    /\ dlq \subseteq dlq' /\ discarded \subseteq discarded'
    /\ Faulted => Faulted'

OnlyLiveMoves ==
    \A m \in Msgs :
        /\ m \in done' \ done => Live(m)
        /\ m \in dlq' \ dlq => Live(m)
        /\ m \in discarded' \ discarded => Live(m)

NoResurrection == \A m \in Msgs : Live(m)' => Live(m) \/ m \in published' \ published

NewIsLive == \A m \in Msgs : m \in published' \ published => Live(m)'

NoneDropped == ~Faulted' => \A m \in Msgs : Live(m) => Live(m)' \/ Settled(m)'

Whereabouts ==
    OutcomesGrow /\ OnlyLiveMoves /\ NoResurrection /\ NewIsLive /\ NoneDropped

-----------------------------------------------------------------------------
LEMMA OpenIsLive ==
    ASSUME AttendedInv, NEW r \in Replicas, NEW d \in unacked[r]
    PROVE  d.copy.msg \in Msgs /\ Live(d.copy.msg)
<1>1. d.copy.msg \in Msgs
  BY DEF AttendedInv, TypeInv, TypeOK, Deliveries, Copies
<1>2. PICK h \in handlers[r] : h.copy = d.copy
  BY DEF AttendedInv, DeliveriesAttended
<1> QED BY <1>1, <1>2 DEF Live

(* Closing a channel only brings back copies that were live. *)
LEMMA CloseIsHarmless ==
    ASSUME AttendedInv, NEW r \in Replicas, Close(r)
    PROVE  /\ queue \subseteq queue'
           /\ \A c \in queue' : c \in queue \/ (c.msg \in Msgs /\ Live(c.msg))
BY OpenIsLive DEF Close

LEMMA AckIsHarmless ==
    ASSUME AttendedInv, NEW r \in Replicas, NEW tag, Ack(r, tag)
    PROVE  /\ queue \subseteq queue'
           /\ \A c \in queue' : c \in queue \/ (c.msg \in Msgs /\ Live(c.msg))
BY CloseIsHarmless DEF Ack

(* A callback that ends takes no other payload with it. *)
LEMMA SettleWhereabouts ==
    ASSUME DeliveryInv, NEW r \in Replicas, NEW h \in handlers[r],
           Ack(r, h.tag), handlers' = Finish(r, h),
           \/ timers' = timers
           \/ timers' = [timers EXCEPT ![r] = @ \cup {h}]
    PROVE  /\ \A m \in Msgs : Live(m)' => Live(m)
           /\ \A m \in Msgs \ {h.copy.msg} : Live(m) => Live(m)'
           /\ h.copy.msg \in Msgs /\ Live(h.copy.msg)
           /\ ~Faulted => up[r] /\ Held(r, h.tag) # {}
<1> USE DEF DeliveryInv, AttendedInv, TypeInv
<1>1. /\ queue \subseteq queue'
      /\ \A c \in queue' : c \in queue \/ (c.msg \in Msgs /\ Live(c.msg))
  BY AckIsHarmless
<1>2. h.copy.msg \in Msgs /\ Live(h.copy.msg)
  BY DEF TypeOK, Invocations, Copies, Live
<1>3. \A q \in Replicas : handlers'[q] \subseteq handlers[q] /\ handlers[q] \ {h} \subseteq handlers'[q]
  BY DEF Finish, TypeOK
<1>4. \A q \in Replicas : timers[q] \subseteq timers'[q] /\ timers'[q] \subseteq timers[q] \cup {h}
  BY DEF TypeOK
<1>5. ASSUME NEW m \in Msgs, Live(m)'
      PROVE  Live(m)
  <2>1. CASE \E c \in queue' : c.msg = m
    BY <1>1, <2>1 DEF Live
  <2>2. CASE \E q \in Replicas : \E g \in handlers'[q] \cup timers'[q] : g.copy.msg = m
    BY <1>2, <1>3, <1>4, <2>2 DEF Live
  <2> QED BY <1>5, <2>1, <2>2 DEF Live
<1>6. ASSUME NEW m \in Msgs \ {h.copy.msg}, Live(m)
      PROVE  Live(m)'
  <2>1. CASE \E c \in queue : c.msg = m
    BY <1>1, <2>1 DEF Live
  <2>2. CASE \E q \in Replicas : \E g \in handlers[q] \cup timers[q] : g.copy.msg = m
    BY <1>3, <1>4, <2>2 DEF Live
  <2> QED BY <1>6, <2>1, <2>2 DEF Live
<1>7. ~Faulted => up[r] /\ Held(r, h.tag) # {}
  BY DEF UndisturbedCallbacks, Held, TypeOK
<1> QED BY <1>2, <1>5, <1>6, <1>7

LEMMA FaultsCount ==
    ASSUME TypeOK
    PROVE  /\ drops' = drops /\ crashes' = crashes => Faulted' = Faulted
           /\ drops' = drops + 1 /\ crashes' = crashes => Faulted'
           /\ drops' = drops /\ crashes' = crashes + 1 => Faulted'
BY DEF Faulted, TypeOK

LEMMA WhereaboutsStep ==
    ASSUME ConsumerAssumption, DeliveryInv, [Next]_vars
    PROVE  Whereabouts
<1> USE DEF DeliveryInv, AttendedInv, TypeInv
<1>1. ASSUME NEW m \in Msgs, NEW iss \in Peers, Publish(m, iss)
      PROVE  Whereabouts
  <2>1. /\ queue' = queue \cup {Copy(m, 0, iss)} /\ handlers' = handlers /\ timers' = timers
        /\ Copy(m, 0, iss).msg = m
    BY <1>1 DEF Publish, replica, Copy
  <2>2. \A n \in Msgs : Live(n)' <=> Live(n) \/ n = m
    BY <2>1 DEF Live
  <2> QED BY <1>1, <2>2, FaultsCount
          DEF Publish, outcome, Whereabouts, OutcomesGrow, OnlyLiveMoves, NoResurrection,
              NewIsLive, NoneDropped
<1>2. ASSUME queue' = queue, handlers' = handlers, timers' = timers, published' = published,
             dlq' = dlq, UNCHANGED outcome
      PROVE  Whereabouts
  <2>1. \A m \in Msgs : Live(m)' <=> Live(m) BY <1>2 DEF Live
  <2> QED BY <1>2, <2>1, FaultsCount
          DEF outcome, Whereabouts, OutcomesGrow, OnlyLiveMoves, NoResurrection, NewIsLive,
              NoneDropped
<1>3. ASSUME NEW r \in Replicas, NEW c \in queue, Deliver(r, c)
      PROVE  Whereabouts
  <2>1. \A q \in Replicas : handlers[q] \subseteq handlers'[q]
    BY <1>3 DEF Deliver, TypeOK
  <2>2. \A q \in Replicas : \A h \in handlers'[q] : h \in handlers[q] \/ h.copy = c
    BY <1>3 DEF Deliver, TypeOK
  <2>3. \E h \in handlers'[r] : h.copy = c
    <3>1. [conn |-> conn[r], tag |-> nextTag[r], copy |-> c, pc |-> "get"] \in handlers'[r]
      BY <1>3 DEF Deliver, TypeOK
    <3> QED BY <3>1
  <2>4. queue' = queue \ {c} /\ timers' = timers BY <1>3 DEF Deliver
  <2>5. \A m \in Msgs : Live(m)' <=> Live(m)
    <3>1. ASSUME NEW m \in Msgs, Live(m)' PROVE Live(m)
      BY <2>2, <2>4, <3>1 DEF Live
    <3>2. ASSUME NEW m \in Msgs, Live(m) PROVE Live(m)'
      BY <2>1, <2>3, <2>4, <3>2 DEF Live
    <3> QED BY <3>1, <3>2
  <2> QED BY <1>3, <2>5, FaultsCount
          DEF Deliver, outcome, Whereabouts, OutcomesGrow, OnlyLiveMoves, NoResurrection,
              NewIsLive, NoneDropped
<1>4. ASSUME NEW r \in Replicas, NEW c \in queue, DeliverRejected(r, c)
      PROVE  Whereabouts
  <2>1. queue' = queue \ {c} /\ handlers' = handlers /\ timers' = timers
    BY <1>4 DEF DeliverRejected
  <2>2. \A m \in Msgs : (Live(m)' => Live(m)) /\ (Live(m) => Live(m)' \/ m = c.msg)
    BY <2>1 DEF Live
  <2>3. c.msg \in Msgs /\ Live(c.msg) BY DEF TypeOK, Copies, Live
  <2> QED BY <1>4, <2>2, <2>3, FaultsCount
          DEF DeliverRejected, outcome, Whereabouts, OutcomesGrow, OnlyLiveMoves,
              NoResurrection, NewIsLive, NoneDropped, Settled
<1>5. ASSUME NEW r \in Replicas, NEW h \in handlers[r], NEW pc \in {"set", "run"},
             handlers' = Become(r, h, pc), queue' = queue, timers' = timers
      PROVE  \A m \in Msgs : Live(m)' <=> Live(m)
  <2>1. h \in Invocations /\ [h EXCEPT !.pc = pc].copy = h.copy
    BY DEF TypeOK, Invocations
  <2>2. \A q \in Replicas : \A g \in handlers'[q] : \E i \in handlers[q] : i.copy = g.copy
    BY <1>5, <2>1 DEF Become, TypeOK
  <2>3. \A q \in Replicas : \A i \in handlers[q] : \E g \in handlers'[q] : i.copy = g.copy
    BY <1>5, <2>1 DEF Become, TypeOK
  <2>4. ASSUME NEW m \in Msgs, Live(m)' PROVE Live(m)
    BY <1>5, <2>2, <2>4 DEF Live
  <2>5. ASSUME NEW m \in Msgs, Live(m) PROVE Live(m)'
    BY <1>5, <2>3, <2>5 DEF Live
  <2> QED BY <2>4, <2>5
<1>6. ASSUME NEW r \in Replicas, NEW h \in handlers[r], JtiUnseen(r, h) \/ StartHandler(r, h)
      PROVE  Whereabouts
  <2>1. \A m \in Msgs : Live(m)' <=> Live(m)
    BY <1>5, <1>6 DEF JtiUnseen, StartHandler, broker
  <2> QED BY <1>6, <2>1, FaultsCount
          DEF JtiUnseen, StartHandler, broker, outcome, Whereabouts, OutcomesGrow, OnlyLiveMoves,
              NoResurrection, NewIsLive, NoneDropped
<1>7. ASSUME NEW r \in Replicas, NEW h \in handlers[r], JtiReplayed(r, h)
      PROVE  Whereabouts
  <2>1. /\ \A m \in Msgs : Live(m)' => Live(m)
        /\ \A m \in Msgs \ {h.copy.msg} : Live(m) => Live(m)'
        /\ h.copy.msg \in Msgs /\ Live(h.copy.msg)
    BY <1>7, SettleWhereabouts DEF JtiReplayed, Nack
  <2>2. \A d \in Held(r, h.tag) : d.copy.msg \in Msgs /\ Live(d.copy.msg)
    BY OpenIsLive DEF Held
  <2>3. dlq' = dlq \cup {d.copy.msg : d \in Held(r, h.tag)}
    BY <1>7 DEF JtiReplayed, Nack
  <2>4. ~Faulted => h.copy.msg \in dlq'
    BY <2>3 DEF UndisturbedCallbacks, Held
  <2>5. /\ \A m \in dlq' \ dlq : Live(m)
        /\ dlq \subseteq dlq'
    BY <2>2, <2>3
  <2> QED BY <1>7, <2>1, <2>4, <2>5, FaultsCount
          DEF JtiReplayed, outcome, Whereabouts, OutcomesGrow, OnlyLiveMoves, NoResurrection,
              NewIsLive, NoneDropped, Settled
<1>8. ASSUME NEW r \in Replicas, NEW h \in handlers[r],
             DiscardUnparsable(r, h) \/ HandlerReturns(r, h)
      PROVE  Whereabouts
  <2>1. /\ \A m \in Msgs : Live(m)' => Live(m)
        /\ \A m \in Msgs \ {h.copy.msg} : Live(m) => Live(m)'
        /\ h.copy.msg \in Msgs /\ Live(h.copy.msg)
    BY <1>8, SettleWhereabouts DEF DiscardUnparsable, HandlerReturns
  <2> QED BY <1>8, <2>1, FaultsCount
          DEF DiscardUnparsable, HandlerReturns, Whereabouts, OutcomesGrow, OnlyLiveMoves,
              NoResurrection, NewIsLive, NoneDropped, Settled
<1>9. ASSUME NEW r \in Replicas, NEW h \in handlers[r], ScheduleRetry(r, h)
      PROVE  Whereabouts
  <2>1. /\ \A m \in Msgs : Live(m)' => Live(m)
        /\ \A m \in Msgs \ {h.copy.msg} : Live(m) => Live(m)'
        /\ h.copy.msg \in Msgs
    BY <1>9, SettleWhereabouts DEF ScheduleRetry
  <2>2. h \in timers'[r] BY <1>9 DEF ScheduleRetry, TypeOK
  <2>3. Live(h.copy.msg)' BY <2>2 DEF Live
  <2> QED BY <1>9, <2>1, <2>3, FaultsCount
          DEF ScheduleRetry, outcome, Whereabouts, OutcomesGrow, OnlyLiveMoves, NoResurrection,
              NewIsLive, NoneDropped
<1>10. ASSUME NEW r \in Replicas, NEW h \in handlers[r], DeadLetter(r, h)
       PROVE  Whereabouts
  <2>1. /\ \A m \in Msgs : Live(m)' => Live(m)
        /\ \A m \in Msgs \ {h.copy.msg} : Live(m) => Live(m)'
        /\ h.copy.msg \in Msgs /\ Live(h.copy.msg)
        /\ ~Faulted => up[r]
    BY <1>10, SettleWhereabouts DEF DeadLetter
  <2> QED BY <1>10, <2>1, FaultsCount
          DEF DeadLetter, outcome, Whereabouts, OutcomesGrow, OnlyLiveMoves, NoResurrection,
              NewIsLive, NoneDropped, Settled
<1>11. ASSUME NEW r \in Replicas, NEW h \in timers[r], RetryFires(r, h)
       PROVE  Whereabouts
  <2>1. h.copy.msg \in Msgs /\ Live(h.copy.msg)
    BY DEF TypeOK, Invocations, Copies, Live
  <2>2. handlers' = handlers /\ \A q \in Replicas : timers'[q] \subseteq timers[q]
    BY <1>11 DEF RetryFires, TypeOK
  <2>3. \A q \in Replicas : timers[q] \ {h} \subseteq timers'[q]
    BY <1>11 DEF RetryFires, TypeOK
  <2>4. /\ queue \subseteq queue'
        /\ \A c \in queue' : c \in queue \/ c.msg = h.copy.msg
        /\ up[r] => \E c \in queue' : c.msg = h.copy.msg
    <3>1. CASE up[r]
      <4> DEFINE again == Copy(h.copy.msg, h.copy.retry + 1, Self)
      <4>1. queue' = queue \cup {again} BY <1>11, <3>1 DEF RetryFires
      <4>2. again.msg = h.copy.msg BY DEF Copy
      <4> HIDE DEF again
      <4> QED BY <4>1, <4>2
    <3>2. CASE ~up[r]
      BY <1>11, <3>2 DEF RetryFires
    <3> QED BY <3>1, <3>2
  <2>5. ~Faulted => up[r] BY DEF UndisturbedCallbacks
  <2>6. ASSUME NEW m \in Msgs, Live(m)' PROVE Live(m)
    BY <2>1, <2>2, <2>4, <2>6 DEF Live
  <2>7. ASSUME NEW m \in Msgs \ {h.copy.msg}, Live(m) PROVE Live(m)'
    BY <2>2, <2>3, <2>4, <2>7 DEF Live
  <2>8. ~Faulted => Live(h.copy.msg)' BY <2>4, <2>5 DEF Live
  <2> QED BY <1>11, <2>1, <2>6, <2>7, <2>8, FaultsCount
          DEF RetryFires, outcome, Whereabouts, OutcomesGrow, OnlyLiveMoves, NoResurrection,
              NewIsLive, NoneDropped
<1>12. ASSUME NEW r \in Replicas, Drop(r) \/ Crash(r)
       PROVE  Whereabouts
  <2>1. /\ Close(r)
        /\ \A q \in Replicas : handlers'[q] \subseteq handlers[q] /\ timers'[q] \subseteq timers[q]
        /\ Faulted'
    <3>1. Close(r) BY <1>12 DEF Drop, Crash
    <3>2. \A q \in Replicas : handlers'[q] \subseteq handlers[q] /\ timers'[q] \subseteq timers[q]
      BY <1>12 DEF Drop, Crash, TypeOK
    <3>3. Faulted' BY <1>12, FaultsCount DEF Drop, Crash
    <3> QED BY <3>1, <3>2, <3>3
  <2>2. \A c \in queue' : c \in queue \/ (c.msg \in Msgs /\ Live(c.msg))
    BY <2>1, CloseIsHarmless
  <2>3. \A m \in Msgs : Live(m)' => Live(m) BY <2>1, <2>2 DEF Live
  <2> QED BY <1>12, <2>1, <2>3
          DEF Drop, Crash, Whereabouts, OutcomesGrow, OnlyLiveMoves, NoResurrection, NewIsLive,
              NoneDropped
<1>13. ASSUME \/ \E j \in 0 .. (nextJti - 1) : TokenExpires(j)
              \/ \E r \in Replicas : Connect(r)
              \/ UNCHANGED vars
       PROVE  Whereabouts
  BY <1>2, <1>13 DEF TokenExpires, Connect, vars, broker, replica
<1> QED
  BY <1>1, <1>3, <1>4, <1>6, <1>7, <1>8, <1>9, <1>10, <1>11, <1>12, <1>13
  DEF Next, Consume, Verify, Handle, Settle, FireRetry

-----------------------------------------------------------------------------
(* An ack of an undisturbed callback finds its delivery and leaves those   *)
(* of the other callbacks open.                                            *)
LEMMA SettleUndisturbed ==
    ASSUME DeliveryInv, ~Faulted, NEW r \in Replicas, NEW h \in handlers[r],
           Ack(r, h.tag), handlers' = Finish(r, h), nextTag' = nextTag,
           \/ timers' = timers
           \/ timers' = [timers EXCEPT ![r] = @ \cup {h}]
    PROVE  UndisturbedCallbacks'
<1> USE DEF DeliveryInv, AttendedInv, TypeInv
<1>1. /\ up' = up
      /\ unacked' = [unacked EXCEPT ![r] = @ \ Held(r, h.tag)]
  BY SettleWhereabouts DEF Ack
<1>2. \A q \in Replicas : handlers'[q] \subseteq handlers[q]
  BY DEF Finish, TypeOK
<1>3. ASSUME NEW q \in Replicas, ~up'[q]
      PROVE  handlers'[q] = {} /\ timers'[q] = {}
  <2>1. handlers[q] = {} /\ timers[q] = {} BY <1>1, <1>3 DEF UndisturbedCallbacks
  <2>2. q # r BY <2>1
  <2> QED BY <1>2, <2>1, <2>2 DEF TypeOK
<1>4. ASSUME NEW q \in Replicas, NEW g \in handlers'[q]
      PROVE  /\ g.tag < nextTag'[q]
             /\ \E d \in unacked'[q] : d.tag = g.tag /\ d.copy = g.copy
             /\ \A i \in handlers'[q] : i.tag = g.tag => i = g
  <2>1. g \in handlers[q] BY <1>2
  <2>2. g.tag < nextTag[q] /\ \A i \in handlers[q] : i.tag = g.tag => i = g
    BY <2>1 DEF UndisturbedCallbacks
  <2>3. PICK d \in unacked[q] : d.tag = g.tag /\ d.copy = g.copy
    BY <2>1 DEF UndisturbedCallbacks
  <2>4. q = r => g # h BY DEF Finish, TypeOK
  <2>5. q = r => g.tag # h.tag BY <2>2, <2>4
  <2>6. d \in unacked'[q] BY <1>1, <2>3, <2>5 DEF Held, TypeOK
  <2> QED BY <1>2, <2>2, <2>3, <2>6
<1> QED BY <1>3, <1>4 DEF UndisturbedCallbacks

LEMMA UndisturbedStep ==
    ASSUME ConsumerAssumption, DeliveryInv, [Next]_vars
    PROVE  UndisturbedCallbacks'
<1> USE DEF DeliveryInv, AttendedInv, TypeInv
<1>1. SUFFICES ASSUME ~Faulted' PROVE UndisturbedCallbacks'
  BY DEF UndisturbedCallbacks
<1>2. ~Faulted
  BY <1>1, WhereaboutsStep DEF Whereabouts, OutcomesGrow
<1>3. ASSUME up' = up, unacked' = unacked, handlers' = handlers, nextTag' = nextTag,
             \A q \in Replicas : timers'[q] \subseteq timers[q]
      PROVE  UndisturbedCallbacks'
  BY <1>2, <1>3 DEF UndisturbedCallbacks
<1>4. ASSUME NEW r \in Replicas, Connect(r)
      PROVE  UndisturbedCallbacks'
  BY <1>2, <1>4 DEF Connect, broker, UndisturbedCallbacks, TypeOK
<1>5. ASSUME NEW r \in Replicas, NEW c \in queue, Deliver(r, c)
      PROVE  UndisturbedCallbacks'
  <2> DEFINE new == [conn |-> conn[r], tag |-> nextTag[r], copy |-> c, pc |-> "get"]
             open == [tag |-> nextTag[r], copy |-> c]
  <2>1. /\ up' = up /\ up[r] /\ timers' = timers
        /\ handlers' = [handlers EXCEPT ![r] = @ \cup {new}]
        /\ unacked' = [unacked EXCEPT ![r] = @ \cup {open}]
        /\ nextTag' = [nextTag EXCEPT ![r] = @ + 1]
    BY <1>5 DEF Deliver
  <2>2. new.tag = nextTag[r] /\ new.copy = c /\ open.tag = nextTag[r] /\ open.copy = c
    OBVIOUS
  <2> HIDE DEF new, open
  <2>3. ASSUME NEW q \in Replicas, ~up'[q]
        PROVE  handlers'[q] = {} /\ timers'[q] = {}
    BY <1>2, <2>1, <2>3 DEF UndisturbedCallbacks, TypeOK
  <2>4. ASSUME NEW q \in Replicas, NEW g \in handlers'[q]
        PROVE  /\ g.tag < nextTag'[q]
               /\ \E d \in unacked'[q] : d.tag = g.tag /\ d.copy = g.copy
               /\ \A i \in handlers'[q] : i.tag = g.tag => i = g
    <3>1. nextTag[q] \in Nat /\ nextTag'[q] = IF q = r THEN nextTag[q] + 1 ELSE nextTag[q]
      BY <2>1 DEF TypeOK
    <3>2. \A i \in handlers'[q] : i \in handlers[q] \/ (q = r /\ i = new)
      BY <2>1 DEF TypeOK
    <3>3. \A i \in handlers[q] : i.tag \in Nat /\ i.tag < nextTag[q]
      BY <1>2 DEF UndisturbedCallbacks, TypeOK, Invocations
    <3>4. CASE g \in handlers[q]
      <4>1. \E d \in unacked[q] : d.tag = g.tag /\ d.copy = g.copy
        BY <1>2, <3>4 DEF UndisturbedCallbacks
      <4>2. unacked[q] \subseteq unacked'[q] BY <2>1 DEF TypeOK
      <4>3. \A i \in handlers[q] : i.tag = g.tag => i = g
        BY <1>2, <3>4 DEF UndisturbedCallbacks
      <4>4. g.tag < nextTag'[q] BY <3>1, <3>3, <3>4
      <4>5. q = r => g.tag # new.tag BY <2>2, <3>3, <3>4
      <4> QED BY <3>2, <4>1, <4>2, <4>3, <4>4, <4>5
    <3>5. CASE g \notin handlers[q]
      <4>1. q = r /\ g = new BY <3>2, <3>5
      <4>2. open \in unacked'[r] BY <2>1 DEF TypeOK
      <4>3. g.tag < nextTag'[q] BY <2>2, <3>1, <4>1
      <4>4. \A i \in handlers[q] : i.tag # g.tag BY <2>2, <3>1, <3>3, <4>1
      <4> QED BY <2>2, <3>2, <4>1, <4>2, <4>3, <4>4
    <3> QED BY <3>4, <3>5
  <2> QED BY <2>3, <2>4 DEF UndisturbedCallbacks
<1>6. ASSUME NEW r \in Replicas, NEW c \in queue, DeliverRejected(r, c)
      PROVE  UndisturbedCallbacks'
  BY <1>2, <1>6 DEF DeliverRejected, UndisturbedCallbacks, TypeOK, Invocations
<1>7. ASSUME NEW r \in Replicas, NEW h \in handlers[r], NEW pc \in {"set", "run"},
             handlers' = Become(r, h, pc), up' = up, unacked' = unacked,
             nextTag' = nextTag, timers' = timers
      PROVE  UndisturbedCallbacks'
  <2> DEFINE new == [h EXCEPT !.pc = pc]
  <2>1. new.tag = h.tag /\ new.copy = h.copy
    BY DEF TypeOK, Invocations
  <2>2. handlers' = [handlers EXCEPT ![r] = (@ \ {h}) \cup {new}]
    BY <1>7 DEF Become
  <2> HIDE DEF new
  <2>3. ASSUME NEW q \in Replicas, ~up'[q]
        PROVE  handlers'[q] = {} /\ timers'[q] = {}
    <3>1. handlers[q] = {} /\ timers[q] = {}
      BY <1>2, <1>7, <2>3 DEF UndisturbedCallbacks
    <3> QED BY <1>7, <2>2, <3>1 DEF TypeOK
  <2>4. ASSUME NEW q \in Replicas, NEW g \in handlers'[q]
        PROVE  /\ g.tag < nextTag'[q]
               /\ \E d \in unacked'[q] : d.tag = g.tag /\ d.copy = g.copy
               /\ \A i \in handlers'[q] : i.tag = g.tag => i = g
    <3>1. \A i \in handlers'[q] :
            (i \in handlers[q] /\ (q = r => i # h)) \/ (q = r /\ i = new)
      BY <2>2 DEF TypeOK
    <3>2. \A i, k \in handlers[q] : i.tag = k.tag => i = k
      BY <1>2 DEF UndisturbedCallbacks
    <3>3. \A i \in handlers[q] :
            i.tag < nextTag[q] /\ \E d \in unacked[q] : d.tag = i.tag /\ d.copy = i.copy
      BY <1>2 DEF UndisturbedCallbacks
    <3>4. \E i \in handlers[q] : i.tag = g.tag /\ i.copy = g.copy
      BY <2>1, <3>1
    <3>5. \A i \in handlers'[q] : i.tag = g.tag => i = g
      BY <2>1, <3>1, <3>2
    <3> QED BY <1>7, <3>3, <3>4, <3>5
  <2> QED BY <2>3, <2>4 DEF UndisturbedCallbacks
<1>8. ASSUME NEW r \in Replicas, Consume(r)
      PROVE  UndisturbedCallbacks'
  BY <1>5, <1>6, <1>8 DEF Consume
<1>9. ASSUME NEW r \in Replicas, NEW h \in handlers[r],
             JtiUnseen(r, h) \/ JtiReplayed(r, h) \/ StartHandler(r, h) \/ DiscardUnparsable(r, h)
      PROVE  UndisturbedCallbacks'
  BY <1>2, <1>7, <1>9, SettleUndisturbed
  DEF JtiUnseen, JtiReplayed, Nack, StartHandler, DiscardUnparsable, broker
<1>10. ASSUME NEW r \in Replicas, NEW h \in handlers[r],
              HandlerReturns(r, h) \/ ScheduleRetry(r, h) \/ DeadLetter(r, h)
       PROVE  UndisturbedCallbacks'
  BY <1>2, <1>10, SettleUndisturbed DEF HandlerReturns, ScheduleRetry, DeadLetter
<1>11. ASSUME NEW r \in Replicas, NEW h \in timers[r], RetryFires(r, h)
       PROVE  UndisturbedCallbacks'
  BY <1>3, <1>11 DEF RetryFires, TypeOK
<1>12. ASSUME NEW r \in Replicas, Drop(r) \/ Crash(r)
       PROVE  UndisturbedCallbacks'
  BY <1>1, <1>12, FaultsCount DEF Drop, Crash
<1>13. ASSUME \/ \E m \in Msgs, iss \in Peers : Publish(m, iss)
              \/ \E j \in 0 .. (nextJti - 1) : TokenExpires(j)
              \/ UNCHANGED vars
       PROVE  UndisturbedCallbacks'
  BY <1>3, <1>13 DEF Publish, TokenExpires, vars, broker, replica
<1> QED
  BY <1>4, <1>8, <1>9, <1>10, <1>11, <1>12, <1>13
  DEF Next, Verify, Handle, Settle, FireRetry

LEMMA DeliveryInvHolds == Spec => []DeliveryInv
<1>1. ConsumerAssumption BY ConsumerAssumption
<1>2. Init => DeliveryInv
  BY <1>1 DEF Init, DeliveryInv, AttendedInv, TypeInv, TypeOK, RetriesLeft, ConsumerAssumption,
              DownHoldsNothing, DeliveriesAttended, UndisturbedCallbacks, Provenance,
              NoLossWithoutFault, Live, Settled
<1>3. ASSUME DeliveryInv, [Next]_vars
      PROVE  DeliveryInv'
  <2>1. Whereabouts BY <1>1, <1>3, WhereaboutsStep
  <2>2. AttendedInv' BY <1>1, <1>3, AttendedStep DEF DeliveryInv
  <2>3. UndisturbedCallbacks' BY <1>1, <1>3, UndisturbedStep
  <2>4. Provenance'
    BY <1>3, <2>1
    DEF DeliveryInv, Provenance, Whereabouts, OutcomesGrow, OnlyLiveMoves, NoResurrection, Settled
  <2>5. NoLossWithoutFault'
    BY <1>3, <2>1, <2>2
    DEF DeliveryInv, NoLossWithoutFault, Whereabouts, OutcomesGrow, NewIsLive, NoneDropped,
        Settled, AttendedInv, TypeInv, TypeOK
  <2> QED BY <2>2, <2>3, <2>4, <2>5 DEF DeliveryInv
<1> QED BY <1>2, <1>3, PTL DEF Spec

-----------------------------------------------------------------------------
(* The initial states are initial states of MessageDelivery, every step is *)
(* a step of it or leaves it alone: a payload that was handled, dead-      *)
(* lettered or discarded stays so, whatever redeliveries and replays       *)
(* follow, and only a fault loses one.                                     *)
THEOREM ConsumerImplementsDelivery == Spec => ImplementsDelivery
<1>1. ASSUME Init PROVE Delivery!Init
  BY <1>1 DEF Init, Delivery!Init, status, Live, Faulted
<1>2. ASSUME DeliveryInv, DeliveryInv', [Next]_vars
      PROVE  [Delivery!Next]_(Delivery!vars)
  <2>1. Whereabouts
    BY <1>2, WhereaboutsStep, ConsumerAssumption
  <2>2. Faulted' \in {Faulted, TRUE}
    <3>1. Faulted \in BOOLEAN /\ Faulted' \in BOOLEAN
      BY <1>2 DEF Faulted, DeliveryInv, AttendedInv, TypeInv, TypeOK
    <3>2. Faulted => Faulted' BY <2>1 DEF Whereabouts, OutcomesGrow
    <3> QED BY <3>1, <3>2, Zenon
  <2>3. status' \in [Msgs -> Delivery!Status]
    BY DEF status, Delivery!Status, Delivery!Final
  <2>4. ASSUME NEW m \in Msgs, status'[m] # status[m]
        PROVE  <<status[m], status'[m]>> \in Delivery!Moves(Faulted')
    <3>1. /\ m \in published => m \in published'
          /\ m \in done => m \in done'
          /\ m \in dlq => m \in dlq'
          /\ m \in discarded => m \in discarded'
      BY <2>1 DEF Whereabouts, OutcomesGrow
    <3>2. /\ m \in done' => m \in done \/ Live(m)
          /\ m \in dlq' => m \in dlq \/ Live(m)
          /\ m \in discarded' => m \in discarded \/ Live(m)
          /\ Live(m)' => Live(m) \/ m \notin published
          /\ m \in published' => m \in published \/ Live(m)'
      BY <2>1 DEF Whereabouts, OnlyLiveMoves, NoResurrection, NewIsLive
    <3>3. /\ Live(m) \/ m \in done \/ m \in dlq \/ m \in discarded => m \in published
          /\ Live(m)' \/ m \in done' \/ m \in dlq' \/ m \in discarded' => m \in published'
      BY <1>2 DEF DeliveryInv, Provenance, Settled
    <3>4. m \in published' /\ ~Live(m)' /\ m \notin done' /\ m \notin dlq' /\ m \notin discarded'
            => Faulted'
      BY <1>2 DEF DeliveryInv, NoLossWithoutFault, Settled
    <3>5. status[m] = IF m \in done THEN "done" ELSE IF Live(m) THEN "pending"
                      ELSE IF m \in dlq THEN "dead" ELSE IF m \in discarded THEN "discarded"
                      ELSE IF m \in published THEN "lost" ELSE "new"
      BY DEF status
    <3>6. status'[m] = IF m \in done' THEN "done" ELSE IF Live(m)' THEN "pending"
                       ELSE IF m \in dlq' THEN "dead" ELSE IF m \in discarded' THEN "discarded"
                       ELSE IF m \in published' THEN "lost" ELSE "new"
      BY DEF status
    <3>7. \/ <<status[m], status'[m]>> = <<"new", "pending">>
          \/ status[m] = "pending" /\ status'[m] \in {"done", "dead", "discarded"}
          \/ status[m] = "pending" /\ status'[m] = "lost" /\ Faulted'
      BY <2>4, <3>1, <3>2, <3>3, <3>4, <3>5, <3>6
    <3> QED BY <3>7 DEF Delivery!Moves, Delivery!Final
  <2> QED BY <2>2, <2>3, <2>4 DEF Delivery!Next, Delivery!Progress
<1> QED
  BY <1>1, <1>2, DeliveryInvHolds, PTL DEF Spec, ImplementsDelivery, Delivery!Spec

-----------------------------------------------------------------------------
Queued(m)  == \E c \in queue : c.msg = m
Called(m)  == \E r \in Replicas : \E h \in handlers[r] : h.copy.msg = m
Waiting(m) == \E r \in Replicas : \E h \in timers[r] : h.copy.msg = m

(* m is held once by whatever holds it ... *)
HeldOnce(m) ==
    /\ \A c, d \in queue : c.msg = m /\ d.msg = m => c = d
    /\ \A r, q \in Replicas : \A h \in handlers[r] : \A g \in handlers[q] :
            h.copy.msg = m /\ g.copy.msg = m => r = q /\ h = g
    /\ \A r, q \in Replicas : \A h \in timers[r] : \A g \in timers[q] :
            h.copy.msg = m /\ g.copy.msg = m => r = q /\ h = g

(* ... and held by nothing else. *)
Exclusive(m) ==
    /\ Queued(m) => ~Called(m) /\ ~Waiting(m) /\ ~Settled(m)
    /\ Called(m) => ~Waiting(m) /\ ~Settled(m)
    /\ Waiting(m) => ~Settled(m)
    /\ ~(m \in done /\ m \in dlq) /\ ~(m \in done /\ m \in discarded)
    /\ ~(m \in dlq /\ m \in discarded)

One(m) == HeldOnce(m) /\ Exclusive(m)

OneInv == ~Faulted => \A m \in Msgs : One(m)

(* The step leaves m where it is. *)
Unmoved(m) ==
    /\ \A c : c.msg = m => (c \in queue' <=> c \in queue)
    /\ \A r \in Replicas : \A h : h.copy.msg = m => (h \in handlers'[r] <=> h \in handlers[r])
    /\ \A r \in Replicas : \A h : h.copy.msg = m => (h \in timers'[r] <=> h \in timers[r])
    /\ m \in done' <=> m \in done
    /\ m \in dlq' <=> m \in dlq
    /\ m \in discarded' <=> m \in discarded

LEMMA UnmovedKeepsOne ==
    ASSUME NEW m, One(m), Unmoved(m)
    PROVE  One(m)'
<1>1. Queued(m)' <=> Queued(m)
  BY DEF Unmoved, Queued
<1>2. Called(m)' <=> Called(m)
  BY DEF Unmoved, Called
<1>3. Waiting(m)' <=> Waiting(m)
  BY DEF Unmoved, Waiting
<1>4. Settled(m)' <=> Settled(m)
  BY DEF Unmoved, Settled
<1>5. HeldOnce(m)'
  BY DEF One, Unmoved, HeldOnce
<1>6. Exclusive(m)'
  BY <1>1, <1>2, <1>3, <1>4 DEF One, Unmoved, Exclusive
<1> QED BY <1>5, <1>6 DEF One

(* The places of a payload that is held once by one holder *)
LEMMA SomeHand ==
    ASSUME NEW hands, NEW name, NEW m
    PROVE  InHands(hands, name, m) # {} <=>
             \E r \in Replicas : \E h \in hands[r] : h.copy.msg = m
<1> DEFINE InHand(r) == {<<name, r, h>> : h \in {i \in hands[r] : i.copy.msg = m}}
<1>1. ASSUME NEW r \in Replicas, NEW h \in hands[r], h.copy.msg = m
      PROVE  InHands(hands, name, m) # {}
  <2>1. <<name, r, h>> \in InHand(r) BY <1>1
  <2>2. InHand(r) \subseteq InHands(hands, name, m) BY DEF InHands
  <2> QED BY <2>1, <2>2
<1>2. ASSUME NEW x \in InHands(hands, name, m)
      PROVE  \E r \in Replicas : \E h \in hands[r] : h.copy.msg = m
  <2>1. PICK r \in Replicas : x \in InHand(r) BY DEF InHands
  <2> QED BY <2>1
<1> QED BY <1>1, <1>2

LEMMA OneIsOnePlace ==
    ASSUME NEW m, One(m)
    PROVE  Cardinality(Places(m)) = IF Live(m) \/ Settled(m) THEN 1 ELSE 0
<1> USE DEF One
<1>1. ASSUME NEW a \in Places(m), NEW b \in Places(m)
      PROVE  a = b
  <2>1. \A x \in Places(m) :
          \/ \E c \in queue : c.msg = m /\ x = <<"queue", c>>
          \/ \E r \in Replicas : \E h \in handlers[r] : h.copy.msg = m /\ x = <<"callback", r, h>>
          \/ \E r \in Replicas : \E h \in timers[r] : h.copy.msg = m /\ x = <<"timer", r, h>>
          \/ m \in done /\ x = <<"settled", "done">>
          \/ m \in dlq /\ x = <<"settled", "dlq">>
          \/ m \in discarded /\ x = <<"settled", "discarded">>
    <3> SUFFICES ASSUME NEW x \in Places(m)
                 PROVE
          \/ \E c \in queue : c.msg = m /\ x = <<"queue", c>>
          \/ \E r \in Replicas : \E h \in handlers[r] : h.copy.msg = m /\ x = <<"callback", r, h>>
          \/ \E r \in Replicas : \E h \in timers[r] : h.copy.msg = m /\ x = <<"timer", r, h>>
          \/ m \in done /\ x = <<"settled", "done">>
          \/ m \in dlq /\ x = <<"settled", "dlq">>
          \/ m \in discarded /\ x = <<"settled", "discarded">>
      OBVIOUS
    <3>1. x \in InQueue(m) => \E c \in queue : c.msg = m /\ x = <<"queue", c>>
      BY DEF InQueue
    <3>2. x \in InHands(handlers, "callback", m) =>
            \E r \in Replicas : \E h \in handlers[r] : h.copy.msg = m /\ x = <<"callback", r, h>>
      BY DEF InHands
    <3>3. x \in InHands(timers, "timer", m) =>
            \E r \in Replicas : \E h \in timers[r] : h.copy.msg = m /\ x = <<"timer", r, h>>
      BY DEF InHands
    <3>4. x \in Ends(m) =>
            \/ m \in done /\ x = <<"settled", "done">>
            \/ m \in dlq /\ x = <<"settled", "dlq">>
            \/ m \in discarded /\ x = <<"settled", "discarded">>
      BY DEF Ends
    <3>5. \/ x \in InQueue(m) \/ x \in Ends(m)
          \/ x \in InHands(handlers, "callback", m) \/ x \in InHands(timers, "timer", m)
      BY DEF Places
    <3> QED BY <3>1, <3>2, <3>3, <3>4, <3>5
  <2>2. CASE \E c \in queue : c.msg = m /\ a = <<"queue", c>>
    <3>1. Queued(m) BY <2>2 DEF Queued
    <3>2. ~Called(m) /\ ~Waiting(m) /\ ~Settled(m) BY <3>1 DEF Exclusive
    <3>3. \E c \in queue : c.msg = m /\ b = <<"queue", c>>
      BY <2>1, <3>2 DEF Called, Waiting, Settled
    <3> QED BY <2>2, <3>3 DEF HeldOnce
  <2>3. CASE \E r \in Replicas : \E h \in handlers[r] : h.copy.msg = m /\ a = <<"callback", r, h>>
    <3>1. Called(m) BY <2>3 DEF Called
    <3>2. ~Queued(m) /\ ~Waiting(m) /\ ~Settled(m) BY <3>1 DEF Exclusive
    <3>3. \E r \in Replicas : \E h \in handlers[r] : h.copy.msg = m /\ b = <<"callback", r, h>>
      BY <2>1, <3>2 DEF Queued, Waiting, Settled
    <3> QED BY <2>3, <3>3 DEF HeldOnce
  <2>4. CASE \E r \in Replicas : \E h \in timers[r] : h.copy.msg = m /\ a = <<"timer", r, h>>
    <3>1. Waiting(m) BY <2>4 DEF Waiting
    <3>2. ~Queued(m) /\ ~Called(m) /\ ~Settled(m) BY <3>1 DEF Exclusive
    <3>3. \E r \in Replicas : \E h \in timers[r] : h.copy.msg = m /\ b = <<"timer", r, h>>
      BY <2>1, <3>2 DEF Queued, Called, Settled
    <3> QED BY <2>4, <3>3 DEF HeldOnce
  <2>5. CASE Settled(m)
    <3>1. ~Queued(m) /\ ~Called(m) /\ ~Waiting(m) BY <2>5 DEF Exclusive
    <3>2. \A x \in {a, b} :
          \/ m \in done /\ x = <<"settled", "done">>
          \/ m \in dlq /\ x = <<"settled", "dlq">>
          \/ m \in discarded /\ x = <<"settled", "discarded">>
      BY <2>1, <3>1 DEF Queued, Called, Waiting
    <3> QED BY <3>2 DEF Exclusive
  <2> QED BY <2>1, <2>2, <2>3, <2>4, <2>5 DEF Settled
<1> HIDE DEF Places
<1>2. ASSUME NEW a \in Places(m) PROVE Places(m) = {a}
  BY <1>1
<1>3. Places(m) # {} <=> Live(m) \/ Settled(m)
  <2>1. InQueue(m) # {} <=> Queued(m)
    BY DEF InQueue, Queued
  <2>2. InHands(handlers, "callback", m) # {} <=> Called(m)
    BY SomeHand DEF Called
  <2>3. InHands(timers, "timer", m) # {} <=> Waiting(m)
    BY SomeHand DEF Waiting
  <2>4. Ends(m) # {} <=> Settled(m)
    BY DEF Ends, Settled
  <2>5. Live(m) <=> Queued(m) \/ Called(m) \/ Waiting(m)
    BY DEF Live, Queued, Called, Waiting
  <2> QED BY <2>1, <2>2, <2>3, <2>4, <2>5 DEF Places
<1>4. CASE Live(m) \/ Settled(m)
  <2>1. PICK a : a \in Places(m) BY <1>3, <1>4
  <2>2. Places(m) = {a} BY <1>2, <2>1
  <2>3. Cardinality({a}) = 1 BY FS_Singleton
  <2> QED BY <1>4, <2>2, <2>3
<1>5. CASE ~(Live(m) \/ Settled(m))
  BY <1>3, <1>5, FS_EmptySet
<1> QED BY <1>4, <1>5

(* An undisturbed callback settles its own delivery and nothing else. *)
LEMMA SettleOwn ==
    ASSUME DeliveryInv, ~Faulted, NEW r \in Replicas, NEW h \in handlers[r],
           Ack(r, h.tag), handlers' = Finish(r, h)
    PROVE  /\ queue' = queue /\ h.copy.msg \in Msgs
           /\ \A d \in Held(r, h.tag) : d.copy = h.copy
           /\ Held(r, h.tag) # {}
           /\ \A q \in Replicas : \A g :
                g \in handlers'[q] <=> g \in handlers[q] /\ ~(q = r /\ g = h)
<1> USE DEF DeliveryInv, AttendedInv, TypeInv
<1>1. up[r] /\ Held(r, h.tag) # {}
  BY DEF UndisturbedCallbacks, Held, TypeOK
<1>2. queue' = queue
  BY <1>1 DEF Ack
<1>3. ASSUME NEW d \in Held(r, h.tag) PROVE d.copy = h.copy
  <2>1. PICK g \in handlers[r] : g.tag = h.tag /\ g.copy = d.copy
    BY DEF Held, DeliveriesAttended
  <2> QED BY <2>1 DEF UndisturbedCallbacks
<1>4. h.copy.msg \in Msgs
  BY DEF TypeOK, Invocations, Copies
<1>5. \A q \in Replicas : \A g :
        g \in handlers'[q] <=> g \in handlers[q] /\ ~(q = r /\ g = h)
  BY DEF Finish, TypeOK
<1> QED BY <1>1, <1>2, <1>3, <1>4, <1>5

(* A payload in a callback is nowhere else ... *)
LEMMA OnlyInCallback ==
    ASSUME OneInv, ~Faulted, NEW r \in Replicas, NEW h \in handlers[r], h.copy.msg \in Msgs
    PROVE  /\ \A c \in queue : c.msg # h.copy.msg
           /\ \A q \in Replicas : \A g \in handlers[q] : g.copy.msg = h.copy.msg => q = r /\ g = h
           /\ \A q \in Replicas : \A g \in timers[q] : g.copy.msg # h.copy.msg
           /\ ~Settled(h.copy.msg)
<1>1. One(h.copy.msg) /\ Called(h.copy.msg)
  BY DEF OneInv, Called
<1> QED BY <1>1 DEF One, Exclusive, HeldOnce, Queued, Called, Waiting

(* ... and so is one that waits for its retry, or is queued. *)
LEMMA OnlyInTimer ==
    ASSUME OneInv, ~Faulted, NEW r \in Replicas, NEW h \in timers[r], h.copy.msg \in Msgs
    PROVE  /\ \A c \in queue : c.msg # h.copy.msg
           /\ \A q \in Replicas : \A g \in handlers[q] : g.copy.msg # h.copy.msg
           /\ \A q \in Replicas : \A g \in timers[q] : g.copy.msg = h.copy.msg => q = r /\ g = h
           /\ ~Settled(h.copy.msg)
<1>1. One(h.copy.msg) /\ Waiting(h.copy.msg)
  BY DEF OneInv, Waiting
<1> QED BY <1>1 DEF One, Exclusive, HeldOnce, Queued, Called, Waiting

LEMMA OnlyInQueue ==
    ASSUME OneInv, ~Faulted, NEW c \in queue, c.msg \in Msgs
    PROVE  /\ \A d \in queue : d.msg = c.msg => d = c
           /\ \A q \in Replicas : \A g \in handlers[q] : g.copy.msg # c.msg
           /\ \A q \in Replicas : \A g \in timers[q] : g.copy.msg # c.msg
           /\ ~Settled(c.msg)
<1>1. One(c.msg) /\ Queued(c.msg)
  BY DEF OneInv, Queued
<1> QED BY <1>1 DEF One, Exclusive, HeldOnce, Queued, Called, Waiting

(* What a place is, in the state after a step *)
LEMMA OneQueued ==
    ASSUME NEW m, NEW c, \A d \in queue' : d.msg = m => d = c,
           \A q \in Replicas : \A g \in handlers'[q] : g.copy.msg # m,
           \A q \in Replicas : \A g \in timers'[q] : g.copy.msg # m,
           ~Settled(m)'
    PROVE  One(m)'
BY DEF One, HeldOnce, Exclusive, Queued, Called, Waiting, Settled

LEMMA OneCalled ==
    ASSUME NEW m, \A c \in queue' : c.msg # m,
           \E r, h : \A q \in Replicas : \A g \in handlers'[q] : g.copy.msg = m => q = r /\ g = h,
           \A q \in Replicas : \A g \in timers'[q] : g.copy.msg # m,
           ~Settled(m)'
    PROVE  One(m)'
BY DEF One, HeldOnce, Exclusive, Queued, Called, Waiting, Settled

LEMMA OneWaiting ==
    ASSUME NEW m, \A c \in queue' : c.msg # m,
           \A q \in Replicas : \A g \in handlers'[q] : g.copy.msg # m,
           \E r, h : \A q \in Replicas : \A g \in timers'[q] : g.copy.msg = m => q = r /\ g = h,
           ~Settled(m)'
    PROVE  One(m)'
BY DEF One, HeldOnce, Exclusive, Queued, Called, Waiting, Settled

LEMMA OneSettled ==
    ASSUME NEW m, \A c \in queue' : c.msg # m,
           \A q \in Replicas : \A g \in handlers'[q] : g.copy.msg # m,
           \A q \in Replicas : \A g \in timers'[q] : g.copy.msg # m,
           ~(m \in done' /\ m \in dlq'), ~(m \in done' /\ m \in discarded'),
           ~(m \in dlq' /\ m \in discarded')
    PROVE  One(m)'
BY DEF One, HeldOnce, Exclusive, Queued, Called, Waiting

(* Every step takes one payload from one place to the next, or none. *)
LEMMA OneStep ==
    ASSUME DeliveryInv, OneInv, [Next]_vars
    PROVE  OneInv'
<1> SUFFICES ASSUME ~Faulted', NEW m \in Msgs PROVE One(m)'
  BY DEF OneInv
<1> USE DEF DeliveryInv, AttendedInv, TypeInv
<1>1. ~Faulted
  BY WhereaboutsStep, ConsumerAssumption DEF Whereabouts, OutcomesGrow
<1>2. One(m)
  BY <1>1 DEF OneInv
<1>3. ASSUME NEW n \in Msgs, NEW iss \in Peers, Publish(n, iss)
      PROVE  One(m)'
  <2>1. /\ queue' = queue \cup {Copy(n, 0, iss)} /\ Copy(n, 0, iss).msg = n
        /\ UNCHANGED <<handlers, timers, done, dlq, discarded>> /\ n \notin published
    BY <1>3 DEF Publish, Copy, replica, outcome
  <2>2. CASE m = n
    <3>1. ~Live(m) /\ ~Settled(m)
      BY <2>1, <2>2 DEF Provenance
    <3> QED BY <2>1, <2>2, <3>1, OneQueued DEF Live, Settled
  <2>3. CASE m # n
    <3>1. Unmoved(m) BY <2>1, <2>3 DEF Unmoved
    <3> QED BY <1>2, <3>1, UnmovedKeepsOne
  <2> QED BY <2>2, <2>3
<1>4. ASSUME NEW r \in Replicas, NEW c \in queue, Deliver(r, c)
      PROVE  One(m)'
  <2> DEFINE new == [conn |-> conn[r], tag |-> nextTag[r], copy |-> c, pc |-> "get"]
  <2>1. /\ queue' = queue \ {c} /\ UNCHANGED <<timers, done, dlq, discarded>>
        /\ handlers' = [handlers EXCEPT ![r] = @ \cup {new}] /\ new.copy = c
    BY <1>4 DEF Deliver, outcome
  <2> HIDE DEF new
  <2>2. \A q \in Replicas : \A g : g \in handlers'[q] <=> g \in handlers[q] \/ (q = r /\ g = new)
    BY <2>1 DEF TypeOK
  <2>3. c.msg \in Msgs
    BY DEF TypeOK, Copies
  <2>4. CASE m = c.msg
    <3>1. /\ \A d \in queue' : d.msg # m
          /\ \A q \in Replicas : \A g \in handlers'[q] : g.copy.msg = m => q = r /\ g = new
          /\ \A q \in Replicas : \A g \in timers'[q] : g.copy.msg # m
          /\ ~Settled(m)
      BY <1>1, <2>1, <2>2, <2>3, <2>4, OnlyInQueue
    <3>2. ~Settled(m)' BY <2>1, <3>1 DEF Settled
    <3>3. \E p, i : \A q \in Replicas : \A g \in handlers'[q] : g.copy.msg = m => q = p /\ g = i
      BY <3>1
    <3>4. /\ \A d \in queue' : d.msg # m
          /\ \A q \in Replicas : \A g \in timers'[q] : g.copy.msg # m
      BY <3>1
    <3> QED BY <3>2, <3>3, <3>4, OneCalled
  <2>5. CASE m # c.msg
    <3>1. Unmoved(m) BY <2>1, <2>2, <2>5 DEF Unmoved
    <3> QED BY <1>2, <3>1, UnmovedKeepsOne
  <2> QED BY <2>4, <2>5
<1>5. ASSUME NEW r \in Replicas, NEW c \in queue, DeliverRejected(r, c)
      PROVE  One(m)'
  <2>1. /\ queue' = queue \ {c} /\ UNCHANGED <<handlers, timers, done, discarded>>
        /\ dlq' = dlq \cup {c.msg}
    BY <1>5 DEF DeliverRejected, outcome
  <2>2. c.msg \in Msgs
    BY DEF TypeOK, Copies
  <2>3. CASE m = c.msg
    BY <1>1, <2>1, <2>2, <2>3, OnlyInQueue, OneSettled DEF Settled
  <2>4. CASE m # c.msg
    <3>1. Unmoved(m) BY <2>1, <2>4 DEF Unmoved
    <3> QED BY <1>2, <3>1, UnmovedKeepsOne
  <2> QED BY <2>3, <2>4
<1>6. ASSUME NEW r \in Replicas, NEW h \in handlers[r], NEW pc \in {"set", "run"},
             handlers' = Become(r, h, pc), UNCHANGED <<queue, timers, done, dlq, discarded>>
      PROVE  One(m)'
  <2> DEFINE new == [h EXCEPT !.pc = pc]
  <2>1. new.copy = h.copy /\ h.copy.msg \in Msgs
    BY DEF TypeOK, Invocations, Copies
  <2>2. handlers' = [handlers EXCEPT ![r] = (@ \ {h}) \cup {new}]
    BY <1>6 DEF Become
  <2> HIDE DEF new
  <2>3. \A q \in Replicas : \A g : g \in handlers'[q] <=>
          (g \in handlers[q] /\ ~(q = r /\ g = h)) \/ (q = r /\ g = new)
    BY <2>2 DEF TypeOK
  <2>4. CASE m = h.copy.msg
    <3>1. \A q \in Replicas : \A g \in handlers'[q] : g.copy.msg = m => q = r /\ g = new
      BY <1>1, <2>1, <2>3, <2>4, OnlyInCallback
    <3>2. \A c \in queue' : c.msg # m
      BY <1>1, <1>6, <2>1, <2>4, OnlyInCallback
    <3>3. \A q \in Replicas : \A g \in timers'[q] : g.copy.msg # m
      BY <1>1, <1>6, <2>1, <2>4, OnlyInCallback
    <3>4. ~Settled(m)'
      BY <1>1, <1>6, <2>1, <2>4, OnlyInCallback DEF Settled
    <3>5. \E p, i : \A q \in Replicas : \A g \in handlers'[q] : g.copy.msg = m => q = p /\ g = i
      BY <3>1
    <3> QED BY <3>2, <3>3, <3>4, <3>5, OneCalled
  <2>5. CASE m # h.copy.msg
    <3>1. Unmoved(m) BY <1>6, <2>1, <2>3, <2>5 DEF Unmoved
    <3> QED BY <1>2, <3>1, UnmovedKeepsOne
  <2> QED BY <2>4, <2>5
<1>7. ASSUME NEW r \in Replicas, NEW h \in handlers[r], Ack(r, h.tag), handlers' = Finish(r, h),
             UNCHANGED timers,
             \E d, e, f \in SUBSET {h.copy.msg} :
               /\ done' = done \cup d /\ dlq' = dlq \cup e /\ discarded' = discarded \cup f
               /\ (d = {} /\ e = {}) \/ (d = {} /\ f = {}) \/ (e = {} /\ f = {})
      PROVE  One(m)'
  <2>1. /\ queue' = queue /\ h.copy.msg \in Msgs
        /\ \A q \in Replicas : \A g : g \in handlers'[q] <=> g \in handlers[q] /\ ~(q = r /\ g = h)
    BY <1>1, <1>7, SettleOwn
  <2>2. CASE m = h.copy.msg
    <3>1. /\ ~Settled(m) /\ \A c \in queue' : c.msg # m
          /\ \A q \in Replicas : \A g \in handlers'[q] : g.copy.msg # m
          /\ \A q \in Replicas : \A g \in timers'[q] : g.copy.msg # m
      BY <1>1, <1>7, <2>1, <2>2, OnlyInCallback
    <3>2. /\ ~(m \in done' /\ m \in dlq') /\ ~(m \in done' /\ m \in discarded')
          /\ ~(m \in dlq' /\ m \in discarded')
      BY <1>7, <3>1 DEF Settled
    <3> QED BY <3>1, <3>2, OneSettled
  <2>3. CASE m # h.copy.msg
    <3>1. (m \in done' <=> m \in done) /\ (m \in dlq' <=> m \in dlq)
            /\ (m \in discarded' <=> m \in discarded)
      BY <1>7, <2>3
    <3>2. Unmoved(m) BY <1>7, <2>1, <2>3, <3>1 DEF Unmoved
    <3> QED BY <1>2, <3>2, UnmovedKeepsOne
  <2> QED BY <2>2, <2>3
<1>8. ASSUME NEW r \in Replicas, NEW h \in handlers[r],
             JtiUnseen(r, h) \/ StartHandler(r, h)
      PROVE  One(m)'
  BY <1>6, <1>8 DEF JtiUnseen, StartHandler, broker, outcome
<1>9. ASSUME NEW r \in Replicas, NEW h \in handlers[r], JtiReplayed(r, h)
      PROVE  One(m)'
  <2>1. /\ Ack(r, h.tag) /\ handlers' = Finish(r, h) /\ UNCHANGED <<timers, done, discarded>>
        /\ dlq' = dlq \cup {d.copy.msg : d \in Held(r, h.tag)}
    BY <1>9 DEF JtiReplayed, Nack, outcome
  <2>2. {d.copy.msg : d \in Held(r, h.tag)} \in SUBSET {h.copy.msg}
    BY <1>1, <2>1, SettleOwn
  <2>3. \E d, e, f \in SUBSET {h.copy.msg} :
          /\ done' = done \cup d /\ dlq' = dlq \cup e /\ discarded' = discarded \cup f
          /\ (d = {} /\ e = {}) \/ (d = {} /\ f = {}) \/ (e = {} /\ f = {})
    <3>1. done' = done \cup {} /\ discarded' = discarded \cup {}
      BY <2>1
    <3> QED BY <2>1, <2>2, <3>1
  <2> QED BY <1>7, <2>1, <2>3
<1>10. ASSUME NEW r \in Replicas, NEW h \in handlers[r],
              DiscardUnparsable(r, h) \/ HandlerReturns(r, h) \/ DeadLetter(r, h)
       PROVE  One(m)'
  <2>1. Ack(r, h.tag) /\ handlers' = Finish(r, h) /\ UNCHANGED timers
    BY <1>10 DEF DiscardUnparsable, HandlerReturns, DeadLetter
  <2>2. CASE DiscardUnparsable(r, h)
    <3>1. done' = done \cup {} /\ dlq' = dlq \cup {} /\ discarded' = discarded \cup {h.copy.msg}
      BY <2>2 DEF DiscardUnparsable
    <3> QED BY <1>7, <2>1, <3>1
  <2>3. CASE HandlerReturns(r, h)
    <3>1. done' = done \cup {h.copy.msg} /\ dlq' = dlq \cup {} /\ discarded' = discarded \cup {}
      BY <2>3 DEF HandlerReturns
    <3> QED BY <1>7, <2>1, <3>1
  <2>4. CASE DeadLetter(r, h)
    <3>1. /\ done' = done \cup {} /\ discarded' = discarded \cup {}
          /\ dlq' = dlq \cup {h.copy.msg} \/ dlq' = dlq \cup {}
      BY <2>4 DEF DeadLetter, outcome
    <3> QED BY <1>7, <2>1, <3>1
  <2> QED BY <1>10, <2>2, <2>3, <2>4
<1>11. ASSUME NEW r \in Replicas, NEW h \in handlers[r], ScheduleRetry(r, h)
       PROVE  One(m)'
  <2>1. /\ Ack(r, h.tag) /\ handlers' = Finish(r, h) /\ UNCHANGED <<done, dlq, discarded>>
        /\ timers' = [timers EXCEPT ![r] = @ \cup {h}]
    BY <1>11 DEF ScheduleRetry, outcome
  <2>2. /\ queue' = queue /\ h.copy.msg \in Msgs
        /\ \A q \in Replicas : \A g : g \in handlers'[q] <=> g \in handlers[q] /\ ~(q = r /\ g = h)
    BY <1>1, <2>1, SettleOwn
  <2>3. \A q \in Replicas : \A g : g \in timers'[q] <=> g \in timers[q] \/ (q = r /\ g = h)
    BY <2>1 DEF TypeOK
  <2>4. CASE m = h.copy.msg
    <3>1. /\ \A c \in queue' : c.msg # m
          /\ \A q \in Replicas : \A g \in handlers'[q] : g.copy.msg # m
          /\ \A q \in Replicas : \A g \in timers'[q] : g.copy.msg = m => q = r /\ g = h
          /\ ~Settled(m)
      BY <1>1, <2>2, <2>3, <2>4, OnlyInCallback
    <3>2. ~Settled(m)' BY <2>1, <3>1 DEF Settled
    <3>3. \E p, i : \A q \in Replicas : \A g \in timers'[q] : g.copy.msg = m => q = p /\ g = i
      BY <3>1
    <3>4. /\ \A c \in queue' : c.msg # m
          /\ \A q \in Replicas : \A g \in handlers'[q] : g.copy.msg # m
      BY <3>1
    <3> QED BY <3>2, <3>3, <3>4, OneWaiting
  <2>5. CASE m # h.copy.msg
    <3>1. Unmoved(m) BY <2>1, <2>2, <2>3, <2>5 DEF Unmoved
    <3> QED BY <1>2, <3>1, UnmovedKeepsOne
  <2> QED BY <2>4, <2>5
<1>12. ASSUME NEW r \in Replicas, NEW h \in timers[r], RetryFires(r, h)
       PROVE  One(m)'
  <2> DEFINE again == Copy(h.copy.msg, h.copy.retry + 1, Self)
  <2>1. /\ timers' = [timers EXCEPT ![r] = @ \ {h}] /\ again.msg = h.copy.msg
        /\ queue' = queue \cup {again} \/ queue' = queue
        /\ UNCHANGED <<handlers, done, dlq, discarded>>
    BY <1>12 DEF RetryFires, Copy, outcome
  <2> HIDE DEF again
  <2>2. \A q \in Replicas : \A g : g \in timers'[q] <=> g \in timers[q] /\ ~(q = r /\ g = h)
    BY <2>1 DEF TypeOK
  <2>3. h.copy.msg \in Msgs
    BY DEF TypeOK, Invocations, Copies
  <2>4. CASE m = h.copy.msg
    <3>1. /\ \A c \in queue' : c.msg = m => c = again
          /\ \A q \in Replicas : \A g \in handlers'[q] : g.copy.msg # m
          /\ \A q \in Replicas : \A g \in timers'[q] : g.copy.msg # m
          /\ ~Settled(m)
      BY <1>1, <2>1, <2>2, <2>3, <2>4, OnlyInTimer
    <3> QED BY <2>1, <3>1, OneQueued DEF Settled
  <2>5. CASE m # h.copy.msg
    <3>1. Unmoved(m) BY <2>1, <2>2, <2>5 DEF Unmoved
    <3> QED BY <1>2, <3>1, UnmovedKeepsOne
  <2> QED BY <2>4, <2>5
<1>13. ASSUME NEW r \in Replicas, Drop(r) \/ Crash(r)
       PROVE  One(m)'
  BY <1>13, FaultsCount DEF Drop, Crash
<1>14. ASSUME UNCHANGED <<queue, handlers, timers, done, dlq, discarded>>
       PROVE  One(m)'
  <2>1. Unmoved(m) BY <1>14 DEF Unmoved
  <2> QED BY <1>2, <2>1, UnmovedKeepsOne
<1>15. ASSUME \/ \E j \in 0 .. (nextJti - 1) : TokenExpires(j)
              \/ \E r \in Replicas : Connect(r)
              \/ UNCHANGED vars
       PROVE  One(m)'
  BY <1>14, <1>15 DEF TokenExpires, Connect, vars, broker, replica, outcome
<1> HIDE DEF DeliveryInv, AttendedInv, TypeInv
<1> QED
  BY <1>3, <1>4, <1>5, <1>8, <1>9, <1>10, <1>11, <1>12, <1>13, <1>15
  DEF Next, Consume, Verify, Handle, Settle, FireRetry

LEMMA OneInvHolds == Spec => []OneInv
<1>1. Init => OneInv
  BY DEF Init, OneInv, One, HeldOnce, Exclusive, Queued, Called, Waiting, Settled
<1>2. DeliveryInv /\ OneInv /\ [Next]_vars => OneInv'
  BY OneStep
<1> QED BY <1>1, <1>2, DeliveryInvHolds, PTL DEF Spec

(* As long as no connection and no process has failed, a published payload *)
(* is in exactly one place: in the queue, in a callback, waiting for its   *)
(* retry, handled, dead-lettered or discarded, and it is there once.       *)
THEOREM InOnePlaceWithoutFault == Spec => []OnePlaceWithoutFault
<1>1. DeliveryInv /\ OneInv => OnePlaceWithoutFault
  BY OneIsOnePlace DEF DeliveryInv, Provenance, NoLossWithoutFault, OneInv, OnePlaceWithoutFault
<1> QED BY <1>1, DeliveryInvHolds, OneInvHolds, PTL

-----------------------------------------------------------------------------
(* Every copy has a token of its own, and until its callback has written   *)
(* the jti to the blacklist it is not there.                               *)
Unverified(r) == {h \in handlers[r] : h.pc # "run"}

Fresh ==
    /\ \A j \in seen : j < nextJti
    /\ \A c \in queue : c.jti < nextJti /\ c.jti \notin seen
    /\ \A r \in Replicas : \A h \in Unverified(r) : h.copy.jti < nextJti /\ h.copy.jti \notin seen
    /\ \A c, d \in queue : c.jti = d.jti => c = d
    /\ \A c \in queue : \A r \in Replicas : \A h \in Unverified(r) : c.jti # h.copy.jti
    /\ \A r, q \in Replicas : \A h \in Unverified(r) : \A g \in Unverified(q) :
            h.copy.jti = g.copy.jti => r = q /\ h = g

FreshInv == ~Faulted => Fresh

LEMMA FreshStep ==
    ASSUME DeliveryInv, FreshInv, [Next]_vars
    PROVE  FreshInv'
<1> SUFFICES ASSUME ~Faulted' PROVE Fresh'
  BY DEF FreshInv
<1> USE DEF DeliveryInv, AttendedInv, TypeInv
<1>1. ~Faulted /\ Fresh
  BY WhereaboutsStep, ConsumerAssumption DEF Whereabouts, OutcomesGrow, FreshInv
<1>2. /\ nextJti \in Nat /\ \A c \in queue : c.jti \in Nat
      /\ \A j \in seen : j \in Nat
      /\ \A r \in Replicas : \A h \in Unverified(r) : h.copy.jti \in Nat
  BY DEF TypeOK, Copies, Invocations, Unverified
<1>3. ASSUME NEW new, new.jti = nextJti, queue' = queue \cup {new}, nextJti' = nextJti + 1,
             UNCHANGED <<seen, handlers>>
      PROVE  Fresh'
  <2>1. \A r \in Replicas : Unverified(r)' = Unverified(r)
    BY <1>3 DEF Unverified
  <2>2. \A c \in queue : c.jti < nextJti' /\ c.jti # new.jti
    BY <1>1, <1>2, <1>3 DEF Fresh
  <2>3. \A r \in Replicas : \A h \in Unverified(r) : h.copy.jti < nextJti' /\ h.copy.jti # new.jti
    BY <1>1, <1>2, <1>3 DEF Fresh
  <2>4. \A j \in seen : j < nextJti' /\ j # new.jti
    BY <1>1, <1>2, <1>3 DEF Fresh
  <2>5. new.jti < nextJti'
    BY <1>2, <1>3
  <2> QED BY <1>1, <1>3, <2>1, <2>2, <2>3, <2>4, <2>5 DEF Fresh
<1>4. ASSUME queue' \subseteq queue, UNCHANGED <<seen, nextJti>>,
             \A r \in Replicas : Unverified(r)' \subseteq Unverified(r)
      PROVE  Fresh'
  BY <1>1, <1>4 DEF Fresh
<1>5. ASSUME NEW r \in Replicas, NEW c \in queue, Deliver(r, c)
      PROVE  Fresh'
  <2> DEFINE new == [conn |-> conn[r], tag |-> nextTag[r], copy |-> c, pc |-> "get"]
  <2>1. /\ queue' = queue \ {c} /\ UNCHANGED <<seen, nextJti>>
        /\ handlers' = [handlers EXCEPT ![r] = @ \cup {new}] /\ new.copy = c
    BY <1>5 DEF Deliver
  <2> HIDE DEF new
  <2>2. \A q \in Replicas : \A g \in Unverified(q)' : g \in Unverified(q) \/ (q = r /\ g = new)
    BY <2>1 DEF TypeOK, Unverified
  <2>3. \A q \in Replicas : \A g \in Unverified(q) : g.copy.jti # c.jti
    BY <1>1 DEF Fresh
  <2>4. \A d \in queue' : d \in queue /\ d.jti # c.jti
    BY <1>1, <2>1 DEF Fresh
  <2> QED BY <1>1, <2>1, <2>2, <2>3, <2>4 DEF Fresh
<1>6. ASSUME NEW r \in Replicas, NEW h \in handlers[r], h.pc = "get",
             handlers' = Become(r, h, "set"), UNCHANGED <<queue, seen, nextJti>>
      PROVE  Fresh'
  <2> DEFINE new == [h EXCEPT !.pc = "set"]
  <2>1. new.copy = h.copy
    BY DEF TypeOK, Invocations, Copies
  <2>2. handlers' = [handlers EXCEPT ![r] = (@ \ {h}) \cup {new}]
    BY <1>6 DEF Become
  <2> HIDE DEF new
  <2>3. h \in Unverified(r)
    BY <1>6 DEF Unverified
  <2>4. \A q \in Replicas : \A g \in Unverified(q)' :
          (g \in Unverified(q) /\ ~(q = r /\ g = h)) \/ (q = r /\ g = new)
    BY <2>2 DEF TypeOK, Unverified
  <2>5. \A q \in Replicas : \A g \in Unverified(q) : ~(q = r /\ g = h) => g.copy.jti # h.copy.jti
    BY <1>1, <2>3 DEF Fresh
  <2> QED BY <1>1, <1>6, <2>1, <2>3, <2>4, <2>5 DEF Fresh
<1>7. ASSUME NEW r \in Replicas, NEW h \in handlers[r], h.pc = "set",
             seen' = seen \cup {h.copy.jti}, UNCHANGED <<queue, nextJti>>,
             \A q \in Replicas : \A g \in Unverified(q)' : g \in Unverified(q) /\ ~(q = r /\ g = h)
      PROVE  Fresh'
  <2>1. h \in Unverified(r)
    BY <1>7 DEF Unverified
  <2>2. \A q \in Replicas : \A g \in Unverified(q)' : g.copy.jti # h.copy.jti
    BY <1>1, <1>7, <2>1 DEF Fresh
  <2>3. \A c \in queue : c.jti # h.copy.jti
    BY <1>1, <2>1 DEF Fresh
  <2> QED BY <1>1, <1>7, <2>1, <2>2, <2>3 DEF Fresh
<1>8. ASSUME NEW m \in Msgs, NEW iss \in Peers, Publish(m, iss)
      PROVE  Fresh'
  <2>1. Copy(m, 0, iss).jti = nextJti
    BY DEF Copy
  <2> QED BY <1>3, <1>8, <2>1 DEF Publish, replica
<1>9. ASSUME NEW r \in Replicas, NEW h \in timers[r], RetryFires(r, h)
      PROVE  Fresh'
  <2>1. Copy(h.copy.msg, h.copy.retry + 1, Self).jti = nextJti
    BY DEF Copy
  <2>2. CASE up[r]
    BY <1>3, <1>9, <2>1, <2>2 DEF RetryFires
  <2>3. CASE ~up[r]
    BY <1>4, <1>9, <2>3 DEF RetryFires, Unverified
  <2> QED BY <2>2, <2>3
<1>10. ASSUME NEW r \in Replicas, NEW h \in handlers[r], StartHandler(r, h)
       PROVE  Fresh'
  <2> DEFINE new == [h EXCEPT !.pc = "run"]
  <2>1. new.pc = "run"
    BY DEF TypeOK, Invocations
  <2>2. handlers' = [handlers EXCEPT ![r] = (@ \ {h}) \cup {new}]
    BY <1>10 DEF StartHandler, Become
  <2> HIDE DEF new
  <2>3. \A q \in Replicas : \A g \in Unverified(q)' : g \in Unverified(q) /\ ~(q = r /\ g = h)
    BY <2>1, <2>2 DEF TypeOK, Unverified
  <2> QED BY <1>7, <1>10, <2>3 DEF StartHandler
<1>11. ASSUME NEW r \in Replicas, NEW h \in handlers[r], Ack(r, h.tag), handlers' = Finish(r, h)
       PROVE  /\ queue' = queue
              /\ \A q \in Replicas : \A g \in Unverified(q)' :
                    g \in Unverified(q) /\ ~(q = r /\ g = h)
  BY <1>1, <1>11, SettleOwn DEF Unverified
<1>12. ASSUME NEW r \in Replicas, NEW h \in handlers[r], DiscardUnparsable(r, h)
       PROVE  Fresh'
  BY <1>7, <1>11, <1>12 DEF DiscardUnparsable
<1>13. ASSUME NEW r \in Replicas, NEW h \in handlers[r],
              \/ JtiReplayed(r, h) \/ HandlerReturns(r, h)
              \/ ScheduleRetry(r, h) \/ DeadLetter(r, h)
       PROVE  Fresh'
  <2>1. Ack(r, h.tag) /\ handlers' = Finish(r, h) /\ UNCHANGED <<seen, nextJti>>
    BY <1>13 DEF JtiReplayed, Nack, HandlerReturns, ScheduleRetry, DeadLetter
  <2> QED BY <1>4, <1>11, <2>1
<1>14. ASSUME NEW r \in Replicas, NEW c \in queue, DeliverRejected(r, c)
       PROVE  Fresh'
  BY <1>4, <1>14 DEF DeliverRejected, Unverified
<1>15. ASSUME NEW r \in Replicas, Drop(r) \/ Crash(r)
       PROVE  Fresh'
  BY <1>15, FaultsCount DEF Drop, Crash
<1>16. ASSUME NEW r \in Replicas, NEW h \in handlers[r], JtiUnseen(r, h)
       PROVE  Fresh'
  BY <1>6, <1>16 DEF JtiUnseen, broker
<1>17. ASSUME \/ \E j \in 0 .. (nextJti - 1) : TokenExpires(j)
              \/ \E r \in Replicas : Connect(r)
              \/ UNCHANGED vars
       PROVE  Fresh'
  BY <1>4, <1>17 DEF TokenExpires, Connect, vars, broker, replica, outcome, Unverified
<1> HIDE DEF DeliveryInv, AttendedInv, TypeInv
<1> QED
  BY <1>5, <1>8, <1>9, <1>10, <1>12, <1>13, <1>14, <1>15, <1>16, <1>17
  DEF Next, Consume, Verify, Handle, Settle, FireRetry

(* The x-retry-count of the one copy of a payload counts the calls of its  *)
(* handler, the dead-lettered ones have had all or none of them, and only  *)
(* the service itself has signed copies with a count.                      *)
Counts ==
    /\ \A m \in Msgs \ published : attempts[m] = 0
    /\ \A c \in queue : attempts[c.msg] = c.retry /\ (c.retry > 0 => c.iss = Self)
    /\ \A r \in Replicas : \A h \in handlers[r] :
            attempts[h.copy.msg] = IF h.pc = "run" THEN h.copy.retry + 1 ELSE h.copy.retry
    /\ \A r \in Replicas : \A h \in timers[r] : attempts[h.copy.msg] = h.copy.retry + 1
    /\ \A m \in dlq : attempts[m] > 0 => attempts[m] = MaxRetries + 1

CountInv == ~Faulted /\ expired = {} => Counts

LEMMA CountStep ==
    ASSUME Self \in Trusted, DeliveryInv, OneInv, FreshInv, CountInv, [Next]_vars
    PROVE  CountInv'
<1> SUFFICES ASSUME ~Faulted', expired' = {} PROVE Counts'
  BY DEF CountInv
<1> USE DEF DeliveryInv, AttendedInv, TypeInv
<1>1. ~Faulted
  BY WhereaboutsStep, ConsumerAssumption DEF Whereabouts, OutcomesGrow
<1>2. ASSUME NEW j \in 0 .. (nextJti - 1), TokenExpires(j)
      PROVE  Counts'
  BY <1>2 DEF TokenExpires
<1> SUFFICES ASSUME expired = {}, ~\E j \in 0 .. (nextJti - 1) : TokenExpires(j)
             PROVE  Counts'
  <2>1. expired # {} => \E j \in 0 .. (nextJti - 1) : TokenExpires(j)
    BY DEF Next, vars, broker, Publish, Connect, Consume, Deliver, DeliverRejected, Verify,
           JtiUnseen, JtiReplayed, Handle, StartHandler, DiscardUnparsable, Settle, HandlerReturns,
           ScheduleRetry, DeadLetter, FireRetry, RetryFires, Drop, Crash
  <2> QED BY <1>2, <2>1
<1>3. Counts /\ Fresh
  BY <1>1 DEF CountInv, FreshInv
<1>4. /\ attempts \in [Msgs -> Nat]
      /\ \A c \in queue : c.msg \in Msgs /\ c.retry \in 0 .. MaxRetries
      /\ \A r \in Replicas : \A h \in handlers[r] \cup timers[r] :
            h.copy.msg \in Msgs /\ h.copy.retry \in 0 .. MaxRetries
      /\ dlq \subseteq Msgs
  BY DEF TypeOK, Copies, Invocations
<1>5. ASSUME UNCHANGED attempts, published \subseteq published', queue' \subseteq queue,
             \A r \in Replicas : handlers'[r] \subseteq handlers[r],
             \A r \in Replicas : timers'[r] \subseteq timers[r],
             \A m \in dlq' \ dlq : attempts[m] > 0 => attempts[m] = MaxRetries + 1
      PROVE  Counts'
  BY <1>3, <1>5 DEF Counts
<1>6. ASSUME NEW m \in Msgs, NEW iss \in Peers, Publish(m, iss)
      PROVE  Counts'
  <2>1. /\ queue' = queue \cup {Copy(m, 0, iss)}
        /\ UNCHANGED <<handlers, timers, dlq, attempts>> /\ published' = published \cup {m}
        /\ attempts[m] = 0
    BY <1>3, <1>6 DEF Publish, replica, outcome, Counts
  <2>2. Copy(m, 0, iss).msg = m /\ Copy(m, 0, iss).retry = 0
    BY DEF Copy
  <2> QED BY <1>3, <2>1, <2>2 DEF Counts
<1>7. ASSUME NEW r \in Replicas, NEW c \in queue, Deliver(r, c)
      PROVE  Counts'
  <2> DEFINE new == [conn |-> conn[r], tag |-> nextTag[r], copy |-> c, pc |-> "get"]
  <2>1. /\ queue' = queue \ {c} /\ UNCHANGED <<published, timers, dlq, attempts>>
        /\ handlers' = [handlers EXCEPT ![r] = @ \cup {new}] /\ new.copy = c /\ new.pc = "get"
    BY <1>7 DEF Deliver, outcome
  <2> HIDE DEF new
  <2>2. \A q \in Replicas : \A g \in handlers'[q] : g \in handlers[q] \/ g = new
    BY <2>1 DEF TypeOK
  <2>3. attempts[new.copy.msg] = new.copy.retry
    BY <1>3, <2>1 DEF Counts
  <2> QED BY <1>3, <2>1, <2>2, <2>3 DEF Counts
<1>8. ASSUME NEW r \in Replicas, NEW c \in queue, DeliverRejected(r, c)
      PROVE  Counts'
  <2>1. /\ queue' \subseteq queue /\ dlq' = dlq \cup {c.msg}
        /\ UNCHANGED <<published, handlers, timers, attempts>>
    BY <1>8 DEF DeliverRejected, outcome
  <2>2. c.iss # Self
    BY <1>8 DEF DeliverRejected, Acceptable
  <2>3. attempts[c.msg] = 0
    BY <1>3, <1>4, <2>2, ConsumerAssumption DEF Counts
  <2> QED BY <1>5, <2>1, <2>3
<1>9. ASSUME NEW r \in Replicas, NEW h \in handlers[r], JtiUnseen(r, h)
      PROVE  Counts'
  <2> DEFINE new == [h EXCEPT !.pc = "set"]
  <2>1. new.copy = h.copy /\ new.pc = "set" /\ h.pc = "get"
    BY <1>9 DEF TypeOK, Invocations, JtiUnseen
  <2>2. /\ handlers' = [handlers EXCEPT ![r] = (@ \ {h}) \cup {new}]
        /\ UNCHANGED <<published, queue, timers, dlq, attempts>>
    BY <1>9 DEF JtiUnseen, Become, broker, outcome
  <2> HIDE DEF new
  <2>3. \A q \in Replicas : \A g \in handlers'[q] : g \in handlers[q] \/ g = new
    BY <2>2 DEF TypeOK
  <2>4. attempts[new.copy.msg] = new.copy.retry
    BY <1>3, <2>1 DEF Counts
  <2> QED BY <1>3, <2>1, <2>2, <2>3, <2>4 DEF Counts
<1>10. ASSUME NEW r \in Replicas, NEW h \in handlers[r], JtiReplayed(r, h)
       PROVE  Counts'
  BY <1>3, <1>10 DEF JtiReplayed, Fresh, Unverified
<1>11. ASSUME NEW r \in Replicas, NEW h \in handlers[r], StartHandler(r, h)
       PROVE  Counts'
  <2> DEFINE new == [h EXCEPT !.pc = "run"]
             m == h.copy.msg
  <2>1. new.copy = h.copy /\ new.pc = "run" /\ h.pc = "set"
    BY <1>11 DEF TypeOK, Invocations, StartHandler
  <2>2. /\ handlers' = [handlers EXCEPT ![r] = (@ \ {h}) \cup {new}]
        /\ UNCHANGED <<published, queue, timers, dlq>>
        /\ attempts' = [attempts EXCEPT ![m] = @ + 1]
    BY <1>11 DEF StartHandler, Become
  <2>3. m \in Msgs /\ attempts[m] = h.copy.retry
    BY <1>3, <1>4, <2>1 DEF Counts
  <2> HIDE DEF new
  <2>4. \A q \in Replicas : \A g \in handlers'[q] :
          (g \in handlers[q] /\ ~(q = r /\ g = h)) \/ g = new
    BY <2>2 DEF TypeOK
  <2>5. /\ \A c \in queue : c.msg # m
        /\ \A q \in Replicas : \A g \in handlers[q] : g.copy.msg = m => q = r /\ g = h
        /\ \A q \in Replicas : \A g \in timers[q] : g.copy.msg # m
        /\ m \notin dlq
    BY <1>1, <2>3, OnlyInCallback DEF Settled
  <2>6. m \in published
    BY <2>3 DEF Provenance, Live
  <2>7. attempts'[m] = h.copy.retry + 1 /\ \A n \in Msgs \ {m} : attempts'[n] = attempts[n]
    BY <1>4, <2>2, <2>3
  <2> HIDE DEF m
  <2>8. \A n \in Msgs \ published' : attempts'[n] = 0
    BY <1>3, <2>2, <2>6, <2>7 DEF Counts
  <2>9. \A c \in queue' : attempts'[c.msg] = c.retry /\ (c.retry > 0 => c.iss = Self)
    BY <1>3, <1>4, <2>2, <2>5, <2>7 DEF Counts
  <2>10. ASSUME NEW q \in Replicas, NEW g \in handlers'[q]
         PROVE  attempts'[g.copy.msg] = IF g.pc = "run" THEN g.copy.retry + 1 ELSE g.copy.retry
    <3>1. CASE g = new
      BY <2>1, <2>7, <3>1 DEF m
    <3>2. CASE g \in handlers[q] /\ ~(q = r /\ g = h)
      BY <1>3, <1>4, <2>5, <2>7, <3>2 DEF Counts
    <3> QED BY <2>4, <3>1, <3>2
  <2>11. \A q \in Replicas : \A g \in timers'[q] : attempts'[g.copy.msg] = g.copy.retry + 1
    BY <1>3, <1>4, <2>2, <2>5, <2>7 DEF Counts
  <2>12. \A n \in dlq' : attempts'[n] > 0 => attempts'[n] = MaxRetries + 1
    BY <1>3, <1>4, <2>2, <2>5, <2>7 DEF Counts
  <2> QED BY <2>8, <2>9, <2>10, <2>11, <2>12 DEF Counts
<1>12. ASSUME NEW r \in Replicas, NEW h \in handlers[r], Ack(r, h.tag), handlers' = Finish(r, h)
       PROVE  queue' = queue /\ \A q \in Replicas : handlers'[q] \subseteq handlers[q]
  BY <1>1, <1>12, SettleOwn
<1>13. ASSUME NEW r \in Replicas, NEW h \in handlers[r],
              DiscardUnparsable(r, h) \/ HandlerReturns(r, h) \/ DeadLetter(r, h)
       PROVE  Counts'
  <2>1. /\ Ack(r, h.tag) /\ handlers' = Finish(r, h)
        /\ UNCHANGED <<published, timers, attempts>>
    BY <1>13 DEF DiscardUnparsable, HandlerReturns, DeadLetter, outcome
  <2>2. CASE DiscardUnparsable(r, h) \/ HandlerReturns(r, h)
    <3>1. dlq' = dlq
      BY <2>2 DEF DiscardUnparsable, HandlerReturns
    <3> QED BY <1>5, <1>12, <2>1, <3>1
  <2>3. CASE DeadLetter(r, h)
    <3>1. h.pc = "run" /\ h.copy.retry >= MaxRetries /\ dlq' \subseteq dlq \cup {h.copy.msg}
      BY <1>4, <2>3, ConsumerAssumption DEF DeadLetter, RetriesRemain
    <3>2. attempts[h.copy.msg] = MaxRetries + 1
      BY <1>3, <1>4, <3>1, ConsumerAssumption DEF Counts
    <3> QED BY <1>5, <1>12, <2>1, <3>1, <3>2
  <2> QED BY <1>13, <2>2, <2>3
<1>14. ASSUME NEW r \in Replicas, NEW h \in handlers[r], ScheduleRetry(r, h)
       PROVE  Counts'
  <2>1. /\ Ack(r, h.tag) /\ handlers' = Finish(r, h) /\ h.pc = "run"
        /\ timers' = [timers EXCEPT ![r] = @ \cup {h}]
        /\ UNCHANGED <<published, dlq, attempts>>
    BY <1>14 DEF ScheduleRetry, outcome
  <2>2. \A q \in Replicas : \A g \in timers'[q] : g \in timers[q] \/ g = h
    BY <2>1 DEF TypeOK
  <2>3. attempts[h.copy.msg] = h.copy.retry + 1
    BY <1>3, <2>1 DEF Counts
  <2>4. queue' = queue /\ \A q \in Replicas : handlers'[q] \subseteq handlers[q]
    BY <1>12, <2>1
  <2> QED BY <1>3, <2>1, <2>2, <2>3, <2>4 DEF Counts
<1>15. ASSUME NEW r \in Replicas, NEW h \in timers[r], RetryFires(r, h)
       PROVE  Counts'
  <2> DEFINE again == Copy(h.copy.msg, h.copy.retry + 1, Self)
  <2>1. /\ \A c \in queue' : c \in queue \/ c = again
        /\ UNCHANGED <<published, handlers, dlq, attempts>>
        /\ again.msg = h.copy.msg /\ again.retry = h.copy.retry + 1 /\ again.iss = Self
    BY <1>15 DEF RetryFires, Copy, outcome
  <2> HIDE DEF again
  <2>2. \A q \in Replicas : timers'[q] \subseteq timers[q]
    BY <1>15 DEF RetryFires, TypeOK
  <2>3. attempts[again.msg] = again.retry
    BY <1>3, <2>1 DEF Counts
  <2> QED BY <1>3, <2>1, <2>2, <2>3 DEF Counts
<1>16. ASSUME NEW r \in Replicas, Drop(r) \/ Crash(r)
       PROVE  Counts'
  BY <1>16, FaultsCount DEF Drop, Crash
<1>17. ASSUME (\E r \in Replicas : Connect(r)) \/ UNCHANGED vars
       PROVE  Counts'
  BY <1>5, <1>17 DEF Connect, vars, broker, replica, outcome
<1> HIDE DEF DeliveryInv, AttendedInv, TypeInv
<1> QED
  BY <1>6, <1>7, <1>8, <1>9, <1>10, <1>11, <1>13, <1>14, <1>15, <1>16, <1>17
  DEF Next, Consume, Verify, Handle, Settle, FireRetry

(* A service that trusts its own key dead-letters no payload whose handler *)
(* was called before all MaxRetries retries, unless a connection, a        *)
(* process or the life of a token failed it.                               *)
THEOREM RetriesSpent == Self \in Trusted => (Spec => []FullRetryBudget)
<1> SUFFICES ASSUME Self \in Trusted PROVE Spec => []FullRetryBudget
  OBVIOUS
<1>1. Init => FreshInv /\ CountInv
  BY DEF Init, FreshInv, Fresh, Unverified, CountInv, Counts
<1>2. DeliveryInv /\ FreshInv /\ [Next]_vars => FreshInv'
  BY FreshStep
<1>3. DeliveryInv /\ OneInv /\ FreshInv /\ CountInv /\ [Next]_vars => CountInv'
  BY CountStep
<1>4. CountInv => FullRetryBudget
  BY DEF CountInv, Counts, FullRetryBudget
<1> QED BY <1>1, <1>2, <1>3, <1>4, DeliveryInvHolds, OneInvHolds, PTL DEF Spec
=============================================================================
