--------------------------- MODULE Connection_proofs ---------------------------
(***************************************************************************)
(* Theorems about Connection, for any number of overlapping connect()s,    *)
(* queues, links, losses and refusals: the type invariant, NeverStuck,     *)
(* OneLink and StaysDown.                                                  *)
(***************************************************************************)
EXTENDS Connection, TLAPS

-----------------------------------------------------------------------------
(* Types *)

LEMMA CloseType ==
    ASSUME TypeOK, NEW i \in Links, Close(i)
    PROVE  /\ {connection', channel', consumerChannel'} \subseteq Links \cup {None}
           /\ timers' \in Nat
           /\ status' \in [Links -> {"unused", "open", "closed"}]
           /\ hooks' \in [Links -> Nat]
           /\ asserting' \in [Links -> [Queues -> Nat]]
           /\ consumers' \in [Links -> [Queues -> Nat]]
<1>1. NoConsumers \in [Queues -> Nat]
  BY DEF NoConsumers
<1>2. timers' \in Nat /\ {connection', channel', consumerChannel'} \subseteq Links \cup {None}
  BY DEF Close, Schedule, ClearFields, fields, TypeOK
<1>3. asserting' \in [Links -> [Queues -> Nat]] /\ consumers' \in [Links -> [Queues -> Nat]]
  BY <1>1 DEF Close, TypeOK
<1>4. QED BY <1>2, <1>3 DEF Close, TypeOK

LEMMA StartConsumerType ==
    ASSUME TypeOK, NEW q \in Queues, StartConsumer(q)
    PROVE  /\ asserting' \in [Links -> [Queues -> Nat]]
           /\ consumers' \in [Links -> [Queues -> Nat]]
<1>1. CASE ~IsOpen(consumerChannel)
  BY <1>1 DEF StartConsumer, TypeOK
<1>2. CASE IsOpen(consumerChannel)
  <2>1. consumerChannel \in Links
    BY <1>2 DEF IsOpen, TypeOK
  <2> DEFINE c == consumerChannel
  <2>2. CASE q \in Plain
    <3>1. /\ asserting' = [asserting EXCEPT ![c] = [asserting[c] EXCEPT ![q] = asserting[c][q] + 1]]
          /\ consumers' = consumers
      BY <1>2, <2>2 DEF StartConsumer
    <3>2. [asserting[c] EXCEPT ![q] = asserting[c][q] + 1] \in [Queues -> Nat]
      BY <2>1 DEF TypeOK
    <3>3. QED BY <2>1, <3>1, <3>2 DEF TypeOK
  <2>3. CASE q \notin Plain
    <3>1. /\ consumers' = [consumers EXCEPT ![c] = [consumers[c] EXCEPT ![q] = consumers[c][q] + 1]]
          /\ asserting' = asserting
      BY <1>2, <2>3 DEF StartConsumer
    <3>2. [consumers[c] EXCEPT ![q] = consumers[c][q] + 1] \in [Queues -> Nat]
      BY <2>1 DEF TypeOK
    <3>3. QED BY <2>1, <3>1, <3>2 DEF TypeOK
  <2>4. QED BY <2>2, <2>3
<1>3. QED BY <1>1, <1>2

LEMMA CatchType ==
    ASSUME TypeOK, NEW k \in Calls, Catch(k), UNCHANGED bounds \/ (refusals' \in Nat /\ UNCHANGED losses)
    PROVE  TypeOK'
<1>1. timers' \in Nat
  BY DEF Catch, Schedule, TypeOK
<1>2. QED
  BY <1>1 DEF Catch, ClearFields, Await, TypeOK, Before, After, links, bounds

LEMMA TypeInit == Init => TypeOK
<1> SUFFICES ASSUME Init PROVE TypeOK
  OBVIOUS
<1>1. PICK k \in Calls : pc = [c \in Calls |-> IF c = k THEN "open" ELSE "idle"]
  BY DEF Init
<1>2. asserting \in [Links -> [Queues -> Nat]] /\ consumers \in [Links -> [Queues -> Nat]]
  BY DEF Init, NoConsumers
<1>3. QED BY <1>1, <1>2 DEF Init, TypeOK, Before, After

LEMMA TypeStep == TypeOK /\ [Next]_vars => TypeOK'
<1> SUFFICES ASSUME TypeOK, [Next]_vars PROVE TypeOK'
  OBVIOUS
<1> USE DEF calls, fields, links, ghosts, bounds, Await, Before, After
<1>1. ASSUME NEW k \in Calls, Opened(k) PROVE TypeOK'
  BY <1>1 DEF Opened, TypeOK
<1>2. ASSUME NEW k \in Calls, Refused(k) PROVE TypeOK'
  BY <1>2, CatchType DEF Refused, TypeOK
<1>3. ASSUME NEW k \in Calls, ChannelOpened(k) PROVE TypeOK'
  <2>1. CASE connection = None
    BY <1>3, <2>1, CatchType DEF ChannelOpened
  <2>2. CASE connection # None
    <3>1. on[k] \in Links
      BY <1>3 DEF ChannelOpened, IsOpen, TypeOK
    <3>2. QED BY <1>3, <2>2, <3>1 DEF ChannelOpened, TypeOK
  <2>3. QED BY <2>1, <2>2
<1>4. ASSUME NEW k \in Calls, ConsumerChannelOpened(k) PROVE TypeOK'
  BY <1>4 DEF ConsumerChannelOpened, TypeOK
<1>5. ASSUME NEW k \in Calls, Prefetched(k) PROVE TypeOK'
  <2>1. CASE connection = None
    BY <1>5, <2>1, CatchType DEF Prefetched
  <2>2. CASE connection # None
    <3>1. hooks' = [hooks EXCEPT ![connection] = IF IsOpen(connection) THEN @ + 1 ELSE @]
      BY <1>5, <2>2 DEF Prefetched
    <3>2. hooks' \in [Links -> Nat]
      BY <2>2, <3>1 DEF TypeOK
    <3>3. pc' \in [Calls -> Before \cup After \cup {"idle"}] /\ on' \in [Calls -> Links \cup {None}]
      BY <1>5, <2>2 DEF Prefetched, TypeOK
    <3>4. QED BY <1>5, <2>2, <3>2, <3>3 DEF Prefetched, TypeOK
  <2>3. QED BY <2>1, <2>2
<1>6. ASSUME NEW k \in Calls, Rejected(k) PROVE TypeOK'
  BY <1>6, CatchType DEF Rejected
<1>7. ASSUME NEW k \in Calls, SetUp(k) PROVE TypeOK'
  BY <1>7 DEF SetUp, TypeOK
<1>8. ASSUME NEW k \in Calls, SetupFails(k) PROVE TypeOK'
  BY <1>8, CatchType DEF SetupFails
<1>9. ASSUME NEW k \in Calls, Replay(k) PROVE TypeOK'
  <2>1. PICK q \in registered \ replayed[k] :
            StartConsumer(q) /\ replayed' = [replayed EXCEPT ![k] = @ \cup {q}]
    BY <1>9 DEF Replay
  <2>2. q \in Queues
    BY <2>1 DEF TypeOK
  <2>3. asserting' \in [Links -> [Queues -> Nat]] /\ consumers' \in [Links -> [Queues -> Nat]]
    BY <2>1, <2>2, StartConsumerType
  <2>4. QED BY <1>9, <2>1, <2>2, <2>3 DEF Replay, TypeOK
<1>10. ASSUME NEW k \in Calls, Returns(k) PROVE TypeOK'
  BY <1>10 DEF Returns, TypeOK
<1>11. ASSUME NEW k \in Calls, TimerFires(k) PROVE TypeOK'
  BY <1>11 DEF TimerFires, TypeOK
<1>12. ASSUME NEW q \in Queues, Register(q) PROVE TypeOK'
  <2>1. asserting' \in [Links -> [Queues -> Nat]] /\ consumers' \in [Links -> [Queues -> Nat]]
    BY <1>12, StartConsumerType DEF Register
  <2>2. QED BY <1>12, <2>1 DEF Register, TypeOK
<1>13. ASSUME NEW q \in Queues, NEW i \in Links, Asserted(i, q) PROVE TypeOK'
  <2>1. asserting' \in [Links -> [Queues -> Nat]]
    BY <1>13 DEF Asserted, TypeOK
  <2>2. consumers' \in [Links -> [Queues -> Nat]]
    <3>1. CASE ~IsOpen(consumerChannel)
      BY <1>13, <3>1 DEF Asserted, TypeOK
    <3>2. CASE IsOpen(consumerChannel)
      BY <1>13, <3>2 DEF Asserted, TypeOK, IsOpen
    <3>3. QED BY <3>1, <3>2
  <2>3. QED BY <1>13, <2>1, <2>2 DEF Asserted, TypeOK
<1>14. ASSUME NEW i \in Links, Lose(i) PROVE TypeOK'
  BY <1>14, CloseType DEF Lose, TypeOK
<1>15. CASE Destroy
  BY <1>15 DEF Destroy, TypeOK
<1>16. CASE Disconnect
  <2>1. CASE IsOpen(connection) /\ \A c \in {channel, consumerChannel} \ {None} : IsOpen(c)
    BY <1>16, <2>1, CloseType DEF Disconnect, TypeOK, IsOpen
  <2>2. CASE ~(IsOpen(connection) /\ \A c \in {channel, consumerChannel} \ {None} : IsOpen(c))
    BY <1>16, <2>2 DEF Disconnect, TypeOK
  <2>3. QED BY <2>1, <2>2
<1>17. CASE UNCHANGED vars
  BY <1>17 DEF vars, TypeOK
<1>18. QED
  BY <1>1, <1>2, <1>3, <1>4, <1>5, <1>6, <1>7, <1>8, <1>9, <1>10, <1>11, <1>12,
     <1>13, <1>14, <1>15, <1>16, <1>17 DEF Next, Proceed

(* Every state of the connection has its type. *)
THEOREM TypeCorrect == Spec => []TypeOK
BY TypeInit, TypeStep, PTL DEF Spec

-----------------------------------------------------------------------------
(* Never stuck *)

(* The connection the fields name has its handlers, or a connect() that    *)
(* has yet to attach them waits on it: only then do the fields go stale    *)
(* without the close handler.                                              *)
Attended ==
    connection # None =>
        \/ IsOpen(connection) /\ hooks[connection] > 0
        \/ \E k \in Calls : pc[k] \in Before /\ on[k] = connection

StuckInv ==
    /\ TypeOK
    /\ Attended
    /\ disconnecting => destroyed
    /\ NeverStuck

(* A connect() that fails leaves a timer behind. *)
LEMMA CatchUnstuck ==
    ASSUME StuckInv, NEW k \in Calls, Catch(k)
    PROVE  Attended' /\ (disconnecting => destroyed)' /\ NeverStuck'
<1>1. connection' = None /\ destroyed' = destroyed /\ disconnecting' = disconnecting
  BY DEF Catch, ClearFields
<1>2. ~destroyed => timers' > 0
  BY DEF Catch, Schedule, StuckInv, TypeOK
<1>3. QED BY <1>1, <1>2 DEF Attended, NeverStuck, StuckInv

(* So does a connection that goes. *)
LEMMA CloseUnstuck ==
    ASSUME StuckInv, NEW i \in Links, Close(i), UNCHANGED <<pc, on, destroyed>>
    PROVE  Attended' /\ NeverStuck'
<1>1. CASE hooks[i] > 0
  <2>1. connection' = None
    BY <1>1 DEF Close, ClearFields
  <2>2. ~destroyed => timers' > 0
    BY <1>1 DEF Close, Schedule, StuckInv, TypeOK
  <2>3. QED BY <2>1, <2>2 DEF Attended, NeverStuck
<1>2. CASE ~(hooks[i] > 0)
  <2>1. connection' = connection /\ timers' = timers
    BY <1>2 DEF Close, fields
  <2>2. \A j \in Links : hooks[j] > 0 => j # i
    BY <1>2
  <2>3. \A j \in Links \ {i} : status'[j] = status[j] /\ hooks'[j] = hooks[j]
    BY DEF Close, StuckInv, TypeOK
  <2>4. \A j \in Links : IsOpen(j) /\ hooks[j] > 0 => IsOpen(j)' /\ hooks'[j] > 0
    BY <2>2, <2>3 DEF IsOpen
  <2>5. Attended'
    BY <2>1, <2>4 DEF StuckInv, TypeOK, Attended
  <2>6. NeverStuck'
    BY <2>1, <2>4 DEF StuckInv, NeverStuck
  <2>7. QED BY <2>5, <2>6
<1>3. QED BY <1>1, <1>2

LEMMA StuckInit == Init => StuckInv
<1> SUFFICES ASSUME Init PROVE StuckInv
  OBVIOUS
<1>1. \E k \in Calls : pc[k] = "open"
  BY DEF Init
<1>2. QED BY <1>1, TypeInit DEF Init, StuckInv, Attended, NeverStuck, Before

LEMMA StuckStep == StuckInv /\ [Next]_vars => StuckInv'
<1> SUFFICES ASSUME StuckInv, [Next]_vars
             PROVE  Attended' /\ (disconnecting => destroyed)' /\ NeverStuck'
  BY TypeStep DEF StuckInv
<1> USE DEF calls, fields, links, ghosts, bounds, Await
<1> DEFINE Goal == Attended' /\ (disconnecting => destroyed)' /\ NeverStuck'
<1>1. ASSUME NEW k \in Calls, Opened(k) PROVE Goal
  <2>1. pc'[k] = "channel" /\ on'[k] = connection'
    BY <1>1 DEF Opened, StuckInv, TypeOK
  <2>2. QED BY <1>1, <2>1 DEF Opened, StuckInv, Attended, NeverStuck, Before
<1>2. ASSUME NEW k \in Calls, Refused(k) PROVE Goal
  BY <1>2, CatchUnstuck DEF Refused
<1>3. ASSUME NEW k \in Calls, ChannelOpened(k) PROVE Goal
  <2>1. CASE connection = None
    BY <1>3, <2>1, CatchUnstuck DEF ChannelOpened
  <2>2. CASE connection # None
    <3>1. pc'[k] = "consumer" /\ on'[k] = connection'
      BY <1>3, <2>2 DEF ChannelOpened, StuckInv, TypeOK
    <3>2. QED BY <1>3, <2>2, <3>1 DEF ChannelOpened, StuckInv, Attended, NeverStuck, Before
  <2>3. QED BY <2>1, <2>2
<1>4. ASSUME NEW k \in Calls, ConsumerChannelOpened(k) PROVE Goal
  <2>1. /\ pc[k] \in Before /\ pc'[k] \in Before /\ on'[k] = on[k]
        /\ \A c \in Calls \ {k} : pc'[c] = pc[c] /\ on'[c] = on[c]
    BY <1>4 DEF ConsumerChannelOpened, StuckInv, TypeOK, Before
  <2>2. UNCHANGED <<connection, timers, destroyed, disconnecting, status, hooks>>
    BY <1>4 DEF ConsumerChannelOpened
  <2>3. QED BY <2>1, <2>2 DEF StuckInv, Attended, NeverStuck, IsOpen
<1>5. ASSUME NEW k \in Calls, Prefetched(k) PROVE Goal
  <2>1. CASE connection = None
    BY <1>5, <2>1, CatchUnstuck DEF Prefetched
  <2>2. CASE connection # None
    <3>1. /\ UNCHANGED <<connection, timers, destroyed, disconnecting, status>>
          /\ hooks' = [hooks EXCEPT ![connection] = IF IsOpen(connection) THEN @ + 1 ELSE @]
          /\ \A c \in Calls \ {k} : pc'[c] = pc[c] /\ on'[c] = on[c]
          /\ IsOpen(on[k])
      BY <1>5, <2>2 DEF Prefetched, StuckInv, TypeOK
    <3>2. connection \in Links
      BY <2>2 DEF StuckInv, TypeOK
    <3>3. CASE IsOpen(connection)
      <4>1. IsOpen(connection)' /\ hooks'[connection] > 0
        BY <3>1, <3>2, <3>3 DEF StuckInv, TypeOK, IsOpen
      <4>2. QED BY <3>1, <3>2, <4>1 DEF StuckInv, Attended, NeverStuck
    <3>4. CASE ~IsOpen(connection)
      <4>1. PICK c \in Calls : pc[c] \in Before /\ on[c] = connection
        BY <2>2, <3>4 DEF StuckInv, Attended
      <4>2. c # k
        BY <3>1, <3>4, <4>1
      <4>3. pc'[c] \in Before /\ on'[c] = connection'
        BY <3>1, <4>1, <4>2
      <4>4. QED BY <3>1, <4>3 DEF StuckInv, Attended, NeverStuck
    <3>5. QED BY <3>3, <3>4
  <2>3. QED BY <2>1, <2>2
<1>6. ASSUME NEW k \in Calls, Rejected(k) PROVE Goal
  BY <1>6, CatchUnstuck DEF Rejected
<1>7. ASSUME NEW k \in Calls, pc[k] \notin Before, SetUp(k) \/ Returns(k) \/ TimerFires(k) PROVE Goal
  <2>1. \A c \in Calls : pc[c] \in Before => pc'[c] = pc[c] /\ on'[c] = on[c]
    BY <1>7 DEF SetUp, Returns, TimerFires, StuckInv, TypeOK
  <2>2. UNCHANGED <<connection, destroyed, disconnecting, status, hooks>>
    BY <1>7 DEF SetUp, Returns, TimerFires
  <2>3. timers' = timers \/ pc'[k] = "open"
    BY <1>7 DEF SetUp, Returns, TimerFires, StuckInv, TypeOK
  <2>4. QED BY <2>1, <2>2, <2>3 DEF StuckInv, Attended, NeverStuck, IsOpen, Before
<1>8. ASSUME NEW k \in Calls, SetupFails(k) PROVE Goal
  BY <1>8, CatchUnstuck DEF SetupFails
<1>9. ASSUME UNCHANGED <<pc, on, fields, timers, destroyed, status, hooks, disconnecting>> PROVE Goal
  BY <1>9 DEF StuckInv, Attended, NeverStuck, IsOpen
<1>10. ASSUME NEW i \in Links, Lose(i) PROVE Goal
  BY <1>10, CloseUnstuck DEF Lose, StuckInv
<1>11. CASE Destroy
  BY <1>11 DEF Destroy, StuckInv, Attended, NeverStuck, IsOpen
<1>12. CASE Disconnect
  <2>1. CASE IsOpen(connection) /\ \A c \in {channel, consumerChannel} \ {None} : IsOpen(c)
    BY <1>12, <2>1, CloseUnstuck DEF Disconnect, IsOpen, StuckInv, TypeOK
  <2>2. CASE ~(IsOpen(connection) /\ \A c \in {channel, consumerChannel} \ {None} : IsOpen(c))
    BY <1>12, <2>2 DEF Disconnect, StuckInv, Attended, NeverStuck, IsOpen
  <2>3. QED BY <2>1, <2>2
<1>13. ASSUME NEW k \in Calls, SetUp(k) \/ Returns(k) \/ TimerFires(k) PROVE pc[k] \notin Before
  BY <1>13 DEF SetUp, Returns, TimerFires, Before
<1>14. ASSUME NEW k \in Calls, Replay(k) PROVE Goal
  BY <1>14, <1>9 DEF Replay
<1>15. ASSUME NEW q \in Queues, Register(q) \/ \E i \in Links : Asserted(i, q) PROVE Goal
  BY <1>15, <1>9 DEF Register, Asserted
<1>16. CASE UNCHANGED vars
  BY <1>16, <1>9 DEF vars
<1>17. QED
  BY <1>1, <1>2, <1>3, <1>4, <1>5, <1>6, <1>7, <1>8, <1>10, <1>11, <1>12,
     <1>13, <1>14, <1>15, <1>16 DEF Next, Proceed

(* Until the shutdown, a timer, a connect() or a watched connection is     *)
(* always there to bring the service back (scheduleReconnect).             *)
THEOREM ServiceNeverStuck == Spec => []NeverStuck
<1>1. StuckInv => NeverStuck
  BY DEF StuckInv
<1> QED BY <1>1, StuckInit, StuckStep, PTL DEF Spec

-----------------------------------------------------------------------------
(* One connection *)

Opening == {"channel", "consumer", "prefetch"}

FieldsAre(S) == {connection, channel, consumerChannel} \subseteq S

NoOpenLink == \A i \in Links : ~IsOpen(i)

(* One call of connect() runs at a time, *)
OneCall == \A k, l \in Calls : pc[k] # "idle" /\ pc[l] # "idle" => k = l

(* there is one timer, and only when nothing else could reconnect, *)
TimerAlone ==
    timers > 0 => /\ timers = 1 /\ NoOpenLink /\ FieldsAre({None})
                  /\ \A k \in Calls : pc[k] \notin Before

(* and a call that attaches its handlers does so to its own connection. *)
CallAlone ==
    \A k \in Calls :
        /\ pc[k] = "open" => NoOpenLink /\ FieldsAre({None})
        /\ pc[k] \in Opening =>
               /\ connection = on[k] /\ FieldsAre({on[k], None})
               /\ \A i \in Links : IsOpen(i) => i = on[k] /\ hooks[i] = 0

LinkAlone ==
    \A i \in Links :
        /\ IsOpen(i) => connection = i /\ FieldsAre({i, None}) /\ hooks[i] <= 1
        /\ IsOpen(i) /\ hooks[i] = 0 => \E k \in Calls : pc[k] \in Opening
        /\ hooks[i] > 0 => IsOpen(i)

(* A shutdown that met nothing pending leaves nothing that could connect. *)
Quiet ==
    destroyed /\ ~reviving =>
        /\ timers = 0 /\ \A k \in Calls : pc[k] = "idle"
        /\ ~disconnecting => NoOpenLink

Alone == OneCall /\ TimerAlone /\ CallAlone /\ LinkAlone /\ Quiet

AloneInv == TypeOK /\ (~doubled => Alone)

(* A call that fails before its handlers are attached leaves one timer and *)
(* no connection.                                                          *)
LEMMA CatchAlone ==
    ASSUME TypeOK, Alone, NEW k \in Calls, pc[k] \in Before, Catch(k), NoOpenLink
    PROVE  Alone'
<1>1. /\ \A c \in Calls : pc'[c] = "idle"
      /\ UNCHANGED <<destroyed, status, hooks, disconnecting, reviving>>
      /\ FieldsAre({None})'
  BY DEF Alone, OneCall, Before, Catch, Await, ClearFields, FieldsAre, TypeOK, links
<1>2. NoOpenLink' /\ \A i \in Links : ~IsOpen(i)'
  BY <1>1 DEF NoOpenLink, IsOpen
<1>3. timers = 0
  BY DEF Alone, TimerAlone, TypeOK
<1>4. timers' \in {0, 1} /\ (destroyed => timers' = 0)
  BY <1>3 DEF Catch, Schedule
<1>5. OneCall' /\ TimerAlone' /\ CallAlone' /\ Quiet'
  BY <1>1, <1>2, <1>4 DEF OneCall, TimerAlone, CallAlone, Quiet, Before, Opening
<1>6. LinkAlone'
  BY <1>1, <1>2 DEF LinkAlone, NoOpenLink, Alone
<1>7. QED BY <1>5, <1>6 DEF Alone

(* The only open link goes. *)
LEMMA CloseAlone ==
    ASSUME TypeOK, Alone, NEW i \in Links, IsOpen(i), Close(i),
           UNCHANGED <<pc, on, destroyed, reviving>>,
           disconnecting' = disconnecting \/ disconnecting' = FALSE
    PROVE  Alone'
<1>1. connection = i /\ FieldsAre({i, None}) /\ timers = 0 /\ hooks[i] \in {0, 1}
  <2>1. hooks[i] \in Nat /\ timers \in Nat
    BY DEF TypeOK
  <2>2. connection = i /\ FieldsAre({i, None}) /\ hooks[i] <= 1
    BY DEF Alone, LinkAlone
  <2>3. ~(timers > 0)
    BY DEF Alone, TimerAlone, NoOpenLink
  <2>4. QED BY <2>1, <2>2, <2>3
<1>2. \A j \in Links : IsOpen(j) => j = i
  BY <1>1 DEF Alone, LinkAlone
<1>3. /\ status' = [status EXCEPT ![i] = "closed"]
      /\ hooks' = [hooks EXCEPT ![i] = 0]
  BY DEF Close
<1>4. \A j \in Links : ~IsOpen(j)'
  BY <1>2, <1>3 DEF IsOpen, TypeOK
<1>5. \A j \in Links : hooks'[j] = 0
  <2>1. \A j \in Links : hooks[j] \in Nat /\ (j # i => ~(hooks[j] > 0))
    BY <1>2 DEF Alone, LinkAlone, TypeOK
  <2>2. QED BY <1>3, <2>1 DEF TypeOK
<1>6. \A k \in Calls : pc[k] # "open"
  BY DEF Alone, CallAlone, NoOpenLink
<1>7. CASE hooks[i] = 0
  <2>1. UNCHANGED <<connection, channel, consumerChannel, timers>>
    BY <1>7 DEF Close, fields
  <2>2. OneCall' /\ TimerAlone' /\ CallAlone' /\ LinkAlone' /\ Quiet'
    BY <1>1, <1>4, <1>5, <1>6, <2>1
    DEF Alone, OneCall, TimerAlone, CallAlone, LinkAlone, Quiet, FieldsAre, NoOpenLink
  <2>3. QED BY <2>2 DEF Alone
<1>8. CASE hooks[i] = 1
  <2>1. FieldsAre({None})' /\ timers' \in {0, 1} /\ (destroyed => timers' = 0)
    BY <1>1, <1>8 DEF Close, ClearFields, Schedule, FieldsAre
  <2>2. \A k \in Calls : pc[k] \notin Before
    <3>1. \A k \in Calls : pc[k] \notin Opening
      <4> SUFFICES ASSUME NEW k \in Calls, pc[k] \in Opening PROVE FALSE
        OBVIOUS
      <4>1. \A j \in Links : IsOpen(j) => hooks[j] = 0
        BY DEF Alone, CallAlone
      <4>2. QED BY <1>8, <4>1
    <3>2. QED BY <1>6, <3>1 DEF Before, Opening
  <2>3. OneCall' /\ TimerAlone' /\ CallAlone' /\ LinkAlone' /\ Quiet'
    BY <1>4, <1>5, <2>1, <2>2
    DEF Alone, OneCall, TimerAlone, CallAlone, LinkAlone, Quiet, NoOpenLink, Before, Opening
  <2>4. QED BY <2>3 DEF Alone
<1>9. QED BY <1>1, <1>7, <1>8

LEMMA AloneInit == Init => AloneInv
<1> SUFFICES ASSUME Init PROVE Alone
  BY TypeInit DEF AloneInv
<1>1. PICK k \in Calls : pc = [c \in Calls |-> IF c = k THEN "open" ELSE "idle"]
  BY DEF Init
<1>2. NoOpenLink /\ FieldsAre({None}) /\ \A i \in Links : ~IsOpen(i) /\ hooks[i] = 0
  BY DEF Init, NoOpenLink, FieldsAre, IsOpen
<1>3. OneCall /\ TimerAlone /\ CallAlone /\ LinkAlone /\ Quiet
  BY <1>1, <1>2 DEF Init, OneCall, TimerAlone, CallAlone, LinkAlone, Quiet, Opening
<1>4. QED BY <1>3 DEF Alone

LEMMA DoublingStays == [Next]_vars /\ doubled => doubled'
<1> SUFFICES ASSUME [Next]_vars PROVE doubled => doubled'
  OBVIOUS
<1> USE DEF calls, fields, links, ghosts, bounds, Await
<1>1. ASSUME NEW k \in Calls, Proceed(k) \/ Refused(k) \/ TimerFires(k) PROVE doubled => doubled'
  BY <1>1 DEF Proceed, Opened, Refused, ChannelOpened, ConsumerChannelOpened, Prefetched,
     Rejected, SetUp, SetupFails, Replay, Returns, TimerFires, Catch
<1>2. ASSUME NEW q \in Queues, Register(q) \/ \E i \in Links : Asserted(i, q)
      PROVE  doubled => doubled'
  BY <1>2 DEF Register, Asserted
<1>3. ASSUME (\E i \in Links : Lose(i)) \/ Destroy \/ Disconnect PROVE doubled => doubled'
  BY <1>3 DEF Lose, Destroy, Disconnect
<1>4. ASSUME UNCHANGED vars PROVE doubled => doubled'
  BY <1>4 DEF vars
<1>5. QED BY <1>1, <1>2, <1>3, <1>4 DEF Next

LEMMA AloneStep == AloneInv /\ [Next]_vars => AloneInv'
<1> SUFFICES ASSUME AloneInv, [Next]_vars, ~doubled' PROVE Alone'
  BY TypeStep DEF AloneInv
<1> USE DEF calls, fields, links, ghosts, bounds, Await
<1> DEFINE Conj == OneCall' /\ TimerAlone' /\ CallAlone' /\ LinkAlone' /\ Quiet'
<1>1. ~doubled /\ TypeOK /\ Alone
  BY DoublingStays DEF AloneInv
<1>2. ASSUME NEW k \in Calls, Opened(k) PROVE Conj
  <2>1. PICK i \in Links :
            /\ status[i] = "unused" /\ status' = [status EXCEPT ![i] = "open"]
            /\ connection' = i
            /\ pc' = [pc EXCEPT ![k] = "channel"] /\ on' = [on EXCEPT ![k] = i]
    BY <1>2 DEF Opened
  <2>2. UNCHANGED <<channel, consumerChannel, timers, destroyed, reviving, disconnecting, hooks>>
    BY <1>2 DEF Opened
  <2>3. pc[k] = "open" /\ NoOpenLink /\ FieldsAre({None})
    BY <1>1, <1>2 DEF Opened, Alone, CallAlone
  <2>4. \A j \in Links : hooks[j] = 0
    <3>1. \A j \in Links : hooks[j] \in Nat /\ ~(hooks[j] > 0)
      BY <1>1, <2>3 DEF Alone, LinkAlone, NoOpenLink, TypeOK
    <3>2. QED BY <3>1
  <2>5. timers = 0 /\ \A c \in Calls \ {k} : pc[c] = "idle"
    BY <1>1, <2>3 DEF Alone, OneCall, TimerAlone, Before, TypeOK
  <2>6. \A j \in Links : IsOpen(j)' => j = i
    BY <1>1, <2>1, <2>3 DEF NoOpenLink, IsOpen, TypeOK
  <2>7. OneCall' /\ TimerAlone' /\ Quiet'
    BY <1>1, <2>1, <2>2, <2>3, <2>5 DEF Alone, OneCall, TimerAlone, Quiet, TypeOK
  <2>8. CallAlone'
    BY <1>1, <2>1, <2>2, <2>3, <2>4, <2>5, <2>6 DEF CallAlone, FieldsAre, Opening, TypeOK
  <2>9. LinkAlone'
    BY <1>1, <2>1, <2>2, <2>3, <2>4, <2>6 DEF LinkAlone, FieldsAre, Opening, TypeOK
  <2>10. QED BY <2>7, <2>8, <2>9
<1>3. ASSUME NEW k \in Calls, Refused(k) PROVE Conj
  <2>1. pc[k] = "open" /\ NoOpenLink
    BY <1>1, <1>3 DEF Refused, Alone, CallAlone
  <2>2. QED BY <1>1, <1>3, <2>1, CatchAlone DEF Refused, Before, Alone
<1>4. ASSUME NEW k \in Calls, ChannelOpened(k) \/ ConsumerChannelOpened(k) PROVE Conj
  <2>1. /\ pc[k] \in Opening /\ IsOpen(on[k]) /\ on[k] # None
        /\ connection = on[k] /\ FieldsAre({on[k], None})
    BY <1>1, <1>4 DEF ChannelOpened, ConsumerChannelOpened, Opening, Alone, CallAlone, IsOpen
  <2>2. /\ UNCHANGED <<connection, timers, destroyed, status, hooks, reviving, disconnecting>>
        /\ pc'[k] \in Opening /\ on'[k] = on[k] /\ FieldsAre({on[k], None})'
        /\ \A c \in Calls \ {k} : pc'[c] = pc[c] /\ on'[c] = on[c]
    BY <1>1, <1>4, <2>1
    DEF ChannelOpened, ConsumerChannelOpened, Opening, FieldsAre, TypeOK
  <2>3. \A c \in Calls \ {k} : pc[c] = "idle"
    BY <1>1, <2>1 DEF Alone, OneCall, Opening
  <2>4. timers = 0
    BY <1>1, <2>1 DEF Alone, TimerAlone, Opening, Before, TypeOK
  <2>5. OneCall' /\ TimerAlone' /\ Quiet'
    BY <1>1, <2>1, <2>2, <2>3, <2>4 DEF Alone, OneCall, TimerAlone, Quiet, Opening
  <2>6. \A i \in Links : IsOpen(i) => i = on[k] /\ hooks[i] = 0
    BY <1>1, <2>1 DEF Alone, CallAlone
  <2>7. \A i \in Links : IsOpen(i)' <=> IsOpen(i)
    BY <2>2 DEF IsOpen
  <2>8. CallAlone'
    BY <2>1, <2>2, <2>3, <2>6, <2>7 DEF CallAlone, Opening
  <2>9. LinkAlone'
    BY <1>1, <2>1, <2>2, <2>6, <2>7 DEF Alone, LinkAlone
  <2>10. QED BY <2>5, <2>8, <2>9
<1>5. ASSUME NEW k \in Calls, Prefetched(k) PROVE Conj
  <2>1. /\ pc[k] = "prefetch" /\ IsOpen(on[k]) /\ on[k] # None
        /\ connection = on[k] /\ FieldsAre({on[k], None})
        /\ on[k] \in Links /\ hooks[on[k]] = 0
        /\ \A i \in Links : IsOpen(i) => i = on[k]
    BY <1>1, <1>5 DEF Prefetched, Opening, Alone, CallAlone, IsOpen, TypeOK
  <2>2. /\ UNCHANGED <<connection, channel, consumerChannel, timers, destroyed, status,
                       reviving, disconnecting>>
        /\ hooks' = [hooks EXCEPT ![on[k]] = 1]
        /\ pc'[k] \in After
        /\ \A c \in Calls \ {k} : pc'[c] = pc[c]
    BY <1>1, <1>5, <2>1 DEF Prefetched, After, TypeOK
  <2>3. \A c \in Calls \ {k} : pc[c] = "idle"
    BY <1>1, <2>1 DEF Alone, OneCall
  <2>4. timers = 0
    BY <1>1, <2>1 DEF Alone, TimerAlone, Before, TypeOK
  <2>5. OneCall' /\ TimerAlone' /\ Quiet' /\ CallAlone'
    BY <1>1, <2>1, <2>2, <2>3, <2>4
    DEF Alone, OneCall, TimerAlone, Quiet, CallAlone, After, Opening
  <2>6. \A i \in Links : IsOpen(i)' <=> IsOpen(i)
    BY <2>2 DEF IsOpen
  <2>7. \A i \in Links : hooks'[i] > 0 => i = on[k]
    BY <1>1, <2>1, <2>2 DEF Alone, LinkAlone, TypeOK
  <2>8. LinkAlone'
    BY <1>1, <2>1, <2>2, <2>6, <2>7 DEF LinkAlone, FieldsAre, TypeOK
  <2>9. QED BY <2>5, <2>8
<1>6. ASSUME NEW k \in Calls, Rejected(k) PROVE Conj
  <2>1. pc[k] \in Before /\ NoOpenLink
    BY <1>1, <1>6 DEF Rejected, Before, Opening, Alone, CallAlone, NoOpenLink
  <2>2. QED BY <1>1, <1>6, <2>1, CatchAlone DEF Rejected, Alone
<1>7. ASSUME NEW k \in Calls, SetUp(k) \/ Returns(k) PROVE Conj
  <2>1. /\ UNCHANGED <<connection, channel, consumerChannel, timers, destroyed, status, hooks,
                       reviving, disconnecting>>
        /\ pc[k] \in After /\ pc'[k] \in {"replay", "idle"}
        /\ \A c \in Calls \ {k} : pc'[c] = pc[c] /\ on'[c] = on[c]
    BY <1>1, <1>7 DEF SetUp, Returns, After, TypeOK
  <2>2. \A i \in Links : IsOpen(i)' <=> IsOpen(i)
    BY <2>1 DEF IsOpen
  <2>3. \A c \in Calls : pc'[c] = "idle" \/ (c = k /\ pc'[c] = "replay")
    BY <1>1, <2>1 DEF Alone, OneCall, After
  <2>4. \A c \in Calls : pc[c] \notin Opening
    BY <1>1, <2>1 DEF Alone, OneCall, After, Opening
  <2>5. OneCall' /\ TimerAlone' /\ CallAlone' /\ LinkAlone' /\ Quiet'
    BY <1>1, <2>1, <2>2, <2>3, <2>4
    DEF Alone, OneCall, TimerAlone, CallAlone, LinkAlone, Quiet, NoOpenLink, FieldsAre,
        After, Before, Opening
  <2>6. QED BY <2>5
<1>8. ASSUME NEW k \in Calls, SetupFails(k) PROVE Conj
  BY <1>8 DEF SetupFails, Catch
<1>9. ASSUME NEW k \in Calls, TimerFires(k) PROVE Conj
  <2>1. timers = 1 /\ NoOpenLink /\ FieldsAre({None}) /\ \A c \in Calls : pc[c] \notin Before
    BY <1>1, <1>9 DEF TimerFires, Alone, TimerAlone
  <2>2. \A c \in Calls : ~IsOpen(on[c]) /\ ~IsOpen(consumerChannel)
    BY <1>1, <2>1 DEF NoOpenLink, IsOpen, TypeOK
  <2>3. \A c \in Calls : pc[c] = "idle"
    BY <1>1, <1>9, <2>1, <2>2 DEF TimerFires, Prompt, Before, After, TypeOK
  <2>4. /\ timers' = 0 /\ pc' = [pc EXCEPT ![k] = "open"]
        /\ UNCHANGED <<connection, channel, consumerChannel, destroyed, status, hooks,
                       reviving, disconnecting>>
    BY <1>9, <2>1 DEF TimerFires
  <2>5. NoOpenLink' /\ FieldsAre({None})' /\ \A i \in Links : ~IsOpen(i)'
    BY <2>1, <2>4 DEF NoOpenLink, FieldsAre, IsOpen
  <2>6. OneCall' /\ TimerAlone' /\ CallAlone' /\ Quiet'
    BY <1>1, <2>1, <2>3, <2>4, <2>5
    DEF Alone, OneCall, TimerAlone, CallAlone, Quiet, Opening, TypeOK
  <2>7. LinkAlone'
    BY <1>1, <2>1, <2>4, <2>5 DEF Alone, LinkAlone, NoOpenLink
  <2>8. QED BY <2>6, <2>7
<1>10. ASSUME NEW i \in Links, Lose(i) PROVE Conj
  BY <1>1, <1>10, CloseAlone DEF Lose, Alone
<1>11. ASSUME Destroy PROVE Conj
  <2>1. \A i \in Links : IsOpen(i)' <=> IsOpen(i)
    BY <1>11 DEF Destroy, IsOpen
  <2>2. OneCall' /\ TimerAlone' /\ CallAlone' /\ LinkAlone'
    BY <1>1, <1>11, <2>1
    DEF Destroy, Alone, OneCall, TimerAlone, CallAlone, LinkAlone, NoOpenLink, FieldsAre
  <2>3. Quiet'
    <3>1. reviving' = (timers > 0 \/ \E k \in Calls : pc[k] # "idle")
          /\ UNCHANGED <<timers, pc>> /\ disconnecting'
      BY <1>11 DEF Destroy
    <3>2. ~reviving' => ~(timers > 0) /\ \A k \in Calls : pc[k] = "idle"
      BY <3>1
    <3>3. timers \in Nat
      BY <1>1 DEF TypeOK
    <3>4. QED BY <3>1, <3>2, <3>3 DEF Quiet
  <2>4. QED BY <2>2, <2>3
<1>12. ASSUME Disconnect PROVE Conj
  <2>1. CASE IsOpen(connection) /\ \A c \in {channel, consumerChannel} \ {None} : IsOpen(c)
    <3>1. connection \in Links /\ Close(connection)
      BY <1>1, <1>12, <2>1 DEF Disconnect, IsOpen, TypeOK
    <3>2. QED BY <1>1, <1>12, <2>1, <3>1, CloseAlone DEF Disconnect, Alone
  <2>2. CASE ~(IsOpen(connection) /\ \A c \in {channel, consumerChannel} \ {None} : IsOpen(c))
    <3>1. NoOpenLink
      BY <1>1, <2>2 DEF Alone, LinkAlone, NoOpenLink, FieldsAre
    <3>2. UNCHANGED <<pc, on, connection, channel, consumerChannel, timers, destroyed, status,
                      hooks, reviving>>
      BY <1>12, <2>2 DEF Disconnect
    <3>3. NoOpenLink' /\ \A i \in Links : IsOpen(i)' <=> IsOpen(i)
      BY <3>1, <3>2 DEF NoOpenLink, IsOpen
    <3>4. OneCall' /\ TimerAlone' /\ CallAlone' /\ LinkAlone' /\ Quiet'
      BY <1>1, <3>1, <3>2, <3>3
      DEF Alone, OneCall, TimerAlone, CallAlone, LinkAlone, Quiet, FieldsAre
    <3>5. QED BY <3>4
  <2>3. QED BY <2>1, <2>2
<1>13. ASSUME UNCHANGED <<pc, on, connection, channel, consumerChannel, timers, destroyed,
                          status, hooks, reviving, disconnecting>>
       PROVE  Conj
  <2>1. \A i \in Links : IsOpen(i)' <=> IsOpen(i)
    BY <1>13 DEF IsOpen
  <2>2. QED
    BY <1>1, <1>13, <2>1
    DEF Alone, OneCall, TimerAlone, CallAlone, LinkAlone, Quiet, NoOpenLink, FieldsAre
<1>14. ASSUME NEW k \in Calls, Replay(k) PROVE Conj
  BY <1>13, <1>14 DEF Replay
<1>15. ASSUME NEW q \in Queues, Register(q) \/ \E i \in Links : Asserted(i, q) PROVE Conj
  BY <1>13, <1>15 DEF Register, Asserted
<1>16. ASSUME UNCHANGED vars PROVE Conj
  BY <1>13, <1>16 DEF vars
<1>17. Conj
  BY <1>2, <1>3, <1>4, <1>5, <1>6, <1>7, <1>8, <1>9, <1>10, <1>11, <1>12,
     <1>14, <1>15, <1>16 DEF Next, Proceed
<1>18. QED BY <1>17 DEF Alone

(* A shutdown that met no timer and no connect() leaves no connection and  *)
(* nothing that would open one (onModuleDestroy).                          *)
THEOREM ServiceStaysDown == Spec => []StaysDown
<1>1. AloneInv => StaysDown
  BY DEF AloneInv, Alone, Quiet, NoOpenLink, StaysDown
<1> QED BY <1>1, AloneInit, AloneStep, PTL DEF Spec

-----------------------------------------------------------------------------
(* One consumer *)

Count(i, q) == asserting[i][q] + consumers[i][q]

(* Only the open link has consumers; a queue is consumed once, and not     *)
(* before the replay of a running connect() has come to it.                *)
CountedOnce ==
    /\ \A i \in Links : \A q \in Queues : Count(i, q) > 0 => IsOpen(i)
    /\ \A i \in Links : \A q \in Queues \ raced :
          /\ Count(i, q) <= 1
          /\ Count(i, q) > 0 =>
                /\ q \in registered
                /\ \A k \in Calls : pc[k] # "idle" => pc[k] = "replay" /\ q \in replayed[k]
    /\ \A k \in Calls : pc[k] # "replay" => replayed[k] = {}

ConsumerInv == AloneInv /\ (~doubled => CountedOnce)

LEMMA CountType ==
    ASSUME TypeOK
    PROVE  \A i \in Links : \A q \in Queues :
               asserting[i][q] \in Nat /\ consumers[i][q] \in Nat /\ Count(i, q) \in Nat
BY DEF TypeOK, Count

(* A connect() that leaves the consumers alone and is not replaying *)
LEMMA CallKeepsCount ==
    ASSUME TypeOK, Alone, CountedOnce, NEW k \in Calls, pc[k] \notin {"idle", "replay"},
           UNCHANGED <<asserting, consumers, raced, registered, replayed>>,
           \A c \in Calls \ {k} : pc'[c] = pc[c],
           \A i \in Links : IsOpen(i) => IsOpen(i)'
    PROVE  CountedOnce'
<1>1. \A i \in Links : \A q \in Queues : Count(i, q)' = Count(i, q)
  BY DEF Count
<1>2. \A i \in Links : \A q \in Queues \ raced : ~(Count(i, q) > 0)
  BY DEF CountedOnce
<1>3. \A c \in Calls : replayed[c] = {}
  BY DEF CountedOnce, Alone, OneCall
<1>4. QED BY <1>1, <1>2, <1>3, CountType DEF CountedOnce

(* A link that goes takes its consumers with it. *)
LEMMA CloseKeepsCount ==
    ASSUME TypeOK, CountedOnce, NEW i \in Links, Close(i),
           UNCHANGED <<pc, replayed, raced, registered>>
    PROVE  CountedOnce'
<1>1. \A q \in Queues : Count(i, q)' = 0
  BY DEF Close, Count, NoConsumers, TypeOK
<1>2. \A j \in Links \ {i} : /\ IsOpen(j)' <=> IsOpen(j)
                             /\ \A q \in Queues : Count(j, q)' = Count(j, q)
  BY DEF Close, Count, IsOpen, TypeOK
<1>3. QED BY <1>1, <1>2 DEF CountedOnce

(* consume() of a queue that link c, if it is open, does not yet consume *)
LEMMA StartCounts ==
    ASSUME TypeOK, NEW q \in Queues, StartConsumer(q)
    PROVE  \A i \in Links : \A p \in Queues :
               \/ Count(i, p)' = Count(i, p)
               \/ IsOpen(i) /\ p = q /\ Count(i, p)' = Count(i, p) + 1
<1>1. CASE ~IsOpen(consumerChannel)
  BY <1>1 DEF StartConsumer, Count
<1>2. CASE IsOpen(consumerChannel)
  <2> DEFINE c == consumerChannel
  <2>1. c \in Links
    BY <1>2 DEF IsOpen, TypeOK
  <2>2. CASE q \in Plain
    <3>1. /\ asserting' = [asserting EXCEPT ![c] = [asserting[c] EXCEPT ![q] = asserting[c][q] + 1]]
          /\ consumers' = consumers
      BY <1>2, <2>2 DEF StartConsumer
    <3>2. \A i \in Links : \A p \in Queues :
              asserting'[i][p] = IF i = c /\ p = q THEN asserting[i][p] + 1 ELSE asserting[i][p]
      BY <2>1, <3>1 DEF TypeOK
    <3>3. QED BY <1>2, <3>1, <3>2, CountType DEF Count
  <2>3. CASE q \notin Plain
    <3>1. /\ consumers' = [consumers EXCEPT ![c] = [consumers[c] EXCEPT ![q] = consumers[c][q] + 1]]
          /\ asserting' = asserting
      BY <1>2, <2>3 DEF StartConsumer
    <3>2. \A i \in Links : \A p \in Queues :
              consumers'[i][p] = IF i = c /\ p = q THEN consumers[i][p] + 1 ELSE consumers[i][p]
      BY <2>1, <3>1 DEF TypeOK
    <3>3. QED BY <1>2, <3>1, <3>2, CountType DEF Count
  <2>4. QED BY <2>2, <2>3
<1>3. QED BY <1>1, <1>2

LEMMA ConsumerInit == Init => ConsumerInv
<1> SUFFICES ASSUME Init PROVE CountedOnce
  BY AloneInit DEF ConsumerInv
<1>1. \A i \in Links : \A q \in Queues : Count(i, q) = 0
  BY DEF Init, Count, NoConsumers
<1>2. QED BY <1>1 DEF Init, CountedOnce

LEMMA ConsumerStep == ConsumerInv /\ [Next]_vars => ConsumerInv'
<1> SUFFICES ASSUME ConsumerInv, [Next]_vars, ~doubled' PROVE CountedOnce'
  BY AloneStep DEF ConsumerInv
<1> USE DEF calls, fields, links, ghosts, bounds, Await
<1>1. ~doubled /\ TypeOK /\ Alone /\ CountedOnce
  BY DoublingStays DEF ConsumerInv, AloneInv
<1>2. ASSUME NEW k \in Calls,
             \/ Opened(k) \/ Refused(k) \/ ChannelOpened(k) \/ ConsumerChannelOpened(k)
             \/ Prefetched(k) \/ Rejected(k) \/ SetUp(k) \/ SetupFails(k)
      PROVE  CountedOnce'
  <2>1. pc[k] \notin {"idle", "replay"}
    BY <1>2 DEF Opened, Refused, ChannelOpened, ConsumerChannelOpened, Prefetched, Rejected,
       SetUp, SetupFails
  <2>2. UNCHANGED <<asserting, consumers, raced, registered, replayed>>
    BY <1>2 DEF Opened, Refused, ChannelOpened, ConsumerChannelOpened, Prefetched, Rejected,
       SetUp, SetupFails, Catch
  <2>3. \A c \in Calls \ {k} : pc'[c] = pc[c]
    BY <1>1, <1>2 DEF Opened, Refused, ChannelOpened, ConsumerChannelOpened, Prefetched, Rejected,
       SetUp, SetupFails, Catch, TypeOK
  <2>4. \A i \in Links : IsOpen(i) => IsOpen(i)'
    <3>1. CASE Opened(k)
      BY <1>1, <3>1 DEF Opened, IsOpen, TypeOK
    <3>2. CASE ~Opened(k)
      BY <1>2, <3>2 DEF Refused, ChannelOpened, ConsumerChannelOpened, Prefetched, Rejected,
         SetUp, SetupFails, Catch, IsOpen
    <3>3. QED BY <3>1, <3>2
  <2>5. QED BY <1>1, <2>1, <2>2, <2>3, <2>4, CallKeepsCount
<1>3. ASSUME NEW k \in Calls, Replay(k) PROVE CountedOnce'
  <2>1. PICK q \in registered \ replayed[k] :
            StartConsumer(q) /\ replayed' = [replayed EXCEPT ![k] = @ \cup {q}]
    BY <1>3 DEF Replay
  <2>2. /\ pc[k] = "replay" /\ q \in Queues
        /\ UNCHANGED <<pc, registered, raced, status>>
    BY <1>1, <1>3, <2>1 DEF Replay, TypeOK
  <2>3. \A i \in Links : \A p \in Queues :
            \/ Count(i, p)' = Count(i, p)
            \/ IsOpen(i) /\ p = q /\ Count(i, p)' = Count(i, p) + 1
    BY <1>1, <2>1, <2>2, StartCounts
  <2>4. \A i \in Links : q \notin raced => Count(i, q) = 0
    <3>1. \A i \in Links : q \notin raced => ~(Count(i, q) > 0)
      BY <1>1, <2>1, <2>2 DEF CountedOnce
    <3>2. QED BY <1>1, <2>2, <3>1, CountType
  <2>5. \A i \in Links : IsOpen(i)' <=> IsOpen(i)
    BY <2>2 DEF IsOpen
  <2>6. \A c \in Calls : pc[c] # "idle" => c = k
    BY <1>1, <2>2 DEF Alone, OneCall
  <2>7. \A i \in Links : \A p \in Queues \ raced' :
            /\ Count(i, p)' <= 1
            /\ Count(i, p)' > 0 =>
                /\ p \in registered'
                /\ \A c \in Calls : pc'[c] # "idle" => pc'[c] = "replay" /\ p \in replayed'[c]
    <3> SUFFICES ASSUME NEW i \in Links, NEW p \in Queues \ raced
                 PROVE  /\ Count(i, p)' <= 1
                        /\ Count(i, p)' > 0 =>
                            /\ p \in registered
                            /\ \A c \in Calls : pc[c] # "idle" => pc[c] = "replay" /\ p \in replayed'[c]
      BY <2>2
    <3>1. replayed'[k] = replayed[k] \cup {q}
      BY <1>1, <2>1 DEF TypeOK
    <3>2. CASE p = q
      <4>1. Count(i, p)' <= 1
        BY <2>3, <2>4, <3>2
      <4>2. QED BY <2>1, <2>2, <2>6, <3>1, <3>2, <4>1
    <3>3. CASE p # q
      <4>1. Count(i, p)' = Count(i, p)
        BY <2>3, <3>3
      <4>2. QED BY <1>1, <2>2, <2>6, <3>1, <4>1 DEF CountedOnce
    <3>4. QED BY <3>2, <3>3
  <2>8. \A i \in Links : \A p \in Queues : Count(i, p)' > 0 => IsOpen(i)'
    BY <1>1, <2>3, <2>5 DEF CountedOnce
  <2>9. \A c \in Calls : pc'[c] # "replay" => replayed'[c] = {}
    BY <1>1, <2>1, <2>2 DEF CountedOnce, TypeOK
  <2>10. QED BY <2>7, <2>8, <2>9 DEF CountedOnce
<1>4. ASSUME NEW k \in Calls, Returns(k) PROVE CountedOnce'
  <2>1. /\ UNCHANGED <<asserting, consumers, raced, registered, status>>
        /\ pc'[k] = "idle" /\ replayed'[k] = {}
        /\ \A c \in Calls \ {k} : pc'[c] = pc[c] /\ replayed'[c] = replayed[c]
    BY <1>1, <1>4 DEF Returns, TypeOK
  <2>2. \A i \in Links : (IsOpen(i)' <=> IsOpen(i)) /\ \A q \in Queues : Count(i, q)' = Count(i, q)
    BY <2>1 DEF IsOpen, Count
  <2>3. QED BY <1>1, <2>1, <2>2 DEF CountedOnce
<1>5. ASSUME NEW k \in Calls, TimerFires(k) PROVE CountedOnce'
  <2>1. NoOpenLink
    BY <1>1, <1>5 DEF TimerFires, Alone, TimerAlone
  <2>2. \A i \in Links : \A q \in Queues : ~(Count(i, q) > 0)
    BY <1>1, <2>1 DEF CountedOnce, NoOpenLink
  <2>3. UNCHANGED <<asserting, consumers, raced, registered, replayed, status>>
        /\ pc[k] = "idle" /\ \A c \in Calls \ {k} : pc'[c] = pc[c]
    BY <1>1, <1>5 DEF TimerFires, TypeOK
  <2>4. \A i \in Links : \A q \in Queues : Count(i, q)' = Count(i, q)
    BY <2>3 DEF Count
  <2>5. \A c \in Calls : pc'[c] # "replay" => replayed'[c] = {}
    BY <1>1, <2>3 DEF CountedOnce
  <2>6. QED BY <1>1, <2>2, <2>4, <2>5, CountType DEF CountedOnce
<1>6. ASSUME NEW q \in Queues, Register(q) PROVE CountedOnce'
  <2>1. /\ StartConsumer(q) /\ q \notin registered /\ registered' = registered \cup {q}
        /\ UNCHANGED <<pc, replayed, status>>
        /\ raced' = IF \E k \in Calls : pc[k] # "idle" THEN raced \cup {q} ELSE raced
    BY <1>6 DEF Register
  <2>2. \A i \in Links : \A p \in Queues :
            \/ Count(i, p)' = Count(i, p)
            \/ IsOpen(i) /\ p = q /\ Count(i, p)' = Count(i, p) + 1
    BY <1>1, <2>1, StartCounts
  <2>3. \A i \in Links : q \notin raced => Count(i, q) = 0
    <3>1. \A i \in Links : q \notin raced => ~(Count(i, q) > 0)
      BY <1>1, <2>1 DEF CountedOnce
    <3>2. QED BY <1>1, <3>1, CountType
  <2>4. \A i \in Links : IsOpen(i)' <=> IsOpen(i)
    BY <2>1 DEF IsOpen
  <2>5. \A i \in Links : \A p \in Queues \ raced' :
            /\ Count(i, p)' <= 1
            /\ Count(i, p)' > 0 =>
                /\ p \in registered'
                /\ \A c \in Calls : pc'[c] # "idle" => pc'[c] = "replay" /\ p \in replayed'[c]
    <3> SUFFICES ASSUME NEW i \in Links, NEW p \in Queues \ raced'
                 PROVE  /\ Count(i, p)' <= 1
                        /\ Count(i, p)' > 0 =>
                            /\ p \in registered \cup {q}
                            /\ \A c \in Calls : pc[c] # "idle" => pc[c] = "replay" /\ p \in replayed[c]
      BY <2>1
    <3>1. p \notin raced
      BY <2>1
    <3>2. CASE p = q
      <4>1. Count(i, p)' <= 1
        BY <2>2, <2>3, <3>1, <3>2
      <4>2. \A c \in Calls : pc[c] = "idle"
        BY <2>1, <3>2
      <4>3. QED BY <3>2, <4>1, <4>2
    <3>3. CASE p # q
      <4>1. Count(i, p)' = Count(i, p)
        BY <2>2, <3>3
      <4>2. QED BY <1>1, <3>1, <4>1 DEF CountedOnce
    <3>4. QED BY <3>2, <3>3
  <2>6. \A i \in Links : \A p \in Queues : Count(i, p)' > 0 => IsOpen(i)'
    BY <1>1, <2>2, <2>4 DEF CountedOnce
  <2>7. QED BY <1>1, <2>1, <2>5, <2>6 DEF CountedOnce
<1>7. ASSUME NEW q \in Queues, NEW i \in Links, Asserted(i, q) PROVE CountedOnce'
  <2> DEFINE c == consumerChannel
  <2>1. asserting[i][q] > 0 /\ UNCHANGED <<pc, replayed, registered, raced, status>>
    BY <1>7 DEF Asserted
  <2>2. IsOpen(i) /\ c \in {i, None}
    <3>1. Count(i, q) > 0
      BY <1>1, <2>1, CountType DEF Count
    <3>2. QED BY <1>1, <3>1 DEF CountedOnce, Alone, LinkAlone, FieldsAre
  <2>3. asserting' = [asserting EXCEPT ![i] = [asserting[i] EXCEPT ![q] = asserting[i][q] - 1]]
    BY <1>7 DEF Asserted
  <2>4. \/ consumers' = consumers
        \/ consumers' = [consumers EXCEPT ![i] = [consumers[i] EXCEPT ![q] = consumers[i][q] + 1]]
    BY <1>7, <2>2 DEF Asserted, IsOpen
  <2>5. \A j \in Links : \A p \in Queues : Count(j, p)' <= Count(j, p) /\ Count(j, p)' \in Int
    <3> SUFFICES ASSUME NEW j \in Links, NEW p \in Queues
                 PROVE  Count(j, p)' <= Count(j, p) /\ Count(j, p)' \in Int
      OBVIOUS
    <3>1. asserting'[j][p] = IF j = i /\ p = q THEN asserting[j][p] - 1 ELSE asserting[j][p]
      BY <1>1, <2>3 DEF TypeOK
    <3>2. \/ consumers'[j][p] = consumers[j][p]
          \/ j = i /\ p = q /\ consumers'[j][p] = consumers[j][p] + 1
      BY <1>1, <2>4 DEF TypeOK
    <3>3. QED BY <1>1, <3>1, <3>2, CountType DEF Count
  <2>6. \A j \in Links : IsOpen(j)' <=> IsOpen(j)
    BY <2>1 DEF IsOpen
  <2>7. \A j \in Links : \A p \in Queues :
            (Count(j, p)' > 0 => Count(j, p) > 0) /\ (Count(j, p) <= 1 => Count(j, p)' <= 1)
    BY <1>1, <2>5, CountType
  <2>8. QED BY <1>1, <2>1, <2>6, <2>7 DEF CountedOnce
<1>8. ASSUME NEW i \in Links, Lose(i) PROVE CountedOnce'
  BY <1>1, <1>8, CloseKeepsCount DEF Lose
<1>9. ASSUME UNCHANGED <<pc, replayed, registered, raced, status, asserting, consumers>>
      PROVE  CountedOnce'
  <2>1. \A i \in Links : (IsOpen(i)' <=> IsOpen(i)) /\ \A q \in Queues : Count(i, q)' = Count(i, q)
    BY <1>9 DEF IsOpen, Count
  <2>2. QED BY <1>1, <1>9, <2>1 DEF CountedOnce
<1>10. ASSUME Disconnect PROVE CountedOnce'
  <2>1. CASE IsOpen(connection) /\ \A c \in {channel, consumerChannel} \ {None} : IsOpen(c)
    <3>1. connection \in Links /\ Close(connection)
      BY <1>1, <1>10, <2>1 DEF Disconnect, IsOpen, TypeOK
    <3>2. QED BY <1>1, <1>10, <3>1, CloseKeepsCount DEF Disconnect
  <2>2. CASE ~(IsOpen(connection) /\ \A c \in {channel, consumerChannel} \ {None} : IsOpen(c))
    BY <1>9, <1>10, <2>2 DEF Disconnect
  <2>3. QED BY <2>1, <2>2
<1>11. ASSUME Destroy \/ UNCHANGED vars PROVE CountedOnce'
  BY <1>9, <1>11 DEF Destroy, vars
<1>12. QED
  BY <1>2, <1>3, <1>4, <1>5, <1>6, <1>7, <1>8, <1>10, <1>11 DEF Next, Proceed

(* Unless a connect() failed after its handlers were attached, the service *)
(* has at most one connection, its fields name it, and it consumes every   *)
(* queue registered outside a connect() at most once (connect, consume).   *)
THEOREM ServiceHasOneLink == Spec => []OneLink
<1>1. ConsumerInv => OneLink
  BY DEF ConsumerInv, CountedOnce, Count, AloneInv, Alone, LinkAlone, FieldsAre, OneLink
<1> QED BY <1>1, ConsumerInit, ConsumerStep, PTL DEF Spec
=============================================================================
