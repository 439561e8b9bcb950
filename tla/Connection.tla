------------------------------ MODULE Connection ------------------------------
(***************************************************************************)
(* How one process of the notification service gets, loses and replaces    *)
(* its connection to RabbitMQ: connect, scheduleReconnect, the handlers of *)
(* the connection's events, the registration of consumers and their replay *)
(* (configs/rabbitmq/rabbitmq.service.ts), await by await.                 *)
(*                                                                         *)
(* Every await of connect() speaks to the object that its field held when  *)
(* the call was made, and stores its answer in a field that others write:  *)
(* another connect() started by a second timer, and the close handlers,    *)
(* which clear the fields whichever connection they belong to.  A link is  *)
(* a connection of the broker, numbered as it was opened; a channel is     *)
(* named by its link.  A call that waits on a link rejects when the link   *)
(* goes; amqplib takes the link down after a channel error, so a setup the *)
(* broker refuses is a lost link.                                          *)
(***************************************************************************)
EXTENDS Integers, FiniteSets

CONSTANTS
    Calls,        \* invocations of connect() that may run at once
    Queues,       \* the queues the routers register
    Plain,        \* those registered with consume(), without a DLQ
    MaxLinks,     \* bound: connections opened in the life of the process
    MaxLosses,    \* bound: connections lost
    MaxRefusals   \* bound: amqplib.connect() rejections

ASSUME ConnectionAssumption ==
    /\ Plain \subseteq Queues
    /\ MaxLinks \in Nat \ {0} /\ MaxLosses \in Nat /\ MaxRefusals \in Nat

VARIABLES
    (* running invocations of connect() *)
    pc,              \* pc[k]: the await k is at
    on,              \* on[k]: the link that call of k goes to
    replayed,        \* replayed[k]: queues k's replay loop has passed
    (* the service's fields *)
    connection, channel, consumerChannel,   \* a link, or None
    registered,      \* queues in the consumers array
    timers,          \* pending setTimeouts of scheduleReconnect
    destroyed,       \* isDestroyed
    (* links *)
    status,          \* status[i]: not opened yet, open or closed
    hooks,           \* hooks[i]: 'close' handlers attached to i
    asserting,       \* asserting[i][q]: startConsumer calls at assertQueue
    consumers,       \* consumers[i][q]: consumers of q on i
    (* history *)
    booted,          \* the first connect() has returned
    disconnecting,   \* disconnect() has not come to its last close()
    doubled,         \* a connect() failed after its handlers were attached
    raced,           \* queues registered while a connect() was running
    reviving,        \* a timer or a connect() was pending at the shutdown
    losses, refusals

calls   == <<pc, on, replayed>>
fields  == <<connection, channel, consumerChannel>>
links   == <<status, hooks, asserting, consumers>>
ghosts  == <<doubled, raced, reviving>>
bounds  == <<losses, refusals>>
vars    == <<calls, fields, registered, timers, destroyed, links,
             booted, disconnecting, ghosts, bounds>>

None   == 0
Links  == 1 .. MaxLinks
Before == {"open", "channel", "consumer", "prefetch"}   \* no handler attached yet
After  == {"setup", "replay"}

TypeOK ==
    /\ pc \in [Calls -> Before \cup After \cup {"idle"}]
    /\ on \in [Calls -> Links \cup {None}]
    /\ replayed \in [Calls -> SUBSET Queues]
    /\ {connection, channel, consumerChannel} \subseteq Links \cup {None}
    /\ registered \subseteq Queues
    /\ timers \in Nat
    /\ destroyed \in BOOLEAN
    /\ status \in [Links -> {"unused", "open", "closed"}]
    /\ hooks \in [Links -> Nat]
    /\ asserting \in [Links -> [Queues -> Nat]]
    /\ consumers \in [Links -> [Queues -> Nat]]
    /\ {booted, disconnecting, doubled, reviving} \subseteq BOOLEAN
    /\ raced \subseteq Queues
    /\ losses \in Nat /\ refusals \in Nat

NoConsumers == [q \in Queues |-> 0]

(* onModuleInit: the first connect() is at amqplib.connect(). *)
Init ==
    /\ \E k \in Calls : pc = [c \in Calls |-> IF c = k THEN "open" ELSE "idle"]
    /\ on = [k \in Calls |-> None]
    /\ replayed = [k \in Calls |-> {}]
    /\ connection = None /\ channel = None /\ consumerChannel = None
    /\ registered = {} /\ timers = 0 /\ destroyed = FALSE
    /\ status = [i \in Links |-> "unused"]
    /\ hooks = [i \in Links |-> 0]
    /\ asserting = [i \in Links |-> NoConsumers]
    /\ consumers = [i \in Links |-> NoConsumers]
    /\ booted = FALSE /\ disconnecting = FALSE
    /\ doubled = FALSE /\ raced = {} /\ reviving = FALSE
    /\ losses = 0 /\ refusals = 0

-----------------------------------------------------------------------------
IsOpen(i) == i # None /\ status[i] = "open"

Await(k, label, i) ==
    /\ pc' = [pc EXCEPT ![k] = label]
    /\ on' = [on EXCEPT ![k] = i]

ClearFields == connection' = None /\ channel' = None /\ consumerChannel' = None

(* Mutants: the shutdown is not checked; the 'error' handler reconnects too *)
ScheduleAlways(n) == timers' = timers + n

ScheduleOnErrorToo(n) == timers' = timers + (IF destroyed THEN 0 ELSE 2 * n)

(* if (!this.isDestroyed) scheduleReconnect(), n times; the back-off only *)
(* delays the timer                                                       *)
Schedule(n) == timers' = timers + (IF destroyed THEN 0 ELSE n)

(* Link i goes, with what runs on it; each close handler clears the fields *)
(* and schedules a reconnect.                                              *)
Close(i) ==
    /\ status' = [status EXCEPT ![i] = "closed"]
    /\ hooks' = [hooks EXCEPT ![i] = 0]
    /\ asserting' = [asserting EXCEPT ![i] = NoConsumers]
    /\ consumers' = [consumers EXCEPT ![i] = NoConsumers]
    /\ IF hooks[i] > 0 THEN ClearFields /\ Schedule(hooks[i]) ELSE UNCHANGED <<fields, timers>>

(* Mutant: a failed connect() is only logged *)
CatchGivesUp(k) ==
    /\ ClearFields /\ timers' = timers
    /\ Await(k, "idle", None)
    /\ booted' = TRUE
    /\ doubled' = (doubled \/ pc[k] = "setup")
    /\ UNCHANGED <<replayed, registered, destroyed, links, disconnecting,
                   raced, reviving>>

(* The catch block of connect(): the fields are cleared, the link is not  *)
(* closed.                                                                *)
Catch(k) ==
    /\ ClearFields
    /\ Schedule(1)
    /\ Await(k, "idle", None)
    /\ booted' = TRUE
    /\ doubled' = (doubled \/ pc[k] = "setup")
    /\ UNCHANGED <<replayed, registered, destroyed, links, disconnecting,
                   raced, reviving>>

(* startDlqConsumer and startConsumer, on the consumer channel of the     *)
(* moment: nothing without one, and a channel that is gone is an error    *)
(* they swallow.  A plain consumer awaits assertQueue first.              *)
StartConsumer(q) ==
    LET c == consumerChannel IN
    IF ~IsOpen(c) THEN UNCHANGED <<asserting, consumers>>
    ELSE IF q \in Plain
    THEN asserting' = [asserting EXCEPT ![c][q] = @ + 1] /\ UNCHANGED consumers
    ELSE consumers' = [consumers EXCEPT ![c][q] = @ + 1] /\ UNCHANGED asserting

-----------------------------------------------------------------------------
(* connect(), from one await to the next *)

(* amqplib.connect() answers: this.connection, then createChannel() on it *)
Opened(k) ==
    /\ pc[k] = "open"
    /\ \E i \in Links :
        /\ status[i] = "unused"
        /\ \A j \in Links : j < i => status[j] # "unused"
        /\ status' = [status EXCEPT ![i] = "open"]
        /\ connection' = i
        /\ Await(k, "channel", i)
    /\ UNCHANGED <<replayed, channel, consumerChannel, registered, timers, destroyed,
                   hooks, asserting, consumers, booted, disconnecting, ghosts, bounds>>

Refused(k) ==
    /\ pc[k] = "open" /\ refusals < MaxRefusals
    /\ refusals' = refusals + 1
    /\ Catch(k)
    /\ UNCHANGED losses

(* this.channel, then createChannel() on the connection of the moment *)
ChannelOpened(k) ==
    /\ pc[k] = "channel" /\ IsOpen(on[k])
    /\ IF connection = None THEN Catch(k)
       ELSE /\ channel' = on[k]
            /\ Await(k, "consumer", connection)
            /\ UNCHANGED <<replayed, connection, consumerChannel, registered, timers,
                           destroyed, links, booted, disconnecting, ghosts>>
    /\ UNCHANGED bounds

(* this.consumerChannel, then its prefetch() *)
ConsumerChannelOpened(k) ==
    /\ pc[k] = "consumer" /\ IsOpen(on[k])
    /\ consumerChannel' = on[k]
    /\ Await(k, "prefetch", on[k])
    /\ UNCHANGED <<replayed, connection, channel, registered, timers, destroyed,
                   links, booted, disconnecting, ghosts, bounds>>

(* The handlers go to the connection of the moment; setupDlxAndQueues     *)
(* returns at once when there is no channel.                              *)
Prefetched(k) ==
    /\ pc[k] = "prefetch" /\ IsOpen(on[k])
    /\ IF connection = None THEN Catch(k)
       ELSE /\ hooks' = [hooks EXCEPT ![connection] = IF IsOpen(connection) THEN @ + 1 ELSE @]
            /\ Await(k, IF channel = None THEN "replay" ELSE "setup", channel)
            /\ UNCHANGED <<replayed, fields, registered, timers, destroyed, status,
                           asserting, consumers, booted, disconnecting, ghosts>>
    /\ UNCHANGED bounds

(* createChannel or prefetch on a link that is gone *)
Rejected(k) ==
    /\ pc[k] \in {"channel", "consumer", "prefetch"} /\ ~IsOpen(on[k])
    /\ Catch(k)
    /\ UNCHANGED bounds

(* All declarations of setupDlxAndQueues are answered. *)
SetUp(k) ==
    /\ pc[k] = "setup" /\ IsOpen(on[k]) /\ IsOpen(channel)
    /\ Await(k, "replay", None)
    /\ UNCHANGED <<replayed, fields, registered, timers, destroyed, links,
                   booted, disconnecting, ghosts, bounds>>

(* Its channel went, was cleared, or is being closed by disconnect(). *)
SetupFails(k) ==
    /\ pc[k] = "setup"
    /\ ~IsOpen(on[k]) \/ ~IsOpen(channel) \/ destroyed
    /\ Catch(k)
    /\ UNCHANGED bounds

(* Mutant: only consumers with a DLQ are replayed *)
ReplayDlqOnly(k) ==
    /\ pc[k] = "replay"
    /\ \E q \in registered \ replayed[k] :
        /\ IF q \in Plain THEN UNCHANGED <<asserting, consumers>> ELSE StartConsumer(q)
        /\ replayed' = [replayed EXCEPT ![k] = @ \cup {q}]
    /\ UNCHANGED <<pc, on, fields, registered, timers, destroyed, status, hooks,
                   booted, disconnecting, ghosts, bounds>>

(* The loop over this.consumers, which also meets what is pushed meanwhile *)
Replay(k) ==
    /\ pc[k] = "replay"
    /\ \E q \in registered \ replayed[k] :
        /\ StartConsumer(q)
        /\ replayed' = [replayed EXCEPT ![k] = @ \cup {q}]
    /\ UNCHANGED <<pc, on, fields, registered, timers, destroyed, status, hooks,
                   booted, disconnecting, ghosts, bounds>>

Returns(k) ==
    /\ pc[k] = "replay" /\ registered \subseteq replayed[k]
    /\ Await(k, "idle", None)
    /\ replayed' = [replayed EXCEPT ![k] = {}]
    /\ booted' = TRUE
    /\ UNCHANGED <<fields, registered, timers, destroyed, links, disconnecting,
                   ghosts, bounds>>

(* A rejection runs long before the second a timer waits at least. *)
Prompt(k) ==
    CASE pc[k] \in {"channel", "consumer", "prefetch", "setup"} -> IsOpen(on[k])
      [] pc[k] = "replay" -> IsOpen(consumerChannel)
      [] OTHER -> TRUE

(* scheduleReconnect's callback: connect(), destroyed or not *)
TimerFires(k) ==
    /\ timers > 0 /\ pc[k] = "idle"
    /\ \A c \in Calls : Prompt(c)
    /\ timers' = timers - 1
    /\ Await(k, "open", None)
    /\ UNCHANGED <<replayed, fields, registered, destroyed, links, booted,
                   disconnecting, ghosts, bounds>>

-----------------------------------------------------------------------------
(* consume() and consumeWithDlq(), called by the routers once the first    *)
(* connect() has returned                                                  *)
Register(q) ==
    /\ booted /\ q \notin registered
    /\ registered' = registered \cup {q}
    /\ StartConsumer(q)
    /\ raced' = IF \E k \in Calls : pc[k] # "idle" THEN raced \cup {q} ELSE raced
    /\ UNCHANGED <<calls, fields, timers, destroyed, status, hooks, booted,
                   disconnecting, doubled, reviving, bounds>>

(* Mutant: the answer is attributed to the channel of the moment *)
AssertedOnCurrent(i, q) ==
    /\ asserting[i][q] > 0 /\ IsOpen(consumerChannel)
    /\ asserting' = [asserting EXCEPT ![consumerChannel][q] = @ - 1]
    /\ consumers' = [consumers EXCEPT ![consumerChannel][q] = @ + 1]
    /\ UNCHANGED <<calls, fields, registered, timers, destroyed, status, hooks,
                   booted, disconnecting, ghosts, bounds>>

(* assertQueue of startConsumer answers; consume() goes to the channel of *)
(* the moment.                                                            *)
Asserted(i, q) ==
    /\ asserting[i][q] > 0
    /\ asserting' = [asserting EXCEPT ![i][q] = @ - 1]
    /\ consumers' = IF IsOpen(consumerChannel)
                    THEN [consumers EXCEPT ![consumerChannel][q] = @ + 1] ELSE consumers
    /\ UNCHANGED <<calls, fields, registered, timers, destroyed, status, hooks,
                   booted, disconnecting, ghosts, bounds>>

Lose(i) ==
    /\ IsOpen(i) /\ losses < MaxLosses
    /\ losses' = losses + 1
    /\ Close(i)
    /\ UNCHANGED <<calls, registered, destroyed, booted, disconnecting, ghosts, refusals>>

(* onModuleDestroy *)
Destroy ==
    /\ booted /\ ~destroyed
    /\ destroyed' = TRUE
    /\ disconnecting' = TRUE
    /\ reviving' = (timers > 0 \/ \E k \in Calls : pc[k] # "idle")
    /\ UNCHANGED <<calls, fields, registered, timers, links, booted, doubled, raced, bounds>>

(* disconnect(): a channel that is gone makes its close() throw, and the  *)
(* connection is left as it is.                                           *)
Disconnect ==
    /\ disconnecting
    /\ disconnecting' = FALSE
    /\ IF IsOpen(connection) /\ \A c \in {channel, consumerChannel} \ {None} : IsOpen(c)
       THEN Close(connection)
       ELSE UNCHANGED <<fields, timers, links>>
    /\ UNCHANGED <<calls, registered, destroyed, booted, ghosts, bounds>>

-----------------------------------------------------------------------------
Proceed(k) ==
    \/ Opened(k) \/ ChannelOpened(k) \/ ConsumerChannelOpened(k) \/ Prefetched(k)
    \/ Rejected(k) \/ SetUp(k) \/ SetupFails(k) \/ Replay(k) \/ Returns(k)

Next ==
    \/ \E k \in Calls : Proceed(k) \/ Refused(k) \/ TimerFires(k)
    \/ \E q \in Queues : Register(q) \/ \E i \in Links : Asserted(i, q)
    \/ \E i \in Links : Lose(i)
    \/ Destroy \/ Disconnect

Spec == Init /\ [][Next]_vars

(* Calls on an open link are answered, timers fire, the routers register.  *)
(* Nothing is assumed of losses, refusals and the shutdown.                *)
Fairness ==
    /\ \A k \in Calls : WF_vars(Proceed(k))
    /\ WF_vars(\E k \in Calls : TimerFires(k))
    /\ \A q \in Queues : WF_vars(Register(q)) /\ WF_vars(\E i \in Links : Asserted(i, q))

FairSpec == Spec /\ Fairness

-----------------------------------------------------------------------------
(* Properties *)

(* Something will bring the service a connection or tell it that one is    *)
(* lost: a timer, a connect() that has yet to attach its handlers, or an   *)
(* open link that has them.                                                *)
NeverStuck ==
    ~destroyed =>
        \/ timers > 0
        \/ \E k \in Calls : pc[k] \in Before
        \/ \E i \in Links : IsOpen(i) /\ hooks[i] > 0

(* Unless a connect() failed after its handlers were attached (its catch   *)
(* block and the close handler then both reconnect), there is one link,    *)
(* the fields are it or empty, and it consumes each queue once if the      *)
(* queue was not registered while a connect() was running: what            *)
(* DlqConsumer takes for granted.                                          *)
OneLink ==
    ~doubled => \A i \in Links : IsOpen(i) =>
        /\ connection = i /\ {channel, consumerChannel} \subseteq {i, None}
        /\ \A q \in Queues \ raced : asserting[i][q] + consumers[i][q] <= 1

(* After a shutdown that met no timer and no connect(), nothing connects   *)
(* again: isDestroyed is checked where it must be.                         *)
StaysDown ==
    destroyed /\ ~disconnecting /\ ~doubled /\ ~reviving => \A i \in Links : ~IsOpen(i)

Serving ==
    /\ IsOpen(connection) /\ channel = connection /\ consumerChannel = connection
    /\ \A q \in registered : consumers[connection][q] > 0

(* However often the connection is lost or refused, once that stops the   *)
(* service publishes and consumes on one connection again; even after its *)
(* reconnects have doubled, some open link consumes every queue.          *)
EventuallyServing ==
    <>[](destroyed \/ IF doubled
                      THEN \E i \in Links : IsOpen(i) /\ \A q \in registered : consumers[i][q] > 0
                      ELSE Serving)
=============================================================================
