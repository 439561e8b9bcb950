------------------------------- MODULE Reminders -------------------------------
(***************************************************************************)
(* Overstay reminders: messages of the notification queue that are to be   *)
(* pushed at a given time (handleOverstayReminder, modules/notification/   *)
(* notification.router.ts), on one consumer of the notification queue and  *)
(* on the publisher (configs/rabbitmq/rabbitmq.service.ts), in discrete    *)
(* time.                                                                   *)
(*                                                                         *)
(* A reminder that is not due keeps its delivery, and with it a prefetch   *)
(* slot, for as long as its handler sleeps; what waits in the queue        *)
(* meanwhile grows old, and a service token lives no longer than one such  *)
(* sleep.  A reminder that is still early then goes back to the queue with *)
(* a token of the service itself, as a retry does: whether the service     *)
(* accepts its own tokens is a matter of its configuration, and both are   *)
(* looked at.  Redis and process() answer within the instant they are      *)
(* called in, unless a connection or the process is lost before they do,   *)
(* and a jti is remembered for longer than its token is accepted           *)
(* (ServiceToken).                                                         *)
(***************************************************************************)
EXTENDS Integers, Sequences, FiniteSets

CONSTANTS
    Reminders,    \* messages with routing key notification.overstay_reminder
    Others,       \* the other messages of the queue
    NotifyAt,     \* NotifyAt[m]: when reminder m is due
    MaxRetries,   \* maxRetries
    RetryDelay,   \* RetryDelay[n]: the wait before retry n + 1, RETRY_DELAYS
    Prefetch,     \* consumerChannel.prefetch
    TokenTtl,     \* TOKEN_TTL_S
    MaxSleep,     \* the longest sleep, 30 s
    Threshold,    \* a reminder this close is due, 3 s
    Slack,        \* and one that has slept may be this early, 1 s
    MaxTime,      \* bound: the last instant
    MaxFaults,    \* bound: throws of process(), lost connections and crashes
    MaxConns      \* bound: connections opened after the first

ASSUME RemindersAssumption ==
    /\ Reminders \cap Others = {} /\ IsFiniteSet(Reminders)
    /\ NotifyAt \in [Reminders -> Nat]
    /\ MaxRetries \in Nat /\ RetryDelay \in [0 .. MaxRetries - 1 -> Nat]
    /\ Prefetch \in Nat \ {0}
    /\ {TokenTtl, MaxSleep, Threshold, Slack} \subseteq Nat
    /\ {MaxTime, MaxFaults, MaxConns} \subseteq Nat
    /\ Slack <= Threshold /\ Threshold <= MaxSleep

Msgs == Reminders \cup Others

VARIABLES
    trustsSelf,   \* the service's own issuer is a key of trustedKeys
    clock,
    publishedAt,  \* publishedAt[m]: when the peer published m, or -1
    queue,        \* copies ready for delivery, oldest first
    unacked,      \* deliveries [tag, copy] open on the channel
    seen,         \* jtis in the Redis blacklist
    nextJti,      \* the next fresh jti
    dlq,          \* messages in the dead-letter queue
    up,           \* connection and channels are non-null
    conn,         \* how many connections there have been before this one
    nextTag,      \* the next delivery tag of the channel
    handlers,     \* running callbacks and pending timers of retries
    calls,        \* calls[m]: how often process() was called with m
    done,         \* messages whose process() returned
    misacked,     \* messages whose delivery the ack of another settled
    dropped,      \* messages whose retry timer ended without a copy
    raced,        \* messages two deliveries of which found the jti unseen
    crowded,      \* a message has waited for a prefetch slot
    throws, drops, crashes

broker  == <<queue, unacked, dlq, up>>
ghosts  == <<misacked, dropped, raced, crowded>>
faults  == <<throws, drops, crashes>>
process == <<handlers, calls, done>>
vars    == <<trustsSelf, clock, publishedAt, broker, seen, nextJti, conn, nextTag,
             process, ghosts, faults>>

Copies == [msg : Msgs, retry : 0 .. MaxRetries, jti : Nat, exp : Nat, iss : {"peer", "self"}]

(* pc: about to GET the jti, about to SET it, in the setTimeout of a        *)
(* reminder, inside process(), or acked and in the setTimeout of a retry    *)
Handlers == [conn : Nat, tag : Nat, copy : Copies,
             pc : {"get", "set", "sleep", "run", "retry"}, wake : Nat]

TypeOK ==
    /\ trustsSelf \in BOOLEAN
    /\ clock \in 0 .. MaxTime
    /\ publishedAt \in [Msgs -> Nat \cup {-1}]
    /\ queue \in Seq(Copies)
    /\ unacked \subseteq [tag : Nat, copy : Copies]
    /\ Cardinality(unacked) <= Prefetch
    /\ seen \subseteq 0 .. nextJti - 1 /\ nextJti \in Nat
    /\ dlq \subseteq Msgs
    /\ up \in BOOLEAN /\ conn \in Nat /\ nextTag \in Nat
    /\ handlers \subseteq Handlers
    /\ \A h \in handlers : h.pc = "sleep" => h.copy.msg \in Reminders /\ h.wake >= clock
    /\ calls \in [Msgs -> Nat] /\ done \subseteq Msgs
    /\ misacked \subseteq Msgs /\ dropped \subseteq Msgs /\ raced \subseteq Msgs
    /\ crowded \in BOOLEAN
    /\ throws \in Nat /\ drops \in Nat /\ crashes \in Nat

Init ==
    /\ trustsSelf \in BOOLEAN
    /\ clock = 0
    /\ publishedAt = [m \in Msgs |-> -1]
    /\ queue = <<>> /\ unacked = {} /\ seen = {} /\ nextJti = 0 /\ dlq = {}
    /\ up = TRUE /\ conn = 0 /\ nextTag = 1
    /\ handlers = {} /\ calls = [m \in Msgs |-> 0] /\ done = {}
    /\ misacked = {} /\ dropped = {} /\ raced = {} /\ crowded = FALSE
    /\ throws = 0 /\ drops = 0 /\ crashes = 0

Faults == throws + drops + crashes

-----------------------------------------------------------------------------
(* sign(): every copy has a token of its own. *)
Signed(m, n, iss) ==
    [msg |-> m, retry |-> n, jti |-> nextJti, exp |-> clock + TokenTtl, iss |-> iss]

Held(tag) == {d \in unacked : d.tag = tag}

(* The connection goes: the broker puts what was open back in front of q,  *)
(* in the order it was delivered in.                                       *)
Requeue(q) ==
    /\ up' = FALSE
    /\ \E ds \in [1 .. Cardinality(unacked) -> unacked] :
          /\ \A i, j \in DOMAIN ds : i < j => ds[i].tag < ds[j].tag
          /\ queue' = [i \in DOMAIN ds |-> ds[i].copy] \o q
    /\ unacked' = {}

(* ack or nack of a tag on the channel of the moment, the queue being q by *)
(* then: nothing without a channel; a tag that is unknown on it takes the  *)
(* connection down, one that is known settles whatever has it now.         *)
Settle(tag, q) ==
    IF up /\ Held(tag) = {}
    THEN Requeue(q)
    ELSE /\ queue' = q
         /\ unacked' = unacked \ Held(tag)
         /\ UNCHANGED up

Ack(h, q) ==
    /\ Settle(h.tag, q)
    /\ misacked' = misacked \cup {d.copy.msg : d \in {e \in Held(h.tag) : e.copy # h.copy}}

(* the queue's x-dead-letter-exchange gets what was settled *)
Nack(h) ==
    /\ Settle(h.tag, queue)
    /\ dlq' = dlq \cup {d.copy.msg : d \in Held(h.tag)}

Become(h, pc, wake) == handlers' = (handlers \ {h}) \cup {[h EXCEPT !.pc = pc, !.wake = wake]}

Finish(h) == handlers' = handlers \ {h}

-----------------------------------------------------------------------------
(* Mobile publishes a reminder, a peer another message. *)
Publish(m) ==
    /\ publishedAt[m] = -1
    /\ publishedAt' = [publishedAt EXCEPT ![m] = clock]
    /\ queue' = Append(queue, Signed(m, 0, "peer"))
    /\ nextJti' = nextJti + 1
    /\ UNCHANGED <<trustsSelf, clock, unacked, dlq, up, seen, conn, nextTag, process, ghosts,
                   faults>>

(* The broker delivers the head of the queue while a slot is free. *)
Deliverable == up /\ queue # <<>> /\ Cardinality(unacked) < Prefetch

(* verify() before Redis: the token is out of date, or no key is trusted   *)
(* for its issuer                                                          *)
Refused(c) == c.exp < clock \/ (c.iss = "self" /\ ~trustsSelf)

(* verify() returns null without awaiting: nacked in the same tick *)
DeliverRefused ==
    /\ Deliverable /\ Refused(Head(queue))
    /\ queue' = Tail(queue) /\ nextTag' = nextTag + 1
    /\ dlq' = dlq \cup {Head(queue).msg}
    /\ UNCHANGED <<trustsSelf, clock, publishedAt, unacked, up, seen, nextJti, conn, process,
                   ghosts, faults>>

(* The callback starts; verify() suspends at redis.get. *)
Deliver ==
    LET c == Head(queue) IN
    /\ Deliverable /\ ~Refused(c)
    /\ queue' = Tail(queue) /\ nextTag' = nextTag + 1
    /\ unacked' = unacked \cup {[tag |-> nextTag, copy |-> c]}
    /\ handlers' = handlers \cup
          {[conn |-> conn, tag |-> nextTag, copy |-> c, pc |-> "get", wake |-> 0]}
    /\ UNCHANGED <<trustsSelf, clock, publishedAt, dlq, up, seen, nextJti, conn, calls, done,
                   ghosts, faults>>

(* redis.get(jtiKey) finds nothing; redis.set is issued *)
JtiUnseen(h) ==
    /\ h.pc = "get" /\ h.copy.jti \notin seen
    /\ Become(h, "set", 0)
    /\ raced' = raced \cup
          {g.copy.msg : g \in {g \in handlers : g.pc = "set" /\ g.copy.jti = h.copy.jti}}
    /\ UNCHANGED <<trustsSelf, clock, publishedAt, broker, seen, nextJti, conn, nextTag, calls,
                   done, misacked, dropped, crowded, faults>>

(* redis.get(jtiKey) finds the jti: the token counts as replayed *)
JtiReplayed(h) ==
    /\ h.pc = "get" /\ h.copy.jti \in seen
    /\ Nack(h)
    /\ Finish(h)
    /\ UNCHANGED <<trustsSelf, clock, publishedAt, seen, nextJti, conn, nextTag, calls, done,
                   ghosts, faults>>

(* notifyAt.getTime() - Date.now() *)
Delay(m) == NotifyAt[m] - clock

(* Mutant: the delay is not compared *)
EarlyAlways(m) == m \in Reminders

(* delay > 3000 *)
Early(m) == m \in Reminders /\ Delay(m) > Threshold

(* process() is called. *)
Call(h) ==
    /\ Become(h, "run", 0)
    /\ calls' = [calls EXCEPT ![h.copy.msg] = @ + 1]

(* Mutant: the jti is not stored *)
StartDueUnmarked(h) ==
    /\ h.pc = "set" /\ ~Early(h.copy.msg)
    /\ Call(h)
    /\ UNCHANGED <<trustsSelf, clock, publishedAt, broker, seen, nextJti, conn, nextTag, done,
                   ghosts, faults>>

(* redis.set completed: not a reminder, or one that is due *)
StartDue(h) ==
    /\ h.pc = "set" /\ ~Early(h.copy.msg)
    /\ seen' = seen \cup {h.copy.jti}
    /\ Call(h)
    /\ UNCHANGED <<trustsSelf, clock, publishedAt, broker, nextJti, conn, nextTag, done, ghosts,
                   faults>>

(* Mutant: always the longest sleep *)
SleepRound(m) == MaxSleep

(* Math.min(delay, 30_000) *)
Sleep(m) == IF Delay(m) < MaxSleep THEN Delay(m) ELSE MaxSleep

(* Mutant: the delivery is settled before the sleep *)
StartEarlyAcked(h) ==
    /\ h.pc = "set" /\ Early(h.copy.msg)
    /\ seen' = seen \cup {h.copy.jti}
    /\ Ack(h, queue)
    /\ Become(h, "sleep", clock + Sleep(h.copy.msg))
    /\ UNCHANGED <<trustsSelf, clock, publishedAt, dlq, nextJti, conn, nextTag, calls, done,
                   dropped, raced, crowded, faults>>

(* redis.set completed, a reminder that is not due: its handler sleeps *)
StartEarly(h) ==
    /\ h.pc = "set" /\ Early(h.copy.msg)
    /\ seen' = seen \cup {h.copy.jti}
    /\ Become(h, "sleep", clock + Sleep(h.copy.msg))
    /\ UNCHANGED <<trustsSelf, clock, publishedAt, broker, nextJti, conn, nextTag, calls, done,
                   ghosts, faults>>

(* Date.now() < notifyAt.getTime() - 1000 *)
StillEarly(m) == clock < NotifyAt[m] - Slack

(* The setTimeout of a reminder or of a retry has run. *)
Awake(h) == h.pc \in {"sleep", "retry"} /\ h.wake <= clock

(* publishNotification() of a copy, without the header of a retry: dropped *)
(* when the channel is null; and ack                                       *)
Republish(h) ==
    /\ Awake(h) /\ h.pc = "sleep" /\ StillEarly(h.copy.msg)
    /\ Ack(h, IF up THEN Append(queue, Signed(h.copy.msg, 0, "self")) ELSE queue)
    /\ nextJti' = IF up THEN nextJti + 1 ELSE nextJti
    /\ Finish(h)
    /\ UNCHANGED <<trustsSelf, clock, publishedAt, dlq, seen, conn, nextTag, calls, done,
                   dropped, raced, crowded, faults>>

(* A reminder that has slept and is due *)
WakeDue(h) ==
    /\ Awake(h) /\ h.pc = "sleep" /\ ~StillEarly(h.copy.msg)
    /\ Call(h)
    /\ UNCHANGED <<trustsSelf, clock, publishedAt, broker, seen, nextJti, conn, nextTag, done,
                   ghosts, faults>>

(* process() returns. *)
Processed(h) ==
    /\ h.pc = "run"
    /\ done' = done \cup {h.copy.msg}
    /\ Ack(h, queue)
    /\ Finish(h)
    /\ UNCHANGED <<trustsSelf, clock, publishedAt, dlq, seen, nextJti, conn, nextTag, calls,
                   dropped, raced, crowded, faults>>

Throws(h) == h.pc = "run" /\ Faults < MaxFaults /\ throws' = throws + 1

(* process() throws with retries left: ack first, re-publish from a timer *)
ScheduleRetry(h) ==
    /\ Throws(h) /\ h.copy.retry < MaxRetries
    /\ Ack(h, queue)
    /\ Become(h, "retry", clock + RetryDelay[h.copy.retry])
    /\ UNCHANGED <<trustsSelf, clock, publishedAt, dlq, seen, nextJti, conn, nextTag, calls, done,
                   dropped, raced, crowded, drops, crashes>>

(* process() throws after the last retry: ack, then publishToExchange(dlx), *)
(* which drops the message when the channel is null                        *)
DeadLetter(h) ==
    /\ Throws(h) /\ h.copy.retry = MaxRetries
    /\ Ack(h, queue)
    /\ dlq' = IF up THEN dlq \cup {h.copy.msg} ELSE dlq
    /\ Finish(h)
    /\ UNCHANGED <<trustsSelf, clock, publishedAt, seen, nextJti, conn, nextTag, calls, done,
                   dropped, raced, crowded, drops, crashes>>

(* publishWithRetryHeader, which returns at once when the channel is null *)
RetryFires(h) ==
    /\ Awake(h) /\ h.pc = "retry"
    /\ IF up
       THEN /\ queue' = Append(queue, Signed(h.copy.msg, h.copy.retry + 1, "self"))
            /\ nextJti' = nextJti + 1
            /\ UNCHANGED dropped
       ELSE /\ dropped' = dropped \cup {h.copy.msg}
            /\ UNCHANGED <<queue, nextJti>>
    /\ Finish(h)
    /\ UNCHANGED <<trustsSelf, clock, publishedAt, unacked, dlq, up, seen, conn, nextTag, calls,
                   done, misacked, raced, crowded, faults>>

-----------------------------------------------------------------------------
(* The 'close' event: the callbacks go on. *)
Drop ==
    /\ up /\ Faults < MaxFaults
    /\ drops' = drops + 1
    /\ Requeue(queue)
    /\ UNCHANGED <<trustsSelf, clock, publishedAt, dlq, seen, nextJti, conn, nextTag, process,
                   ghosts, throws, crashes>>

(* The process ends, and its callbacks and timers with it. *)
Crash ==
    /\ Faults < MaxFaults
    /\ crashes' = crashes + 1
    /\ Requeue(queue)
    /\ handlers' = {}
    /\ dropped' = dropped \cup {h.copy.msg : h \in {g \in handlers : g.pc = "retry"}}
    /\ UNCHANGED <<trustsSelf, clock, publishedAt, dlq, seen, nextJti, conn, nextTag, calls, done,
                   misacked, raced, crowded, throws, drops>>

(* connect() *)
Reconnect ==
    /\ ~up /\ conn < MaxConns
    /\ up' = TRUE /\ conn' = conn + 1 /\ nextTag' = 1
    /\ UNCHANGED <<trustsSelf, clock, publishedAt, queue, unacked, dlq, seen, nextJti, process,
                   ghosts, faults>>

(* Deliveries, Redis, process() and timers that are due do not wait. *)
Tick ==
    /\ clock < MaxTime
    /\ ~Deliverable
    /\ \A h \in handlers : h.pc \in {"sleep", "retry"} /\ ~Awake(h)
    /\ clock' = clock + 1
    /\ crowded' = (crowded \/ (up /\ queue # <<>>))
    /\ UNCHANGED <<trustsSelf, publishedAt, broker, seen, nextJti, conn, nextTag, process,
                   misacked, dropped, raced, faults>>

Verify(h) == JtiUnseen(h) \/ JtiReplayed(h)
Handle(h) == StartDue(h) \/ StartEarly(h) \/ Republish(h) \/ WakeDue(h)
Outcome(h) == Processed(h) \/ ScheduleRetry(h) \/ DeadLetter(h) \/ RetryFires(h)

Next ==
    \/ \E m \in Msgs : Publish(m)
    \/ DeliverRefused \/ Deliver
    \/ \E h \in handlers : Verify(h) \/ Handle(h) \/ Outcome(h)
    \/ Drop \/ Crash \/ Reconnect \/ Tick

Spec == Init /\ [][Next]_vars

-----------------------------------------------------------------------------
(* Properties *)

(* Whatever is lost, redelivered, retried or republished: process() is     *)
(* called with a message once, and once more for every call that threw, up *)
(* to the first call and MaxRetries, and never again after one that        *)
(* returned (startDlqConsumer, verify), unless two deliveries of one copy  *)
(* passed between each other's GET and SET of the jti, for which a         *)
(* connection must have been lost.  No call is made for a reminder before  *)
(* its time, less the threshold (handleOverstayReminder).                  *)
SentOnceWhenDue ==
    /\ \A m \in Msgs \ raced :
          /\ calls[m] <= 1 + throws /\ calls[m] <= 1 + MaxRetries
          /\ \A h \in handlers : h.pc = "run" /\ h.copy.msg = m => m \notin done
    /\ \A h \in handlers :
          h.pc = "run" /\ h.copy.msg \in Reminders => Delay(h.copy.msg) <= Threshold
    /\ drops = 0 => raced = {}

InQueue(m)  == \E i \in 1 .. Len(queue) : queue[i].msg = m
IsOpen(m)   == \E d \in unacked : d.copy.msg = m
Retrying(m) == \E h \in handlers : h.pc = "retry" /\ h.copy.msg = m

(* The places a message can still be found in: no callback is among them,  *)
(* since it may end with its process.                                      *)
Accounted(m) == InQueue(m) \/ IsOpen(m) \/ Retrying(m) \/ m \in done \/ m \in dlq

(* publish() drops a copy when the channel is null, publishToExchange too, *)
(* and a crash ends the callbacks, yet a published message disappears in   *)
(* two ways only: the ack of another handler, sent after a connection was  *)
(* lost, settled its delivery; or process() threw, and its retry timer,    *)
(* for which it was acked, ran without a channel or ended with its process *)
(* (startDlqConsumer, publishWithRetryHeader).                             *)
NothingLost ==
    /\ \A m \in Msgs \ (misacked \cup dropped) : publishedAt[m] # -1 => Accounted(m)
    /\ drops = 0 => misacked = {}
    /\ throws = 0 \/ drops + crashes = 0 => dropped = {}

(* m is not early any more when its first sleep ends. *)
OneSleep(m) == NotifyAt[m] - publishedAt[m] <= MaxSleep + Slack

(* Without a fault, as long as there are not two prefetch windows of       *)
(* reminders and a token outlives a sleep, no message is dead-lettered by  *)
(* a service that trusts its own tokens, although the reminders of a full  *)
(* window let the others wait; by one that does not, only reminders that   *)
(* one sleep does not bring to their time.  And while no message waits for *)
(* a slot, every reminder is processed by the time it is due (or is        *)
(* published, if that is later), except by a service that does not trust   *)
(* its own tokens: there each of those reminders is dead-lettered, and     *)
(* never processed (verify, handleOverstayReminder).                       *)
OnTime ==
    Faults = 0 =>
        /\ Cardinality(Reminders) < 2 * Prefetch /\ MaxSleep <= TokenTtl =>
              \A m \in dlq : ~trustsSelf /\ m \in Reminders /\ ~OneSleep(m)
        /\ ~crowded =>
              \A m \in Reminders :
                  publishedAt[m] # -1 /\ clock > NotifyAt[m] /\ clock > publishedAt[m] =>
                      IF trustsSelf \/ OneSleep(m) THEN m \in done ELSE m \in dlq \ done
=============================================================================
