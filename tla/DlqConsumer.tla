------------------------------ MODULE DlqConsumer ------------------------------
(***************************************************************************)
(* The retrying consumer of the notification service: consumeWithDlq,      *)
(* startDlqConsumer, publishWithRetryHeader and the connection handling of *)
(* configs/rabbitmq/rabbitmq.service.ts, together with the token check of  *)
(* common/service-auth/service-jwt.service.ts that every delivery passes.  *)
(*                                                                         *)
(* The broker is external: one durable queue with a dead-letter exchange,  *)
(* and per connection a set of unacknowledged deliveries that it requeues  *)
(* when the connection goes away.  Delivery tags start again at 1 on every *)
(* channel, and ack/nack go to whatever channel the service holds *now*,   *)
(* not to the one the message came from: that is what the code does.       *)
(***************************************************************************)
EXTENDS Integers, FiniteSets

CONSTANTS
    Msgs,         \* payloads published by the peer services
    Replicas,     \* pods consuming the queue (hpa.yaml: 2 to 4)
    Peers,        \* issuers of the peers' tokens, "none" included
    Self,         \* SERVICE_NAME, the issuer of the tokens of retries
    Trusted,      \* the keys of the trustedKeys map
    Unparsable,   \* payloads JSON.parse rejects
    MaxRetries,   \* maxRetries
    Prefetch,     \* consumerChannel.prefetch
    MaxDrops,     \* bound: connections lost
    MaxCrashes,   \* bound: process crashes
    MaxExpiries   \* bound: tokens that outlive their 30 s in the queue

ASSUME ConsumerAssumption ==
    /\ Self \notin Peers
    /\ Trusted \subseteq Peers \cup {Self}
    /\ Unparsable \subseteq Msgs
    /\ MaxRetries \in Nat
    /\ Prefetch \in Nat \ {0}
    /\ MaxDrops \in Nat
    /\ MaxCrashes \in Nat
    /\ MaxExpiries \in Nat

VARIABLES
    (* broker and Redis *)
    published,  \* payloads the peers have published so far
    queue,      \* copies ready for delivery
    unacked,    \* unacked[r]: deliveries [tag, copy] open on r's channel
    dlq,        \* payloads in the dead-letter queue
    seen,       \* jtis in the Redis blacklist
    expired,    \* jtis whose token is past its exp
    nextJti,    \* the next fresh jti
    (* replicas *)
    up,         \* up[r]: connection and both channels are non-null
    conn,       \* conn[r]: how many connections r has opened
    nextTag,    \* nextTag[r]: next delivery tag of r's channel
    handlers,   \* handlers[r]: running invocations of the consume callback
    timers,     \* timers[r]: pending setTimeout of a retry
    (* outcome *)
    done,       \* payloads whose handler returned
    discarded,  \* payloads acked because they did not parse
    attempts,   \* attempts[m]: how often the handler was called with m
    drops, crashes

broker   == <<published, queue, unacked, dlq, seen, expired, nextJti>>
replica  == <<up, conn, nextTag, handlers, timers>>
outcome  == <<done, discarded, attempts, drops, crashes>>
vars     == <<broker, replica, outcome>>

Copies == [msg : Msgs, retry : 0 .. MaxRetries, jti : Nat, iss : Peers \cup {Self}]

Deliveries == [tag : Nat, copy : Copies]

(* pc: about to GET the jti, about to SET it, or inside the handler *)
Invocations == [conn : Nat, tag : Nat, copy : Copies, pc : {"get", "set", "run"}]

TypeOK ==
    /\ published \in SUBSET Msgs
    /\ queue \in SUBSET Copies
    /\ unacked \in [Replicas -> SUBSET Deliveries]
    /\ dlq \in SUBSET Msgs
    /\ seen \in SUBSET Nat
    /\ expired \in SUBSET Nat
    /\ nextJti \in Nat
    /\ up \in [Replicas -> BOOLEAN]
    /\ conn \in [Replicas -> Nat]
    /\ nextTag \in [Replicas -> Nat]
    /\ handlers \in [Replicas -> SUBSET Invocations]
    /\ timers \in [Replicas -> SUBSET Invocations]
    /\ done \in SUBSET Msgs
    /\ discarded \in SUBSET Msgs
    /\ attempts \in [Msgs -> Nat]
    /\ drops \in Nat
    /\ crashes \in Nat

Init ==
    /\ published = {} /\ queue = {} /\ dlq = {}
    /\ unacked = [r \in Replicas |-> {}]
    /\ seen = {} /\ expired = {} /\ nextJti = 0
    /\ up = [r \in Replicas |-> FALSE]
    /\ conn = [r \in Replicas |-> 0]
    /\ nextTag = [r \in Replicas |-> 1]
    /\ handlers = [r \in Replicas |-> {}]
    /\ timers = [r \in Replicas |-> {}]
    /\ done = {} /\ discarded = {}
    /\ attempts = [m \in Msgs |-> 0]
    /\ drops = 0 /\ crashes = 0

-----------------------------------------------------------------------------
(* The broker's side of a channel *)

Copy(m, n, iss) == [msg |-> m, retry |-> n, jti |-> nextJti, iss |-> iss]

Held(r, tag) == {d \in unacked[r] : d.tag = tag}

(* Connection and channels become null; the broker requeues what was open. *)
Close(r) ==
    /\ up' = [up EXCEPT ![r] = FALSE]
    /\ queue' = queue \cup {d.copy : d \in unacked[r]}
    /\ unacked' = [unacked EXCEPT ![r] = {}]

(* this.consumerChannel?.ack(msg): only the tag reaches the broker.  A tag  *)
(* unknown on the channel is a channel error, which takes the connection    *)
(* down; with the channel null nothing is sent.                             *)
Ack(r, tag) ==
    IF up[r] /\ Held(r, tag) = {}
    THEN Close(r)
    ELSE /\ unacked' = [unacked EXCEPT ![r] = @ \ Held(r, tag)]
         /\ UNCHANGED <<up, queue>>

(* nack(msg, false, false): as ack, and x-dead-letter-exchange gets a copy *)
Nack(r, tag) ==
    /\ Ack(r, tag)
    /\ dlq' = dlq \cup {d.copy.msg : d \in Held(r, tag)}

-----------------------------------------------------------------------------
(* A peer publishes a payload, with a fresh token in x-service-token. *)
Publish(m, iss) ==
    /\ m \notin published
    /\ published' = published \cup {m}
    /\ queue' = queue \cup {Copy(m, 0, iss)}
    /\ nextJti' = nextJti + 1
    /\ UNCHANGED <<unacked, dlq, seen, expired, replica, outcome>>

(* 30 s pass between the signing of a token and its verification. *)
TokenExpires(j) ==
    /\ Cardinality(expired) < MaxExpiries
    /\ j \notin expired
    /\ expired' = expired \cup {j}
    /\ UNCHANGED <<published, queue, unacked, dlq, seen, nextJti, replica, outcome>>

(* Mutant of Connect: no new attempt after the first connection *)
ConnectOnce(r) ==
    /\ conn[r] = 0
    /\ up' = [up EXCEPT ![r] = TRUE]
    /\ conn' = [conn EXCEPT ![r] = 1]
    /\ UNCHANGED <<broker, nextTag, handlers, timers, outcome>>

(* connect(): new connection, new channels, consumers replayed *)
Connect(r) ==
    /\ ~up[r]
    /\ up' = [up EXCEPT ![r] = TRUE]
    /\ conn' = [conn EXCEPT ![r] = @ + 1]
    /\ nextTag' = [nextTag EXCEPT ![r] = 1]
    /\ UNCHANGED <<broker, handlers, timers, outcome>>

(* The checks of verify() that need no Redis: expiry, issuer, signature *)
Acceptable(c) == c.jti \notin expired /\ c.iss \in Trusted

(* The consume callback starts; verify() suspends at redis.get. *)
Deliver(r, c) ==
    /\ up[r]
    /\ Cardinality(unacked[r]) < Prefetch
    /\ Acceptable(c)
    /\ queue' = queue \ {c}
    /\ unacked' = [unacked EXCEPT ![r] = @ \cup {[tag |-> nextTag[r], copy |-> c]}]
    /\ nextTag' = [nextTag EXCEPT ![r] = @ + 1]
    /\ handlers' = [handlers EXCEPT ![r] = @ \cup
          {[conn |-> conn[r], tag |-> nextTag[r], copy |-> c, pc |-> "get"]}]
    /\ UNCHANGED <<published, dlq, seen, expired, nextJti, up, conn, timers, outcome>>

(* Mutant of DeliverRejected: the queue has no dead-letter exchange *)
DeliverRejectedDropped(r, c) ==
    /\ up[r]
    /\ Cardinality(unacked[r]) < Prefetch
    /\ ~Acceptable(c)
    /\ queue' = queue \ {c}
    /\ nextTag' = [nextTag EXCEPT ![r] = @ + 1]
    /\ UNCHANGED <<published, dlq, unacked, seen, expired, nextJti,
                   up, conn, handlers, timers, outcome>>

(* verify() returns null without awaiting: nacked in the same tick *)
DeliverRejected(r, c) ==
    /\ up[r]
    /\ Cardinality(unacked[r]) < Prefetch
    /\ ~Acceptable(c)
    /\ queue' = queue \ {c}
    /\ nextTag' = [nextTag EXCEPT ![r] = @ + 1]
    /\ dlq' = dlq \cup {c.msg}
    /\ UNCHANGED <<published, unacked, seen, expired, nextJti,
                   up, conn, handlers, timers, outcome>>

Become(r, h, pc) == [handlers EXCEPT ![r] = (@ \ {h}) \cup {[h EXCEPT !.pc = pc]}]

Finish(r, h) == [handlers EXCEPT ![r] = @ \ {h}]

(* redis.get(jtiKey) finds nothing; redis.set is issued *)
JtiUnseen(r, h) ==
    /\ h.pc = "get"
    /\ h.copy.jti \notin seen
    /\ handlers' = Become(r, h, "set")
    /\ UNCHANGED <<broker, up, conn, nextTag, timers, outcome>>

(* redis.get(jtiKey) finds the jti: the token counts as replayed *)
JtiReplayed(r, h) ==
    /\ h.pc = "get"
    /\ h.copy.jti \in seen
    /\ Nack(r, h.tag)
    /\ handlers' = Finish(r, h)
    /\ UNCHANGED <<published, seen, expired, nextJti, conn, nextTag, timers, outcome>>

(* redis.set(jtiKey) completed, the payload parses, the handler is called *)
StartHandler(r, h) ==
    /\ h.pc = "set"
    /\ h.copy.msg \notin Unparsable
    /\ seen' = seen \cup {h.copy.jti}
    /\ handlers' = Become(r, h, "run")
    /\ attempts' = [attempts EXCEPT ![h.copy.msg] = @ + 1]
    /\ UNCHANGED <<published, queue, unacked, dlq, expired, nextJti,
                   up, conn, nextTag, timers, done, discarded, drops, crashes>>

(* redis.set(jtiKey) completed, JSON.parse throws: acked to discard *)
DiscardUnparsable(r, h) ==
    /\ h.pc = "set"
    /\ h.copy.msg \in Unparsable
    /\ seen' = seen \cup {h.copy.jti}
    /\ Ack(r, h.tag)
    /\ handlers' = Finish(r, h)
    /\ discarded' = discarded \cup {h.copy.msg}
    /\ UNCHANGED <<published, dlq, expired, nextJti, conn, nextTag, timers,
                   done, attempts, drops, crashes>>

HandlerReturns(r, h) ==
    /\ h.pc = "run"
    /\ Ack(r, h.tag)
    /\ handlers' = Finish(r, h)
    /\ done' = done \cup {h.copy.msg}
    /\ UNCHANGED <<published, dlq, seen, expired, nextJti, conn, nextTag, timers,
                   discarded, attempts, drops, crashes>>

(* Mutants of RetriesRemain: one retry too many, one too few *)
RetriesRemainLate(h)  == h.copy.retry <= MaxRetries
RetriesRemainEarly(h) == h.copy.retry + 1 < MaxRetries

(* retryCount < maxRetries *)
RetriesRemain(h) == h.copy.retry < MaxRetries

(* Handler threw with retries left: ack first, re-publish from a timer *)
ScheduleRetry(r, h) ==
    /\ h.pc = "run"
    /\ RetriesRemain(h)
    /\ Ack(r, h.tag)
    /\ handlers' = Finish(r, h)
    /\ timers' = [timers EXCEPT ![r] = @ \cup {h}]
    /\ UNCHANGED <<published, dlq, seen, expired, nextJti, conn, nextTag, outcome>>

(* Mutant of DeadLetter: published, not acked *)
DeadLetterUnacked(r, h) ==
    /\ h.pc = "run"
    /\ ~RetriesRemain(h)
    /\ handlers' = Finish(r, h)
    /\ dlq' = IF up[r] THEN dlq \cup {h.copy.msg} ELSE dlq
    /\ UNCHANGED <<published, queue, unacked, seen, expired, nextJti,
                   up, conn, nextTag, timers, outcome>>

(* Mutant of DeadLetter: acked, not published *)
DeadLetterUnpublished(r, h) ==
    /\ h.pc = "run"
    /\ ~RetriesRemain(h)
    /\ Ack(r, h.tag)
    /\ handlers' = Finish(r, h)
    /\ UNCHANGED <<published, dlq, seen, expired, nextJti, conn, nextTag, timers, outcome>>

(* Handler threw after the last retry: ack, then publishToExchange(dlx), *)
(* which drops the message when the channel is null                      *)
DeadLetter(r, h) ==
    /\ h.pc = "run"
    /\ ~RetriesRemain(h)
    /\ Ack(r, h.tag)
    /\ handlers' = Finish(r, h)
    /\ dlq' = IF up[r] THEN dlq \cup {h.copy.msg} ELSE dlq
    /\ UNCHANGED <<published, seen, expired, nextJti, conn, nextTag, timers, outcome>>

(* The timer fires: publishWithRetryHeader, which returns at once when the *)
(* channel is null                                                         *)
RetryFires(r, h) ==
    /\ timers' = [timers EXCEPT ![r] = @ \ {h}]
    /\ IF up[r]
       THEN /\ queue' = queue \cup {Copy(h.copy.msg, h.copy.retry + 1, Self)}
            /\ nextJti' = nextJti + 1
       ELSE UNCHANGED <<queue, nextJti>>
    /\ UNCHANGED <<published, unacked, dlq, seen, expired,
                   up, conn, nextTag, handlers, outcome>>

(* The 'close' event of the connection: running callbacks go on running *)
Drop(r) ==
    /\ drops < MaxDrops
    /\ up[r]
    /\ drops' = drops + 1
    /\ Close(r)
    /\ UNCHANGED <<published, dlq, seen, expired, nextJti, conn, nextTag,
                   handlers, timers, done, discarded, attempts, crashes>>

(* The process ends: callbacks and timers are gone.  A Redis error inside  *)
(* verify() is one cause, the rejection of the callback's promise being    *)
(* unhandled.                                                              *)
Crash(r) ==
    /\ crashes < MaxCrashes
    /\ crashes' = crashes + 1
    /\ Close(r)
    /\ handlers' = [handlers EXCEPT ![r] = {}]
    /\ timers' = [timers EXCEPT ![r] = {}]
    /\ UNCHANGED <<published, dlq, seen, expired, nextJti, conn, nextTag,
                   done, discarded, attempts, drops>>

-----------------------------------------------------------------------------
Consume(r) == \E c \in queue : Deliver(r, c) \/ DeliverRejected(r, c)

Verify(r) == \E h \in handlers[r] : JtiUnseen(r, h) \/ JtiReplayed(r, h)

Handle(r) == \E h \in handlers[r] : StartHandler(r, h) \/ DiscardUnparsable(r, h)

Settle(r) ==
    \E h \in handlers[r] : HandlerReturns(r, h) \/ ScheduleRetry(r, h) \/ DeadLetter(r, h)

FireRetry(r) == \E h \in timers[r] : RetryFires(r, h)

Next ==
    \/ \E m \in Msgs, iss \in Peers : Publish(m, iss)
    \/ \E j \in 0 .. (nextJti - 1) : TokenExpires(j)
    \/ \E r \in Replicas :
        \/ Connect(r) \/ Consume(r) \/ Verify(r) \/ Handle(r) \/ Settle(r)
        \/ FireRetry(r) \/ Drop(r) \/ Crash(r)

Spec == Init /\ [][Next]_vars

(* connect() reschedules itself until it succeeds, the broker delivers to a *)
(* connected consumer, Redis and the handlers answer, timers fire.  Nothing *)
(* is assumed of peers, faults or time.                                     *)
Fairness ==
    \A r \in Replicas :
        /\ WF_vars(Connect(r)) /\ WF_vars(Consume(r)) /\ WF_vars(Verify(r))
        /\ WF_vars(Handle(r)) /\ WF_vars(Settle(r)) /\ WF_vars(FireRetry(r))

FairSpec == Spec /\ Fairness

-----------------------------------------------------------------------------
(* Properties *)

Faulted == drops + crashes > 0

(* m is in the queue, in a running callback or waiting for its retry. *)
Live(m) ==
    \/ \E c \in queue : c.msg = m
    \/ \E r \in Replicas : \E h \in handlers[r] \cup timers[r] : h.copy.msg = m

Settled(m) == m \in done \cup dlq \cup discarded

InQueue(m) == {<<"queue", c>> : c \in {d \in queue : d.msg = m}}

InHands(hands, name, m) ==
    UNION {{<<name, r, h>> : h \in {i \in hands[r] : i.copy.msg = m}} : r \in Replicas}

Ends(m) ==
    {<<"settled", s>> : s \in {t \in {"done", "dlq", "discarded"} :
        \/ t = "done" /\ m \in done
        \/ t = "dlq" /\ m \in dlq
        \/ t = "discarded" /\ m \in discarded}}

Places(m) ==
    InQueue(m) \cup InHands(handlers, "callback", m) \cup InHands(timers, "timer", m)
      \cup Ends(m)

(* As long as no connection and no process has failed, every published     *)
(* payload is in exactly one place: ack-before-timer, the dead-letter      *)
(* publish and the nacks never drop one, no retry is published next to a   *)
(* copy that is still to be handled, and nothing settles twice             *)
(* (startDlqConsumer, publishWithRetryHeader).                             *)
OnePlaceWithoutFault ==
    ~Faulted => \A m \in Msgs : Cardinality(Places(m)) = IF m \in published THEN 1 ELSE 0

(* Every delivery the broker holds open has a live callback of the current *)
(* connection that will settle it, whatever was dropped or crashed: no     *)
(* prefetch slot leaks and no message stays unacknowledged for ever.       *)
DeliveriesAttended ==
    \A r \in Replicas : \A d \in unacked[r] :
        \E h \in handlers[r] : h.conn = conn[r] /\ h.tag = d.tag /\ h.copy = d.copy

(* A payload whose handler has failed is dead-lettered only after the first *)
(* attempt and all MaxRetries retries (no fault, no token out of date).     *)
FullRetryBudget ==
    ~Faulted /\ expired = {} =>
        \A m \in dlq : attempts[m] > 0 => attempts[m] = MaxRetries + 1

(* The promise of module MessageDelivery *)
status ==
    [m \in Msgs |->
        IF m \in done THEN "done"
        ELSE IF Live(m) THEN "pending"
        ELSE IF m \in dlq THEN "dead"
        ELSE IF m \in discarded THEN "discarded"
        ELSE IF m \in published THEN "lost" ELSE "new"]

Delivery == INSTANCE MessageDelivery WITH status <- status, faulty <- Faulted

(* Every step of the consumer is a step of MessageDelivery or a stutter. *)
ImplementsDelivery == Delivery!Spec

(* Every published payload leaves queue, callbacks and timers in the end, *)
(* through any bounded number of lost connections and crashes.            *)
EventuallySettled == Delivery!EventuallySettled
=============================================================================
