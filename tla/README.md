# The notification service in TLA+

This directory specifies `panda-ev-notification`, the service of the charging
platform that turns events of its peers (Mobile API, Admin API, OCPP CSMS) into
push notifications and SMS. The modules are read from the code under
`src/panda-ev-notification/src`; paths below are relative to it. TLC checks
small instances, TLAPS proves the theorems for every value of the constants.
`PROJECT.json` maps each definition to the lines it stands for.

## 1. The system

### Components

| Component | State | Operations | What makes it correct |
|---|---|---|---|
| RabbitMQ client, `configs/rabbitmq/rabbitmq.service.ts` | connection, publisher and consumer channel, the list of registered consumers, reconnect and retry timers, `isDestroyed` | `connect`, `scheduleReconnect`, `disconnect`, `consume`, `consumeWithDlq`, `publish`, retry and dead-letter publishes | a message is handled, retried or dead-lettered; the retry budget is neither cut short nor exceeded; every open delivery is settled; there is one connection, it comes back when it is lost, and stays down after a shutdown |
| Service tokens, `common/service-auth/service-jwt.service.ts` | key map, `jti` blacklist in Redis | `sign`, `verify` | only trusted, unexpired, unseen tokens pass, a token never twice, one service's check never spoils another's, and the service's own retries are among them |
| Notification pipeline, `modules/notification/notification.processor.ts` | none of its own: dedup keys, rate windows, device rows, log rows, daily counters | `process` | a push is made once per (sessionId, type), a failed attempt never suppresses a later one, log row and counters agree with what happened |
| Dedup, `modules/dedup` | Redis keys with 24 h TTL | `isDuplicate`, `markSent` | set only after a delivered push |
| Rate limiter, `modules/rate-limit` | sorted sets per user and type in Redis | `isAllowed` | no window takes more than its maximum; no refusal without a full window |
| SMS, `modules/sms` | `sms_logs`, `sms_daily_stats`, the per-process `txSeq`, cached statistics | `send`, `verify`, `getDailyStats`, history | every gateway call has its row; a retry never sends twice; row, counters and cache agree |
| Router, `modules/notification/notification.router.ts` | sleeping overstay reminders | routing keys of four queues | each event reaches its handler once; a reminder is sent once, when it is due, and no attempt is repeated but one that threw |
| REST API, `notification.controller.ts`, `device.controller.ts`, `sms.controller.ts` | -- | the same operations beside the queues | as the queues |
| Device registry, `modules/device` | `user_fcm_devices`, FCM topic subscriptions | register, unregister, stale tokens | a logged-out device gets nothing; row and subscription agree |
| FCM client, `modules/fcm` | Firebase app | `send`, topics | per-token results |
| Aggregation, `modules/aggregation` | hourly and daily station statistics, daily notification statistics | event counters | each event counted once |
| Dashboard gateway, templates, HTTP shell, database client | -- | emitting, rendering, wrapping | no state of their own |

### How they interact

Peers publish to durable queues with a signed token in `x-service-token`. The
RabbitMQ client verifies the token (two Redis calls), parses, and calls the
handler the router registered. For a notification the handler is
`NotificationProcessor.process`, which awaits Redis (dedup, rate), the database
(devices), FCM, Redis again (dedup), the database (stale devices, log row,
counters), and publishes stale tokens to a peer. `POST /notifications/send`
runs the same pipeline outside the queue. For an SMS the handler is
`SmsService.send`. Two to four replicas (`k8s/base/hpa.yaml`) share queues, Redis and
database; inside a replica, callbacks interleave at every `await`.

### What is hard to test here

* `connect` is six awaits on fields that a close handler, a shutdown or another
  `connect` may have changed meanwhile.
* A reminder sleeps inside its delivery, for as long as a token lives, and may
  outlive the connection, the process or its turn; one that is still early is
  published again under a token that the service has to trust.
* Handlers are asynchronous and up to `prefetch` run at once on each replica:
  every check before an `await` may be stale after it.
* A failed message is acked *first* and published again by a timer 5, 30 or
  120 s later; the message then exists only in the memory of the process.
* ack and nack use the channel the service holds now, so a callback that
  outlives its connection speaks to another channel with the tag of the old one.
* The token check has side effects: a redelivered message is a replay.
* Redis, database and FCM fail between steps; some errors are swallowed, some
  rethrown (and so retried), one escapes every handler.
* Counters, caches and ids are kept per process or updated without a lock.

`PROJECT.json` lists these hazards line by line with the properties that
cover them, and says why for those that none covers yet.

## 2. The modules

| Module | What it is |
|---|---|
| `Connection` | the life of the connection: overlapping `connect` calls, handlers, timers, consumers, shutdown |
| `DlqConsumer` | the retrying consumer on several replicas, the broker, the token check |
| `MessageDelivery` | the abstract promise about each message |
| `ServiceToken` | keys, signing and verification by several services and pods, with clocks |
| `Reminders` | overstay reminders on one retrying consumer and its prefetch window, in time |
| `NotificationProcessor` | `process()` await by await, concurrent jobs |
| `RateLimit` | the sliding windows of one user |
| `SmsService` | sends on several pods, the SMS log, counters, cached statistics, ids |
| `DeviceRegistry` | device rows and topic subscriptions under queue events, REST calls and stale reports |
| `StationStats` | the plain consumer of OCPP events and the hourly and daily rows of a station |
| `MC*` | instances for TLC |
| `Connection_proofs`, `ServiceToken_proofs`, `DlqConsumer_proofs`, `Reminders_proofs`, `NotificationProcessor_proofs` (with `RateLimit`), `SmsService_proofs`, `DeviceRegistry_proofs`, `StationStats_proofs` | theorems |

The modules divide the message path: `Connection` justifies the one connection
that `DlqConsumer`, `StationStats` and `Reminders` take for granted (`up`,
`Connect`, `Drop`, `Crash`), and names the case in which it is not given
(`doubled`); `ServiceToken` justifies their jti sets without expiry; the handler
that `DlqConsumer` calls is `NotificationProcessor`, `SmsService`,
`DeviceRegistry` or `Reminders`, and the verdict of `RateLimit` is left open in
`NotificationProcessor`.

### Connection

`pc[k]` is the await a `connect()` call is at, `on[k]` the connection that the
awaited call was made on, as opposed to the fields `connection`, `channel` and
`consumerChannel`, which hold whatever was written last. A link is one
connection with its channels; `hooks` counts the close handlers on it.

| Action | Code |
|---|---|
| `Opened`, `ChannelOpened`, `ConsumerChannelOpened`, `Prefetched`, `SetUp`, `Replay`, `Returns` | `connect` from one await to the next; `Prefetched` also attaches the handlers, to the connection of the moment |
| `Refused`, `Rejected`, `SetupFails` | the awaited call rejects: `Catch` |
| `Lose` | the broker or the network closes a link; `Close` runs its handlers |
| `TimerFires` | the callback of `scheduleReconnect` |
| `Register`, `Asserted` | `consume`, `consumeWithDlq`; a plain consumer's `assertQueue` |
| `Destroy`, `Disconnect` | `onModuleDestroy` |

A channel error has no listener in the code, so amqplib takes the connection
down with it: there is no state with a dead channel on a live connection. A
link lost before its handlers are attached rejects the pending call (`Rejected`);
an `error` event without a listener may also end the process, and a new one
starts at `Init`. The back-off only delays a timer, and `assertedQueues` only
saves declarations; both are left out. `main.ts` does not enable shutdown hooks,
so `Destroy` happens in tests and explicit `app.close()` calls.

`Catch` clears the fields but leaves a connection whose handlers are attached
open: when a declaration fails (`doubled`), the catch block and later the close
handler both reconnect, and until then two connections consume side by side,
acks of the older one going to the channel of the newer. `OneLink` and
`StaysDown` except it; `EventuallyServing` shows that it still serves.

### ServiceToken

A message (`Tokens`) may be fanned out to several services and delivered to each more
than once; `Checks` are these deliveries. `Begin` is `verify` up to its first
await, `Get` and `Accept` the two Redis calls, `Die` a rejected one. Each pod
has a clock up to `Skew` off, rounded down to seconds as the code does (`Now`);
Redis expires keys by the true `clock`; a check takes up to `Lag`. `env` is the
configuration a pod was started with, and `TrustedKey` what `loadTrustedKeys`
makes of it: the directory option skips a bad entry, the JSON option stops at
it, and the first never falls back on the second. `BlacklistOutlastsToken` is
what the class's two constants have to satisfy: 30 s + 1 s of rounding + twice
the skew + the latency within 60 s.

### Reminders

Time is discrete; deliveries, Redis, `process()` and timers that are due do not wait
(`Tick`), so a call that takes longer than an instant is seen only if a connection or
the process is lost before it answers. Within an instant everything interleaves.

| Action | Code |
|---|---|
| `DeliverRefused`, `Deliver` | the callback of `startDlqConsumer` up to `redis.get` in `verify`; a token out of date, or of an issuer without a key, is nacked in the same tick (`Refused`) |
| `JtiUnseen`, `JtiReplayed` | `redis.get` answers: `redis.set` is called, or the message is nacked |
| `StartDue`, `StartEarly` | `redis.set` answers: `process()` is called, or `handleOverstayReminder` goes to sleep, its delivery open |
| `Republish`, `WakeDue` | the `setTimeout` of a reminder: `publishNotification` of a copy and ack, or `process()` |
| `Processed`, `ScheduleRetry`, `DeadLetter` | `process()` returns, or throws: ack, then the timer of a retry or the dead-letter exchange |
| `RetryFires` | `publishWithRetryHeader` |
| `Drop`, `Crash`, `Reconnect` | the connection and the process |

`Ack` is that of `DlqConsumer`: through the channel of the moment. Copies that the
service publishes itself (a reminder that is still early, a retry) are signed with
its own key. `trustsSelf` says whether that key is among its `trustedKeys`, and both
cases are checked: in the repository's configuration it is not
(`generate-service-keys-local.sh`, `legacy-manifests/deployment.yaml:19`). The ghosts name
what the properties except: `misacked` the messages whose delivery the ack of another handler
has settled, `dropped` those whose retry timer ran without a channel or ended with its process,
`raced` those two deliveries of which passed between each other's GET and SET of
the jti; `crowded` says that a message has waited for a slot of the prefetch
window, `calls` and `done` count the calls of `process()` and the messages for which one returned.

### DlqConsumer

The broker is external: a set `queue` of copies (a payload with its
`x-retry-count`, token issuer and `jti`), per replica the deliveries `unacked`,
and the dead-letter queue. A copy is unique by its `jti`, so a set loses
nothing, and any order of delivery is allowed. `up`, `conn` and `nextTag`
are the connection, its number and the channel's tag counter; `handlers` are
the running callbacks with the await they are at; `timers` the pending
`setTimeout`s.

| Action | Code |
|---|---|
| `Deliver`, `DeliverRejected` | the callback of `startDlqConsumer` up to `redis.get` in `verify`; a token that fails before that is nacked in the same tick |
| `JtiUnseen`, `JtiReplayed` | the answer of `redis.get` |
| `StartHandler`, `DiscardUnparsable` | after `redis.set`: `JSON.parse`, then the handler or an ack |
| `HandlerReturns`, `ScheduleRetry`, `DeadLetter` | the three ends of the handler |
| `RetryFires` | `publishWithRetryHeader`, which drops the message when the channel is null |
| `Connect`, `Drop`, `Crash` | `connect`, the connection's `close`, the end of the process |
| `Publish`, `TokenExpires` | the peers and the clock |

`Ack` is the heart: it sends a tag to the channel of the *current* connection. A
tag that is not open there is a channel error, on which the broker takes the
channel down; the model has the connection go with it (`Close`), the outcome the
close handler reacts to.

`MessageDelivery` says of each payload: new, pending, then done, dead or
discarded; lost only after a fault. `status` in `DlqConsumer` is the refinement
mapping.

### NotificationProcessor

One job is one message; `pc` names the await it is at. `Send` covers
`FcmService.send` by its outcomes: each token delivered, reported stale or
failed. `Throw` is a Redis or database rejection nothing catches: the consumer
runs a job of the queue (`Consumed`) again, an HTTP request is answered 500. `LogFails` and `CountFails` are the swallowed ones. The rate
limiter's verdict is left open; `RateLimit` models it. Two ghosts, `pushes` and
`raced`, record deliveries per key and keys with overlapping jobs.

### RateLimit

`isAllowed` takes `Date.now()` once (`Ask`) and runs two atomic scripts
(`Check`) in any order. `Lag` bounds the latency plus the clocks' skew:
the timestamp of a script may be that old when it runs, and what the code
enforces is the limit in every span shorter by `Lag`. `WindowExpires` is Redis's `EXPIRE`.
The specification is called `LimiterSpec` because `NotificationProcessor_proofs` extends it
together with the processor's.

### SmsService

`Create` draws a transaction id and inserts the PENDING row, the only step that
may throw; `Submit` is the gateway call; `Update` and `Count` swallow database
errors; the cache invalidation (`InvalidateKeys`, `InvalidateDel`) runs unawaited.
`ReadStats` and `CacheStats` are a `getDailyStats` that missed, `Verify` a delivery
report.

### DeviceRegistry

The events of a token are numbered as they were published; a handler may start
any of them (`Start`), again after it threw. It makes two calls, `RowCall` and
`TopicCall`: registration row first, unregistration topic first. Each may be
the last that happens: a database error throws (`RowCallThrows`: a retry, or
the dead-letter queue), a FCM error is swallowed, a `Crash` ends handlers and
waiting retries for good, since the redelivery counts as a replay. The REST
routes and `markTokensStale` write the row alone.

The opposite orders make the interleavings err on one side. An *active* device
is never left out of the topic by them (`ActiveIsSubscribed`); a logged-out
device may well stay in it, which is why `LastEventWins` exempts tokens whose
handlers overlapped, overtook each other or were retried (`disordered`).
Tokens written by the REST routes or refused by FCM are exempt from both.

### StationStats

`pc` is indexed by deliveries, pairs of an event and the number of the
delivery: after an outage (`Drop`, `Crash`) the broker delivers an event again
while the first callback may still run. `JtiUnseen` and `Accept` are the two
Redis calls of `verify`; `CountHour` and `CountDay` the upserts; `CountFails` the
swallowed error of either. `Settle` is ack or nack, here without a dead-letter
exchange; from a callback whose channel is gone it does nothing, settles another
delivery or closes the channel -- `DlqConsumer` has the tags. `StartOfHour`, `DateOf` and
`NewAverage` are the arithmetic of the statements, with the rounding of the
`Decimal(8, 2)` column.

### Assumptions of the models

* The broker delivers a copy to one consumer, keeps what is persistent and
  requeues what was open on a lost connection.
* A database call that rejects has not committed, and `upsert` is atomic.
* The SMS gateway answers or fails; the code sets no timeout.
* In `RateLimit` every script adds a member of its own. `checkWindow` draws it with
  `math.random` (`rate-limit.service.ts:37`), which has to differ from script to
  script: Redis before version 7 seeds it anew for each; the documents of the repository name 7 and
  7.2. On an older one two requests of one millisecond would share a member.
* In `SmsService` a send is run by one callback at a time: two deliveries of one
  message that pass the token check at once (`raced` in `StationStats` and `Reminders`)
  would be two sends. The invalidation's `KEYS` is answered; when it rejects, `sms.service.ts:89`
  drops the invalidation.
* A Redis call of `verify` that rejects ends the process on an unhandled rejection: a
  `Crash` in `DlqConsumer` and `Reminders`, `Die` in `ServiceToken`.
* Within an instance payloads, tokens and phone numbers are model values; message
  texts, translations and logging are left out.
* In `DlqConsumer` one peer publishes a payload once. A payload published
  twice is two payloads; that they share a dedup key is `NotificationProcessor`'s matter.

## 3. What the runs check

| Run | Instance | Shows |
|---|---|---|
| `DlqConsumerFaultFree` | 3 payloads (one unparsable), 2 replicas, 2 retries, a trusted and an untrusted peer, one expiring token | `OnePlaceWithoutFault`: from its publication on each payload is in exactly one place, never lost and never doubled; `FullRetryBudget`: dead-lettered after exactly `MaxRetries` + 1 attempts |
| `DlqConsumerFaults` | 1 payload, 2 replicas, a retry, a drop, a crash, an expired token, with fairness | `DeliveriesAttended`; `ImplementsDelivery`; `EventuallySettled` |
| `Processor` | four jobs: a session event from the queue with a retry, two HTTP sends of it (one with skipDedup), one without a session; an error, an expired key, a receipt | `MarkedWasDelivered`, `PushBudget`, `DeliveredNotOverwritten` |
| `RateLimit` | 4 requests of 2 types, windows of 2 and 3 ticks, lag 1 | `WindowBound`, `RefusalJustified` |
| `SmsService` | 2 sends on 2 pods, re-runs, an error, a crash, sequence modulo 2, a cached query | `NoTransactionLost`, `SubmitBudget`, `DeliveredStays`, `RepeatsOnlyAfterModulus`, `DatedCacheFresh` |
| `DeviceRegistry` | 3 events of one token, 2 users, a retry each, 2 database errors, a crash, a REST call or stale report | `ActiveIsSubscribed`, `LastEventWins` |
| `StationStats` | 2 events just before and after local midnight, 2 deliveries each, an outage of one or two of them, a refused token, a database error | `CountedOnce`, `CountedWithoutFault`: counted once and before the ack; `HoursAddUp`: the hours of a local day are its daily row; `AverageWithinRounding`; `RowsComplete`: without a fault, once all is settled, a day's rows are its sessions |
| `Connection` | 2 concurrent `connect` calls, a plain and a retrying queue, 4 links, a loss and a refusal at any await, a shutdown | `NeverStuck`: something will reconnect; `OneLink`: one connection and one consumer per queue; `StaysDown`: a quiet shutdown is final; `EventuallyServing` |
| `ServiceToken` | 1 message to 2 services, twice to one; 3 pods with clocks one tick off, 4 configurations, seconds of 2 ticks, a failing Redis call | `AcceptedOnce`; `RefusalJustified`: no service is refused a message because of another |
| `Reminders` | 2 reminders, due within one sleep and after two, a push, 2 prefetch slots, a retry, two faults out of throw, drop and crash, a service that trusts its own tokens or not | `SentOnceWhenDue`: one call of `process()` and one more per throw; `NothingLost`: the two ways to lose a message; `OnTime`: what happens without a fault, also to what is republished to a service that does not trust itself |

Each first run of a module also checks its `TypeOK`.

**Bounds.** `MaxDrops`, `MaxCrashes`, `MaxFaults`, `MaxExpiries`,
`MaxReceipts`, `MaxReads`, `MaxRuns` and the clock bounds stand in guards; all
else is finite by the constants. Two concurrent actors exercise every
interleaving of two critical sections; a third is added where a property counts
(one push, a second, and a third past a stale read). One drop suffices for a
stale callback to meet a new channel whose tag 1 belongs to the redelivered
message; a crash on top loses the timers. That two payloads do not disturb each
other through stale tags is proved, for any number of them. Three device events
make a log-in, a log-out and a log-in of another user; two OCPP events
delivered twice give a daily row up to four sessions when both jti checks are
raced, enough for the rounding of the average to add up. The rate windows are smaller than the number
of requests, so both refusals and expiries happen, and the clock passes
two windows. In `Connection` four links are the first one, its successor and
the two that a doubled reconnect opens; in `ServiceToken` the times are the
smallest that meet `BlacklistOutlastsToken` with equality, so that one tick less
fails; in `Reminders` one reminder needs a second sleep, and both together fill
the window. Its two faults (`MaxFaults`) are the least for what `NothingLost` and
`SentOnceWhenDue` except: a throw and the loss of its retry, or a drop beside a
running callback and a crash that takes the misacked delivery. `MaxConns` is
needed because a stale nack of a tag that the new channel does not know takes
the connection down without being a fault of the environment; the theorems have neither bound.

Some bounds of the properties themselves are tight. With two full prefetch
windows of reminders an ordinary push behind them is dead-lettered without any
fault, because its token expires first (`OnTime` assumes fewer). A lost
connection may leave a reminder both sent and dead-lettered, and two deliveries
of one copy that verify the token at once send it twice (`raced`; `SentOnceWhenDue`
says that this takes a lost connection). A callback that
acks after a reconnect may settle a fresh delivery of another message, which a
crash then loses (`misacked`). A call of `process()` that throws is acked before its
retry timer starts, and lost if the timer ends with the process or runs without a
channel (`dropped`). The refusals `RefusalJustified` of `RateLimit` speaks of count slots that
other refused requests took.

**Deadlock** is not checked: with the bounded inputs used up and everything
settled the instances rightly stop.

**Fairness.** `FairSpec` is weakly fair to `Connect` (`scheduleReconnect`
tries until it succeeds), to the broker's delivery to a connected consumer,
to the answers of Redis and the handlers, and to timers. None is assumed of
peers, drops, crashes or expiry. Weak fairness is enough: nothing but a
bounded number of faults disables these steps for good. `Connection`'s `FairSpec`
is weakly fair to the awaited calls on links, to the reconnect timers and to the
routers' registration at the start; not to losses, refusals or the shutdown.

### Where the code disagrees with its own documentation

The remaining runs are expected to end in a violation.

| Run | Says | Does |
|---|---|---|
| `DlqConsumerOwnKey` | three retries, then the dead-letter queue | the key configuration does not trust the service's own issuer, so its retries are refused and dead-lettered at once |
| `SmsCacheAll` | the next request after a send sees fresh statistics | the key of a query without dates, which covers today too, does not match the pattern that is deleted; reads that raced with the send are excepted, so this is the only cause |

The instances differ from the passing ones by constants only (`Trusted`
without `Self`, for the first): what holds and what does not are about one and
the same specification.

Four more disagreements need no model checker, or come out of a passing run. Where a
reminder is not due after its sleep, `notification.router.ts:189` says "re-schedule"; with the key
configuration of the repository the copy is refused and dead-lettered when it
comes back, without any fault: `OnTime` states it of a service that does not trust its own
tokens (`trustsSelf` false). A failed FCM push is logged
FAILED and its message acked (`Send`, `Log`), where
`docs/2026-03-28/2026-03-28T17:04:05-E2E_Notification_Flow_Tests.md:16` has it enter
the dead-letter queue for retry. `sms.helper.ts:85` generates "a unique LTC transaction ID"
from the second and a counter per process, so that two pods can draw the same
(`RepeatsOnlyAfterModulus` is about one pod for this reason). And
`service-jwt.service.ts:176` and `:229` announce that without trusted keys tokens are not
verified, where `verify` then refuses every token.

Further weaknesses are visible in what the properties
except. A failed message is acked before its retry timer starts, and the timer
does nothing when the channel is null: `MessageDelivery` allows a payload to be
lost after a fault because of it. `PushBudget` and `DeliveredNotOverwritten`
except overlapping jobs of one key, because the dedup key is read before the push and
written after it: two overlapping deliveries do push twice.

## 4. What is proved

The assumptions are those of the modules, each named there: `ConsumerAssumption`,
`ProcessorAssumption`, `RemindersAssumption`, `RateAssumption`, `SmsAssumption`,
`RegistryAssumption`, `StationAssumption`, `TokenAssumption`, `BlacklistOutlastsToken` and `WholeSeconds`
(the life of a token is a whole number of seconds); the theorems about `Connection`
need none. Finite bounds are natural numbers, the
service's name is not a peer's, parameters are well typed. `RetriesSpent` alone has a
hypothesis of its own, `Self \in Trusted`: a service that does not trust its own key
refuses the copies it republishes, which is what `DlqConsumerOwnKey` finds. No bound on
the number of payloads, replicas, requests, pods, jobs or faults is used.

**DlqConsumer_proofs.** `TypeCorrect`; the type of a retry's copy
(`retry + 1 <= MaxRetries`) needs the invariant that only handlers below the
limit schedule a timer, so the types are proved with it.
`NoDeliveryIsOrphaned` (`DeliveriesAttended`): `AttendedInv` adds only that a
replica without a channel holds nothing (`DownHoldsNothing`). The argument is
that an ack removes every open delivery with its tag and ends one
callback of that tag, so whatever stays open belongs to another callback; a stale
callback can settle another's delivery, but it never leaves one behind.
`ConsumerImplementsDelivery`: `DeliveryInv` says that no payload is lost without a
fault (`NoLossWithoutFault`), that nothing is handled or settled that was not published (`Provenance`) and that before any
fault every callback still holds its own delivery, alone with its tag, on a channel that
is there (`UndisturbedCallbacks`); without the latter an ack could hit another
message and a retry could find no channel. `Whereabouts` collects what
any step may do to the payloads, `OpenIsLive`, `CloseIsHarmless`,
`AckIsHarmless` and `SettleWhereabouts` show it for the broker's primitives
and the ends of a handler, and the refinement follows from it.
`InOnePlaceWithoutFault` (`OnePlaceWithoutFault`): `One` says of each payload that the
queue, the callbacks, the retry timers and the ends hold it once (`HeldOnce`) and exclude
each other (`Exclusive`); each step takes it out of one place and puts it in one other.
With `Provenance` and `NoLossWithoutFault` that is exactly one place from its publication on.
`RetriesSpent` (`FullRetryBudget`): the copy of a retry carries one number per attempt
made (`CountInv`), and its token is fresh, so it is never refused on the way (`FreshInv`).

**NotificationProcessor_proofs.** `TypeCorrect`, with the outcome a job has at each await
(`OutcomeKnown`). `MarkedKeysWereDelivered` (`MarkedWasDelivered`): a job about to mark its
key has just pushed (`DeliveredMark`). `PushesBounded` (`PushBudget`): as long as a key is
not in `raced`, at most one of its jobs is between its dedup read and its mark (`Alone`), and what
that job found unmarked stays so (`Unmarked`); hence until a push is marked or about
to be, all pushes of the key are paid for by faults and expired marks (`Unspent`).
`DeliveredRowsStay` (`DeliveredNotOverwritten`): without those, a job that failed is about to
write the row of a key that was never delivered (`FailedIsFirst`).
`PushesAreRecorded` (`PushRecorded`, which no run lists) is the converse: without those, a
push that was delivered has its dedup key, by `Unspent`, and a row that says so, or the run
that delivered it has not come to them yet (`Recording`).
Of the limiter, in the same module: `LimiterTypeCorrect`, `WindowsBounded`,
`RefusalsJustified`. `WindowInv` relates the sorted set to the ghost `added`: what was added and is no
longer in the set is at least a window old (`ForgottenIsOld`), so when a script
finds room in the set, there is room in every span that ends later
(`BoundAlways`), and what a script counts really was added (`RefusedWhenFull`).

**Reminders_proofs.** `TypeCorrect`, with what the types do not say of the broker and
the handlers (`BrokerInv`: tags and jtis are given out once; `HandlersInv`: a sleep ends before the
reminder is due and within `MaxSleep`). `RemindersSentOnce` (`SentOnceWhenDue`): outside `raced`,
of a message either one copy is live, its jti unseen, and as many calls are behind it as
its retry header says (`LiveOnce`), or one handler past `verify` works on it, with one
call more (`RunOnce`), and only a throw makes a copy with a higher number; `TraceInv`
says that jtis differ and that what has been tried was due. `TidyInv`: as long as no connection
is lost, every handler still has its own delivery, so nothing is raced or misacked.
`RemindersNotLost` (`NothingLost`) is inductive as it stands (`KeptInv`) and takes its other two
clauses from `TidyInv`. `RemindersOnTime` (`OnTime`): without a fault the open deliveries
are those of the handlers, jtis in the queue are unseen, and what is republished was
early when its first sleep ended (`CalmInv`). With less than two windows of reminders, those
ahead of a copy in the queue, being verified, or asleep for longer than its
token lives are fewer than the window (`WindowInv`, by counting `Waits`), so
it is delivered before its token is out of date, and only an untrusted issuer is
refused. While slots are free, what is in the queue came there in this tick
(`PromptInv`), and a service that does not trust itself calls `process()` for
no reminder that needs a second sleep (`Hopeless`).

**DeviceRegistry_proofs.** `TypeCorrect`, with the invariant that a retry waits
only while runs are left. `NoActiveDeviceUnsubscribed` (`ActiveIsSubscribed`):
the property speaks of quiet tokens; the invariant `ActiveIsAttended` of every moment: an
active row without a subscription has an unfinished handler, one between
its two calls, run again after it had been there, or given up. A registration
becomes unfinished with its row call, an unregistration with its topic call,
and an unregistration that finishes has made the row inactive.
`TheLastEventWins` (`LastEventWins`): as long as the handlers of a token are called in order
and all finish (`Orderly`), they run one at a time and in order, one between its two calls has
its first written, and what the last of the finished said is what row and topic say (`InTurn`).

**SmsService_proofs.** `TypeCorrect`. `SubmissionsBounded` (`SubmitBudget`): a send
that has still to submit has submitted at most once per crash (`BeforeSubmit`).
`EverySubmissionHasARow` (`NoTransactionLost`): ids are unique (`UniqueTx`), a run that is
submitting or has its answer to write has a row of its own that nothing else touched (`OwnRow`),
so the rows of a send are one more than its submissions before it submits (`RowFirst`).
`DeliveryReportsStay` (`DeliveredStays`) is an action property of the same invariant: the
update of a send writes its own PENDING row. Two results say that the table is complete, and no run lists them. `RepliesAreRecorded`
(`ReplyRecorded`): without a database error the row of a send that has its answer holds that
answer, by `OwnRow` at the update and `UniqueTx` after it. `StatsCountTheReplies`
(`StatsMatchReplies`): the counters are the numbers of returned sends with either answer, less
at most one for each error that `onSmsSent` swallowed, through crashes and second runs.
`TodayIsFresh` (`DatedCacheFresh`): a cached day
that is out of date still has an invalidation coming (`FreshOrInvalidated`).
`IdsRepeatLate` (`RepeatsOnlyAfterModulus`): the ids of a pod are numbered in the order of their
generation, by sequence modulo `Modulus` and second (`Numbered`), so two equal ones are a
whole round apart, and what was generated between them falls into their second.

**Connection_proofs.** `TypeCorrect`; `ServiceNeverStuck` (`NeverStuck`), by
`StuckInv`: the property together with `Attended`, that a call past its handlers
leaves an open link with handlers or a timer behind. `ServiceHasOneLink`
(`OneLink`): as long as no `connect` failed past its handlers (`doubled`),
`AloneInv` has one call at a time (`OneCall`), one timer and only when nothing else could
reconnect (`TimerAlone`), handlers attached to the call's own connection
(`CallAlone`), and one open link with one close handler (`LinkAlone`);
`ConsumerInv` adds that a queue is started once on that link, and not before
the replay of a running call has come to it (`CountedOnce`). `ServiceStaysDown`
(`StaysDown`) is the part `Quiet` of the same invariant.

**ServiceToken_proofs.** `TypeCorrect` and `TokenAcceptedOnce` (`AcceptedOnce`).
`BlacklistInv`: a token's `exp` is at most the signer's skew too late (`Dated`);
a check in Redis began before the token was out of date by the verifier's clock
(`Recent`); a stored jti lives longer than both (`StoredLong`), so a check that
finds no key is the first (`ForgottenIsOld`), and at most one is past its GET
unless two were there at once (`Alone`).
`RefusalsExplained` (`RefusalJustified`): `RefusalInv` adds that `exp` is a whole second and not
too early (`Precise`), that a jti is stored only by a check that has ended
(`StoredByCheck`) and that nothing is checked before it was published (`PublishedFirst`); a
justification, once there, lasts.

**StationStats_proofs.** `TypeCorrect`: the running average is rounded at every step and
still stays between 0 and the longest session (`AverageInRange`, the one place where
`StationAssumption` has to say that there is a longest). `EventsCountedOnce`
(`CountedOnce`): `OneThrough` says of an event outside `raced` that one delivery at most is
between the GET and the SET of its jti, and only while the jti is not stored, and one at most is
past the SET, and only when it is. `NoEventUncounted` (`CountedWithoutFault`): before a
fault an event has one delivery, which is open exactly as long as its callback runs
(`OneDelivery`), so the ack at its end settles that and nothing else.
`HoursAgreeWithDays` (`HoursAddUp`) and `AverageStaysClose` (`AverageWithinRounding`) share
`RowsInv`: a day's row counts the deliveries past its upsert (`DaysCounted`), and the two
properties themselves. An hour lies in one local day (`HourWithinDay`, `SameClock`), so an
upsert of an hour changes one sum by one; the upsert that makes the count of a day n takes n
times the average away from the sum of the durations by n / 2 units at most (`DriftGrows`). Nothing
is assumed of the sets of events and times: a day has finitely many hours, and what is counted
in one stays finite. `RowsTellTheSessions` (`RowsComplete`) joins the others: without a
fault a settled event has passed both upserts or was refused (`CalmInv`), and what was refused is
counted nowhere (`RefusedForGood`), so the deliveries a row counts are the sessions of its day.

*Sums.* The library's induction theorems take an operator as a parameter and cannot be
used here. What `SumFunctionOnSet` computes is proved without them: `SubsetInduction` is
induction over the finite subsets of a set in the form of a set of subsets that contains
a set whenever it contains all smaller ones, from the well-foundedness of the strict
subset order, and from it follow the existence and uniqueness of a function that adds up element
by element (`AddersAgree`, `AdderAdds`) and the lemmas about sums (`SumPick`, `SumRemove`,
`SumAgree`, `SumAdd`, `SumBump`, `SumRenamed`).

**Model-checked only.** Liveness, which is out of the prover's reach: `EventuallySettled` of
`DlqConsumer` and `EventuallyServing` of `Connection`. Every other property of a passing run
is a theorem.

## 5. What is not modelled, and the plan

Left out for good: message formatting and translation, templates (`render` has
no caller), the dashboard gateway (emits only), bootstrap, filters and
interceptors, phone number parsing, the read-only queries; broadcasts to a topic
(`handleTopicNotification`, `handleConfigInvalidate`), which push, upsert one row by the
message's id and count, with no check that could go wrong in between. How long
the SMS gateway may hold a send is promised nowhere.

Next is `Pipeline`: `DlqConsumer` composed with `NotificationProcessor`, for the
end-to-end promise about pushes, and the proof of that promise from the invariants
both components already have.
