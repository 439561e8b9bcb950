------------------------- MODULE NotificationProcessor -------------------------
(***************************************************************************)
(* NotificationProcessor.process() of                                      *)
(* modules/notification/notification.processor.ts, with the services it    *)
(* calls: the dedup keys (dedup.service.ts), the device store              *)
(* (device.service.ts), FCM (fcm.service.ts, send), the notification log   *)
(* and the daily statistics (aggregation.service.ts).                      *)
(*                                                                         *)
(* A job is one invocation: a queue delivery, or POST /notifications/send, *)
(* which runs the same pipeline beside the queue.  Jobs interleave at      *)
(* every await.  A queue delivery that throws is run again by the retrying *)
(* consumer (module DlqConsumer); one that returns is acked.  Whether the rate    *)
(* limiter admits a job is left open here (module RateLimit).              *)
(***************************************************************************)
EXTENDS Integers

CONSTANTS
    Jobs,
    Consumed,    \* the jobs from the queue; the others are HTTP requests
    Keys,        \* the pairs (sessionId, type)
    NoKey,       \* a message without a sessionId
    KeyOf,       \* KeyOf[j]
    SkipDedup,   \* jobs with skipDedup
    SkipRate,    \* jobs with skipRateLimit
    Tokens,      \* FCM tokens of the user
    Given,       \* Given[j]: fcmTokens of the message, {} when omitted
    MaxRuns,     \* bound: runs of one job (first attempt and retries)
    MaxFaults,   \* bound: Redis and database errors
    MaxExpiries, \* bound: dedup keys that reach their 24 h
    MaxReceipts  \* bound: PATCH :id/status calls

ASSUME ProcessorAssumption ==
    /\ NoKey \notin Keys
    /\ KeyOf \in [Jobs -> Keys \cup {NoKey}]
    /\ Consumed \subseteq Jobs /\ SkipDedup \subseteq Jobs /\ SkipRate \subseteq Jobs
    /\ Given \in [Jobs -> SUBSET Tokens]
    /\ MaxRuns \in Nat /\ MaxFaults \in Nat /\ MaxExpiries \in Nat /\ MaxReceipts \in Nat

VARIABLES
    pc,        \* the await a job is at
    runs,      \* runs[j]: times j was started
    tokens,    \* tokens[j]: tokens j sends to
    stale,     \* stale[j]: tokens FCM reported as unregistered to j
    outcome,   \* outcome[j]: status of the run
    marked,    \* keys dedup:notif:{sessionId}:{type} in Redis
    active,    \* tokens with isActive = true
    cleanup,   \* tokens published to PANDA_EV_FCM_CLEANUP
    row,       \* row[k]: the notification_logs row of k, or none
    stats,     \* notification_daily_stats: count per outcome
    pushes,    \* pushes[k]: FCM deliveries by jobs that obey dedup
    raced,     \* keys two of whose jobs were past the dedup check together
    faults, expiries, receipts

jobState == <<pc, runs, tokens, stale, outcome>>
stores   == <<marked, active, cleanup, row, stats>>
history  == <<pushes, raced, faults, expiries, receipts>>
vars     == <<jobState, stores, history>>

Outcomes == {"SENT", "FAILED", "SUPPRESSED"}
Receipts == {"DELIVERED", "READ", "CLICKED"}
Awaits   == {"dedup", "limit", "resolve", "send", "mark", "stale", "log", "count"}
None     == [status |-> "none", retries |-> 0]

Rows == [status : {"none", "SENT", "FAILED"} \cup Receipts, retries : Nat]

TypeOK ==
    /\ pc \in [Jobs -> Awaits \cup {"idle", "threw", "acked"}]
    /\ runs \in [Jobs -> 0 .. MaxRuns]
    /\ tokens \in [Jobs -> SUBSET Tokens]
    /\ stale \in [Jobs -> SUBSET Tokens]
    /\ outcome \in [Jobs -> Outcomes \cup {"none"}]
    /\ marked \subseteq Keys
    /\ active \subseteq Tokens
    /\ cleanup \subseteq Tokens
    /\ row \in [Keys -> Rows]
    /\ stats \in [Outcomes -> Nat]
    /\ pushes \in [Keys -> Nat]
    /\ raced \subseteq Keys
    /\ faults \in 0 .. MaxFaults
    /\ expiries \in 0 .. MaxExpiries
    /\ receipts \in 0 .. MaxReceipts

Init ==
    /\ pc = [j \in Jobs |-> "idle"]
    /\ runs = [j \in Jobs |-> 0]
    /\ tokens = [j \in Jobs |-> {}]
    /\ stale = [j \in Jobs |-> {}]
    /\ outcome = [j \in Jobs |-> "none"]
    /\ marked = {} /\ active = Tokens /\ cleanup = {}
    /\ row = [k \in Keys |-> None]
    /\ stats = [o \in Outcomes |-> 0]
    /\ pushes = [k \in Keys |-> 0]
    /\ raced = {}
    /\ faults = 0 /\ expiries = 0 /\ receipts = 0

-----------------------------------------------------------------------------
(* Mutant of Deduped: the sessionId is not looked at *)
DedupedAny(j) == j \notin SkipDedup

(* if (!skipDedup && sessionId) *)
Deduped(j) == j \notin SkipDedup /\ KeyOf[j] # NoKey

Go(j, label) == pc' = [pc EXCEPT ![j] = label]

(* Mutant of Suppress: logged as a failure *)
SuppressAsFailed(j) ==
    /\ Go(j, "log")
    /\ outcome' = [outcome EXCEPT ![j] = "FAILED"]

(* The statistics are updated with SUPPRESSED and the run returns. *)
Suppress(j) ==
    /\ Go(j, "count")
    /\ outcome' = [outcome EXCEPT ![j] = "SUPPRESSED"]

(* Past the dedup check and before the end of the log write *)
InWindow(j) == pc[j] \in {"limit", "resolve", "send", "mark", "stale", "log"}

(* A delivery, an HTTP request, or the retry of a run that threw *)
Start(j) ==
    /\ pc[j] = "idle" \/ (pc[j] = "threw" /\ j \in Consumed)
    /\ runs[j] < MaxRuns
    /\ runs' = [runs EXCEPT ![j] = @ + 1]
    /\ Go(j, "dedup")
    /\ UNCHANGED <<tokens, stale, outcome, stores, history>>

(* An await on Redis or the database rejects and nothing catches it. *)
Throw(j) ==
    /\ \/ pc[j] = "dedup" /\ Deduped(j)
       \/ pc[j] = "limit" /\ j \notin SkipRate
       \/ pc[j] = "resolve" /\ Given[j] = {}
       \/ pc[j] = "mark"
       \/ pc[j] = "stale" /\ stale[j] # {}
    /\ faults < MaxFaults
    /\ faults' = faults + 1
    /\ Go(j, "threw")
    /\ UNCHANGED <<runs, tokens, stale, outcome, stores,
                   pushes, raced, expiries, receipts>>

DedupHit(j) ==
    /\ pc[j] = "dedup" /\ Deduped(j) /\ KeyOf[j] \in marked
    /\ Suppress(j)
    /\ UNCHANGED <<runs, tokens, stale, stores, history>>

(* Mutant of DedupMiss: the key is claimed at the check (checkAndMark) *)
DedupMissMarks(j) ==
    /\ pc[j] = "dedup" /\ ~(Deduped(j) /\ KeyOf[j] \in marked)
    /\ Go(j, "limit")
    /\ marked' = IF Deduped(j) THEN marked \cup {KeyOf[j]} ELSE marked
    /\ UNCHANGED <<runs, tokens, stale, outcome, active, cleanup, row, stats, history>>

(* Also a job that skips the check *)
DedupMiss(j) ==
    /\ pc[j] = "dedup" /\ ~(Deduped(j) /\ KeyOf[j] \in marked)
    /\ Go(j, "limit")
    /\ raced' = IF \E i \in Jobs \ {j} : InWindow(i) /\ KeyOf[i] = KeyOf[j]
                THEN raced \cup ({KeyOf[j]} \ {NoKey}) ELSE raced
    /\ UNCHANGED <<runs, tokens, stale, outcome, stores,
                   pushes, faults, expiries, receipts>>

Limited(j) ==
    /\ pc[j] = "limit" /\ j \notin SkipRate
    /\ Suppress(j)
    /\ UNCHANGED <<runs, tokens, stale, stores, history>>

Admitted(j) ==
    /\ pc[j] = "limit"
    /\ Go(j, "resolve")
    /\ UNCHANGED <<runs, tokens, stale, outcome, stores, history>>

(* fcmTokens of the message, or getActiveTokens(userId) *)
Resolve(j) ==
    LET found == IF Given[j] # {} THEN Given[j] ELSE active IN
    /\ pc[j] = "resolve"
    /\ tokens' = [tokens EXCEPT ![j] = found]
    /\ stale' = [stale EXCEPT ![j] = {}]
    /\ IF found = {} THEN Suppress(j) ELSE Go(j, "send") /\ UNCHANGED outcome
    /\ UNCHANGED <<runs, stores, history>>

(* fcm.send(): each token is delivered to, reported stale, or fails; all   *)
(* fail when Firebase is down or not configured.  It never rejects.        *)
Send(j) ==
    \E delivered \in SUBSET tokens[j] : \E reported \in SUBSET (tokens[j] \ delivered) :
        LET sent == delivered # {} IN
        /\ pc[j] = "send"
        /\ outcome' = [outcome EXCEPT ![j] = IF sent THEN "SENT" ELSE "FAILED"]
        /\ stale' = [stale EXCEPT ![j] = reported]
        /\ Go(j, IF sent /\ Deduped(j) THEN "mark" ELSE "stale")
        /\ pushes' = IF sent /\ Deduped(j)
                     THEN [pushes EXCEPT ![KeyOf[j]] = @ + 1] ELSE pushes
        /\ UNCHANGED <<runs, tokens, stores, raced, faults, expiries, receipts>>

(* Mutant of Mark: the key is not written *)
MarkNothing(j) ==
    /\ pc[j] = "mark"
    /\ Go(j, "stale")
    /\ UNCHANGED <<runs, tokens, stale, outcome, stores, history>>

(* dedup.markSent: SET key 1 EX 86400 NX *)
Mark(j) ==
    /\ pc[j] = "mark"
    /\ marked' = marked \cup {KeyOf[j]}
    /\ Go(j, "stale")
    /\ UNCHANGED <<runs, tokens, stale, outcome, active, cleanup, row, stats, history>>

(* markTokensStale, then publish to FCM_CLEANUP, which is dropped when the *)
(* publisher channel is null; lastUsedAt is not modelled                   *)
MarkStale(j) ==
    /\ pc[j] = "stale"
    /\ active' = active \ stale[j]
    /\ cleanup' \in {cleanup, cleanup \cup stale[j]}
    /\ Go(j, "log")
    /\ UNCHANGED <<runs, tokens, stale, outcome, marked, row, stats, history>>

(* notificationLog.upsert by (sessionId, type) *)
Upserted(j) ==
    LET k == KeyOf[j] IN
    IF k = NoKey THEN row
    ELSE [row EXCEPT ![k] =
            [status |-> outcome[j], retries |-> IF @ = None THEN 0 ELSE @.retries + 1]]

Log(j) ==
    /\ pc[j] = "log"
    /\ row' = Upserted(j)
    /\ Go(j, "count")
    /\ UNCHANGED <<runs, tokens, stale, outcome, marked, active, cleanup, stats, history>>

(* The rejection of the upsert is logged and swallowed. *)
LogFails(j) ==
    /\ pc[j] = "log" /\ faults < MaxFaults
    /\ faults' = faults + 1
    /\ Go(j, "count")
    /\ UNCHANGED <<runs, tokens, stale, outcome, stores,
                   pushes, raced, expiries, receipts>>

(* onNotificationSent, then the run returns and the message is acked *)
Count(j) ==
    /\ pc[j] = "count"
    /\ stats' = [stats EXCEPT ![outcome[j]] = @ + 1]
    /\ Go(j, "acked")
    /\ UNCHANGED <<runs, tokens, stale, outcome, marked, active, cleanup, row,
                   pushes, raced, faults, expiries, receipts>>

(* onNotificationSent swallows a database error. *)
CountFails(j) ==
    /\ pc[j] = "count" /\ faults < MaxFaults
    /\ faults' = faults + 1
    /\ Go(j, "acked")
    /\ UNCHANGED <<runs, tokens, stale, outcome, stores, pushes, raced, expiries, receipts>>

-----------------------------------------------------------------------------
(* The dedup key of k reaches DEDUP_TTL. *)
KeyExpires(k) ==
    /\ k \in marked /\ expiries < MaxExpiries
    /\ marked' = marked \ {k}
    /\ expiries' = expiries + 1
    /\ UNCHANGED <<jobState, active, cleanup, row, stats,
                   pushes, raced, faults, receipts>>

(* PATCH :id/status of notification.controller.ts *)
UpdateStatus(k, s) ==
    /\ row[k] # None /\ receipts < MaxReceipts
    /\ row' = [row EXCEPT ![k].status = s]
    /\ receipts' = receipts + 1
    /\ UNCHANGED <<jobState, marked, active, cleanup, stats,
                   pushes, raced, faults, expiries>>

Step(j) ==
    \/ DedupHit(j) \/ DedupMiss(j) \/ Limited(j) \/ Admitted(j) \/ Resolve(j)
    \/ Send(j) \/ Mark(j) \/ MarkStale(j)
    \/ Log(j) \/ LogFails(j) \/ Count(j) \/ CountFails(j)

Next ==
    \/ \E j \in Jobs : Start(j) \/ Throw(j) \/ Step(j)
    \/ \E k \in Keys : KeyExpires(k) \/ \E s \in Receipts : UpdateStatus(k, s)

Spec == Init /\ [][Next]_vars

-----------------------------------------------------------------------------
(* Properties *)

(* A dedup key is set only after FCM delivered a push for it, so a failed  *)
(* attempt never suppresses a later one (processor.ts, "check-only").      *)
MarkedWasDelivered == \A k \in marked : pushes[k] > 0

(* Unless two jobs of a key were past the dedup check together, the user   *)
(* gets one push, plus one for each Redis or database error (markSent      *)
(* failing after the send) and each key that expired.                      *)
PushBudget == \A k \in Keys \ raced : pushes[k] <= 1 + faults + expiries

Exempt(k) == k \in raced \/ \E j \in SkipDedup : KeyOf[j] = k /\ runs[j] > 0

(* Once a push was delivered, the row of its key never turns to FAILED,     *)
(* unless two jobs of the key raced, one skips dedup, the key expired or a  *)
(* Redis or database call failed.                                           *)
DeliveredNotOverwritten ==
    [][\A k \in Keys :
         pushes[k] > 0 /\ row[k].status # "FAILED" /\ row'[k].status = "FAILED"
           => Exempt(k) \/ faults > 0 \/ expiries > 0]_vars
=============================================================================
