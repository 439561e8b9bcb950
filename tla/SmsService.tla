------------------------------- MODULE SmsService -------------------------------
(***************************************************************************)
(* SmsService of modules/sms/sms.service.ts with handleSmsMessage          *)
(* (sms.router.ts), generateTransactionId (sms.helper.ts), onSmsSent       *)
(* (sms.aggregation.service.ts) and the cached daily statistics.           *)
(*                                                                         *)
(* A send is one request: a message of PANDA_EV_SMS or POST /sms/send.     *)
(* Sends run concurrently on the pods.  A send whose row cannot be created *)
(* throws, and the retrying consumer runs it again; a send cut short by a  *)
(* crash may be asked for again by its HTTP caller.  The SMS gateway (LTC) *)
(* is external.                                                            *)
(***************************************************************************)
EXTENDS Integers, FiniteSets

CONSTANTS
    Sends,
    Pods,
    Modulus,     \* txSeq runs through 0 .. Modulus - 1 (999999 in the code)
    Queries,     \* stats queries, by their parameters
    Dated,       \* those whose cache key contains today's date
    MaxRuns,     \* bound: runs of one send
    MaxSeconds,  \* bound on the clock
    MaxFaults,   \* bound: database and Redis errors
    MaxCrashes,  \* bound: pod crashes
    MaxReads     \* bound: stats reads that miss the cache

ASSUME SmsAssumption ==
    /\ Modulus \in Nat \ {0}
    /\ Dated \subseteq Queries
    /\ {MaxRuns, MaxSeconds, MaxFaults, MaxCrashes, MaxReads} \subseteq Nat

VARIABLES
    clock,    \* the second of new Date()
    seq,      \* seq[p]: txSeq of pod p
    pc, pod, runs,
    tx,       \* tx[s]: transactionId of the current run of s
    reply,    \* reply[s]: what the gateway answered
    rows,     \* the sms_logs table
    issued,   \* every transactionId generated, with its send and run
    submits,  \* submits[s]: submit_sms calls made for s
    stats,    \* sms_daily_stats of today: success_count, fail_count
    cache,    \* cache[q]: the cached statistics, or NoStats
    reading,  \* reading[q]: statistics a getDailyStats has read, or NoStats
    inval,    \* inval[s]: invalidateStatsCache started by s
    raced,    \* queries cached after a send was counted behind their read
    faults, crashes, reads

sending == <<clock, seq, pc, pod, runs, tx, reply, rows, issued, submits>>
caching == <<cache, reading, raced, reads>>
vars    == <<sending, caching, stats, inval, faults, crashes>>

NoTx == [second |-> 0, seq |-> -1]

(* Partner id and date do not vary. *)
TxIds == [second : 0 .. MaxSeconds, seq : 0 .. Modulus - 1]

(* A reply counts as success with resultCode 20000 or a non-empty SMID. *)
Replies == [ok : BOOLEAN, smid : BOOLEAN]
NoReply == [ok |-> FALSE, smid |-> FALSE]

NoStats == [success |-> -1, fail |-> -1]
Stats   == [success : Nat, fail : Nat]

Rows == [tx : TxIds, send : Sends, status : {"PENDING", "SENT", "FAILED", "DELIVERED"},
         smid : BOOLEAN]

TypeOK ==
    /\ clock \in 0 .. MaxSeconds
    /\ seq \in [Pods -> 0 .. Modulus - 1]
    /\ pc \in [Sends -> {"idle", "threw", "submit", "update", "count", "returned"}]
    /\ pod \in [Sends -> Pods]
    /\ runs \in [Sends -> 0 .. MaxRuns]
    /\ tx \in [Sends -> TxIds \cup {NoTx}]
    /\ reply \in [Sends -> Replies]
    /\ rows \subseteq Rows
    /\ issued \subseteq [tx : TxIds, send : Sends, run : Nat]
    /\ submits \in [Sends -> Nat]
    /\ stats \in Stats
    /\ cache \in [Queries -> Stats \cup {NoStats}]
    /\ reading \in [Queries -> Stats \cup {NoStats}]
    /\ inval \in [Sends -> [at : {"none", "keys", "del"}, found : SUBSET Queries]]
    /\ raced \subseteq Queries
    /\ faults \in 0 .. MaxFaults /\ crashes \in 0 .. MaxCrashes /\ reads \in 0 .. MaxReads

NoInval == [at |-> "none", found |-> {}]

Init ==
    /\ clock = 0
    /\ seq = [p \in Pods |-> 0]
    /\ pc = [s \in Sends |-> "idle"]
    /\ pod \in [Sends -> Pods]
    /\ runs = [s \in Sends |-> 0]
    /\ tx = [s \in Sends |-> NoTx]
    /\ reply = [s \in Sends |-> NoReply]
    /\ rows = {} /\ issued = {}
    /\ submits = [s \in Sends |-> 0]
    /\ stats = [success |-> 0, fail |-> 0]
    /\ cache = [q \in Queries |-> NoStats]
    /\ reading = [q \in Queries |-> NoStats]
    /\ inval = [s \in Sends |-> NoInval]
    /\ raced = {} /\ faults = 0 /\ crashes = 0 /\ reads = 0

-----------------------------------------------------------------------------
Go(s, label) == pc' = [pc EXCEPT ![s] = label]

(* Mutants of NextSeq: no wrap-around; wrapped one too early *)
NextSeqUnwrapped(p) == seq[p] + 1
NextSeqShort(p) == (seq[p] + 1) % (Modulus - 1)

(* generateTransactionId(): txSeq = (txSeq + 1) % 999999 *)
NextSeq(p) == (seq[p] + 1) % Modulus

(* Mutant of CreateFails: the error is swallowed *)
CreateFailsQuietly(s) == Go(s, "submit")

(* The rejection of smsLog.create leaves send(). *)
CreateFails(s) == Go(s, "threw")

(* The id, then smsLog.create: it rejects on a transactionId that is taken *)
(* (@unique) and on a database error, and then send() throws.              *)
Create(s) ==
    LET id == [second |-> clock, seq |-> NextSeq(pod[s])]
        taken == \E w \in rows : w.tx = id
    IN
    /\ pc[s] \in {"idle", "threw"} /\ runs[s] < MaxRuns
    /\ runs' = [runs EXCEPT ![s] = @ + 1]
    /\ seq' = [seq EXCEPT ![pod[s]] = NextSeq(pod[s])]
    /\ tx' = [tx EXCEPT ![s] = id]
    /\ issued' = issued \cup {[tx |-> id, send |-> s, run |-> runs'[s]]}
    /\ \/ /\ ~taken
          /\ rows' = rows \cup {[tx |-> id, send |-> s, status |-> "PENDING", smid |-> FALSE]}
          /\ Go(s, "submit")
          /\ UNCHANGED faults
       \/ /\ taken \/ faults < MaxFaults
          /\ faults' = IF taken THEN faults ELSE faults + 1
          /\ CreateFails(s)
          /\ UNCHANGED rows
    /\ UNCHANGED <<clock, pod, reply, submits, stats, inval, caching, crashes>>

(* Mutant of Submit: the gateway's error is thrown on to the consumer *)
SubmitRethrows(s) ==
    /\ pc[s] = "submit"
    /\ submits' = [submits EXCEPT ![s] = @ + 1]
    /\ \/ reply' = [reply EXCEPT ![s] = [ok |-> TRUE, smid |-> TRUE]] /\ Go(s, "update")
       \/ UNCHANGED reply /\ Go(s, "threw")
    /\ UNCHANGED <<clock, seq, pod, runs, tx, rows, issued, stats, inval, caching,
                   faults, crashes>>

(* callLtcSubmit(): accepted, refused, or an exception (caught) *)
Submit(s) ==
    /\ pc[s] = "submit"
    /\ submits' = [submits EXCEPT ![s] = @ + 1]
    /\ \E r \in Replies :
        /\ r.smid => r.ok
        /\ reply' = [reply EXCEPT ![s] = r]
    /\ Go(s, "update")
    /\ UNCHANGED <<clock, seq, pod, runs, tx, rows, issued, stats, inval, caching,
                   faults, crashes>>

Final(s) == IF reply[s].ok THEN "SENT" ELSE "FAILED"

(* Mutant of Updated: the rows of every run are written *)
UpdatedBySend(s) ==
    {IF w.send = s THEN [w EXCEPT !.status = Final(s), !.smid = reply[s].smid]
     ELSE w : w \in rows}

(* smid and status of the row of this run *)
Updated(s) ==
    {IF w.tx = tx[s] THEN [w EXCEPT !.status = Final(s), !.smid = reply[s].smid]
     ELSE w : w \in rows}

(* smsLog.update by id; a database error is swallowed *)
Update(s) ==
    /\ pc[s] = "update"
    /\ \/ rows' = Updated(s) /\ UNCHANGED faults
       \/ /\ faults < MaxFaults /\ faults' = faults + 1
          /\ UNCHANGED rows
    /\ Go(s, "count")
    /\ UNCHANGED <<clock, seq, pod, runs, tx, reply, issued, submits, stats, inval,
                   caching, crashes>>

(* onSmsSent: the upsert of today's row *)
Counted(s) ==
    IF reply[s].ok THEN [stats EXCEPT !.success = @ + 1] ELSE [stats EXCEPT !.fail = @ + 1]

(* onSmsSent (a database error is swallowed), then invalidateStatsCache    *)
(* is started and not awaited, and send() returns.                         *)
Count(s) ==
    /\ pc[s] = "count"
    /\ \/ stats' = Counted(s) /\ UNCHANGED faults
       \/ /\ faults < MaxFaults /\ faults' = faults + 1
          /\ UNCHANGED stats
    /\ inval' = [inval EXCEPT ![s] = [at |-> "keys", found |-> {}]]
    /\ Go(s, "returned")
    /\ UNCHANGED <<clock, seq, pod, runs, tx, reply, rows, issued, submits, caching, crashes>>

(* Mutant of InvalidateKeys: the pattern names another day *)
InvalidateKeysMissed(s) ==
    /\ inval[s].at = "keys"
    /\ inval' = [inval EXCEPT ![s] = [at |-> "del", found |-> {}]]
    /\ UNCHANGED <<sending, caching, stats, faults, crashes>>

(* KEYS sms:stats:*today* *)
InvalidateKeys(s) ==
    /\ inval[s].at = "keys"
    /\ inval' = [inval EXCEPT ![s] =
                    [at |-> "del", found |-> {q \in Dated : cache[q] # NoStats}]]
    /\ UNCHANGED <<sending, caching, stats, faults, crashes>>

(* DEL of the keys found *)
InvalidateDel(s) ==
    /\ inval[s].at = "del"
    /\ cache' = [q \in Queries |-> IF q \in inval[s].found THEN NoStats ELSE cache[q]]
    /\ inval' = [inval EXCEPT ![s] = NoInval]
    /\ UNCHANGED <<sending, stats, reading, raced, reads, faults, crashes>>

-----------------------------------------------------------------------------
(* verify(smid): the gateway reports the SMS of a row as delivered. *)
Verify(w) ==
    /\ w.smid
    /\ rows' = {IF v.smid /\ v.tx = w.tx THEN [v EXCEPT !.status = "DELIVERED"] ELSE v : v \in rows}
    /\ UNCHANGED <<clock, seq, pc, pod, runs, tx, reply, issued, submits,
                   caching, stats, inval, faults, crashes>>

(* getDailyStats misses the cache and reads the table. *)
ReadStats(q) ==
    /\ cache[q] = NoStats /\ reading[q] = NoStats
    /\ reads < MaxReads
    /\ reads' = reads + 1
    /\ reading' = [reading EXCEPT ![q] = stats]
    /\ UNCHANGED <<sending, stats, inval, cache, raced, faults, crashes>>

(* toCache *)
CacheStats(q) ==
    /\ reading[q] # NoStats
    /\ cache' = [cache EXCEPT ![q] = reading[q]]
    /\ reading' = [reading EXCEPT ![q] = NoStats]
    /\ raced' = IF reading[q] # stats THEN raced \cup {q} ELSE raced
    /\ UNCHANGED <<sending, stats, inval, reads, faults, crashes>>

(* CACHE_TTL_STATS *)
CacheExpires(q) ==
    /\ cache[q] # NoStats
    /\ cache' = [cache EXCEPT ![q] = NoStats]
    /\ raced' = raced \ {q}
    /\ UNCHANGED <<sending, stats, inval, reading, reads, faults, crashes>>

Tick ==
    /\ clock < MaxSeconds
    /\ clock' = clock + 1
    /\ UNCHANGED <<seq, pc, pod, runs, tx, reply, rows, issued, submits,
                   caching, stats, inval, faults, crashes>>

Running(s) == pc[s] \in {"submit", "update", "count"}

(* A pod dies: txSeq starts again, its sends may be asked for again. *)
Crash(p) ==
    /\ crashes < MaxCrashes /\ crashes' = crashes + 1
    /\ seq' = [seq EXCEPT ![p] = 0]
    /\ pc' = [s \in Sends |-> IF pod[s] = p /\ Running(s) THEN "idle" ELSE pc[s]]
    /\ inval' = [s \in Sends |-> IF pod[s] = p THEN NoInval ELSE inval[s]]
    /\ UNCHANGED <<clock, pod, runs, tx, reply, rows, issued, submits,
                   caching, stats, faults>>

Next ==
    \/ \E s \in Sends :
        \/ Create(s) \/ Submit(s) \/ Update(s) \/ Count(s)
        \/ InvalidateKeys(s) \/ InvalidateDel(s)
    \/ \E w \in rows : Verify(w)
    \/ \E q \in Queries : ReadStats(q) \/ CacheStats(q) \/ CacheExpires(q)
    \/ Tick
    \/ \E p \in Pods : Crash(p)

Spec == Init /\ [][Next]_vars

-----------------------------------------------------------------------------
(* Properties *)

(* "Persist PENDING record before hitting LTC so we never lose a            *)
(* transaction": whatever fails or crashes, the gateway was never called    *)
(* more often for a send than there are rows of that send.                  *)
NoTransactionLost ==
    \A s \in Sends : submits[s] <= Cardinality({w \in rows : w.send = s})

(* The consumer's retry never sends an SMS twice: send() throws only        *)
(* before the gateway is called, so only a crash can repeat a submission.   *)
SubmitBudget == \A s \in Sends : submits[s] <= 1 + crashes

(* A delivery report is not overwritten by the send it belongs to, nor by   *)
(* a later run of it.                                                       *)
DeliveredStays ==
    [][\A w \in rows : w.status = "DELIVERED" => w \in rows']_vars

(* With every invalidation through, the cached statistics of a query that   *)
(* names today are those of the table, unless the read behind them raced    *)
(* with a send.                                                             *)
DatedCacheFresh ==
    crashes = 0 /\ (\A s \in Sends : inval[s] = NoInval) =>
        \A q \in Dated \ raced : cache[q] \in {NoStats, stats}

(* "Invalidate all sms:stats:* keys for today so the next request sees      *)
(* fresh data": the same of every query, with the same exception, also of   *)
(* one that covers today without naming it.                                 *)
CacheFresh ==
    crashes = 0 /\ (\A s \in Sends : inval[s] = NoInval) =>
        \A q \in Queries \ raced : cache[q] \in {NoStats, stats}

SameId(a, b) == a # b /\ a.tx = b.tx

(* A pod that has not restarted repeats an id only after Modulus ids within *)
(* one second.                                                              *)
RepeatsOnlyAfterModulus ==
    crashes = 0 =>
        \A a, b \in issued : SameId(a, b) /\ pod[a.send] = pod[b.send] =>
            Cardinality({c \in issued : c.tx.second = a.tx.second
                                          /\ pod[c.send] = pod[a.send]}) > Modulus
=============================================================================
