----------------------------- MODULE ServiceToken -----------------------------
(***************************************************************************)
(* Service tokens: the keys a process loads at its start, sign() and       *)
(* verify() (common/service-auth/service-jwt.service.ts), for any number   *)
(* of services with any number of pods each.                               *)
(*                                                                         *)
(* A message may be fanned out to the queues of several services and       *)
(* delivered to each more than once; every delivery is verified, and one   *)
(* verification per service is to succeed.  A token is signed by the clock *)
(* of one pod and checked by those of others; its jti is looked up in      *)
(* Redis and stored there by two calls.  Time is counted in ticks, Second  *)
(* of them to the second that iat, exp and nowS are rounded down to.       *)
(***************************************************************************)
EXTENDS Integers, Sequences, FiniteSets

CONSTANTS
    Tokens,        \* messages, each with the token it is published with
    Services,      \* SERVICE_NAMEs
    Pods,          \* processes
    ServiceOf,     \* ServiceOf[p]: the service that pod p belongs to
    KeyOf,         \* KeyOf[s]: the key pair of service s
    Deployments,   \* the environments the pods may have been started with
    Checks,        \* the deliveries to verify: <<message, service, n>>
    Second,        \* ticks per second
    TokenTtl,      \* TOKEN_TTL_S, in ticks
    BlacklistTtl,  \* JTI_BLACKLIST_TTL_S, in ticks
    Skew,          \* how far a pod's clock may be off
    Lag,           \* how long a verify() may take
    MaxTime,       \* bound: the last instant
    MaxDeaths      \* bound: verifications ended by a Redis error or a crash

NoKey == "no key"

(* The variables read by loadPrivateKey and loadTrustedKeys: the path and  *)
(* the value of the private key; Option A (dir), the directory with the    *)
(* issuer list; Option B, the JSON array.  An entry without a usable key   *)
(* (no colon, no such file, no "key" field) has key NoKey.                 *)
Keys    == {KeyOf[s] : s \in Services}
Entries == [iss : Services, key : Keys \cup {NoKey}]

ASSUME TokenAssumption ==
    /\ Checks \subseteq Tokens \X Services \X Nat
    /\ ServiceOf \in [Pods -> Services]
    /\ NoKey \notin Keys
    /\ \A d \in Deployments : \A p \in Pods :
          /\ d[p].path \in {"unset", "unreadable", "ok"} /\ d[p].value \in BOOLEAN
          /\ d[p].dir \in BOOLEAN
          /\ d[p].issuers \in Seq(Entries) /\ d[p].json \in Seq(Entries)
    /\ Second \in Nat \ {0}
    /\ {TokenTtl, BlacklistTtl, Skew, Lag, MaxTime, MaxDeaths} \subseteq Nat

(* 60 s outlast the life of a token, clocks and latency included: what the *)
(* constants of the class have to satisfy for the blacklist to be enough.  *)
ASSUME BlacklistOutlastsToken == TokenTtl + Second + 2 * Skew + Lag <= BlacklistTtl

(* TOKEN_TTL_S is a number of seconds. *)
ASSUME WholeSeconds == TokenTtl % Second = 0

VARIABLES
    env,        \* env[p]: the environment of pod p
    offset,     \* offset[p]: how far its clock is ahead
    clock,
    token,      \* token[t]: the token message t was published with, or NoToken
    signedAt,   \* signedAt[t]: when t was published, or -1
    pc,         \* pc[c]: where check c of a delivery is
    started,    \* started[c]: when its verify() was called
    blacklist,  \* blacklist[s][t]: when Redis forgets the jti of t, for s
    raced,      \* <<s, t>> two checks of which were between GET and SET
    deaths

vars == <<env, offset, clock, token, signedAt, pc, started, blacklist, raced, deaths>>

NoToken == [iss |-> "none", key |-> NoKey, exp |-> 0]

Msg(c) == c[1]
Svc(c) == c[2]

TypeOK ==
    /\ env \in Deployments
    /\ offset \in [Pods -> Int] /\ \A p \in Pods : -Skew <= offset[p] /\ offset[p] <= Skew
    /\ clock \in Nat
    /\ token \in [Tokens -> [iss : Services, key : Keys, exp : Int] \cup {NoToken}]
    /\ signedAt \in [Tokens -> Int]
    /\ \A t \in Tokens : -1 <= signedAt[t] /\ signedAt[t] <= clock
    /\ \A t \in Tokens : signedAt[t] = -1 => token[t] = NoToken
    /\ pc \in [Checks -> {"idle", "get", "set", "accepted", "refused", "died"}]
    /\ started \in [Checks -> Int]
    /\ blacklist \in [Services -> [Tokens -> Int]]
    /\ raced \subseteq Services \X Tokens
    /\ deaths \in Nat

Init ==
    /\ env \in Deployments
    /\ offset \in [Pods -> -Skew .. Skew]
    /\ clock = 0
    /\ token = [t \in Tokens |-> NoToken]
    /\ signedAt = [t \in Tokens |-> -1]
    /\ pc = [c \in Checks |-> "idle"]
    /\ started = [c \in Checks |-> -1]
    /\ blacklist = [s \in Services |-> [t \in Tokens |-> -1]]
    /\ raced = {} /\ deaths = 0

-----------------------------------------------------------------------------
(* Keys *)

(* loadPrivateKey: a path that cannot be read is not replaced by the value *)
HasPrivateKey(e) == IF e.path = "unset" THEN e.value ELSE e.path = "ok"

(* The last entry of s that carries a key stands. *)
LastKey(s, entries) ==
    LET hits == {i \in 1 .. Len(entries) : entries[i].iss = s /\ entries[i].key # NoKey}
    IN  IF hits = {} THEN NoKey
        ELSE entries[CHOOSE i \in hits : \A j \in hits : j <= i].key

(* Option B stops at the first entry that throws and keeps those before. *)
UpToBad(entries) ==
    SelectSeq([i \in 1 .. Len(entries) |->
                  IF \E j \in 1 .. i : entries[j].key = NoKey
                  THEN [entries[i] EXCEPT !.key = NoKey] ELSE entries[i]],
              LAMBDA e : e.key # NoKey)

(* trustedKeys.get(s): Option A skips bad entries and, once its two        *)
(* variables are set, never falls back on Option B                         *)
TrustedKey(e, s) == IF e.dir THEN LastKey(s, e.issuers) ELSE LastKey(s, UpToBad(e.json))

-----------------------------------------------------------------------------
(* Math.floor(Date.now() / 1000) by the clock of pod p *)
Now(p) == LET t == clock + offset[p] IN t - (t % Second)

(* Mutant: a token is made up whether there is a key to sign it or not *)
SignAlways(t, p) ==
    /\ signedAt[t] = -1
    /\ token' = [token EXCEPT ![t] =
          [iss |-> ServiceOf[p], exp |-> Now(p) + TokenTtl,
           key |-> IF HasPrivateKey(env[p]) THEN KeyOf[ServiceOf[p]] ELSE NoKey]]
    /\ signedAt' = [signedAt EXCEPT ![t] = clock]
    /\ UNCHANGED <<env, offset, clock, pc, started, blacklist, raced, deaths>>

(* sign(): a message goes out without a token if there is no private key *)
Sign(t, p) ==
    /\ signedAt[t] = -1
    /\ token' = [token EXCEPT ![t] =
          IF HasPrivateKey(env[p])
          THEN [iss |-> ServiceOf[p], key |-> KeyOf[ServiceOf[p]], exp |-> Now(p) + TokenTtl]
          ELSE NoToken]
    /\ signedAt' = [signedAt EXCEPT ![t] = clock]
    /\ UNCHANGED <<env, offset, clock, pc, started, blacklist, raced, deaths>>

(* Mutant: the second of exp itself is too late *)
AcceptableBefore(t, p) ==
    LET k == TrustedKey(env[p], token[t].iss) IN
    token[t] # NoToken /\ token[t].exp - Second > Now(p) /\ k # NoKey /\ k = token[t].key

(* What verify() checks before Redis: there is a token, it is in date, its *)
(* issuer is known and the signature is by the key known for it.           *)
Acceptable(t, p) ==
    /\ token[t] # NoToken
    /\ token[t].exp >= Now(p)
    /\ LET k == TrustedKey(env[p], token[t].iss) IN k # NoKey /\ k = token[t].key

Goto(c, label) == pc' = [pc EXCEPT ![c] = label]

(* A delivery reaches pod p of the service, which calls verify(). *)
Begin(c, p) ==
    /\ pc[c] = "idle" /\ signedAt[Msg(c)] # -1 /\ ServiceOf[p] = Svc(c)
    /\ Goto(c, IF Acceptable(Msg(c), p) THEN "get" ELSE "refused")
    /\ started' = [started EXCEPT ![c] = clock]
    /\ UNCHANGED <<env, offset, clock, token, signedAt, blacklist, raced, deaths>>

(* Mutant: the key is svc:jti:<jti>, the same for every service *)
SeenByAny(s, t) == \E r \in Services : clock < blacklist[r][t]

(* redis.get(`svc:jti:${serviceName}:${jti}`) *)
Seen(s, t) == clock < blacklist[s][t]

Get(c) ==
    LET id == <<Svc(c), Msg(c)>> IN
    /\ pc[c] = "get"
    /\ IF Seen(Svc(c), Msg(c))
       THEN Goto(c, "refused") /\ raced' = raced
       ELSE /\ Goto(c, "set")
            /\ raced' = IF \E d \in Checks \ {c} : pc[d] = "set" /\ <<Svc(d), Msg(d)>> = id
                        THEN raced \cup {id} ELSE raced
    /\ UNCHANGED <<env, offset, clock, token, signedAt, started, blacklist, deaths>>

(* Mutant: the jti is kept as long as the token lives *)
StoreForTtl(c) ==
    blacklist' = [blacklist EXCEPT ![Svc(c)] = [@ EXCEPT ![Msg(c)] = clock + TokenTtl]]

(* redis.set(jtiKey, '1', 60): the TTL starts again with every SET *)
Store(c) ==
    blacklist' = [blacklist EXCEPT ![Svc(c)] = [@ EXCEPT ![Msg(c)] = clock + BlacklistTtl]]

(* The jti is stored: the payload is returned. *)
Accept(c) ==
    /\ pc[c] = "set"
    /\ Store(c)
    /\ Goto(c, "accepted")
    /\ UNCHANGED <<env, offset, clock, token, signedAt, started, raced, deaths>>

(* A Redis call rejects or the process ends; a SET may have come through. *)
Die(c) ==
    /\ pc[c] \in {"get", "set"} /\ deaths < MaxDeaths
    /\ deaths' = deaths + 1
    /\ Goto(c, "died")
    /\ blacklist' = blacklist \/ (pc[c] = "set" /\ Store(c))
    /\ UNCHANGED <<env, offset, clock, token, signedAt, started, raced>>

Tick ==
    /\ clock < MaxTime
    /\ \A c \in Checks : pc[c] \in {"get", "set"} => clock < started[c] + Lag
    /\ clock' = clock + 1
    /\ UNCHANGED <<env, offset, token, signedAt, pc, started, blacklist, raced, deaths>>

Next ==
    \/ \E t \in Tokens, p \in Pods : Sign(t, p)
    \/ \E c \in Checks : (\E p \in Pods : Begin(c, p)) \/ Get(c) \/ Accept(c) \/ Die(c)
    \/ Tick

Spec == Init /\ [][Next]_vars

-----------------------------------------------------------------------------
(* Properties *)

(* However often and late a message is delivered to a service, one         *)
(* delivery is accepted at most, unless two were verified at once.         *)
AcceptedOnce ==
    \A c, d \in Checks :
        /\ pc[c] = "accepted" /\ pc[d] = "accepted"
        /\ Svc(c) = Svc(d) /\ Msg(c) = Msg(d) /\ <<Svc(c), Msg(c)>> \notin raced
        => c = d

(* A delivery is refused only if its token is missing or signed by a key   *)
(* that some pod of the service does not trust, if it is out of date by    *)
(* more than the clocks can explain, or if another delivery to the same    *)
(* service has come to Redis before: what other services accept, or what   *)
(* is fanned out to them, never counts.                                    *)
RefusalJustified ==
    \A c \in Checks : pc[c] = "refused" =>
        LET t == Msg(c) IN
        \/ token[t] = NoToken
        \/ \E p \in Pods : ServiceOf[p] = Svc(c) /\ TrustedKey(env[p], token[t].iss) # token[t].key
        \/ started[c] > signedAt[t] + TokenTtl - 2 * Skew
        \/ \E d \in Checks \ {c} : Msg(d) = t /\ Svc(d) = Svc(c) /\ pc[d] \in {"accepted", "died"}
=============================================================================
