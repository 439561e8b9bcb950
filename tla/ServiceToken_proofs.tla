------------------------- MODULE ServiceToken_proofs -------------------------
(***************************************************************************)
(* Proofs about ServiceToken: its types, that the blacklist of 60 s lets   *)
(* no delivery through twice, and that none is refused without a reason.   *)
(***************************************************************************)
EXTENDS ServiceToken, TLAPS

(* Rounding down to the second loses less than a second. *)
LEMMA RoundedDown ==
    ASSUME NEW t \in Int
    PROVE  /\ t - (t % Second) \in Int
           /\ t - Second < t - (t % Second)
           /\ t - (t % Second) <= t
<1>1. Second \in Int /\ 0 < Second
  BY TokenAssumption
<1>2. t % Second \in 0 .. Second - 1
  BY <1>1
<1> QED
  BY <1>1, <1>2

(* The second a pod rounds its clock down to is not far from the time. *)
LEMMA NowNearClock ==
    ASSUME TypeOK, NEW p \in Pods
    PROVE  /\ Now(p) \in Int
           /\ clock - Skew - Second < Now(p)
           /\ Now(p) <= clock + Skew
<1>1. /\ clock \in Int /\ offset[p] \in Int
      /\ -Skew <= offset[p] /\ offset[p] <= Skew
      /\ Skew \in Int /\ Second \in Int
  BY TokenAssumption DEF TypeOK
<1> DEFINE T == clock + offset[p]
<1>2. T \in Int
  BY <1>1
<1>3. /\ T - (T % Second) \in Int
      /\ T - Second < T - (T % Second)
      /\ T - (T % Second) <= T
  BY <1>2, RoundedDown
<1>4. Now(p) = T - (T % Second)
  BY DEF Now
<1> QED
  BY <1>1, <1>3, <1>4

(* Every value stays in its type; in particular what is published carries  *)
(* either no token or one signed with the key of its issuer.               *)
THEOREM TypeCorrect == Spec => []TypeOK
<1>1. Init => TypeOK
  <2> SUFFICES ASSUME Init PROVE TypeOK
    OBVIOUS
  <2>1. \A p \in Pods : -Skew <= offset[p] /\ offset[p] <= Skew /\ offset[p] \in Int
    BY TokenAssumption DEF Init
  <2> QED
    BY <2>1 DEF Init, TypeOK
<1>2. TypeOK /\ [Next]_vars => TypeOK'
  <2> SUFFICES ASSUME TypeOK, [Next]_vars PROVE TypeOK'
    OBVIOUS
  <2>0. \A p \in Pods : Now(p) \in Int
    BY NowNearClock
  <2> USE DEF TypeOK
  <2>1. ASSUME NEW t \in Tokens, NEW p \in Pods, Sign(t, p) PROVE TypeOK'
    <3>1. Now(p) + TokenTtl \in Int
      BY <2>0, TokenAssumption
    <3>2. ServiceOf[p] \in Services /\ KeyOf[ServiceOf[p]] \in Keys
      BY TokenAssumption DEF Keys
    <3>3. token' \in [Tokens -> [iss : Services, key : Keys, exp : Int] \cup {NoToken}]
      BY <2>1, <3>1, <3>2 DEF Sign
    <3>4. /\ signedAt' \in [Tokens -> Int] /\ clock' = clock
          /\ \A u \in Tokens : -1 <= signedAt'[u] /\ signedAt'[u] <= clock
          /\ \A u \in Tokens : signedAt'[u] = -1 => token'[u] = NoToken
      BY <2>1 DEF Sign
    <3>5. UNCHANGED <<env, offset, clock, pc, started, blacklist, raced, deaths>>
      BY <2>1 DEF Sign
    <3> QED
      BY <3>3, <3>4, <3>5
  <2>2. ASSUME NEW c \in Checks, NEW p \in Pods, Begin(c, p) PROVE TypeOK'
    BY <2>2 DEF Begin, Goto
  <2>3. ASSUME NEW c \in Checks, Get(c) PROVE TypeOK'
    <3>1. Svc(c) \in Services /\ Msg(c) \in Tokens
      BY TokenAssumption DEF Svc, Msg
    <3>2. raced' \subseteq Services \X Tokens
      BY <2>3, <3>1 DEF Get, Goto
    <3>3. pc' \in [Checks -> {"idle", "get", "set", "accepted", "refused", "died"}]
      BY <2>3 DEF Get, Goto
    <3> QED
      BY <2>3, <3>2, <3>3 DEF Get
  <2>4. ASSUME NEW c \in Checks, Store(c) PROVE blacklist' \in [Services -> [Tokens -> Int]]
    <3>1. Svc(c) \in Services /\ Msg(c) \in Tokens
      BY TokenAssumption DEF Svc, Msg
    <3>2. clock + BlacklistTtl \in Int
      BY TokenAssumption
    <3>3. [blacklist[Svc(c)] EXCEPT ![Msg(c)] = clock + BlacklistTtl] \in [Tokens -> Int]
      BY <3>1, <3>2
    <3> QED
      BY <2>4, <3>1, <3>3 DEF Store
  <2>5. ASSUME NEW c \in Checks, Accept(c) PROVE TypeOK'
    BY <2>4, <2>5 DEF Accept, Goto
  <2>6. ASSUME NEW c \in Checks, Die(c) PROVE TypeOK'
    BY <2>4, <2>6 DEF Die, Goto
  <2>7. ASSUME Tick PROVE TypeOK'
    BY <2>7 DEF Tick
  <2>8. CASE UNCHANGED vars
    BY <2>8 DEF vars
  <2>9. CASE Next
    <3>1. CASE \E t \in Tokens, p \in Pods : Sign(t, p)
      BY <2>1, <3>1
    <3>2. CASE \E c \in Checks : (\E p \in Pods : Begin(c, p)) \/ Get(c) \/ Accept(c) \/ Die(c)
      BY <2>2, <2>3, <2>5, <2>6, <3>2
    <3> QED
      BY <2>7, <2>9, <3>1, <3>2 DEF Next
  <2> QED
    BY <2>8, <2>9
<1> QED
  BY <1>1, <1>2, PTL DEF Spec

-----------------------------------------------------------------------------
(* The inductive invariant of AcceptedOnce.                                *)

(* How long after its publication a token can pass the date check *)
Lifetime == TokenTtl + Second + 2 * Skew

(* A token expires TokenTtl after its publication, by the signer's clock. *)
Dated ==
    \A t \in Tokens : token[t] # NoToken => token[t].exp <= signedAt[t] + Skew + TokenTtl

(* A check that talks to Redis began before the token was out of date, and *)
(* not long ago.                                                           *)
Recent ==
    \A c \in Checks : pc[c] \in {"get", "set"} =>
        /\ signedAt[Msg(c)] # -1
        /\ started[c] < signedAt[Msg(c)] + Lifetime
        /\ clock <= started[c] + Lag

(* A stored jti outlasts every check that may still look it up. *)
StoredLong ==
    \A s \in Services, t \in Tokens : blacklist[s][t] # -1 =>
        signedAt[t] # -1 /\ blacklist[s][t] >= signedAt[t] + BlacklistTtl

(* What is accepted has been stored. *)
AcceptedStored ==
    \A c \in Checks : pc[c] = "accepted" => blacklist[Svc(c)][Msg(c)] # -1

SameJti(c, d) == Svc(c) = Svc(d) /\ Msg(c) = Msg(d)
Through(c) == pc[c] \in {"set", "accepted"}

(* One check at most is past its GET, unless two were there at once. *)
Alone ==
    \A c, d \in Checks :
        c # d /\ SameJti(c, d) /\ Through(c) /\ Through(d) => <<Svc(c), Msg(c)>> \in raced

BlacklistInv == Dated /\ Recent /\ StoredLong /\ AcceptedStored /\ Alone

LEMMA CheckTypes ==
    ASSUME NEW c \in Checks
    PROVE  Svc(c) \in Services /\ Msg(c) \in Tokens
BY TokenAssumption DEF Svc, Msg

(* A jti that Redis has forgotten belongs to a token no check has in hand. *)
LEMMA ForgottenIsOld ==
    ASSUME TypeOK, Recent, StoredLong, NEW c \in Checks, pc[c] = "get", ~ Seen(Svc(c), Msg(c))
    PROVE  blacklist[Svc(c)][Msg(c)] = -1
<1> DEFINE s == Svc(c)
           t == Msg(c)
<1>1. s \in Services /\ t \in Tokens
  BY CheckTypes
<1>2. /\ signedAt[t] \in Int /\ blacklist[s][t] \in Int /\ started[c] \in Int /\ clock \in Int
      /\ {TokenTtl, BlacklistTtl, Skew, Lag, Second} \subseteq Int
  BY <1>1, TokenAssumption DEF TypeOK
<1>3. clock < signedAt[t] + BlacklistTtl
  <2>1. started[c] < signedAt[t] + Lifetime /\ clock <= started[c] + Lag
    BY DEF Recent
  <2> QED
    BY <1>2, <2>1, BlacklistOutlastsToken DEF Lifetime
<1>4. ~ (clock < blacklist[s][t])
  BY DEF Seen
<1>5. blacklist[s][t] # -1 => blacklist[s][t] >= signedAt[t] + BlacklistTtl
  BY <1>1 DEF StoredLong
<1> HIDE DEF s, t
<1>6. blacklist[s][t] = -1
  BY <1>2, <1>3, <1>4, <1>5
<1> QED
  BY <1>6 DEF s, t

(* What Store does to the blacklist, kept by every check that has not set. *)
LEMMA StoreKeepsBlacklist ==
    ASSUME TypeOK, Recent, StoredLong, AcceptedStored,
           NEW c \in Checks, pc[c] = "set", Store(c), UNCHANGED signedAt
    PROVE  /\ StoredLong'
           /\ blacklist'[Svc(c)][Msg(c)] # -1
           /\ \A s \in Services, t \in Tokens :
                 blacklist[s][t] # -1 => blacklist'[s][t] # -1
<1>1. Svc(c) \in Services /\ Msg(c) \in Tokens
  BY CheckTypes
<1>2. /\ clock \in Nat /\ BlacklistTtl \in Nat
      /\ signedAt[Msg(c)] \in Int /\ signedAt[Msg(c)] <= clock /\ signedAt[Msg(c)] # -1
  BY <1>1, TokenAssumption DEF TypeOK, Recent
<1>3. \A s \in Services, t \in Tokens :
         blacklist'[s][t] = IF s = Svc(c) /\ t = Msg(c)
                            THEN clock + BlacklistTtl ELSE blacklist[s][t]
  BY <1>1 DEF TypeOK, Store
<1>4. clock + BlacklistTtl # -1 /\ clock + BlacklistTtl >= signedAt[Msg(c)] + BlacklistTtl
  BY <1>2
<1>5. StoredLong'
  <2> SUFFICES ASSUME NEW s \in Services, NEW t \in Tokens, blacklist'[s][t] # -1
               PROVE  signedAt[t] # -1 /\ blacklist'[s][t] >= signedAt[t] + BlacklistTtl
    BY DEF StoredLong
  <2>1. CASE s = Svc(c) /\ t = Msg(c)
    BY <1>2, <1>3, <1>4, <2>1
  <2>2. CASE ~ (s = Svc(c) /\ t = Msg(c))
    BY <1>3, <2>2 DEF StoredLong
  <2> QED
    BY <2>1, <2>2
<1> QED
  BY <1>1, <1>3, <1>4, <1>5

LEMMA BlacklistStep ==
    ASSUME TypeOK, TypeOK', BlacklistInv, [Next]_vars
    PROVE  BlacklistInv'
<1> USE DEF BlacklistInv
<1>1. ASSUME NEW t \in Tokens, NEW p \in Pods, Sign(t, p) PROVE BlacklistInv'
  <2>0. Now(p) \in Int /\ Now(p) <= clock + Skew
    BY NowNearClock
  <2>1. clock \in Nat /\ TokenTtl \in Int /\ Skew \in Int
    BY TokenAssumption DEF TypeOK
  <2>2. UNCHANGED <<clock, pc, started, blacklist, raced>>
    BY <1>1 DEF Sign
  <2>3. /\ signedAt[t] = -1 /\ signedAt' = [signedAt EXCEPT ![t] = clock]
        /\ signedAt \in [Tokens -> Int] /\ token \in [Tokens -> [iss : Services, key : Keys, exp : Int] \cup {NoToken}]
    BY <1>1 DEF Sign, TypeOK
  <2>4. token' = [token EXCEPT ![t] = token'[t]]
    BY <1>1, <2>3 DEF Sign
  <2>5. token'[t] # NoToken => token'[t].exp = Now(p) + TokenTtl
    BY <1>1, <2>3 DEF Sign
  <2>6. Dated'
    BY <2>0, <2>1, <2>3, <2>4, <2>5 DEF Dated
  <2>7. Recent'
    BY <2>2, <2>3, CheckTypes DEF Recent
  <2>8. StoredLong'
    BY <2>2, <2>3 DEF StoredLong
  <2>9. AcceptedStored' /\ Alone'
    BY <2>2 DEF AcceptedStored, Alone, Through
  <2> QED
    BY <2>6, <2>7, <2>8, <2>9
<1>2. ASSUME NEW c \in Checks, NEW p \in Pods, Begin(c, p) PROVE BlacklistInv'
  <2>1. UNCHANGED <<clock, token, signedAt, blacklist, raced>>
    BY <1>2 DEF Begin
  <2>2. /\ pc \in [Checks -> {"idle", "get", "set", "accepted", "refused", "died"}]
        /\ started \in [Checks -> Int] /\ Msg(c) \in Tokens
    BY CheckTypes DEF TypeOK
  <2>3. /\ pc' = [pc EXCEPT ![c] = pc'[c]] /\ started' = [started EXCEPT ![c] = clock]
        /\ pc'[c] \in {"get", "refused"} /\ signedAt[Msg(c)] # -1
        /\ pc'[c] = "get" => Acceptable(Msg(c), p)
    BY <1>2, <2>2 DEF Begin, Goto
  <2>4. Acceptable(Msg(c), p) => clock < signedAt[Msg(c)] + Lifetime
    <3>0. Now(p) \in Int /\ clock - Skew - Second < Now(p)
      BY NowNearClock
    <3>1. {clock, Skew, Second, TokenTtl, signedAt[Msg(c)]} \subseteq Int
      BY <2>2, TokenAssumption DEF TypeOK
    <3>2. ASSUME Acceptable(Msg(c), p)
          PROVE  /\ token[Msg(c)].exp \in Int /\ Now(p) <= token[Msg(c)].exp
                 /\ token[Msg(c)].exp <= signedAt[Msg(c)] + Skew + TokenTtl
      <4>1. token[Msg(c)] # NoToken
        BY <3>2 DEF Acceptable
      <4>2. token[Msg(c)] \in [iss : Services, key : Keys, exp : Int]
        BY <2>2, <4>1 DEF TypeOK
      <4> QED
        BY <2>2, <3>0, <3>2, <4>1, <4>2 DEF Acceptable, Dated
    <3> QED
      BY <3>0, <3>1, <3>2 DEF Lifetime
  <2>5. Recent'
    <3> SUFFICES ASSUME NEW d \in Checks, pc'[d] \in {"get", "set"}
                 PROVE  /\ signedAt[Msg(d)] # -1
                        /\ started'[d] < signedAt[Msg(d)] + Lifetime
                        /\ clock <= started'[d] + Lag
      BY <2>1 DEF Recent, Lifetime
    <3>1. CASE d = c
      <4>1. clock \in Nat /\ Lag \in Nat
        BY TokenAssumption DEF TypeOK
      <4> QED
        BY <2>2, <2>3, <2>4, <3>1, <4>1
    <3>2. CASE d # c
      BY <2>2, <2>3, <3>2 DEF Recent
    <3> QED
      BY <3>1, <3>2
  <2>6. Dated' /\ StoredLong'
    BY <2>1 DEF Dated, StoredLong
  <2>7. AcceptedStored' /\ Alone'
    BY <2>1, <2>2, <2>3 DEF AcceptedStored, Alone, Through
  <2> QED
    BY <2>5, <2>6, <2>7
<1>3. ASSUME NEW c \in Checks, Get(c) PROVE BlacklistInv'
  <2>1. UNCHANGED <<clock, token, signedAt, started, blacklist>> /\ pc[c] = "get"
    BY <1>3 DEF Get
  <2>2. /\ pc \in [Checks -> {"idle", "get", "set", "accepted", "refused", "died"}]
        /\ pc' = [pc EXCEPT ![c] = pc'[c]] /\ pc'[c] \in {"refused", "set"}
        /\ raced \subseteq raced'
    BY <1>3 DEF Get, Goto, TypeOK
  <2>3. Dated' /\ StoredLong'
    BY <2>1 DEF Dated, StoredLong
  <2>4. Recent'
    BY <2>1, <2>2 DEF Recent, Lifetime
  <2>5. AcceptedStored'
    BY <2>1, <2>2 DEF AcceptedStored
  <2>6. ASSUME pc'[c] = "set", NEW d \in Checks, d # c, SameJti(c, d), Through(d)
        PROVE  <<Svc(c), Msg(c)>> \in raced'
    <3>1. ~ Seen(Svc(c), Msg(c))
      BY <1>3, <2>2, <2>6 DEF Get, Goto
    <3>2. pc[d] # "accepted"
      BY <2>1, <2>6, <3>1, ForgottenIsOld DEF AcceptedStored, SameJti
    <3>3. pc[d] = "set"
      BY <2>6, <3>2 DEF Through
    <3> QED
      BY <1>3, <2>6, <3>1, <3>3 DEF Get, SameJti
  <2>7. Alone'
    <3> SUFFICES ASSUME NEW a \in Checks, NEW b \in Checks, a # b, SameJti(a, b),
                        Through(a)', Through(b)'
                 PROVE  <<Svc(a), Msg(a)>> \in raced'
      BY DEF Alone, SameJti
    <3>1. CASE a = c
      BY <2>2, <2>6, <3>1 DEF Through
    <3>2. CASE b = c
      BY <2>2, <2>6, <3>2 DEF Through, SameJti
    <3>3. CASE a # c /\ b # c
      BY <2>2, <3>3 DEF Through, Alone
    <3> QED
      BY <3>1, <3>2, <3>3
  <2> QED
    BY <2>3, <2>4, <2>5, <2>7
<1>4. ASSUME NEW c \in Checks, Accept(c) PROVE BlacklistInv'
  <2>1. /\ UNCHANGED <<clock, token, signedAt, started, raced>>
        /\ pc[c] = "set" /\ Store(c) /\ pc' = [pc EXCEPT ![c] = "accepted"]
    BY <1>4 DEF Accept, Goto
  <2>2. pc \in [Checks -> {"idle", "get", "set", "accepted", "refused", "died"}]
    BY DEF TypeOK
  <2>3. Dated' /\ Recent'
    BY <2>1, <2>2 DEF Dated, Recent, Lifetime
  <2>4. /\ StoredLong'
        /\ blacklist'[Svc(c)][Msg(c)] # -1
        /\ \A s \in Services, t \in Tokens : blacklist[s][t] # -1 => blacklist'[s][t] # -1
    BY <2>1, StoreKeepsBlacklist
  <2>5. AcceptedStored'
    BY <2>1, <2>2, <2>4, CheckTypes DEF AcceptedStored
  <2>6. Alone'
    BY <2>1, <2>2 DEF Alone, Through
  <2> QED
    BY <2>3, <2>4, <2>5, <2>6
<1>5. ASSUME NEW c \in Checks, Die(c) PROVE BlacklistInv'
  <2>1. /\ UNCHANGED <<clock, token, signedAt, started, raced>>
        /\ pc' = [pc EXCEPT ![c] = "died"]
        /\ UNCHANGED blacklist \/ (pc[c] = "set" /\ Store(c))
    BY <1>5 DEF Die, Goto
  <2>2. pc \in [Checks -> {"idle", "get", "set", "accepted", "refused", "died"}]
    BY DEF TypeOK
  <2>3. Dated' /\ Recent'
    BY <2>1, <2>2 DEF Dated, Recent, Lifetime
  <2>4. /\ StoredLong'
        /\ \A s \in Services, t \in Tokens : blacklist[s][t] # -1 => blacklist'[s][t] # -1
    <3>1. CASE UNCHANGED blacklist
      BY <2>1, <3>1 DEF StoredLong
    <3>2. CASE pc[c] = "set" /\ Store(c)
      BY <2>1, <3>2, StoreKeepsBlacklist
    <3> QED
      BY <2>1, <3>1, <3>2
  <2>5. AcceptedStored'
    BY <2>1, <2>2, <2>4, CheckTypes DEF AcceptedStored
  <2>6. Alone'
    BY <2>1, <2>2 DEF Alone, Through
  <2> QED
    BY <2>3, <2>4, <2>5, <2>6
<1>6. ASSUME Tick PROVE BlacklistInv'
  <2>1. UNCHANGED <<token, signedAt, pc, started, blacklist, raced>>
    BY <1>6 DEF Tick
  <2>2. Recent'
    <3>1. clock \in Int /\ Lag \in Int /\ started \in [Checks -> Int]
      BY TokenAssumption DEF TypeOK
    <3>2. \A c \in Checks : pc[c] \in {"get", "set"} => clock + 1 <= started[c] + Lag
      BY <1>6, <3>1 DEF Tick
    <3> QED
      BY <1>6, <2>1, <3>2 DEF Recent, Tick, Lifetime
  <2>3. Dated' /\ StoredLong' /\ AcceptedStored' /\ Alone'
    BY <2>1 DEF Dated, StoredLong, AcceptedStored, Alone, Through
  <2> QED
    BY <2>2, <2>3
<1>7. CASE UNCHANGED vars
  BY <1>7 DEF vars, Dated, Recent, StoredLong, AcceptedStored, Alone, Through, Lifetime
<1>8. CASE Next
  <2>1. CASE \E t \in Tokens, p \in Pods : Sign(t, p)
    BY <1>1, <2>1
  <2>2. CASE \E c \in Checks : (\E p \in Pods : Begin(c, p)) \/ Get(c) \/ Accept(c) \/ Die(c)
    BY <1>2, <1>3, <1>4, <1>5, <2>2
  <2> QED
    BY <1>6, <1>8, <2>1, <2>2 DEF Next
<1> QED
  BY <1>7, <1>8

(* The blacklist does what it is for: whatever the clocks within Skew and  *)
(* the deliveries, retries and replays, no service accepts a message twice *)
(* unless two of its checks were between GET and SET at once.              *)
THEOREM TokenAcceptedOnce == Spec => []AcceptedOnce
<1>1. Init => BlacklistInv
  BY CheckTypes DEF Init, BlacklistInv, Dated, Recent, StoredLong, AcceptedStored, Alone, Through
<1>2. TypeOK /\ TypeOK' /\ BlacklistInv /\ [Next]_vars => BlacklistInv'
  BY BlacklistStep
<1>3. BlacklistInv => AcceptedOnce
  BY DEF BlacklistInv, Alone, AcceptedOnce, Through, SameJti
<1> QED
  BY <1>1, <1>2, <1>3, TypeCorrect, PTL DEF Spec

-----------------------------------------------------------------------------
(* The inductive invariant of RefusalJustified.                            *)

LEMMA SecondPositive == Second \in Int /\ 0 < Second /\ {TokenTtl, Skew, Lag} \subseteq Int
BY TokenAssumption

(* Rounded down, a time is a whole number of seconds ... *)
LEMMA Rounded ==
    ASSUME NEW t \in Int
    PROVE  t - (t % Second) = Second * (t \div Second) /\ t \div Second \in Int
BY SecondPositive

(* ... and of two different ones the greater is a second greater. *)
LEMMA SecondsApart ==
    ASSUME NEW a \in Int, NEW b \in Int, Second * a < Second * b
    PROVE  Second * a + Second <= Second * b
<1> USE SecondPositive
<1>1. ~(b <= a)
  <2> SUFFICES ASSUME b <= a PROVE FALSE
    OBVIOUS
  <2>1. a - b \in Nat /\ Second * (a - b) >= 0
    OBVIOUS
  <2>2. Second * (a - b) = Second * a - Second * b
    OBVIOUS
  <2> QED
    BY <2>1, <2>2
<1>2. b - a - 1 \in Nat /\ Second * (b - a - 1) >= 0
  BY <1>1
<1>3. Second * (b - a - 1) = Second * b - Second * a - Second
  OBVIOUS
<1> QED
  BY <1>2, <1>3

LEMMA NowIsWhole ==
    ASSUME TypeOK, NEW p \in Pods
    PROVE  \E k \in Int : Now(p) = Second * k
<1>1. clock + offset[p] \in Int
  BY DEF TypeOK
<1> QED
  BY <1>1, Rounded DEF Now

(* A token expires at a whole second, not much before TokenTtl has passed. *)
Precise ==
    \A t \in Tokens : token[t] # NoToken =>
        /\ token[t].exp > signedAt[t] - Skew - Second + TokenTtl
        /\ \E k \in Int : token[t].exp = Second * k

(* A stored jti was stored by a check that has ended. *)
StoredByCheck ==
    \A s \in Services, t \in Tokens : blacklist[s][t] # -1 =>
        \E d \in Checks : Svc(d) = s /\ Msg(d) = t /\ pc[d] \in {"accepted", "died"}

PublishedFirst == \A c \in Checks : pc[c] # "idle" => signedAt[Msg(c)] # -1

RefusalInv == Precise /\ StoredByCheck /\ PublishedFirst /\ RefusalJustified

(* What is out of date for a pod was published long ago. *)
LEMMA OutOfDate ==
    ASSUME TypeOK, Precise, NEW t \in Tokens, NEW p \in Pods,
           token[t] # NoToken, token[t].exp < Now(p)
    PROVE  clock > signedAt[t] + TokenTtl - 2 * Skew
<1>1. PICK k \in Int : token[t].exp = Second * k
  BY DEF Precise
<1>2. PICK l \in Int : Now(p) = Second * l
  BY NowIsWhole
<1>3. Second * k + Second <= Second * l
  BY <1>1, <1>2, SecondsApart
<1>4. Second * k \in Int /\ Second * l \in Int
  BY SecondPositive
<1>5. Second * l <= clock + Skew
  BY <1>2, NowNearClock
<1>6. Second * k > signedAt[t] - Skew - Second + TokenTtl
  BY <1>1 DEF Precise
<1>7. clock \in Int /\ signedAt[t] \in Int
  BY DEF TypeOK
<1> QED
  BY <1>3, <1>4, <1>5, <1>6, <1>7, SecondPositive

(* What a token refused before Redis was refused for *)
LEMMA BeginJustified ==
    ASSUME TypeOK, Precise, NEW t \in Tokens, NEW p \in Pods, ~Acceptable(t, p)
    PROVE  \/ token[t] = NoToken
           \/ TrustedKey(env[p], token[t].iss) # token[t].key
           \/ clock > signedAt[t] + TokenTtl - 2 * Skew
<1> SUFFICES ASSUME token[t] # NoToken, TrustedKey(env[p], token[t].iss) = token[t].key
             PROVE  clock > signedAt[t] + TokenTtl - 2 * Skew
  OBVIOUS
<1>1. token[t] \in [iss : Services, key : Keys, exp : Int]
  BY DEF TypeOK
<1>2. token[t].key # NoKey
  BY <1>1, TokenAssumption
<1>3. ~(token[t].exp >= Now(p))
  BY <1>2 DEF Acceptable
<1>4. token[t].exp < Now(p)
  BY <1>1, <1>3, NowNearClock
<1> QED
  BY <1>4, OutOfDate

Justified(c) ==
    \/ token[Msg(c)] = NoToken
    \/ \E p \in Pods : /\ ServiceOf[p] = Svc(c)
                      /\ TrustedKey(env[p], token[Msg(c)].iss) # token[Msg(c)].key
    \/ started[c] > signedAt[Msg(c)] + TokenTtl - 2 * Skew
    \/ \E d \in Checks \ {c} : SameJti(c, d) /\ pc[d] \in {"accepted", "died"}

LEMMA RefusalsJustified ==
    RefusalJustified <=> \A c \in Checks : pc[c] = "refused" => Justified(c)
BY DEF RefusalJustified, Justified, SameJti

(* The ways a refusal is justified last. *)
LEMMA JustificationLasts ==
    ASSUME PublishedFirst, UNCHANGED env,
           \A t \in Tokens : signedAt[t] # -1 =>
               token'[t] = token[t] /\ signedAt'[t] = signedAt[t],
           \A c \in Checks : pc[c] # "idle" => started'[c] = started[c],
           \A c \in Checks : pc[c] \in {"accepted", "died"} => pc'[c] = pc[c],
           NEW c \in Checks, pc[c] = "refused", Justified(c)
    PROVE  Justified(c)'
<1>1. Msg(c) \in Tokens /\ signedAt[Msg(c)] # -1
  BY CheckTypes DEF PublishedFirst
<1>2. /\ token'[Msg(c)] = token[Msg(c)] /\ signedAt'[Msg(c)] = signedAt[Msg(c)]
      /\ started'[c] = started[c]
  BY <1>1
<1>3. \A d \in Checks : SameJti(c, d) /\ pc[d] \in {"accepted", "died"} =>
         pc'[d] \in {"accepted", "died"}
  OBVIOUS
<1> QED
  BY <1>2, <1>3 DEF Justified, SameJti

LEMMA RefusalStep ==
    ASSUME TypeOK, RefusalInv, [Next]_vars
    PROVE  RefusalInv'
<1> USE DEF RefusalInv
<1> DEFINE Labels == {"idle", "get", "set", "accepted", "refused", "died"}
<1>0. pc \in [Checks -> Labels] /\ started \in [Checks -> Int] /\ signedAt \in [Tokens -> Int]
  BY DEF TypeOK
(* Every step leaves published tokens and ended checks alone, and ends at  *)
(* most one check in a refusal, which it has to justify.                   *)
<1>1. ASSUME UNCHANGED env,
             \A t \in Tokens : signedAt[t] # -1 =>
                 token'[t] = token[t] /\ signedAt'[t] = signedAt[t],
             \A c \in Checks : pc[c] # "idle" => started'[c] = started[c],
             \A c \in Checks : pc[c] \in {"accepted", "died"} => pc'[c] = pc[c],
             \A c \in Checks : pc'[c] = "refused" /\ pc[c] # "refused" => Justified(c)'
      PROVE  RefusalJustified'
  <2>1. \A c \in Checks : pc[c] = "refused" => Justified(c)
    BY RefusalsJustified
  <2>2. ASSUME NEW c \in Checks, pc'[c] = "refused" PROVE Justified(c)'
    <3>1. CASE pc[c] = "refused"
      BY <1>1, <2>1, <3>1, JustificationLasts
    <3>2. CASE pc[c] # "refused"
      BY <1>1, <2>2, <3>2
    <3> QED
      BY <3>1, <3>2
  <2>3. RefusalJustified' <=> \A c \in Checks : pc'[c] = "refused" => Justified(c)'
    BY DEF RefusalJustified, Justified, SameJti
  <2> QED
    BY <2>2, <2>3
<1>2. ASSUME NEW t \in Tokens, NEW p \in Pods, Sign(t, p) PROVE RefusalInv'
  <2>1. /\ signedAt[t] = -1 /\ signedAt' = [signedAt EXCEPT ![t] = clock]
        /\ UNCHANGED <<env, clock, pc, started, blacklist>> /\ clock \in Nat
    BY <1>2 DEF Sign, TypeOK
  <2>2. /\ token' = [token EXCEPT ![t] = token'[t]]
        /\ token \in [Tokens -> [iss : Services, key : Keys, exp : Int] \cup {NoToken}]
        /\ token'[t] # NoToken => token'[t].exp = Now(p) + TokenTtl
    BY <1>2 DEF Sign, TypeOK
  <2>3. /\ Now(p) + TokenTtl > clock - Skew - Second + TokenTtl
        /\ \E k \in Int : Now(p) + TokenTtl = Second * k
    <3>1. Now(p) \in Int /\ clock - Skew - Second < Now(p)
      BY NowNearClock
    <3>2. PICK k \in Int : Now(p) = Second * k
      BY NowIsWhole
    <3>3. TokenTtl = Second * (TokenTtl \div Second) /\ TokenTtl \div Second \in Int
      BY Rounded, SecondPositive, WholeSeconds
    <3>4. k + (TokenTtl \div Second) \in Int
      BY <3>3
    <3>5. Second * (k + (TokenTtl \div Second)) = Second * k + Second * (TokenTtl \div Second)
      BY <3>3, SecondPositive
    <3>6. Now(p) + TokenTtl = Second * (k + (TokenTtl \div Second))
      BY <3>2, <3>3, <3>5
    <3>7. Now(p) + TokenTtl > clock - Skew - Second + TokenTtl
      BY <2>1, <3>1, SecondPositive
    <3> QED
      BY <3>4, <3>6, <3>7
  <2>4. Precise'
    <3> SUFFICES ASSUME NEW u \in Tokens, token'[u] # NoToken
                 PROVE  /\ token'[u].exp > signedAt'[u] - Skew - Second + TokenTtl
                        /\ \E k \in Int : token'[u].exp = Second * k
      BY DEF Precise
    <3>1. CASE u = t
      BY <1>0, <2>1, <2>2, <2>3, <3>1
    <3>2. CASE u # t
      BY <1>0, <2>1, <2>2, <3>2 DEF Precise
    <3> QED
      BY <3>1, <3>2
  <2>5. StoredByCheck'
    BY <2>1 DEF StoredByCheck
  <2>6. PublishedFirst'
    BY <1>0, <2>1, CheckTypes DEF PublishedFirst
  <2>7. \A u \in Tokens : signedAt[u] # -1 => token'[u] = token[u] /\ signedAt'[u] = signedAt[u]
    BY <1>0, <2>1, <2>2
  <2>8. RefusalJustified'
    BY <1>1, <2>1, <2>7
  <2> QED
    BY <2>4, <2>5, <2>6, <2>8
<1>3. ASSUME NEW c \in Checks, NEW p \in Pods, Begin(c, p) PROVE RefusalInv'
  <2>1. /\ UNCHANGED <<env, clock, token, signedAt, blacklist>>
        /\ pc[c] = "idle" /\ signedAt[Msg(c)] # -1 /\ ServiceOf[p] = Svc(c)
        /\ pc' = [pc EXCEPT ![c] = pc'[c]] /\ started' = [started EXCEPT ![c] = clock]
        /\ pc'[c] = "refused" => ~Acceptable(Msg(c), p)
    BY <1>0, <1>3 DEF Begin, Goto
  <2>2. Precise'
    BY <2>1 DEF Precise
  <2>3. StoredByCheck'
    BY <1>0, <2>1 DEF StoredByCheck
  <2>4. PublishedFirst'
    BY <1>0, <2>1 DEF PublishedFirst
  <2>5. pc'[c] = "refused" => Justified(c)'
    <3> SUFFICES ASSUME ~Acceptable(Msg(c), p) PROVE Justified(c)'
      BY <2>1
    <3>1. \/ token[Msg(c)] = NoToken
          \/ TrustedKey(env[p], token[Msg(c)].iss) # token[Msg(c)].key
          \/ clock > signedAt[Msg(c)] + TokenTtl - 2 * Skew
      BY BeginJustified, CheckTypes
    <3>2. started'[c] = clock
      BY <1>0, <2>1
    <3> QED
      BY <2>1, <3>1, <3>2 DEF Justified
  <2>6. RefusalJustified'
    <3>1. \A d \in Checks : pc'[d] = "refused" /\ pc[d] # "refused" => Justified(d)'
      BY <1>0, <2>1, <2>5
    <3>2. /\ \A d \in Checks : pc[d] # "idle" => started'[d] = started[d]
          /\ \A d \in Checks : pc[d] \in {"accepted", "died"} => pc'[d] = pc[d]
      BY <1>0, <2>1
    <3> QED
      BY <1>1, <2>1, <3>1, <3>2
  <2> QED
    BY <2>2, <2>3, <2>4, <2>6
<1>4. ASSUME NEW c \in Checks, Get(c) PROVE RefusalInv'
  <2>1. /\ UNCHANGED <<env, token, signedAt, started, blacklist>> /\ pc[c] = "get"
        /\ pc' = [pc EXCEPT ![c] = pc'[c]]
        /\ pc'[c] = "refused" => Seen(Svc(c), Msg(c))
    BY <1>0, <1>4 DEF Get, Goto
  <2>2. Precise' /\ PublishedFirst'
    BY <1>0, <2>1 DEF Precise, PublishedFirst
  <2>3. StoredByCheck'
    BY <1>0, <2>1 DEF StoredByCheck
  <2>4. pc'[c] = "refused" => Justified(c)'
    <3> SUFFICES ASSUME Seen(Svc(c), Msg(c)) PROVE Justified(c)'
      BY <2>1
    <3>1. blacklist[Svc(c)][Msg(c)] # -1
      <4>1. blacklist[Svc(c)][Msg(c)] \in Int /\ clock \in Nat
        BY CheckTypes DEF TypeOK
      <4>2. clock < blacklist[Svc(c)][Msg(c)]
        BY DEF Seen
      <4> QED
        BY <4>1, <4>2
    <3>2. \E d \in Checks : Svc(d) = Svc(c) /\ Msg(d) = Msg(c) /\ pc[d] \in {"accepted", "died"}
      BY <3>1, CheckTypes DEF StoredByCheck
    <3> QED
      BY <1>0, <2>1, <3>2 DEF Justified, SameJti
  <2>5. RefusalJustified'
    <3>1. \A d \in Checks : pc'[d] = "refused" /\ pc[d] # "refused" => Justified(d)'
      BY <1>0, <2>1, <2>4
    <3>2. \A d \in Checks : pc[d] \in {"accepted", "died"} => pc'[d] = pc[d]
      BY <1>0, <2>1
    <3> QED
      BY <1>1, <2>1, <3>1, <3>2
  <2> QED
    BY <2>2, <2>3, <2>5
<1>5. ASSUME NEW c \in Checks, NEW label \in {"accepted", "died"},
             pc[c] \in {"get", "set"}, Goto(c, label),
             UNCHANGED blacklist \/ Store(c),
             UNCHANGED <<env, token, signedAt, started>>
      PROVE  RefusalInv'
  <2>1. pc' = [pc EXCEPT ![c] = label]
    BY <1>5 DEF Goto
  <2>2. Precise' /\ PublishedFirst'
    BY <1>0, <1>5, <2>1 DEF Precise, PublishedFirst
  <2>3. StoredByCheck'
    <3> SUFFICES ASSUME NEW s \in Services, NEW t \in Tokens, blacklist'[s][t] # -1
                 PROVE  \E d \in Checks :
                           Svc(d) = s /\ Msg(d) = t /\ pc'[d] \in {"accepted", "died"}
      BY DEF StoredByCheck
    <3>1. \A d \in Checks : pc[d] \in {"accepted", "died"} => pc'[d] \in {"accepted", "died"}
      BY <1>0, <2>1
    <3>2. pc'[c] \in {"accepted", "died"}
      BY <1>0, <2>1
    <3>3. CASE s = Svc(c) /\ t = Msg(c)
      BY <3>2, <3>3
    <3>4. CASE ~(s = Svc(c) /\ t = Msg(c))
      <4>1. blacklist'[s][t] = blacklist[s][t]
        BY <1>5, <3>4, CheckTypes DEF Store, TypeOK
      <4> QED
        BY <3>1, <4>1 DEF StoredByCheck
    <3> QED
      BY <3>3, <3>4
  <2>4. RefusalJustified'
    <3>1. \A d \in Checks : pc'[d] = "refused" => pc[d] = "refused"
      BY <1>0, <2>1
    <3>2. \A d \in Checks : pc[d] \in {"accepted", "died"} => pc'[d] = pc[d]
      BY <1>0, <1>5, <2>1
    <3> QED
      BY <1>1, <1>5, <3>1, <3>2
  <2> QED
    BY <2>2, <2>3, <2>4
<1>6. ASSUME NEW c \in Checks, Accept(c) PROVE RefusalInv'
  BY <1>5, <1>6 DEF Accept
<1>7. ASSUME NEW c \in Checks, Die(c) PROVE RefusalInv'
  BY <1>5, <1>7 DEF Die
<1>8. ASSUME UNCHANGED <<env, token, signedAt, pc, started, blacklist>> PROVE RefusalInv'
  <2>1. Precise' /\ StoredByCheck' /\ PublishedFirst'
    BY <1>8 DEF Precise, StoredByCheck, PublishedFirst
  <2>2. RefusalJustified'
    BY <1>1, <1>8
  <2> QED
    BY <2>1, <2>2
<1>9. CASE UNCHANGED vars
  BY <1>8, <1>9 DEF vars
<1>10. CASE Next
  <2>1. CASE \E t \in Tokens, p \in Pods : Sign(t, p)
    BY <1>2, <2>1
  <2>2. CASE \E c \in Checks : (\E p \in Pods : Begin(c, p)) \/ Get(c) \/ Accept(c) \/ Die(c)
    BY <1>3, <1>4, <1>6, <1>7, <2>2
  <2>3. CASE Tick
    BY <1>8, <2>3 DEF Tick
  <2> QED
    BY <1>10, <2>1, <2>2, <2>3 DEF Next
<1> QED
  BY <1>9, <1>10

(* A service never refuses a message for what other services do with it,   *)
(* nor for its own clock or that of the signer while the token lives by    *)
(* both: whatever the keys, clocks, retries and crashes, it is refused for *)
(* want of a token, for a key the service does not have, for its age, or   *)
(* because a delivery of it to the same service has come to Redis before.  *)
THEOREM RefusalsExplained == Spec => []RefusalJustified
<1>1. Init => RefusalInv
  BY DEF Init, RefusalInv, Precise, StoredByCheck, PublishedFirst, RefusalJustified
<1>2. TypeOK /\ RefusalInv /\ [Next]_vars => RefusalInv'
  BY RefusalStep
<1>3. RefusalInv => RefusalJustified
  BY DEF RefusalInv
<1> QED
  BY <1>1, <1>2, <1>3, TypeCorrect, PTL DEF Spec
=============================================================================
