------------------------- MODULE DeviceRegistry_proofs -------------------------
(***************************************************************************)
(* Theorems about DeviceRegistry, for any number of events, tokens, users, *)
(* retries and faults: the type invariant, ActiveIsSubscribed and          *)
(* LastEventWins.                                                          *)
(***************************************************************************)
EXTENDS DeviceRegistry, TLAPS, WellFoundedInduction

(* A handler that has begun was started, and a retry is left to one that   *)
(* waits for it.                                                           *)
RunsCounted ==
    \A e \in Ids :
        /\ pc[e] = "queued" => runs[e] = 0
        /\ pc[e] = "threw" => runs[e] < MaxRuns
        /\ pc[e] \in {"first", "second", "threw", "dead"} => runs[e] > 0

TypeInv == TypeOK /\ RunsCounted

(* Between its two calls, or run again after it had been there, or given up *)
Unfinished(e) ==
    \/ pc[e] \in {"second", "threw", "dead"}
    \/ pc[e] = "first" /\ runs[e] > 1

(* ActiveIsSubscribed at every moment: an active row without a subscription *)
(* has an event that will still write one of the two, or gave up doing so.  *)
ActiveIsAttended ==
    \A t \in Tokens \ (refused \cup restOnly) :
        row[t].active => t \in subscribed \/ \E e \in Of(t) : Unfinished(e)

RegistryInv == TypeInv /\ ActiveIsAttended

-----------------------------------------------------------------------------
LEMMA TypeInit == RegistryAssumption /\ Init => TypeInv
BY DEF RegistryAssumption, Init, TypeInv, TypeOK, RunsCounted, Labels, Rows

LEMMA EventTypes ==
    ASSUME TypeOK, NEW e \in Ids
    PROVE  /\ events[e].token \in Tokens
           /\ Registers(e) => events[e].user \in Users
           /\ Registers(e) \in BOOLEAN
BY DEF TypeOK, Events, Registers

LEMMA RowTypes ==
    ASSUME TypeOK, NEW t \in Tokens, NEW u \in Users
    PROVE  Claimed(t, u) \in [Tokens -> Rows] /\ Deactivated(t) \in [Tokens -> Rows]
BY DEF TypeOK, Rows, Claimed, Deactivated

LEMMA TypeStep ==
    ASSUME RegistryAssumption, TypeInv, [Next]_vars
    PROVE  TypeInv'
<1> USE DEF TypeInv
<1>1. ASSUME NEW e \in Ids, Start(e)
      PROVE  TypeInv'
  BY <1>1, EventTypes DEF RegistryAssumption, Start, Go, TypeOK, RunsCounted, Labels, stores, bounds
<1>2. ASSUME NEW e \in Ids, RowCall(e)
      PROVE  TypeInv'
  <2>1. row' \in [Tokens -> Rows]
    BY <1>2, EventTypes DEF RowCall, TypeOK, Rows, Claimed, Deactivated
  <2>2. pc' \in [Ids -> Labels] /\ runs' = runs
    BY <1>2 DEF RowCall, Proceed, Go, TypeOK, Labels
  <2>3. RunsCounted'
    BY <1>2 DEF RowCall, Proceed, Go, At, TypeOK, RunsCounted, Labels
  <2> QED BY <1>2, <2>1, <2>2, <2>3 DEF RowCall, TypeOK, bounds, ghosts
<1>3. ASSUME NEW e \in Ids, TopicCall(e)
      PROVE  TypeInv'
  <2>1. subscribed' \in SUBSET Tokens /\ refused' \in SUBSET Tokens
    BY <1>3, EventTypes DEF TopicCall, TypeOK
  <2>2. pc' \in [Ids -> Labels] /\ runs' = runs
    BY <1>3 DEF TopicCall, Proceed, Go, TypeOK, Labels
  <2>3. RunsCounted'
    BY <1>3 DEF TopicCall, Proceed, Go, At, TypeOK, RunsCounted, Labels
  <2> QED BY <1>3, <2>1, <2>2, <2>3 DEF TopicCall, TypeOK, bounds
<1>4. ASSUME NEW e \in Ids, RowCallThrows(e)
      PROVE  TypeInv'
  BY <1>4 DEF RowCallThrows, RetriesLeft, Go, At, TypeOK, RunsCounted, Labels, stores, ghosts
<1>5. ASSUME NEW es \in SUBSET Ids, Crash(es)
      PROVE  TypeInv'
  BY <1>5 DEF Crash, Begun, TypeOK, RunsCounted, Labels, stores, ghosts
<1>6. ASSUME NEW t \in Tokens, NEW u \in Users, RestRegister(t, u)
      PROVE  TypeInv'
  BY <1>6, RowTypes DEF RestRegister, TypeOK, RunsCounted, work
<1>7. ASSUME NEW t \in Tokens, RestUnregister(t) \/ MarkStale(t)
      PROVE  TypeInv'
  <2>1. row' \in [Tokens -> Rows]
    <3>1. row' = [row EXCEPT ![t].active = FALSE]
      BY <1>7 DEF RestUnregister, MarkStale, Deactivated
    <3>2. row \in [Tokens -> Rows] /\ [row[t] EXCEPT !.active = FALSE] \in Rows
      BY DEF TypeOK, Rows
    <3> QED BY <3>1, <3>2
  <2> QED BY <1>7, <2>1 DEF RestUnregister, MarkStale, TypeOK, RunsCounted, work
<1>8. CASE UNCHANGED vars
  BY <1>8 DEF vars, work, stores, bounds, ghosts, TypeOK, RunsCounted
<1> QED
  BY <1>1, <1>2, <1>3, <1>4, <1>5, <1>6, <1>7, <1>8 DEF Next, Handle

(* The variables hold what their declarations say; no handler is run more  *)
(* often than its first run and its retries.                               *)
THEOREM TypeCorrect == Spec => []TypeOK
<1>1. RegistryAssumption BY RegistryAssumption
<1>2. Init => TypeInv
  BY <1>1, TypeInit
<1>3. TypeInv /\ [Next]_vars => TypeInv'
  BY <1>1, TypeStep
<1>4. TypeInv => TypeOK
  BY DEF TypeInv
<1> QED BY <1>2, <1>3, <1>4, PTL DEF Spec

-----------------------------------------------------------------------------
(* A step that keeps the row and the subscription of every token, and lets *)
(* no unfinished handler finish, keeps them attended.                      *)
LEMMA QuietSteps ==
    ASSUME ActiveIsAttended, UNCHANGED <<events, stores>>,
           refused \subseteq refused', restOnly \subseteq restOnly',
           \A e \in Ids : Unfinished(e) => Unfinished(e)'
    PROVE  ActiveIsAttended'
BY DEF ActiveIsAttended, Of, stores

(* Rows that become inactive need nothing. *)
LEMMA DeactivatingSteps ==
    ASSUME ActiveIsAttended, TypeOK, NEW t \in Tokens, row' = Deactivated(t),
           UNCHANGED <<events, subscribed>>,
           refused \subseteq refused', restOnly \subseteq restOnly',
           \A e \in Ids : Unfinished(e) => Unfinished(e)' \/ events[e].token = t
    PROVE  ActiveIsAttended'
<1> SUFFICES ASSUME NEW s \in Tokens \ (refused' \cup restOnly'), row'[s].active
             PROVE  s \in subscribed' \/ \E e \in Of(s)' : Unfinished(e)'
  BY DEF ActiveIsAttended
<1>1. s # t /\ row[s].active
  BY DEF Deactivated, TypeOK, Rows
<1>2. s \in subscribed \/ \E e \in Of(s) : Unfinished(e)
  BY <1>1 DEF ActiveIsAttended
<1> QED BY <1>1, <1>2 DEF Of

LEMMA AttendedStep ==
    ASSUME RegistryAssumption, RegistryInv, [Next]_vars
    PROVE  ActiveIsAttended'
<1> USE DEF RegistryInv, TypeInv
<1>1. ASSUME NEW e \in Ids, Start(e)
      PROVE  ActiveIsAttended'
  <2>1. \A d \in Ids : Unfinished(d) => Unfinished(d)'
    BY <1>1 DEF Start, Go, Unfinished, TypeOK, RunsCounted
  <2> QED BY <1>1, <2>1, QuietSteps DEF Start, bounds
<1>2. ASSUME NEW e \in Ids, RowCall(e)
      PROVE  ActiveIsAttended'
  <2>1. \A d \in Ids : Unfinished(d) => Unfinished(d)' \/ (d = e /\ pc[e] = "second")
    BY <1>2 DEF RowCall, Proceed, Go, At, Unfinished, TypeOK, RunsCounted
  <2>2. CASE ~ Registers(e)
    <3>1. row' = Deactivated(events[e].token) BY <1>2, <2>2 DEF RowCall
    <3> QED BY <1>2, <2>1, <3>1, EventTypes, DeactivatingSteps DEF RowCall, ghosts
  <2>3. CASE Registers(e)
    <3>1. pc[e] = "first" /\ pc' = [pc EXCEPT ![e] = "second"]
      BY <1>2, <2>3 DEF RowCall, At, Calls, Proceed, Go
    <3>2. Unfinished(e)' /\ \A d \in Ids : Unfinished(d) => Unfinished(d)'
      BY <2>1, <3>1 DEF Unfinished, TypeOK
    <3>3. row' = Claimed(events[e].token, events[e].user)
      BY <1>2, <2>3 DEF RowCall
    <3> SUFFICES ASSUME NEW t \in Tokens \ (refused' \cup restOnly'), row'[t].active
                 PROVE  t \in subscribed' \/ \E d \in Of(t)' : Unfinished(d)'
      BY DEF ActiveIsAttended
    <3>4. CASE t = events[e].token
      BY <1>2, <3>2, <3>4 DEF Of, RowCall
    <3>5. CASE t # events[e].token
      <4>1. row[t].active BY <3>3, <3>5 DEF Claimed, TypeOK
      <4>2. t \in subscribed \/ \E d \in Of(t) : Unfinished(d)
        BY <1>2, <4>1 DEF ActiveIsAttended, RowCall, ghosts
      <4> QED BY <1>2, <3>2, <4>2 DEF Of, RowCall
    <3> QED BY <3>4, <3>5
  <2> QED BY <2>2, <2>3
<1>3. ASSUME NEW e \in Ids, TopicCall(e)
      PROVE  ActiveIsAttended'
  <2> SUFFICES ASSUME NEW t \in Tokens \ (refused' \cup restOnly'), row'[t].active
               PROVE  t \in subscribed' \/ \E d \in Of(t)' : Unfinished(d)'
    BY DEF ActiveIsAttended
  <2>1. t \in Tokens \ (refused \cup restOnly) /\ row[t].active
    BY <1>3 DEF TopicCall
  <2>2. t \in subscribed \/ \E d \in Of(t) : Unfinished(d)
    BY <2>1 DEF ActiveIsAttended
  <2>3. CASE t # events[e].token
    <3>1. t \in subscribed => t \in subscribed'
      BY <1>3, <2>3 DEF TopicCall
    <3>2. \A d \in Of(t) : d # e /\ (Unfinished(d) => Unfinished(d)') /\ d \in Of(t)'
      BY <1>3, <2>3 DEF TopicCall, Proceed, Go, Of, Unfinished, TypeOK
    <3> QED BY <2>2, <3>1, <3>2
  <2>4. CASE t = events[e].token /\ Registers(e)
    BY <1>3, <2>4 DEF TopicCall
  <2>5. CASE t = events[e].token /\ ~ Registers(e)
    <3>1. pc[e] = "first" /\ pc' = [pc EXCEPT ![e] = "second"]
      BY <1>3, <2>5 DEF TopicCall, At, Calls, Proceed, Go
    <3>2. Unfinished(e)' /\ e \in Of(t)'
      BY <1>3, <2>5, <3>1 DEF Unfinished, TypeOK, TopicCall, Of
    <3> QED BY <3>2
  <2> QED BY <2>3, <2>4, <2>5
<1>4. ASSUME NEW e \in Ids, RowCallThrows(e)
      PROVE  ActiveIsAttended'
  <2>1. \A d \in Ids : Unfinished(d) => Unfinished(d)'
    BY <1>4 DEF RowCallThrows, Go, Unfinished, TypeOK
  <2> QED BY <1>4, <2>1, QuietSteps DEF RowCallThrows, ghosts
<1>5. ASSUME NEW es \in SUBSET Ids, Crash(es)
      PROVE  ActiveIsAttended'
  <2>1. \A d \in Ids : Unfinished(d) => Unfinished(d)'
    BY <1>5 DEF Crash, Unfinished, TypeOK
  <2> QED BY <1>5, <2>1, QuietSteps DEF Crash, ghosts
<1>6. ASSUME NEW t \in Tokens, NEW u \in Users, RestRegister(t, u)
      PROVE  ActiveIsAttended'
  <2> SUFFICES ASSUME NEW s \in Tokens \ (refused' \cup restOnly'), row'[s].active
               PROVE  s \in subscribed' \/ \E d \in Of(s)' : Unfinished(d)'
    BY DEF ActiveIsAttended
  <2>1. s # t /\ s \in Tokens \ (refused \cup restOnly) /\ row[s].active
    BY <1>6 DEF RestRegister, Claimed, TypeOK
  <2>2. s \in subscribed \/ \E d \in Of(s) : Unfinished(d)
    BY <2>1 DEF ActiveIsAttended
  <2> QED BY <1>6, <2>2 DEF RestRegister, work, Of, Unfinished
<1>7. ASSUME NEW t \in Tokens, RestUnregister(t) \/ MarkStale(t)
      PROVE  ActiveIsAttended'
  <2>1. /\ row' = Deactivated(t) /\ UNCHANGED <<work, subscribed, refused>>
        /\ restOnly \subseteq restOnly'
    BY <1>7 DEF RestUnregister, MarkStale
  <2>2. \A d \in Ids : Unfinished(d) => Unfinished(d)'
    BY <2>1 DEF Unfinished, work
  <2> QED BY <2>1, <2>2, DeactivatingSteps DEF work
<1>8. CASE UNCHANGED vars
  BY <1>8 DEF vars, work, stores, ghosts, ActiveIsAttended, Of, Unfinished
<1> QED
  BY <1>1, <1>2, <1>3, <1>4, <1>5, <1>6, <1>7, <1>8 DEF Next, Handle

(* Once the handlers of a token are done, an active row means a subscribed *)
(* device, whatever the overlaps, retries, refused calls of other tokens   *)
(* and crashes (handleNotificationMessage, device events).                 *)
THEOREM NoActiveDeviceUnsubscribed == Spec => []ActiveIsSubscribed
<1>1. RegistryAssumption BY RegistryAssumption
<1>2. Init => RegistryInv
  BY <1>1, TypeInit DEF Init, RegistryInv, ActiveIsAttended
<1>3. RegistryInv /\ [Next]_vars => RegistryInv'
  BY <1>1, TypeStep, AttendedStep DEF RegistryInv
<1>4. RegistryInv => ActiveIsSubscribed
  <2> SUFFICES ASSUME RegistryInv, NEW t \in Tokens \ (refused \cup restOnly),
                      Quiet(t), row[t].active
               PROVE  t \in subscribed
    BY DEF ActiveIsSubscribed
  <2>1. \A e \in Of(t) : ~ Unfinished(e)
    BY DEF Quiet, Unfinished
  <2> QED BY <2>1 DEF RegistryInv, ActiveIsAttended
<1> QED BY <1>2, <1>3, <1>4, PTL DEF Spec

-----------------------------------------------------------------------------
(* Every nonempty set of natural numbers has a least element, and a bounded *)
(* one a greatest.                                                          *)
LEMMA Least ==
    ASSUME NEW S \in SUBSET Nat, S # {}
    PROVE  \E m \in S : \A n \in S : m <= n
<1> DEFINE R == OpToRel(<, Nat)
<1>1. IsWellFoundedOn(R, Nat)
  BY NatLessThanWellFounded
<1>2. \A m, n \in Nat : n < m => <<n, m>> \in R
  BY DEF OpToRel
<1> HIDE DEF R
<1>3. PICK m \in S : \A n \in S : ~ (<<n, m>> \in R)
  BY <1>1, WFMin
<1>4. \A n \in S : ~(n < m)
  BY <1>2, <1>3
<1> QED BY <1>3, <1>4

LEMMA Greatest ==
    ASSUME NEW N \in Nat, NEW S \in SUBSET (1 .. N), S # {}
    PROVE  \E m \in S : \A n \in S : n <= m
<1> DEFINE T == {N - n : n \in S}
<1>1. T \in SUBSET Nat /\ T # {}
  <2>1. \A n \in S : N - n \in Nat
    OBVIOUS
  <2>2. \E n \in S : N - n \in T
    OBVIOUS
  <2> QED BY <2>1, <2>2
<1> HIDE DEF T
<1>2. PICK k \in T : \A l \in T : k <= l
  BY <1>1, Least
<1>3. PICK m \in S : k = N - m
  BY DEF T
<1>4. ASSUME NEW n \in S PROVE n <= m
  <2>1. N - n \in T
    BY DEF T
  <2> QED BY <1>2, <1>3, <2>1
<1> QED BY <1>4

-----------------------------------------------------------------------------
(* Nothing has disturbed the events of t, and none was given up. *)
Orderly(t) ==
    /\ t \notin refused \cup restOnly \cup staled \cup disordered
    /\ \A e \in Of(t) : pc[e] \notin {"threw", "dead"}

(* Row and topic are what event e of t said ... *)
Said(t, e) ==
    /\ row[t].active <=> Registers(e)
    /\ t \in subscribed <=> Registers(e)
    /\ Registers(e) => row[t].user = events[e].user

(* ... and what its first call made of them *)
HalfSaid(t, e) ==
    /\ Registers(e) => row[t].active /\ row[t].user = events[e].user
    /\ ~Registers(e) => t \notin subscribed

(* The events of t have begun in their order, one at a time; the one that  *)
(* is being handled has done its first call, the last of them both.        *)
InTurn(t) ==
    /\ \A d, e \in Of(t) : d < e /\ pc[d] = "queued" => pc[e] = "queued"
    /\ \A d, e \in Of(t) : Begun(e) /\ d # e => ~Begun(d) /\ (pc[d] = "done" => d < e)
    /\ \A e \in Of(t) : pc[e] = "second" => HalfSaid(t, e)
    /\ \A e \in Of(t) :
            /\ pc[e] = "done"
            /\ \A d \in Of(t) : pc[d] = "queued" \/ (pc[d] = "done" /\ d <= e)
            => Said(t, e)

TurnInv == \A t \in Tokens : Orderly(t) => InTurn(t)

(* A step that leaves row, topic and handlers of t alone *)
LEMMA TurnKept ==
    ASSUME NEW t \in Tokens, TypeOK, Orderly(t) => InTurn(t), Orderly(t)', UNCHANGED events,
           refused \subseteq refused', restOnly \subseteq restOnly',
           staled \subseteq staled', disordered \subseteq disordered',
           row'[t] = row[t], t \in subscribed' <=> t \in subscribed,
           \A e \in Of(t) : pc'[e] = pc[e]
    PROVE  InTurn(t)'
<1>1. Of(t)' = Of(t) /\ \A e \in Ids : Registers(e)' = Registers(e)
  BY DEF Of, Registers
<1>2. \A e \in Of(t) : e \in Ids /\ (Begun(e)' <=> Begun(e))
  BY DEF Of, Begun
<1>3. Orderly(t)
  BY <1>1 DEF Orderly
<1>4. \A e \in Of(t) : (Said(t, e)' <=> Said(t, e)) /\ (HalfSaid(t, e)' <=> HalfSaid(t, e))
  BY <1>1, <1>2 DEF Said, HalfSaid
<1> QED BY <1>1, <1>2, <1>3, <1>4 DEF InTurn

LEMMA StartInTurn ==
    ASSUME TypeOK, TurnInv, NEW e \in Ids, Start(e), NEW t \in Tokens, t = events[e].token,
           Orderly(t)'
    PROVE  InTurn(t)'
<1>1. /\ pc' = [pc EXCEPT ![e] = "first"] /\ UNCHANGED <<events, row, subscribed>>
      /\ pc[e] = "queued" /\ e \in Of(t)
      /\ \A d \in Of(t) : d < e => pc[d] # "queued"
      /\ \A d \in Of(t) \ {e} : ~Begun(d)
  BY DEF Start, Go, Orderly, Of, stores, bounds
<1>2. Of(t)' = Of(t) /\ Of(t) \subseteq Ids /\ \A d \in Of(t) : d \in Int
  BY <1>1 DEF Of, Ids
<1>3. \A d \in Of(t) : pc'[d] = IF d = e THEN "first" ELSE pc[d]
  BY <1>1, <1>2 DEF TypeOK
<1>4. Orderly(t)
  BY <1>1, <1>2, <1>3 DEF Orderly, Start
<1>5. InTurn(t)
  BY <1>4 DEF TurnInv
<1>6. \A d \in Of(t) : Begun(d)' <=> d = e
  BY <1>1, <1>3 DEF Begun
<1>7. \A d \in Of(t) : pc'[d] # "second"
  BY <1>1, <1>3 DEF Begun
<1>8. \A c, d \in Of(t) : c < d /\ pc'[c] = "queued" => pc'[d] = "queued"
  <2> SUFFICES ASSUME NEW c \in Of(t), NEW d \in Of(t), c < d, pc'[c] = "queued"
               PROVE  pc'[d] = "queued"
    OBVIOUS
  <2>1. c # e /\ pc[c] = "queued"
    BY <1>3
  <2>2. d # e
    BY <1>1, <2>1
  <2> QED BY <1>3, <1>5, <2>1, <2>2 DEF InTurn
<1>9. \A d \in Of(t) : d # e /\ pc'[d] = "done" => d < e
  <2> SUFFICES ASSUME NEW d \in Of(t), d # e, pc'[d] = "done", e < d PROVE FALSE
    BY <1>1, <1>2
  <2>1. pc[d] = "queued"
    BY <1>1, <1>5 DEF InTurn
  <2> QED BY <1>3, <2>1
<1> QED BY <1>1, <1>2, <1>3, <1>6, <1>7, <1>8, <1>9 DEF InTurn

(* The first call of the one handler that has begun *)
LEMMA FirstCallInTurn ==
    ASSUME TypeOK, TurnInv, NEW e \in Ids, NEW t \in Tokens, t = events[e].token,
           Orderly(t)', UNCHANGED events,
           refused \subseteq refused', UNCHANGED <<restOnly, staled, disordered>>,
           pc[e] = "first", pc' = [pc EXCEPT ![e] = "second"], HalfSaid(t, e)'
    PROVE  InTurn(t)'
<1>1. /\ Of(t)' = Of(t) /\ Of(t) \subseteq Ids /\ e \in Of(t)
      /\ \A d \in Of(t) : pc'[d] = IF d = e THEN "second" ELSE pc[d]
  BY DEF Of, TypeOK
<1>2. Orderly(t)
  BY <1>1 DEF Orderly
<1>3. InTurn(t)
  BY <1>2 DEF TurnInv
<1>4. \A d \in Of(t) : Begun(d)' <=> Begun(d)
  BY <1>1 DEF Begun
<1>5. Begun(e)
  BY DEF Begun
<1>6. \A d \in Of(t) : d # e => pc'[d] # "second"
  BY <1>1, <1>3, <1>5 DEF InTurn, Begun
<1> QED BY <1>1, <1>3, <1>4, <1>6 DEF InTurn

(* Its second call *)
LEMMA SecondCallInTurn ==
    ASSUME TypeOK, TurnInv, NEW e \in Ids, NEW t \in Tokens, t = events[e].token,
           Orderly(t)', UNCHANGED events,
           refused \subseteq refused', UNCHANGED <<restOnly, staled, disordered>>,
           pc[e] = "second", pc' = [pc EXCEPT ![e] = "done"], HalfSaid(t, e) => Said(t, e)'
    PROVE  InTurn(t)'
<1>1. /\ Of(t)' = Of(t) /\ Of(t) \subseteq Ids /\ e \in Of(t)
      /\ \A d \in Of(t) : pc'[d] = IF d = e THEN "done" ELSE pc[d]
      /\ \A d \in Of(t) : d \in Int
  BY DEF Of, Ids, TypeOK
<1>2. Orderly(t)
  BY <1>1 DEF Orderly
<1>3. InTurn(t) /\ Begun(e)
  BY <1>2 DEF TurnInv, Begun
<1>4. \A d \in Of(t) : ~Begun(d)'
  BY <1>1, <1>3 DEF InTurn, Begun
<1>5. \A d \in Of(t) : pc'[d] # "second"
  BY <1>4 DEF Begun
<1>6. Said(t, e)'
  BY <1>1, <1>3 DEF InTurn
<1>7. ASSUME NEW d \in Of(t), pc'[d] = "done",
             \A c \in Of(t) : pc'[c] = "queued" \/ (pc'[c] = "done" /\ c <= d)
      PROVE  d = e
  <2>1. e <= d
    BY <1>1, <1>7
  <2>2. d # e => d < e
    BY <1>1, <1>3, <1>7 DEF InTurn
  <2> QED BY <1>1, <2>1, <2>2
<1>8. \A c, d \in Of(t) : c < d /\ pc'[c] = "queued" => pc'[d] = "queued"
  BY <1>1, <1>3 DEF InTurn, Begun
<1> QED BY <1>1, <1>4, <1>5, <1>6, <1>7, <1>8 DEF InTurn

LEMMA TurnStep ==
    ASSUME RegistryAssumption, TypeOK, TurnInv, [Next]_vars
    PROVE  TurnInv'
<1> SUFFICES ASSUME NEW t \in Tokens, Orderly(t)' PROVE InTurn(t)'
  BY DEF TurnInv
<1>1. Orderly(t) => InTurn(t)
  BY DEF TurnInv
<1>2. ASSUME NEW e \in Ids, Start(e)
      PROVE  InTurn(t)'
  <2>1. CASE t = events[e].token
    BY <1>2, <2>1, StartInTurn
  <2>2. CASE t # events[e].token
    <3>1. UNCHANGED <<events, row, subscribed, refused, restOnly, staled>>
            /\ disordered \subseteq disordered' /\ \A d \in Of(t) : pc'[d] = pc[d]
      BY <1>2, <2>2 DEF Start, Go, stores, bounds, Of, TypeOK
    <3> QED BY <1>1, <3>1, TurnKept
  <2> QED BY <2>1, <2>2
<1>3. ASSUME NEW e \in Ids, RowCall(e) \/ TopicCall(e), t # events[e].token
      PROVE  InTurn(t)'
  <2>1. /\ UNCHANGED <<events, restOnly, staled, disordered>> /\ refused \subseteq refused'
        /\ row'[t] = row[t] /\ (t \in subscribed' <=> t \in subscribed)
        /\ \A d \in Of(t) : pc'[d] = pc[d]
    BY <1>3 DEF RowCall, TopicCall, Claimed, Deactivated, Proceed, Go, Of, TypeOK, ghosts
  <2> QED BY <1>1, <2>1, TurnKept
<1>4. ASSUME NEW e \in Ids, RowCall(e), t = events[e].token
      PROVE  InTurn(t)'
  <2>1. UNCHANGED <<events, subscribed, refused, restOnly, staled, disordered>>
    BY <1>4 DEF RowCall, ghosts
  <2>2. Registers(e)' <=> Registers(e)
    BY <2>1 DEF Registers
  <2>3. CASE Registers(e)
    <3>1. pc[e] = "first" /\ pc' = [pc EXCEPT ![e] = "second"]
      BY <1>4, <2>3 DEF RowCall, At, Calls, Proceed, Go
    <3>2. row'[t] = [user |-> events[e].user, active |-> TRUE]
      BY <1>4, <2>3 DEF RowCall, Claimed, TypeOK
    <3>3. HalfSaid(t, e)'
      BY <2>1, <2>2, <2>3, <3>2 DEF HalfSaid
    <3> QED BY <1>4, <2>1, <3>1, <3>3, FirstCallInTurn
  <2>4. CASE ~Registers(e)
    <3>1. pc[e] = "second" /\ pc' = [pc EXCEPT ![e] = "done"]
      BY <1>4, <2>4 DEF RowCall, At, Calls, Proceed, Go
    <3>2. ~row'[t].active
      BY <1>4, <2>4 DEF RowCall, Deactivated, TypeOK, Rows
    <3>3. HalfSaid(t, e) => Said(t, e)'
      BY <2>1, <2>2, <2>4, <3>2 DEF HalfSaid, Said
    <3> QED BY <1>4, <2>1, <3>1, <3>3, SecondCallInTurn
  <2> QED BY <2>3, <2>4
<1>5. ASSUME NEW e \in Ids, TopicCall(e), t = events[e].token
      PROVE  InTurn(t)'
  <2>1. UNCHANGED <<events, row, restOnly, staled, disordered>> /\ refused \subseteq refused'
    BY <1>5 DEF TopicCall
  <2>2. /\ Registers(e) => t \in subscribed'
        /\ ~Registers(e) => t \notin subscribed'
    <3>1. t \notin refused'
      BY DEF Orderly
    <3> QED BY <1>5, <3>1 DEF TopicCall
  <2>3. Registers(e)' <=> Registers(e)
    BY <2>1 DEF Registers
  <2>4. CASE ~Registers(e)
    <3>1. pc[e] = "first" /\ pc' = [pc EXCEPT ![e] = "second"]
      BY <1>5, <2>4 DEF TopicCall, At, Calls, Proceed, Go
    <3>2. HalfSaid(t, e)'
      BY <2>2, <2>3, <2>4 DEF HalfSaid
    <3> QED BY <1>5, <2>1, <3>1, <3>2, FirstCallInTurn
  <2>5. CASE Registers(e)
    <3>1. pc[e] = "second" /\ pc' = [pc EXCEPT ![e] = "done"]
      BY <1>5, <2>5 DEF TopicCall, At, Calls, Proceed, Go
    <3>2. HalfSaid(t, e) => Said(t, e)'
      BY <2>1, <2>2, <2>3, <2>5 DEF HalfSaid, Said
    <3> QED BY <1>5, <2>1, <3>1, <3>2, SecondCallInTurn
  <2> QED BY <2>4, <2>5
<1>6. ASSUME NEW es \in SUBSET Ids, \A e \in es : pc'[e] \in {"threw", "dead"},
             \A e \in Ids \ es : pc'[e] = pc[e], UNCHANGED <<events, stores, ghosts>>
      PROVE  InTurn(t)'
  <2>1. Of(t)' = Of(t) /\ Of(t) \subseteq Ids
    BY <1>6 DEF Of
  <2>2. \A e \in Of(t) : e \notin es
    BY <1>6, <2>1 DEF Orderly
  <2> QED BY <1>1, <1>6, <2>1, <2>2, TurnKept DEF stores, ghosts
<1>7. ASSUME NEW e \in Ids, RowCallThrows(e)
      PROVE  InTurn(t)'
  <2>1. /\ pc'[e] \in {"threw", "dead"} /\ \A d \in Ids \ {e} : pc'[d] = pc[d]
        /\ UNCHANGED <<events, stores, ghosts>>
    BY <1>7 DEF RowCallThrows, Go, TypeOK
  <2>2. {e} \in SUBSET Ids /\ \A d \in {e} : pc'[d] \in {"threw", "dead"}
    BY <2>1
  <2> QED BY <1>6, <2>1, <2>2
<1>8. ASSUME NEW es \in SUBSET Ids, Crash(es)
      PROVE  InTurn(t)'
  BY <1>6, <1>8 DEF Crash
<1>9. ASSUME NEW s \in Tokens, (\E u \in Users : RestRegister(s, u)) \/ RestUnregister(s) \/ MarkStale(s)
      PROVE  InTurn(t)'
  <2>1. s # t
    BY <1>9 DEF RestRegister, RestUnregister, MarkStale, Orderly
  <2>2. /\ UNCHANGED <<events, pc, subscribed, refused, disordered>>
        /\ restOnly \subseteq restOnly' /\ staled \subseteq staled'
        /\ row'[t] = row[t]
    BY <1>9, <2>1 DEF RestRegister, RestUnregister, MarkStale, Claimed, Deactivated, TypeOK, work
  <2> QED BY <1>1, <2>2, TurnKept
<1>10. CASE UNCHANGED vars
  BY <1>1, <1>10, TurnKept DEF vars, work, stores, ghosts
<1> QED
  BY <1>2, <1>3, <1>4, <1>5, <1>7, <1>8, <1>9, <1>10 DEF Next, Handle

(* When the handlers of a token have run one after the other, and nothing  *)
(* else has touched it, row and topic are what its last event said.        *)
THEOREM TheLastEventWins == Spec => []LastEventWins
<1>1. Init => TurnInv
  BY DEF Init, TurnInv, InTurn, Begun, Of
<1>2. TypeInv /\ TurnInv /\ [Next]_vars => (TypeInv /\ TurnInv)'
  BY RegistryAssumption, TypeStep, TurnStep DEF TypeInv
<1>3. ASSUME TypeInv, TurnInv PROVE LastEventWins
  <2> SUFFICES ASSUME NEW t \in Tokens \ (refused \cup restOnly \cup staled \cup disordered),
                      Quiet(t), NEW e \in Of(t), pc[e] = "done"
               PROVE  /\ row[t].active = Registers(Last(t))
                      /\ (t \in subscribed) = Registers(Last(t))
                      /\ Registers(Last(t)) => row[t].user = events[Last(t)].user
    BY DEF LastEventWins
  <2>1. InTurn(t)
    BY <1>3 DEF TurnInv, Orderly, Quiet
  <2> DEFINE S == {d \in Of(t) : pc[d] = "done"}
  <2>2. S \in SUBSET (1 .. MaxEvents) /\ S # {} /\ MaxEvents \in Nat
    BY RegistryAssumption DEF Of, Ids
  <2>3. \E m \in S : \A d \in S : d <= m
    BY <2>2, Greatest
  <2>4. \E m \in Of(t) : pc[m] = "done" /\ \A d \in Of(t) : pc[d] = "done" => d <= m
    BY <2>3
  <2>5. /\ Last(t) \in Of(t) /\ pc[Last(t)] = "done"
        /\ \A d \in Of(t) : pc[d] = "done" => d <= Last(t)
    BY <2>4 DEF Last
  <2>6. Said(t, Last(t))
    BY <2>1, <2>5 DEF InTurn, Quiet
  <2>7. row[t].active \in BOOLEAN
    BY <1>3 DEF TypeInv, TypeOK, Rows
  <2> QED BY <2>6, <2>7 DEF Said, Registers
<1> QED BY <1>1, <1>2, <1>3, TypeInit, RegistryAssumption, PTL DEF Spec
=============================================================================
