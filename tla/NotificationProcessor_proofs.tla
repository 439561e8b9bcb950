---------------------- MODULE NotificationProcessor_proofs ----------------------
(***************************************************************************)
(* Theorems about the pipeline of a notification.                          *)
(*                                                                         *)
(* NotificationProcessor, for every set of jobs, keys and tokens and any   *)
(* number of faults and expired keys:                                      *)
(*   - the type invariant;                                                 *)
(*   - MarkedWasDelivered: a dedup key stands for a delivered push;        *)
(*   - PushBudget: the bound on the pushes of a key;                       *)
(*   - DeliveredNotOverwritten: the row of a delivered key stays so;       *)
(*   - PushRecorded: a push leaves its dedup key and its row behind.       *)
(*                                                                         *)
(* RateLimit, which admits its jobs, for any number of requests and types  *)
(* and any limits, windows and lag:                                        *)
(*   - the type invariant;                                                 *)
(*   - WindowBound: no span admits more than the limit;                    *)
(*   - RefusalJustified: a refused request found a window full.            *)
(***************************************************************************)
EXTENDS NotificationProcessor, RateLimit, FiniteSetTheorems, TLAPS

(* A run that comes to the log has been to FCM, one that comes to the *)
(* statistics has an outcome, and only a job that obeys dedup and was *)
(* sent marks its key.                                                *)
OutcomeKnown ==
    \A j \in Jobs :
        /\ pc[j] \in {"stale", "log"} => outcome[j] \in {"SENT", "FAILED"}
        /\ pc[j] = "count" => outcome[j] # "none"
        /\ pc[j] = "mark" => Deduped(j) /\ outcome[j] = "SENT"
        /\ pc[j] # "idle" => runs[j] > 0

TypeInv == TypeOK /\ OutcomeKnown

-----------------------------------------------------------------------------
LEMMA DedupedHasKey ==
    ASSUME NEW j \in Jobs
    PROVE  /\ KeyOf[j] \in Keys \cup {NoKey}
           /\ Deduped(j) => KeyOf[j] \in Keys
           /\ KeyOf[j] # NoKey <=> KeyOf[j] \in Keys
BY ProcessorAssumption DEF Deduped

(* All that matters of FCM's answer is whether a token was delivered to. *)
LEMMA SendShape ==
    ASSUME TypeOK, NEW j \in Jobs, Send(j)
    PROVE  /\ pc[j] = "send"
           /\ \E sent \in BOOLEAN :
                /\ outcome' = [outcome EXCEPT ![j] = IF sent THEN "SENT" ELSE "FAILED"]
                /\ pc' = [pc EXCEPT ![j] = IF sent /\ Deduped(j) THEN "mark" ELSE "stale"]
                /\ pushes' = IF sent /\ Deduped(j)
                             THEN [pushes EXCEPT ![KeyOf[j]] = @ + 1] ELSE pushes
           /\ stale' \in [Jobs -> SUBSET Tokens]
           /\ UNCHANGED <<runs, tokens, stores, raced, faults, expiries, receipts>>
<1>1. PICK delivered \in SUBSET tokens[j] : \E reported \in SUBSET (tokens[j] \ delivered) :
        /\ pc[j] = "send"
        /\ outcome' = [outcome EXCEPT ![j] = IF delivered # {} THEN "SENT" ELSE "FAILED"]
        /\ stale' = [stale EXCEPT ![j] = reported]
        /\ pc' = [pc EXCEPT ![j] = IF delivered # {} /\ Deduped(j) THEN "mark" ELSE "stale"]
        /\ pushes' = IF delivered # {} /\ Deduped(j)
                     THEN [pushes EXCEPT ![KeyOf[j]] = @ + 1] ELSE pushes
        /\ UNCHANGED <<runs, tokens, stores, raced, faults, expiries, receipts>>
  BY DEF Send, Go
<1>2. stale' \in [Jobs -> SUBSET Tokens]
  BY <1>1 DEF TypeOK
<1> DEFINE sent == delivered # {}
<1>3. sent \in BOOLEAN
  OBVIOUS
<1> QED
  BY <1>1, <1>2, <1>3

(* What a step of one job does to the types *)
LEMMA JobTypes ==
    ASSUME TypeInv, NEW j \in Jobs, Start(j) \/ Throw(j) \/ Step(j)
    PROVE  TypeInv'
<1> USE ProcessorAssumption DEF TypeInv, TypeOK, OutcomeKnown, Go, Deduped,
        jobState, stores, history, Awaits, Outcomes
<1>1. ASSUME Start(j) PROVE TypeInv'
  BY <1>1 DEF Start
<1>2. ASSUME Throw(j) PROVE TypeInv'
  BY <1>2 DEF Throw
<1>3. ASSUME DedupHit(j) PROVE TypeInv'
  BY <1>3 DEF DedupHit, Suppress
<1>4. ASSUME DedupMiss(j) PROVE TypeInv'
  <2>1. raced' \subseteq Keys
    BY <1>4, DedupedHasKey DEF DedupMiss
  <2> QED
    BY <1>4, <2>1 DEF DedupMiss
<1>5. ASSUME Limited(j) PROVE TypeInv'
  BY <1>5 DEF Limited, Suppress
<1>6. ASSUME Admitted(j) PROVE TypeInv'
  BY <1>6 DEF Admitted
<1>7. ASSUME Resolve(j) PROVE TypeInv'
  BY <1>7 DEF Resolve, Suppress
<1>8. ASSUME Send(j) PROVE TypeInv'
  <2>1. PICK sent \in BOOLEAN :
          /\ outcome' = [outcome EXCEPT ![j] = IF sent THEN "SENT" ELSE "FAILED"]
          /\ pc' = [pc EXCEPT ![j] = IF sent /\ Deduped(j) THEN "mark" ELSE "stale"]
          /\ pushes' = IF sent /\ Deduped(j)
                       THEN [pushes EXCEPT ![KeyOf[j]] = @ + 1] ELSE pushes
    BY <1>8, SendShape
  <2>2. pushes' \in [Keys -> Nat]
    BY <2>1, DedupedHasKey
  <2>3. /\ pc[j] = "send" /\ stale' \in [Jobs -> SUBSET Tokens]
        /\ UNCHANGED <<runs, tokens, stores, raced, faults, expiries, receipts>>
    BY <1>8, SendShape
  <2> QED
    BY <2>1, <2>2, <2>3
<1>9. ASSUME Mark(j) PROVE TypeInv'
  BY <1>9, DedupedHasKey DEF Mark
<1>10. ASSUME MarkStale(j) PROVE TypeInv'
  BY <1>10 DEF MarkStale
<1>11. ASSUME Log(j) PROVE TypeInv'
  <2>1. outcome[j] \in {"SENT", "FAILED"}
    BY <1>11 DEF Log
  <2>2. row' \in [Keys -> Rows]
    BY <1>11, <2>1, DedupedHasKey DEF Log, Upserted, Rows
  <2> QED
    BY <1>11, <2>1, <2>2 DEF Log
<1>12. ASSUME LogFails(j) PROVE TypeInv'
  BY <1>12 DEF LogFails
<1>13. ASSUME Count(j) PROVE TypeInv'
  BY <1>13 DEF Count
<1>14. ASSUME CountFails(j) PROVE TypeInv'
  BY <1>14 DEF CountFails
<1> QED
  BY <1>1, <1>2, <1>3, <1>4, <1>5, <1>6, <1>7, <1>8, <1>9, <1>10, <1>11, <1>12, <1>13, <1>14
  DEF Step

LEMMA TypeStep ==
    ASSUME TypeInv, [Next]_vars
    PROVE  TypeInv'
<1> USE DEF TypeInv
<1>1. ASSUME NEW k \in Keys, KeyExpires(k) PROVE TypeInv'
  BY <1>1, ProcessorAssumption DEF KeyExpires, TypeOK, OutcomeKnown, jobState
<1>2. ASSUME NEW k \in Keys, NEW s \in Receipts, UpdateStatus(k, s) PROVE TypeInv'
  <2>1. [row[k] EXCEPT !.status = s] \in Rows
    BY DEF TypeOK, Rows
  <2>2. row' \in [Keys -> Rows]
    BY <1>2, <2>1 DEF UpdateStatus, TypeOK
  <2> QED
    BY <1>2, <2>2, ProcessorAssumption DEF UpdateStatus, TypeOK, OutcomeKnown, jobState
<1>3. CASE UNCHANGED vars
  BY <1>3 DEF vars, jobState, stores, history, TypeOK, OutcomeKnown
<1> QED
  BY <1>1, <1>2, <1>3, JobTypes DEF Next

LEMMA TypeInit ==
    ASSUME Init
    PROVE  TypeInv
BY ProcessorAssumption DEF Init, TypeInv, TypeOK, OutcomeKnown, Rows, None, Outcomes

(* Every variable keeps its type: in particular a row is only written with  *)
(* SENT or FAILED, the outcome of a run that was sent to FCM.               *)
THEOREM TypeCorrect == Spec => []TypeOK
<1>1. TypeInv /\ [Next]_vars => TypeInv'
  BY TypeStep
<1>2. TypeInv => TypeOK
  BY DEF TypeInv
<1> QED
  BY <1>1, <1>2, TypeInit, PTL DEF Spec

-----------------------------------------------------------------------------
(* A run that is about to mark its key has just delivered a push. *)
DeliveredMark == \A j \in Jobs : pc[j] = "mark" => pushes[KeyOf[j]] > 0

MarkInv == TypeInv /\ DeliveredMark /\ MarkedWasDelivered

LEMMA MarkStep ==
    ASSUME MarkInv, [Next]_vars
    PROVE  MarkInv'
<1> USE ProcessorAssumption DEF Go, stores, history
<1>0. TypeInv' /\ TypeInv
  BY TypeStep DEF MarkInv
<1> SUFFICES (DeliveredMark /\ MarkedWasDelivered)'
  BY <1>0 DEF MarkInv
<1> USE <1>0 DEF MarkInv, TypeInv, TypeOK, OutcomeKnown, DeliveredMark, MarkedWasDelivered
<1>1. ASSUME NEW j \in Jobs, Start(j) PROVE (DeliveredMark /\ MarkedWasDelivered)'
  BY <1>1 DEF Start
<1>2. ASSUME NEW j \in Jobs, Throw(j) PROVE (DeliveredMark /\ MarkedWasDelivered)'
  BY <1>2 DEF Throw
<1>3. ASSUME NEW j \in Jobs, DedupHit(j) PROVE (DeliveredMark /\ MarkedWasDelivered)'
  BY <1>3 DEF DedupHit, Suppress
<1>4. ASSUME NEW j \in Jobs, DedupMiss(j) PROVE (DeliveredMark /\ MarkedWasDelivered)'
  BY <1>4 DEF DedupMiss
<1>5. ASSUME NEW j \in Jobs, Limited(j) PROVE (DeliveredMark /\ MarkedWasDelivered)'
  BY <1>5 DEF Limited, Suppress
<1>6. ASSUME NEW j \in Jobs, Admitted(j) PROVE (DeliveredMark /\ MarkedWasDelivered)'
  BY <1>6 DEF Admitted
<1>7. ASSUME NEW j \in Jobs, Resolve(j) PROVE (DeliveredMark /\ MarkedWasDelivered)'
  BY <1>7 DEF Resolve, Suppress
<1>8. ASSUME NEW j \in Jobs, Send(j) PROVE (DeliveredMark /\ MarkedWasDelivered)'
  <2>1. PICK sent \in BOOLEAN :
          /\ pc' = [pc EXCEPT ![j] = IF sent /\ Deduped(j) THEN "mark" ELSE "stale"]
          /\ pushes' = IF sent /\ Deduped(j)
                       THEN [pushes EXCEPT ![KeyOf[j]] = @ + 1] ELSE pushes
    BY <1>8, SendShape
  <2>2. /\ pc[j] = "send"
        /\ UNCHANGED <<runs, tokens, stores, raced, faults, expiries, receipts>>
    BY <1>8, SendShape
  <2> QED
    BY <2>1, <2>2, DedupedHasKey
<1>9. ASSUME NEW j \in Jobs, Mark(j) PROVE (DeliveredMark /\ MarkedWasDelivered)'
  BY <1>9, DedupedHasKey DEF Mark
<1>10. ASSUME NEW j \in Jobs, MarkStale(j) PROVE (DeliveredMark /\ MarkedWasDelivered)'
  BY <1>10 DEF MarkStale
<1>11. ASSUME NEW j \in Jobs, Log(j) PROVE (DeliveredMark /\ MarkedWasDelivered)'
  BY <1>11 DEF Log
<1>12. ASSUME NEW j \in Jobs, LogFails(j) PROVE (DeliveredMark /\ MarkedWasDelivered)'
  BY <1>12 DEF LogFails
<1>13. ASSUME NEW j \in Jobs, Count(j) PROVE (DeliveredMark /\ MarkedWasDelivered)'
  BY <1>13 DEF Count
<1>14. ASSUME NEW j \in Jobs, CountFails(j) PROVE (DeliveredMark /\ MarkedWasDelivered)'
  BY <1>14 DEF CountFails
<1>15. ASSUME NEW k \in Keys, KeyExpires(k) PROVE (DeliveredMark /\ MarkedWasDelivered)'
  BY <1>15 DEF KeyExpires, jobState
<1>16. ASSUME NEW k \in Keys, NEW s \in Receipts, UpdateStatus(k, s) PROVE (DeliveredMark /\ MarkedWasDelivered)'
  BY <1>16 DEF UpdateStatus, jobState
<1>17. CASE UNCHANGED vars
  BY <1>17 DEF vars, jobState, stores, history
<1> QED
  BY <1>1, <1>2, <1>3, <1>4, <1>5, <1>6, <1>7, <1>8, <1>9, <1>10, <1>11, <1>12, <1>13,
     <1>14, <1>15, <1>16, <1>17 DEF Next, Step

(* A dedup key is only ever set after a push of it was delivered. *)
THEOREM MarkedKeysWereDelivered == Spec => []MarkedWasDelivered
<1>1. Init => MarkInv
  BY TypeInit DEF Init, MarkInv, DeliveredMark, MarkedWasDelivered
<1>2. MarkInv /\ [Next]_vars => MarkInv'
  BY MarkStep
<1>3. MarkInv => MarkedWasDelivered
  BY DEF MarkInv
<1> QED
  BY <1>1, <1>2, <1>3, PTL DEF Spec

-----------------------------------------------------------------------------
(* Two jobs of a key in the window between the dedup check and the log *)
(* have raced.                                                         *)
Alone ==
    \A i, j \in Jobs :
        i # j /\ KeyOf[i] = KeyOf[j] /\ InWindow(i) /\ InWindow(j) =>
            KeyOf[j] \in raced \cup {NoKey}

(* What a job found unmarked is unmarked until the job marks it itself. *)
Unmarked ==
    \A j \in Jobs :
        Deduped(j) /\ pc[j] \in {"limit", "resolve", "send"} =>
            KeyOf[j] \notin marked \/ KeyOf[j] \in raced

(* The one push that a key is always allowed: marked, or about to be *)
Spent(k) == k \in marked \/ \E j \in Jobs : KeyOf[j] = k /\ pc[j] = "mark"

Unspent == \A k \in Keys \ raced : ~Spent(k) => pushes[k] <= faults + expiries

BudgetInv == TypeInv /\ Alone /\ Unmarked /\ Unspent /\ PushBudget

LEMMA WindowStep ==
    ASSUME TypeInv, Alone, Unmarked, [Next]_vars
    PROVE  (Alone /\ Unmarked)'
<1> USE ProcessorAssumption
    DEF Go, stores, history, TypeInv, TypeOK, OutcomeKnown, Alone, Unmarked, InWindow, Deduped
<1>1. ASSUME NEW j \in Jobs, Start(j) PROVE (Alone /\ Unmarked)'
  BY <1>1 DEF Start
<1>2. ASSUME NEW j \in Jobs, Throw(j) PROVE (Alone /\ Unmarked)'
  BY <1>2 DEF Throw
<1>3. ASSUME NEW j \in Jobs, DedupHit(j) PROVE (Alone /\ Unmarked)'
  BY <1>3 DEF DedupHit, Suppress
<1>4. ASSUME NEW j \in Jobs, DedupMiss(j) PROVE (Alone /\ Unmarked)'
  BY <1>4 DEF DedupMiss
<1>5. ASSUME NEW j \in Jobs, Limited(j) PROVE (Alone /\ Unmarked)'
  BY <1>5 DEF Limited, Suppress
<1>6. ASSUME NEW j \in Jobs, Admitted(j) PROVE (Alone /\ Unmarked)'
  BY <1>6 DEF Admitted
<1>7. ASSUME NEW j \in Jobs, Resolve(j) PROVE (Alone /\ Unmarked)'
  BY <1>7 DEF Resolve, Suppress
<1>8. ASSUME NEW j \in Jobs, Send(j) PROVE (Alone /\ Unmarked)'
  <2>1. PICK sent \in BOOLEAN :
          /\ pc' = [pc EXCEPT ![j] = IF sent /\ Deduped(j) THEN "mark" ELSE "stale"]
          /\ pushes' = IF sent /\ Deduped(j)
                       THEN [pushes EXCEPT ![KeyOf[j]] = @ + 1] ELSE pushes
    BY <1>8, SendShape
  <2>2. /\ pc[j] = "send"
        /\ UNCHANGED <<runs, tokens, stores, raced, faults, expiries, receipts>>
    BY <1>8, SendShape
  <2> QED
    BY <2>1, <2>2
<1>9. ASSUME NEW j \in Jobs, Mark(j) PROVE (Alone /\ Unmarked)'
  BY <1>9 DEF Mark
<1>10. ASSUME NEW j \in Jobs, MarkStale(j) PROVE (Alone /\ Unmarked)'
  BY <1>10 DEF MarkStale
<1>11. ASSUME NEW j \in Jobs, Log(j) PROVE (Alone /\ Unmarked)'
  BY <1>11 DEF Log
<1>12. ASSUME NEW j \in Jobs, LogFails(j) PROVE (Alone /\ Unmarked)'
  BY <1>12 DEF LogFails
<1>13. ASSUME NEW j \in Jobs, Count(j) PROVE (Alone /\ Unmarked)'
  BY <1>13 DEF Count
<1>14. ASSUME NEW j \in Jobs, CountFails(j) PROVE (Alone /\ Unmarked)'
  BY <1>14 DEF CountFails
<1>15. ASSUME NEW k \in Keys, KeyExpires(k) PROVE (Alone /\ Unmarked)'
  BY <1>15 DEF KeyExpires, jobState
<1>16. ASSUME NEW k \in Keys, NEW s \in Receipts, UpdateStatus(k, s)
      PROVE  (Alone /\ Unmarked)'
  BY <1>16 DEF UpdateStatus, jobState
<1>17. CASE UNCHANGED vars
  BY <1>17 DEF vars, jobState, stores, history
<1> QED
  BY <1>1, <1>2, <1>3, <1>4, <1>5, <1>6, <1>7, <1>8, <1>9, <1>10, <1>11, <1>12, <1>13,
     <1>14, <1>15, <1>16, <1>17 DEF Next, Step

LEMMA BudgetStep ==
    ASSUME BudgetInv, [Next]_vars
    PROVE  BudgetInv'
<1>0. (TypeInv /\ Alone /\ Unmarked)'
  BY TypeStep, WindowStep DEF BudgetInv
<1> SUFFICES (Unspent /\ PushBudget)'
  BY <1>0 DEF BudgetInv
<1> USE ProcessorAssumption
    DEF Go, stores, history, BudgetInv, TypeInv, TypeOK, Unspent, PushBudget, Spent
<1>1. ASSUME NEW j \in Jobs, Start(j) PROVE (Unspent /\ PushBudget)'
  BY <1>1 DEF Start
<1>2. ASSUME NEW j \in Jobs, Throw(j) PROVE (Unspent /\ PushBudget)'
  BY <1>2 DEF Throw
<1>3. ASSUME NEW j \in Jobs, DedupHit(j) PROVE (Unspent /\ PushBudget)'
  BY <1>3 DEF DedupHit, Suppress
<1>4. ASSUME NEW j \in Jobs, DedupMiss(j) PROVE (Unspent /\ PushBudget)'
  BY <1>4 DEF DedupMiss
<1>5. ASSUME NEW j \in Jobs, Limited(j) PROVE (Unspent /\ PushBudget)'
  BY <1>5 DEF Limited, Suppress
<1>6. ASSUME NEW j \in Jobs, Admitted(j) PROVE (Unspent /\ PushBudget)'
  BY <1>6 DEF Admitted
<1>7. ASSUME NEW j \in Jobs, Resolve(j) PROVE (Unspent /\ PushBudget)'
  BY <1>7 DEF Resolve, Suppress
<1>8. ASSUME NEW j \in Jobs, Send(j) PROVE (Unspent /\ PushBudget)'
  <2>1. PICK sent \in BOOLEAN :
          /\ pc' = [pc EXCEPT ![j] = IF sent /\ Deduped(j) THEN "mark" ELSE "stale"]
          /\ pushes' = IF sent /\ Deduped(j)
                       THEN [pushes EXCEPT ![KeyOf[j]] = @ + 1] ELSE pushes
    BY <1>8, SendShape
  <2>2. /\ pc[j] = "send"
        /\ UNCHANGED <<runs, tokens, stores, raced, faults, expiries, receipts>>
    BY <1>8, SendShape
  <2>3. CASE sent /\ Deduped(j)
    <3>1. KeyOf[j] \in Keys
      BY <2>3, DedupedHasKey
    <3>2. KeyOf[j] \notin raced => ~Spent(KeyOf[j])
      BY <2>2, <2>3, <3>1 DEF Alone, Unmarked, InWindow
    <3> QED
      BY <2>1, <2>2, <2>3, <3>1, <3>2
  <2>4. CASE ~(sent /\ Deduped(j))
    BY <2>1, <2>2, <2>4
  <2> QED
    BY <2>3, <2>4
<1>9. ASSUME NEW j \in Jobs, Mark(j) PROVE (Unspent /\ PushBudget)'
  BY <1>9 DEF Mark
<1>10. ASSUME NEW j \in Jobs, MarkStale(j) PROVE (Unspent /\ PushBudget)'
  BY <1>10 DEF MarkStale
<1>11. ASSUME NEW j \in Jobs, Log(j) PROVE (Unspent /\ PushBudget)'
  BY <1>11 DEF Log
<1>12. ASSUME NEW j \in Jobs, LogFails(j) PROVE (Unspent /\ PushBudget)'
  BY <1>12 DEF LogFails
<1>13. ASSUME NEW j \in Jobs, Count(j) PROVE (Unspent /\ PushBudget)'
  BY <1>13 DEF Count
<1>14. ASSUME NEW j \in Jobs, CountFails(j) PROVE (Unspent /\ PushBudget)'
  BY <1>14 DEF CountFails
<1>15. ASSUME NEW k \in Keys, KeyExpires(k) PROVE (Unspent /\ PushBudget)'
  BY <1>15 DEF KeyExpires, jobState
<1>16. ASSUME NEW k \in Keys, NEW s \in Receipts, UpdateStatus(k, s)
      PROVE  (Unspent /\ PushBudget)'
  BY <1>16 DEF UpdateStatus, jobState
<1>17. CASE UNCHANGED vars
  BY <1>17 DEF vars, jobState, stores, history
<1> QED
  BY <1>1, <1>2, <1>3, <1>4, <1>5, <1>6, <1>7, <1>8, <1>9, <1>10, <1>11, <1>12, <1>13,
     <1>14, <1>15, <1>16, <1>17 DEF Next, Step

(* Unless two jobs of it were past the check together, a key is pushed once, *)
(* and once more for every error and every expiry at most.                   *)
THEOREM PushesBounded == Spec => []PushBudget
<1>1. Init => BudgetInv
  BY TypeInit, ProcessorAssumption
  DEF Init, BudgetInv, Alone, Unmarked, InWindow, Unspent, PushBudget
<1>2. BudgetInv /\ [Next]_vars => BudgetInv'
  BY BudgetStep
<1>3. BudgetInv => PushBudget
  BY DEF BudgetInv
<1> QED
  BY <1>1, <1>2, <1>3, PTL DEF Spec

-----------------------------------------------------------------------------
(* A failed run that is about to be logged is of a key that nothing was  *)
(* delivered for.                                                        *)
FailedIsFirst ==
    \A j \in Jobs :
        /\ pc[j] \in {"stale", "log"} /\ outcome[j] = "FAILED" /\ KeyOf[j] # NoKey
        /\ faults = 0 /\ expiries = 0 /\ ~Exempt(KeyOf[j])
        => pushes[KeyOf[j]] = 0

LEMMA FailedStep ==
    ASSUME BudgetInv, FailedIsFirst, [Next]_vars
    PROVE  FailedIsFirst'
<1> USE ProcessorAssumption
    DEF Go, stores, history, BudgetInv, TypeInv, TypeOK, OutcomeKnown, FailedIsFirst, Exempt
<1>1. ASSUME NEW j \in Jobs, Start(j) PROVE FailedIsFirst'
  BY <1>1 DEF Start
<1>2. ASSUME NEW j \in Jobs, Throw(j) PROVE FailedIsFirst'
  BY <1>2 DEF Throw
<1>3. ASSUME NEW j \in Jobs, DedupHit(j) PROVE FailedIsFirst'
  BY <1>3 DEF DedupHit, Suppress
<1>4. ASSUME NEW j \in Jobs, DedupMiss(j) PROVE FailedIsFirst'
  BY <1>4 DEF DedupMiss
<1>5. ASSUME NEW j \in Jobs, Limited(j) PROVE FailedIsFirst'
  BY <1>5 DEF Limited, Suppress
<1>6. ASSUME NEW j \in Jobs, Admitted(j) PROVE FailedIsFirst'
  BY <1>6 DEF Admitted
<1>7. ASSUME NEW j \in Jobs, Resolve(j) PROVE FailedIsFirst'
  BY <1>7 DEF Resolve, Suppress
<1>8. ASSUME NEW j \in Jobs, Send(j) PROVE FailedIsFirst'
  <2>1. PICK sent \in BOOLEAN :
          /\ outcome' = [outcome EXCEPT ![j] = IF sent THEN "SENT" ELSE "FAILED"]
          /\ pc' = [pc EXCEPT ![j] = IF sent /\ Deduped(j) THEN "mark" ELSE "stale"]
          /\ pushes' = IF sent /\ Deduped(j)
                       THEN [pushes EXCEPT ![KeyOf[j]] = @ + 1] ELSE pushes
    BY <1>8, SendShape
  <2>2. /\ pc[j] = "send"
        /\ UNCHANGED <<runs, tokens, stores, raced, faults, expiries, receipts>>
    BY <1>8, SendShape
  <2> SUFFICES ASSUME NEW i \in Jobs,
                      pc'[i] \in {"stale", "log"}, outcome'[i] = "FAILED", KeyOf[i] # NoKey,
                      faults' = 0, expiries' = 0, ~Exempt(KeyOf[i])'
               PROVE  pushes'[KeyOf[i]] = 0
    OBVIOUS
  <2>3. KeyOf[i] \in Keys /\ KeyOf[i] \notin raced /\ faults = 0 /\ expiries = 0
    BY <2>2, DedupedHasKey
  <2>4. CASE i = j
    <3>1. Deduped(j) /\ sent = FALSE
      BY <2>1, <2>2, <2>4 DEF Deduped
    <3>2. ~Spent(KeyOf[j])
      BY <2>2, <2>3, <2>4, <3>1 DEF Alone, Unmarked, InWindow, Spent
    <3> QED
      BY <2>1, <2>2, <2>3, <2>4, <3>1, <3>2 DEF Unspent
  <2>5. CASE i # j
    <3>1. pc[i] = pc'[i] /\ outcome[i] = outcome'[i]
      BY <2>1, <2>5
    <3>2. KeyOf[i] # KeyOf[j]
      BY <2>2, <2>3, <2>5, <3>1 DEF Alone, InWindow
    <3> QED
      BY <2>1, <2>2, <2>3, <3>1, <3>2
  <2> QED
    BY <2>4, <2>5
<1>9. ASSUME NEW j \in Jobs, Mark(j) PROVE FailedIsFirst'
  BY <1>9 DEF Mark
<1>10. ASSUME NEW j \in Jobs, MarkStale(j) PROVE FailedIsFirst'
  BY <1>10 DEF MarkStale
<1>11. ASSUME NEW j \in Jobs, Log(j) PROVE FailedIsFirst'
  BY <1>11 DEF Log
<1>12. ASSUME NEW j \in Jobs, LogFails(j) PROVE FailedIsFirst'
  BY <1>12 DEF LogFails
<1>13. ASSUME NEW j \in Jobs, Count(j) PROVE FailedIsFirst'
  BY <1>13 DEF Count
<1>14. ASSUME NEW j \in Jobs, CountFails(j) PROVE FailedIsFirst'
  BY <1>14 DEF CountFails
<1>15. ASSUME NEW k \in Keys, KeyExpires(k) PROVE FailedIsFirst'
  BY <1>15 DEF KeyExpires, jobState
<1>16. ASSUME NEW k \in Keys, NEW s \in Receipts, UpdateStatus(k, s)
      PROVE  FailedIsFirst'
  BY <1>16 DEF UpdateStatus, jobState
<1>17. CASE UNCHANGED vars
  BY <1>17 DEF vars, jobState, stores, history
<1> QED
  BY <1>1, <1>2, <1>3, <1>4, <1>5, <1>6, <1>7, <1>8, <1>9, <1>10, <1>11, <1>12, <1>13,
     <1>14, <1>15, <1>16, <1>17 DEF Next, Step

(* The only step that turns a row to FAILED is the log of a failed run, *)
(* which FailedIsFirst speaks of.                                       *)
LEMMA OverwriteStep ==
    ASSUME BudgetInv, FailedIsFirst, [Next]_vars, NEW k \in Keys,
           row[k].status # "FAILED", row'[k].status = "FAILED", faults = 0, expiries = 0
    PROVE  Exempt(k) \/ pushes[k] = 0
<1> USE ProcessorAssumption DEF BudgetInv, TypeInv, TypeOK
<1>1. ASSUME NEW j \in Jobs, Log(j) PROVE Exempt(k) \/ pushes[k] = 0
  <2>1. pc[j] = "log" /\ row' = Upserted(j)
    BY <1>1 DEF Log
  <2>2. KeyOf[j] = k /\ k # NoKey /\ outcome[j] = "FAILED"
    BY <2>1 DEF Upserted
  <2> QED
    BY <2>1, <2>2 DEF FailedIsFirst
<1>2. ASSUME NEW n \in Keys, NEW s \in Receipts, UpdateStatus(n, s) PROVE FALSE
  <2>1. row' = [row EXCEPT ![n] = [row[n] EXCEPT !.status = s]]
    BY <1>2 DEF UpdateStatus
  <2>2. row[n] \in Rows /\ s # "FAILED"
    BY DEF Receipts
  <2>3. [row[n] EXCEPT !.status = s].status = s
    BY <2>2 DEF Rows
  <2> QED
    BY <2>1, <2>2, <2>3
<1>3. CASE row' = row
  BY <1>3
<1>4. \/ row' = row \/ \E j \in Jobs : Log(j)
      \/ \E n \in Keys : \E s \in Receipts : UpdateStatus(n, s)
  <2>1. ASSUME NEW j \in Jobs, Start(j) \/ Throw(j) \/ Step(j), ~Log(j) PROVE row' = row
    <3>1. CASE Send(j)
      BY <3>1, SendShape DEF stores
    <3> QED
      BY <2>1, <3>1
      DEF Step, Start, Throw, DedupHit, DedupMiss, Limited, Admitted, Resolve, Mark, MarkStale,
          LogFails, Count, CountFails, stores
  <2>2. ASSUME NEW n \in Keys, KeyExpires(n) PROVE row' = row
    BY <2>2 DEF KeyExpires
  <2> QED
    BY <2>1, <2>2 DEF Next, vars, stores
<1> QED
  BY <1>1, <1>2, <1>3, <1>4

(* Without a race, a job that skips dedup, an error or an expiry, a retry   *)
(* or another request that fails never turns the row of a delivered         *)
(* notification back to FAILED.                                             *)
THEOREM DeliveredRowsStay == Spec => DeliveredNotOverwritten
<1> DEFINE Kept(k) == pushes[k] > 0 /\ row[k].status # "FAILED" /\ row'[k].status = "FAILED"
                        => Exempt(k) \/ faults > 0 \/ expiries > 0
<1>1. Init => BudgetInv /\ FailedIsFirst
  BY TypeInit, ProcessorAssumption
  DEF Init, BudgetInv, Alone, Unmarked, InWindow, Unspent, PushBudget, FailedIsFirst
<1>2. BudgetInv /\ FailedIsFirst /\ [Next]_vars => (BudgetInv /\ FailedIsFirst)'
  BY BudgetStep, FailedStep
<1>3. BudgetInv /\ FailedIsFirst /\ [Next]_vars => [\A k \in Keys : Kept(k)]_vars
  <2> SUFFICES ASSUME BudgetInv, FailedIsFirst, [Next]_vars, NEW k \in Keys
               PROVE  Kept(k)
    OBVIOUS
  <2>1. pushes[k] \in Nat /\ faults \in Nat /\ expiries \in Nat
    BY ProcessorAssumption DEF BudgetInv, TypeInv, TypeOK
  <2> QED
    BY <2>1, OverwriteStep
<1> QED
  BY <1>1, <1>2, <1>3, PTL DEF Spec, DeliveredNotOverwritten

-----------------------------------------------------------------------------
(* A run that had its push delivered and has not written its row yet *)
Recording(k) ==
    \E j \in Jobs : KeyOf[j] = k /\ outcome[j] = "SENT" /\ pc[j] \in {"mark", "stale", "log"}

(* What the pipeline leaves behind of a push: the dedup key that suppresses *)
(* the next one and a row that says it was sent, each there or about to be  *)
(* written by the run that pushed.                                          *)
PushRecorded ==
    \A k \in Keys :
        pushes[k] > 0 /\ faults = 0 /\ expiries = 0 /\ ~Exempt(k)
        => /\ Spent(k)
           /\ row[k].status \in {"SENT"} \cup Receipts \/ Recording(k)

RecordInv == BudgetInv /\ FailedIsFirst /\ PushRecorded

(* A step that leaves the row of k and the runs that record it alone *)
LEMMA RecordKept ==
    ASSUME TypeInv, PushRecorded, NEW k \in Keys,
           pushes'[k] > 0, faults' = 0, expiries' = 0, ~Exempt(k)',
           faults = 0, expiries = 0, ~Exempt(k), pushes'[k] = pushes[k], row'[k] = row[k],
           \A j \in Jobs : pc[j] \in {"mark", "stale", "log"}
                           => outcome'[j] = outcome[j] /\ pc'[j] \in {"mark", "stale", "log"}
    PROVE  row'[k].status \in {"SENT"} \cup Receipts \/ Recording(k)'
<1>1. row[k].status \in {"SENT"} \cup Receipts \/ Recording(k)
  BY DEF PushRecorded
<1>2. ASSUME Recording(k) PROVE Recording(k)'
  BY <1>2 DEF Recording
<1> QED
  BY <1>1, <1>2

LEMMA RecordStep ==
    ASSUME RecordInv, [Next]_vars
    PROVE  RecordInv'
<1>0. BudgetInv' /\ FailedIsFirst' /\ TypeInv /\ TypeInv'
  BY BudgetStep, FailedStep DEF RecordInv, BudgetInv
<1> SUFFICES ASSUME NEW k \in Keys,
                    pushes'[k] > 0, faults' = 0, expiries' = 0, ~Exempt(k)'
             PROVE  Spent(k)' /\ (row'[k].status \in {"SENT"} \cup Receipts \/ Recording(k)')
  BY <1>0 DEF RecordInv, PushRecorded
<1> DEFINE Row == row'[k].status \in {"SENT"} \cup Receipts \/ Recording(k)'
<1>1. Spent(k)'
  BY <1>0, ProcessorAssumption DEF BudgetInv, TypeInv, TypeOK, Unspent, Exempt
<1> SUFFICES Row
  BY <1>1
<1> USE ProcessorAssumption, <1>0
    DEF RecordInv, Go, stores, history, TypeInv, TypeOK, OutcomeKnown
<1>2. ASSUME NEW j \in Jobs, Start(j) PROVE Row
  <2>1. ~Exempt(k)
    BY <1>2 DEF Start, Exempt
  <2> QED
    BY <1>2, <2>1, RecordKept DEF Start
<1>3. ASSUME NEW j \in Jobs, Throw(j) PROVE Row
  BY <1>3 DEF Throw
<1>4. ASSUME NEW j \in Jobs, DedupHit(j) PROVE Row
  BY <1>4, RecordKept DEF DedupHit, Suppress, Exempt
<1>5. ASSUME NEW j \in Jobs, DedupMiss(j) PROVE Row
  <2>1. ~Exempt(k)
    BY <1>5 DEF DedupMiss, Exempt
  <2> QED
    BY <1>5, <2>1, RecordKept DEF DedupMiss
<1>6. ASSUME NEW j \in Jobs, Limited(j) PROVE Row
  BY <1>6, RecordKept DEF Limited, Suppress, Exempt
<1>7. ASSUME NEW j \in Jobs, Admitted(j) PROVE Row
  BY <1>7, RecordKept DEF Admitted, Exempt
<1>8. ASSUME NEW j \in Jobs, Resolve(j) PROVE Row
  BY <1>8, RecordKept DEF Resolve, Suppress, Exempt
<1>9. ASSUME NEW j \in Jobs, Send(j) PROVE Row
  <2>1. PICK sent \in BOOLEAN :
          /\ outcome' = [outcome EXCEPT ![j] = IF sent THEN "SENT" ELSE "FAILED"]
          /\ pc' = [pc EXCEPT ![j] = IF sent /\ Deduped(j) THEN "mark" ELSE "stale"]
          /\ pushes' = IF sent /\ Deduped(j)
                       THEN [pushes EXCEPT ![KeyOf[j]] = @ + 1] ELSE pushes
    BY <1>9, SendShape
  <2>2. /\ pc[j] = "send"
        /\ UNCHANGED <<runs, tokens, stores, raced, faults, expiries, receipts>>
    BY <1>9, SendShape
  <2>3. CASE sent /\ Deduped(j) /\ KeyOf[j] = k
    BY <2>1, <2>2, <2>3 DEF Recording
  <2>4. CASE ~(sent /\ Deduped(j) /\ KeyOf[j] = k)
    <3>1. pushes'[k] = pushes[k] /\ ~Exempt(k)
      BY <2>1, <2>2, <2>4, DedupedHasKey DEF Exempt
    <3> QED
      BY <2>1, <2>2, <3>1, RecordKept
  <2> QED
    BY <2>3, <2>4
<1>10. ASSUME NEW j \in Jobs, Mark(j) PROVE Row
  BY <1>10, RecordKept DEF Mark, Exempt
<1>11. ASSUME NEW j \in Jobs, MarkStale(j) PROVE Row
  BY <1>11, RecordKept DEF MarkStale, Exempt
<1>12. ASSUME NEW j \in Jobs, Log(j) PROVE Row
  <2>1. /\ pc[j] = "log" /\ row' = Upserted(j) /\ pc' = [pc EXCEPT ![j] = "count"]
        /\ UNCHANGED <<outcome, pushes, faults, expiries>> /\ ~Exempt(k)
    BY <1>12 DEF Log, Exempt
  <2>2. CASE KeyOf[j] = k
    <3>1. outcome[j] = "SENT"
      BY <2>1, <2>2 DEF FailedIsFirst
    <3> QED
      BY <2>1, <2>2, <3>1 DEF Upserted
  <2>3. CASE KeyOf[j] # k
    <3>1. row'[k] = row[k]
      BY <2>1, <2>3 DEF Upserted
    <3>2. row[k].status \in {"SENT"} \cup Receipts \/ Recording(k)
      BY <2>1 DEF PushRecorded
    <3>3. ASSUME Recording(k) PROVE Recording(k)'
      BY <2>1, <2>3, <3>3 DEF Recording
    <3> QED
      BY <3>1, <3>2, <3>3
  <2> QED
    BY <2>2, <2>3
<1>13. ASSUME NEW j \in Jobs, LogFails(j) PROVE Row
  BY <1>13 DEF LogFails
<1>14. ASSUME NEW j \in Jobs, Count(j) PROVE Row
  BY <1>14, RecordKept DEF Count, Exempt
<1>15. ASSUME NEW j \in Jobs, CountFails(j) PROVE Row
  BY <1>15 DEF CountFails
<1>16. ASSUME NEW n \in Keys, KeyExpires(n) PROVE Row
  BY <1>16 DEF KeyExpires
<1>17. ASSUME NEW n \in Keys, NEW s \in Receipts, UpdateStatus(n, s) PROVE Row
  <2>1. /\ row' = [row EXCEPT ![n] = [row[n] EXCEPT !.status = s]]
        /\ UNCHANGED <<pc, outcome, runs, pushes, raced, faults, expiries>>
    BY <1>17 DEF UpdateStatus, jobState
  <2>2. CASE n = k
    <3>1. [row[k] EXCEPT !.status = s].status = s
      BY DEF Rows
    <3> QED
      BY <2>1, <2>2, <3>1
  <2>3. CASE n # k
    BY <2>1, <2>3, RecordKept DEF Exempt
  <2> QED
    BY <2>2, <2>3
<1>18. CASE UNCHANGED vars
  BY <1>18, RecordKept DEF vars, jobState, Exempt
<1> QED
  BY <1>2, <1>3, <1>4, <1>5, <1>6, <1>7, <1>8, <1>9, <1>10, <1>11, <1>12, <1>13,
     <1>14, <1>15, <1>16, <1>17, <1>18 DEF Next, Step

(* As long as Redis and the database answer and the jobs of a key do not     *)
(* race, no delivered push goes unrecorded: its dedup key is set and its row *)
(* says SENT, or the run that delivered it is still on its way there, and no *)
(* later run or status report takes either back.                             *)
THEOREM PushesAreRecorded == Spec => []PushRecorded
<1>1. Init => RecordInv
  BY TypeInit, ProcessorAssumption
  DEF Init, RecordInv, BudgetInv, Alone, Unmarked, InWindow, Unspent, PushBudget, FailedIsFirst,
      PushRecorded
<1>2. RecordInv /\ [Next]_vars => RecordInv'
  BY RecordStep
<1>3. RecordInv => PushRecorded
  BY DEF RecordInv
<1> QED
  BY <1>1, <1>2, <1>3, PTL DEF Spec

-----------------------------------------------------------------------------
(* The rate limiter *)

(* A timestamp was taken in the past, and a request that has not asked has *)
(* nothing to check and nothing granted.                                   *)
TimestampsPast ==
    \A i \in Requests :
        /\ now[i] <= clock
        /\ now[i] = -1 => todo[i] = {} /\ granted[i] = {}
        /\ todo[i] \subseteq {Global, TypeOf[i]} /\ granted[i] \subseteq {Global, TypeOf[i]}

(* What Redis holds was added; what it no longer holds, pruned by a script *)
(* or gone with the expired key, is at least a window old.                 *)
ForgottenIsOld ==
    \A k \in WindowKeys :
        /\ IsFiniteSet(added[k]) /\ zset[k] \subseteq added[k]
        /\ lastAdd[k] <= clock
        /\ \A e \in added[k] : e.at <= lastAdd[k]
        /\ \A e \in added[k] \ zset[k] : e.at + Window[k] <= clock

(* WindowBound for the spans that end in the future, too *)
BoundAlways ==
    \A k \in WindowKeys : \A t \in Nat : Cardinality(Within(k, t)) <= Max[k]

Since(k, n) == {e \in added[k] : e.at > n - Window[k]}

(* A window a request has checked and that did not admit it was full. *)
RefusedWhenFull ==
    \A i \in Requests : \A k \in {Global, TypeOf[i]} :
        now[i] # -1 /\ k \notin todo[i] \cup granted[i] =>
            Cardinality(Since(k, now[i])) >= Max[k]

WindowInv == LimiterTypeOK /\ TimestampsPast /\ ForgottenIsOld /\ BoundAlways /\ RefusedWhenFull

-----------------------------------------------------------------------------
LEMMA KeysOfRequest ==
    ASSUME RateAssumption, NEW i \in Requests
    PROVE  {Global, TypeOf[i]} \subseteq WindowKeys
BY DEF RateAssumption, WindowKeys

LEMMA WindowInit == RateAssumption /\ LimiterInit => WindowInv
<1> SUFFICES ASSUME RateAssumption, LimiterInit PROVE WindowInv
  OBVIOUS
<1>1. LimiterTypeOK /\ TimestampsPast
  BY DEF LimiterInit, LimiterTypeOK, TimestampsPast
<1>2. ForgottenIsOld
  BY FS_EmptySet DEF LimiterInit, ForgottenIsOld
<1>3. BoundAlways
  <2> SUFFICES ASSUME NEW k \in WindowKeys, NEW t \in Nat
               PROVE  Cardinality(Within(k, t)) <= Max[k]
    BY DEF BoundAlways
  <2>1. Within(k, t) = {} BY DEF Within, LimiterInit
  <2>2. Max[k] \in Nat BY DEF RateAssumption
  <2> QED BY <2>1, <2>2, FS_EmptySet
<1>4. RefusedWhenFull
  BY DEF LimiterInit, RefusedWhenFull
<1> QED BY <1>1, <1>2, <1>3, <1>4 DEF WindowInv

LEMMA AskStep ==
    ASSUME RateAssumption, WindowInv, NEW i \in Requests, Ask(i)
    PROVE  WindowInv'
<1> USE DEF WindowInv
<1>1. PICK n \in 0 .. clock : now' = [now EXCEPT ![i] = n]
  BY DEF Ask
<1>2. LimiterTypeOK'
  BY <1>1, KeysOfRequest DEF Ask, LimiterTypeOK
<1>3. TimestampsPast'
  BY <1>1 DEF Ask, LimiterTypeOK, TimestampsPast
<1>4. ForgottenIsOld' /\ BoundAlways'
  BY DEF Ask, ForgottenIsOld, BoundAlways, Within
<1>5. RefusedWhenFull'
  <2> SUFFICES ASSUME NEW j \in Requests, NEW k \in {Global, TypeOf[j]},
                      now'[j] # -1, k \notin todo'[j] \cup granted[j]
               PROVE  Cardinality(Since(k, now[j])') >= Max[k]
    BY DEF Ask, RefusedWhenFull, Since
  <2>1. todo' = [todo EXCEPT ![i] = {Global, TypeOf[i]}] /\ added' = added
    BY DEF Ask
  <2>2. j # i
    BY <2>1 DEF LimiterTypeOK
  <2>3. todo'[j] = todo[j] /\ now'[j] = now[j]
    BY <1>1, <2>1, <2>2 DEF LimiterTypeOK
  <2> QED BY <2>1, <2>3 DEF RefusedWhenFull, Since
<1> QED BY <1>2, <1>3, <1>4, <1>5

(* The heart of the matter: every entry of a span that contains the new    *)
(* timestamp is still in the sorted set when the script counts it.         *)
LEMMA SpanIsCounted ==
    ASSUME RateAssumption, WindowInv, NEW i \in Requests, NEW k \in WindowKeys,
           now[i] \in Nat, clock <= now[i] + Lag,
           NEW t \in Nat, now[i] <= t
    PROVE  Within(k, t) \subseteq Remaining(k, now[i])
<1> SUFFICES ASSUME NEW e \in Within(k, t) PROVE e \in Remaining(k, now[i])
  OBVIOUS
<1>1. e \in added[k] /\ t - (Window[k] - Lag) < e.at
  BY DEF Within
<1>2. /\ e.at \in Nat /\ clock \in Nat
      /\ Window[k] \in Nat /\ Lag \in Nat
  BY <1>1 DEF WindowInv, LimiterTypeOK, Entries, RateAssumption
<1>3. e \in zset[k]
  BY <1>1, <1>2 DEF WindowInv, ForgottenIsOld
<1>4. e.at > now[i] - Window[k]
  BY <1>1, <1>2
<1> QED BY <1>3, <1>4 DEF Remaining

LEMMA CheckStep ==
    ASSUME RateAssumption, WindowInv, NEW i \in Requests, NEW k \in WindowKeys, Check(i, k)
    PROVE  WindowInv'
<1> DEFINE left == Remaining(k, now[i])
           new  == [at |-> now[i], id |-> i]
<1> USE DEF WindowInv
<1>1. /\ k \in todo[i] /\ now[i] \in Nat /\ new \in Entries
      /\ clock \in Nat /\ now[i] <= clock /\ clock <= now[i] + Lag
      /\ Max[k] \in Nat /\ Window[k] \in Nat
  <2>1. k \in todo[i] /\ clock <= now[i] + Lag BY DEF Check
  <2>2. now[i] \in Nat BY <2>1 DEF TimestampsPast, LimiterTypeOK
  <2> QED BY <2>1, <2>2 DEF TimestampsPast, LimiterTypeOK, Entries, RateAssumption
<1>2. left \subseteq zset[k] /\ IsFiniteSet(left)
  BY FS_Subset DEF Remaining, ForgottenIsOld
<1>3. \A e \in zset[k] \ left : e.at + Window[k] <= clock
  <2>1. \A e \in zset[k] : e.at \in Nat BY DEF LimiterTypeOK, Entries
  <2> QED BY <1>1, <2>1 DEF Remaining
<1>4. CASE Cardinality(left) < Max[k]
  <2>1. /\ zset' = [zset EXCEPT ![k] = left \cup {new}]
        /\ lastAdd' = [lastAdd EXCEPT ![k] = clock]
        /\ added' = [added EXCEPT ![k] = @ \cup {new}]
        /\ granted' = [granted EXCEPT ![i] = @ \cup {k}]
        /\ todo' = [todo EXCEPT ![i] = @ \ {k}]
        /\ clock' = clock /\ now' = now
    BY <1>4 DEF Check, HasRoom, Entry
  <2> HIDE DEF left
  <2>2. LimiterTypeOK'
    BY <1>1, <1>2, <2>1 DEF LimiterTypeOK
  <2>3. TimestampsPast'
    BY <1>1, <2>1 DEF LimiterTypeOK, TimestampsPast
  <2>4. ForgottenIsOld'
    <3> SUFFICES ASSUME NEW q \in WindowKeys
                 PROVE  /\ IsFiniteSet(added'[q]) /\ zset'[q] \subseteq added'[q]
                        /\ lastAdd'[q] <= clock
                        /\ \A e \in added'[q] : e.at <= lastAdd'[q]
                        /\ \A e \in added'[q] \ zset'[q] : e.at + Window[q] <= clock
      BY <2>1 DEF ForgottenIsOld
    <3>1. CASE q # k
      BY <2>1, <3>1 DEF ForgottenIsOld, LimiterTypeOK
    <3>2. CASE q = k
      <4>1. /\ added'[k] = added[k] \cup {new} /\ zset'[k] = left \cup {new}
            /\ lastAdd'[k] = clock
        BY <2>1 DEF LimiterTypeOK
      <4>2. IsFiniteSet(added'[k])
        <5>1. IsFiniteSet(added[k]) BY DEF ForgottenIsOld
        <5> HIDE DEF new
        <5>2. IsFiniteSet(added[k] \cup {new}) BY <5>1, FS_AddElement
        <5> QED BY <4>1, <5>2
      <4>3. zset'[k] \subseteq added'[k] BY <1>2, <4>1 DEF ForgottenIsOld
      <4>4. \A e \in added[k] : e.at \in Nat /\ e.at <= lastAdd[k] /\ lastAdd[k] <= clock
        BY DEF ForgottenIsOld, LimiterTypeOK, Entries
      <4>5. \A e \in added'[k] : e.at <= lastAdd'[k]
        BY <1>1, <4>1, <4>4 DEF LimiterTypeOK
      <4>6. \A e \in added'[k] \ zset'[k] : e.at + Window[k] <= clock
        BY <1>3, <4>1 DEF ForgottenIsOld
      <4> QED BY <1>1, <3>2, <4>1, <4>2, <4>3, <4>5, <4>6
    <3> QED BY <3>1, <3>2
  <2>5. BoundAlways'
    <3> SUFFICES ASSUME NEW q \in WindowKeys, NEW t \in Nat
                 PROVE  Cardinality(Within(q, t)') <= Max[q]
      BY DEF BoundAlways
    <3>1. CASE q # k \/ ~ (t - (Window[k] - Lag) < now[i] /\ now[i] <= t)
      <4>1. CASE q # k
        <5>1. added'[q] = added[q] BY <2>1, <4>1 DEF LimiterTypeOK
        <5> QED BY <5>1 DEF BoundAlways, Within
      <4>2. CASE q = k
        <5>1. added'[k] = added[k] \cup {new} /\ new.at = now[i] BY <2>1 DEF LimiterTypeOK
        <5>2. ~ (t - (Window[k] - Lag) < new.at /\ new.at <= t) BY <3>1, <4>2, <5>1
        <5> HIDE DEF new
        <5>3. Within(k, t)' = Within(k, t) BY <5>1, <5>2 DEF Within
        <5> QED BY <4>2, <5>3 DEF BoundAlways
      <4> QED BY <4>1, <4>2
    <3>2. CASE q = k /\ t - (Window[k] - Lag) < now[i] /\ now[i] <= t
      <4>1. Within(k, t)' \subseteq Within(k, t) \cup {new}
        BY <2>1 DEF Within, LimiterTypeOK
      <4>2. Within(k, t)' \subseteq left \cup {new}
        BY <1>1, <3>2, <4>1, SpanIsCounted DEF left
      <4>3. /\ IsFiniteSet(left \cup {new})
            /\ Cardinality(left \cup {new}) <= Cardinality(left) + 1
            /\ Cardinality(left) \in Nat
        <5> HIDE DEF new
        <5>1. /\ IsFiniteSet(left \cup {new})
              /\ Cardinality(left \cup {new})
                   = IF new \in left THEN Cardinality(left) ELSE Cardinality(left) + 1
          BY <1>2, FS_AddElement
        <5>2. Cardinality(left) \in Nat BY <1>2, FS_CardinalityType
        <5> QED BY <5>1, <5>2
      <4>4. Cardinality(Within(k, t)') <= Cardinality(left \cup {new})
        BY <4>2, <4>3, FS_Subset
      <4>5. /\ Cardinality(Within(k, t)') \in Nat
            /\ Cardinality(left \cup {new}) \in Nat
        BY <4>2, <4>3, FS_Subset, FS_CardinalityType
      <4> QED BY <1>1, <1>4, <3>2, <4>3, <4>4, <4>5
    <3> QED BY <3>1, <3>2
  <2>6. RefusedWhenFull'
    <3> SUFFICES ASSUME NEW j \in Requests, NEW q \in {Global, TypeOf[j]},
                        now[j] # -1, q \notin todo'[j] \cup granted'[j]
                 PROVE  Cardinality(Since(q, now[j])') >= Max[q]
      BY <2>1 DEF RefusedWhenFull, Since
    <3>1. q \notin todo[j] \cup granted[j] BY <2>1 DEF LimiterTypeOK
    <3>2. Cardinality(Since(q, now[j])) >= Max[q] BY <3>1 DEF RefusedWhenFull
    <3>3. q \in WindowKeys BY KeysOfRequest
    <3>4. Since(q, now[j]) \subseteq Since(q, now[j])'
      <4>1. added[q] \subseteq added'[q] BY <2>1, <3>3 DEF LimiterTypeOK
      <4> QED BY <2>1, <4>1 DEF Since
    <3>5. IsFiniteSet(added'[q]) BY <2>4, <3>3 DEF ForgottenIsOld
    <3>6. IsFiniteSet(Since(q, now[j])')
      BY <2>1, <3>5, FS_Subset DEF Since
    <3>7. /\ Cardinality(Since(q, now[j])) <= Cardinality(Since(q, now[j])')
          /\ Cardinality(Since(q, now[j])) \in Nat /\ Cardinality(Since(q, now[j])') \in Nat
      BY <3>4, <3>6, FS_Subset, FS_CardinalityType
    <3>8. Max[q] \in Nat BY <3>3 DEF RateAssumption
    <3> QED BY <3>2, <3>7, <3>8
  <2> QED BY <2>2, <2>3, <2>4, <2>5, <2>6
<1>5. CASE ~ (Cardinality(left) < Max[k])
  <2>1. /\ zset' = [zset EXCEPT ![k] = left]
        /\ todo' = [todo EXCEPT ![i] = @ \ {k}]
        /\ clock' = clock /\ now' = now
        /\ lastAdd' = lastAdd /\ added' = added /\ granted' = granted
    BY <1>5 DEF Check, HasRoom
  <2>2. LimiterTypeOK' BY <1>2, <2>1 DEF LimiterTypeOK
  <2>3. TimestampsPast' BY <1>1, <2>1 DEF LimiterTypeOK, TimestampsPast
  <2>4. ForgottenIsOld'
    BY <1>2, <1>3, <2>1 DEF ForgottenIsOld, LimiterTypeOK
  <2>5. BoundAlways' BY <2>1 DEF BoundAlways, Within
  <2>6. RefusedWhenFull'
    <3> SUFFICES ASSUME NEW j \in Requests, NEW q \in {Global, TypeOf[j]},
                        now[j] # -1, q \notin todo'[j] \cup granted[j]
                 PROVE  Cardinality(Since(q, now[j])) >= Max[q]
      BY <2>1 DEF RefusedWhenFull, Since
    <3>1. CASE q \notin todo[j]
      BY <3>1 DEF RefusedWhenFull
    <3>2. CASE q \in todo[j]
      <4>1. j = i /\ q = k BY <2>1, <3>2 DEF LimiterTypeOK
      <4>2. left \subseteq Since(k, now[i])
        BY DEF Remaining, Since, ForgottenIsOld
      <4>3. IsFiniteSet(Since(k, now[i]))
        BY FS_Subset DEF Since, ForgottenIsOld
      <4>4. /\ Cardinality(left) <= Cardinality(Since(k, now[i]))
            /\ Cardinality(left) \in Nat /\ Cardinality(Since(k, now[i])) \in Nat
        BY <1>2, <4>2, <4>3, FS_Subset, FS_CardinalityType
      <4> QED BY <1>1, <1>5, <4>1, <4>4
    <3> QED BY <3>1, <3>2
  <2> QED BY <2>2, <2>3, <2>4, <2>5, <2>6
<1> QED BY <1>4, <1>5

LEMMA TimeStep ==
    ASSUME RateAssumption, WindowInv, Tick \/ \E k \in WindowKeys : WindowExpires(k)
    PROVE  WindowInv'
<1> USE DEF WindowInv
<1>1. CASE Tick
  <2>1. /\ clock \in Nat /\ clock' = clock + 1
        /\ now' = now /\ todo' = todo /\ granted' = granted /\ zset' = zset
        /\ lastAdd' = lastAdd /\ added' = added
    BY <1>1 DEF Tick, LimiterTypeOK
  <2>2. LimiterTypeOK' BY <2>1 DEF LimiterTypeOK
  <2>3. TimestampsPast' BY <2>1 DEF LimiterTypeOK, TimestampsPast
  <2>4. ForgottenIsOld'
    <3>1. \A k \in WindowKeys : /\ Window[k] \in Nat /\ lastAdd[k] \in Nat
                                /\ \A e \in added[k] : e.at \in Nat
      BY DEF RateAssumption, LimiterTypeOK, Entries
    <3> QED BY <2>1, <3>1 DEF ForgottenIsOld
  <2>5. BoundAlways' BY <2>1 DEF BoundAlways, Within
  <2>6. RefusedWhenFull' BY <2>1 DEF RefusedWhenFull, Since
  <2> QED BY <2>2, <2>3, <2>4, <2>5, <2>6
<1>2. ASSUME NEW k \in WindowKeys, WindowExpires(k) PROVE WindowInv'
  <2>1. /\ zset' = [zset EXCEPT ![k] = {}] /\ clock >= lastAdd[k] + Window[k]
        /\ clock' = clock /\ now' = now /\ todo' = todo /\ granted' = granted
        /\ lastAdd' = lastAdd /\ added' = added
    BY <1>2 DEF WindowExpires
  <2>2. LimiterTypeOK' BY <2>1 DEF LimiterTypeOK
  <2>3. TimestampsPast' BY <2>1 DEF TimestampsPast
  <2>4. ForgottenIsOld'
    <3>1. \A e \in added[k] : e.at + Window[k] <= clock
      <4>1. clock \in Nat /\ Window[k] \in Nat /\ lastAdd[k] \in Nat
            /\ \A e \in added[k] : e.at \in Nat /\ e.at <= lastAdd[k]
        BY DEF RateAssumption, LimiterTypeOK, Entries, ForgottenIsOld
      <4> QED BY <2>1, <4>1
    <3> QED BY <2>1, <3>1 DEF ForgottenIsOld, LimiterTypeOK
  <2>5. BoundAlways' BY <2>1 DEF BoundAlways, Within
  <2>6. RefusedWhenFull' BY <2>1 DEF RefusedWhenFull, Since
  <2> QED BY <2>2, <2>3, <2>4, <2>5, <2>6
<1> QED BY <1>1, <1>2

LEMMA WindowInvHolds == LimiterSpec => []WindowInv
<1>1. RateAssumption BY RateAssumption
<1>2. LimiterInit => WindowInv BY <1>1, WindowInit
<1>3. ASSUME WindowInv, [LimiterNext]_limiterVars PROVE WindowInv'
  <2>1. CASE UNCHANGED limiterVars
    BY <1>3, <2>1
    DEF limiterVars, WindowInv, LimiterTypeOK, TimestampsPast, ForgottenIsOld, BoundAlways, Within,
        RefusedWhenFull, Since
  <2>2. CASE LimiterNext
    BY <1>1, <1>3, <2>2, AskStep, CheckStep, TimeStep DEF LimiterNext
  <2> QED BY <1>3, <2>1, <2>2
<1> QED BY <1>2, <1>3, PTL DEF LimiterSpec

(* In no span of a window, less the lag of the timestamps, are more than   *)
(* max notifications of a key admitted, however the scripts of concurrent  *)
(* requests interleave (checkWindow).                                      *)
THEOREM WindowsBounded == LimiterSpec => []WindowBound
<1>1. WindowInv => WindowBound
  BY DEF WindowInv, BoundAlways, WindowBound, LimiterTypeOK
<1> QED BY <1>1, WindowInvHolds, PTL

(* A request is refused only by a window with max slots taken after its    *)
(* start (isAllowed).                                                      *)
THEOREM RefusalsJustified == LimiterSpec => []RefusalJustified
<1>1. WindowInv => RefusalJustified
  <2> SUFFICES ASSUME WindowInv, NEW i \in Requests,
                      now[i] # -1, todo[i] = {}, ~Allowed(i)
               PROVE  \E k \in {Global, TypeOf[i]} :
                         /\ k \notin granted[i]
                         /\ Cardinality({e \in added[k] : e.at > now[i] - Window[k]}) >= Max[k]
    BY DEF RefusalJustified
  <2>1. PICK k \in {Global, TypeOf[i]} : k \notin granted[i]
    BY DEF WindowInv, TimestampsPast, Allowed
  <2> QED BY <2>1 DEF WindowInv, RefusedWhenFull, Since
<1> QED BY <1>1, WindowInvHolds, PTL

(* The type invariant, for every instance *)
THEOREM LimiterTypeCorrect == LimiterSpec => []LimiterTypeOK
<1>1. WindowInv => LimiterTypeOK BY DEF WindowInv
<1> QED BY <1>1, WindowInvHolds, PTL
=============================================================================
