--------------------------- MODULE SmsService_proofs ---------------------------
(***************************************************************************)
(* Theorems about SmsService, for any number of sends, pods, queries,      *)
(* faults and crashes and any modulus:                                     *)
(*   - the type invariant;                                                 *)
(*   - SubmitBudget: only a crash repeats a submission;                    *)
(*   - NoTransactionLost: a row for every submission;                      *)
(*   - DeliveredStays: a delivery report is not overwritten;               *)
(*   - ReplyRecorded: the row of a send says what the gateway answered;    *)
(*   - StatsMatchReplies: the counters of the day are the answers;         *)
(*   - DatedCacheFresh: the invalidation of the cached statistics;         *)
(*   - RepeatsOnlyAfterModulus: the ids of a pod that does not restart.    *)
(***************************************************************************)
EXTENDS SmsService, TLAPS, FiniteSetTheorems

LEMMA BoundsAreNat ==
    /\ MaxRuns \in Nat /\ MaxSeconds \in Nat /\ MaxFaults \in Nat
    /\ MaxCrashes \in Nat /\ MaxReads \in Nat /\ Modulus \in Nat /\ Modulus > 0
BY SmsAssumption

(* txSeq stays below the modulus. *)
LEMMA NextSeqType ==
    ASSUME NEW p \in Pods, seq[p] \in Nat
    PROVE  NextSeq(p) \in 0 .. Modulus - 1
BY BoundsAreNat DEF NextSeq

(* A creation, with its two outcomes apart *)
LEMMA CreateShape ==
    ASSUME TypeOK, NEW s \in Sends, Create(s)
    PROVE  \E id \in TxIds :
             /\ id = [second |-> clock, seq |-> NextSeq(pod[s])]
             /\ pc[s] \in {"idle", "threw"} /\ runs[s] < MaxRuns
             /\ runs' = [runs EXCEPT ![s] = @ + 1]
             /\ seq' = [seq EXCEPT ![pod[s]] = NextSeq(pod[s])]
             /\ tx' = [tx EXCEPT ![s] = id]
             /\ issued' = issued \cup {[tx |-> id, send |-> s, run |-> runs[s] + 1]}
             /\ \/ /\ \A w \in rows : w.tx # id
                   /\ rows' = rows \cup
                        {[tx |-> id, send |-> s, status |-> "PENDING", smid |-> FALSE]}
                   /\ pc' = [pc EXCEPT ![s] = "submit"]
                   /\ faults' = faults
                \/ /\ faults' = faults \/ (faults < MaxFaults /\ faults' = faults + 1)
                   /\ pc' = [pc EXCEPT ![s] = "threw"]
                   /\ rows' = rows
             /\ UNCHANGED <<clock, pod, reply, submits, stats, inval, caching, crashes>>
<1> DEFINE id == [second |-> clock, seq |-> NextSeq(pod[s])]
<1>1. pod[s] \in Pods /\ seq[pod[s]] \in Nat
  BY DEF TypeOK
<1>2. id \in TxIds
  BY <1>1, NextSeqType DEF TxIds, TypeOK
<1>3. runs'[s] = runs[s] + 1
  BY DEF Create, TypeOK
<1> QED
  BY <1>2, <1>3 DEF Create, Go, CreateFails

LEMMA RowWritten ==
    ASSUME NEW w \in Rows, NEW st \in {"SENT", "FAILED"}, NEW id \in BOOLEAN
    PROVE  LET v == [w EXCEPT !.status = st, !.smid = id]
           IN  v \in Rows /\ v.tx = w.tx /\ v.send = w.send
BY DEF Rows

(* transactionId is @unique. *)
UniqueTx == \A v, w \in rows : v.tx = w.tx => v = w

(* An update of rows keeps their ids and senders. *)
LEMMA UpdatedShape ==
    ASSUME TypeOK, NEW s \in Sends
    PROVE  /\ Updated(s) \subseteq Rows
           /\ \A w \in rows : \E v \in Updated(s) : v.tx = w.tx /\ v.send = w.send
           /\ \A v \in Updated(s) : \E w \in rows :
                /\ v.tx = w.tx /\ v.send = w.send
                /\ w.tx # tx[s] => v = w
           /\ UniqueTx => \A u, v \in Updated(s) : u.tx = v.tx => u = v
<1> DEFINE U(w) == IF w.tx = tx[s] THEN [w EXCEPT !.status = Final(s), !.smid = reply[s].smid]
                   ELSE w
<1>1. Updated(s) = {U(w) : w \in rows}
  BY DEF Updated
<1>2. ASSUME NEW w \in rows
      PROVE  /\ U(w) \in Rows /\ U(w).tx = w.tx /\ U(w).send = w.send
             /\ w.tx # tx[s] => U(w) = w
  <2>1. reply[s].smid \in BOOLEAN /\ Final(s) \in {"SENT", "FAILED"} /\ w \in Rows
    BY DEF TypeOK, Final, Replies
  <2>2. LET v == [w EXCEPT !.status = Final(s), !.smid = reply[s].smid]
        IN  v \in Rows /\ v.tx = w.tx /\ v.send = w.send
    BY <2>1, RowWritten
  <2> QED
    BY <2>1, <2>2
<1> HIDE DEF U
<1>3. \A w \in rows : U(w) \in Updated(s)
  BY <1>1
<1>4. \A v \in Updated(s) : \E w \in rows : v = U(w)
  BY <1>1
<1> QED
  BY <1>2, <1>3, <1>4 DEF UniqueTx

(* So does a delivery report, which only touches rows with an smid. *)
LEMMA VerifyShape ==
    ASSUME TypeOK, NEW w \in rows, Verify(w)
    PROVE  /\ rows' \subseteq Rows
           /\ \A u \in rows : \E v \in rows' : v.tx = u.tx /\ v.send = u.send
           /\ \A v \in rows' : \E u \in rows :
                /\ v.tx = u.tx /\ v.send = u.send
                /\ u.smid = FALSE => v = u
           /\ \A u \in rows : u.smid = FALSE \/ u.status = "DELIVERED" => u \in rows'
           /\ UniqueTx => \A u, v \in rows' : u.tx = v.tx => u = v
           /\ UNCHANGED <<clock, seq, pc, pod, runs, tx, reply, issued, submits,
                          caching, stats, inval, faults, crashes>>
<1> DEFINE V(v) == IF v.smid /\ v.tx = w.tx THEN [v EXCEPT !.status = "DELIVERED"] ELSE v
<1>1. rows' = {V(v) : v \in rows}
  BY DEF Verify
<1>2. ASSUME NEW u \in rows
      PROVE  /\ V(u) \in Rows /\ V(u).tx = u.tx /\ V(u).send = u.send
             /\ u.smid = FALSE \/ u.status = "DELIVERED" => V(u) = u
  BY DEF TypeOK, Rows
<1>3. /\ \A u \in rows : V(u) \in rows'
      /\ \A v \in rows' : \E u \in rows : v = V(u)
  BY <1>1
<1>4. UNCHANGED <<clock, seq, pc, pod, runs, tx, reply, issued, submits,
                  caching, stats, inval, faults, crashes>>
  BY DEF Verify
<1> HIDE DEF V
<1>5. ASSUME UniqueTx, NEW u \in rows', NEW v \in rows', u.tx = v.tx
      PROVE  u = v
  <2>1. PICK a \in rows : u = V(a)
    BY <1>3
  <2>2. PICK b \in rows : v = V(b)
    BY <1>3
  <2>3. a.tx = b.tx
    BY <1>2, <1>5, <2>1, <2>2
  <2> QED
    BY <1>5, <2>1, <2>2, <2>3 DEF UniqueTx
<1>6. rows' \subseteq Rows
  BY <1>2, <1>3
<1>7. \A u \in rows : \E v \in rows' : v.tx = u.tx /\ v.send = u.send
  BY <1>2, <1>3
<1>8. \A v \in rows' : \E u \in rows :
        /\ v.tx = u.tx /\ v.send = u.send
        /\ u.smid = FALSE => v = u
  BY <1>2, <1>3
<1>9. \A u \in rows : u.smid = FALSE \/ u.status = "DELIVERED" => u \in rows'
  BY <1>2, <1>3
<1> QED
  BY <1>4, <1>5, <1>6, <1>7, <1>8, <1>9

-----------------------------------------------------------------------------
LEMMA TypeStep ==
    ASSUME TypeOK, [Next]_vars
    PROVE  TypeOK'
<1> USE BoundsAreNat DEF TypeOK, Go, sending, caching
<1>1. ASSUME NEW s \in Sends, Create(s) PROVE TypeOK'
  <2>1. PICK id \in TxIds :
          /\ pc[s] \in {"idle", "threw"} /\ runs[s] < MaxRuns
          /\ runs' = [runs EXCEPT ![s] = @ + 1]
          /\ seq' = [seq EXCEPT ![pod[s]] = NextSeq(pod[s])]
          /\ tx' = [tx EXCEPT ![s] = id]
          /\ issued' = issued \cup {[tx |-> id, send |-> s, run |-> runs[s] + 1]}
          /\ \/ /\ rows' = rows \cup
                     {[tx |-> id, send |-> s, status |-> "PENDING", smid |-> FALSE]}
                /\ pc' = [pc EXCEPT ![s] = "submit"]
                /\ faults' = faults
             \/ /\ faults' = faults \/ (faults < MaxFaults /\ faults' = faults + 1)
                /\ pc' = [pc EXCEPT ![s] = "threw"]
                /\ rows' = rows
          /\ UNCHANGED <<clock, pod, reply, submits, stats, inval, caching, crashes>>
    BY <1>1, CreateShape
  <2>2. /\ [tx |-> id, send |-> s, status |-> "PENDING", smid |-> FALSE] \in Rows
        /\ [tx |-> id, send |-> s, run |-> runs[s] + 1] \in [tx : TxIds, send : Sends, run : Nat]
    BY DEF Rows
  <2>3. seq' \in [Pods -> 0 .. Modulus - 1]
    BY <2>1, NextSeqType
  <2>4. rows' \subseteq Rows /\ issued' \subseteq [tx : TxIds, send : Sends, run : Nat]
    BY <2>1, <2>2
  <2>5. /\ runs' \in [Sends -> 0 .. MaxRuns] /\ faults' \in 0 .. MaxFaults
        /\ tx' \in [Sends -> TxIds \cup {NoTx}]
    BY <2>1
  <2>6. pc' \in [Sends -> {"idle", "threw", "submit", "update", "count", "returned"}]
    BY <2>1
  <2>7. UNCHANGED <<clock, pod, reply, submits, stats, inval, cache, reading, raced, reads, crashes>>
    BY <2>1
  <2> QED
    BY <2>3, <2>4, <2>5, <2>6, <2>7
<1>2. ASSUME NEW s \in Sends, Submit(s) PROVE TypeOK'
  BY <1>2 DEF Submit
<1>3. ASSUME NEW s \in Sends, Update(s) PROVE TypeOK'
  BY <1>3, UpdatedShape DEF Update
<1>4. ASSUME NEW s \in Sends, Count(s) PROVE TypeOK'
  <2>1. Counted(s) \in Stats
    BY DEF Counted, Stats
  <2> QED
    BY <1>4, <2>1 DEF Count
<1>5. ASSUME NEW s \in Sends, InvalidateKeys(s) PROVE TypeOK'
  BY <1>5, SmsAssumption DEF InvalidateKeys
<1>6. ASSUME NEW s \in Sends, InvalidateDel(s) PROVE TypeOK'
  BY <1>6 DEF InvalidateDel, NoInval
<1>7. ASSUME NEW w \in rows, Verify(w) PROVE TypeOK'
  BY <1>7, VerifyShape
<1>8. ASSUME NEW q \in Queries, ReadStats(q) PROVE TypeOK'
  BY <1>8 DEF ReadStats
<1>9. ASSUME NEW q \in Queries, CacheStats(q) PROVE TypeOK'
  BY <1>9 DEF CacheStats
<1>10. ASSUME NEW q \in Queries, CacheExpires(q) PROVE TypeOK'
  BY <1>10 DEF CacheExpires
<1>11. ASSUME Tick PROVE TypeOK'
  BY <1>11 DEF Tick
<1>12. ASSUME NEW p \in Pods, Crash(p) PROVE TypeOK'
  BY <1>12 DEF Crash, NoInval
<1>13. CASE UNCHANGED vars
  BY <1>13 DEF vars
<1> QED
  BY <1>1, <1>2, <1>3, <1>4, <1>5, <1>6, <1>7, <1>8, <1>9, <1>10, <1>11, <1>12, <1>13 DEF Next

LEMMA TypeInit == Init => TypeOK
BY BoundsAreNat DEF Init, TypeOK, NoTx, NoReply, Replies, NoStats, Stats, NoInval

(* Every variable keeps its type: txSeq stays below the modulus, and every *)
(* row and every issued id is well formed.                                 *)
THEOREM TypeCorrect == Spec => []TypeOK
<1>1. TypeOK /\ [Next]_vars => TypeOK'
  BY TypeStep
<1> QED
  BY <1>1, TypeInit, PTL DEF Spec

-----------------------------------------------------------------------------
(* At most one submission more than there were crashes, and none more yet *)
(* in a run that has still to submit.                                     *)
BeforeSubmit ==
    \A s \in Sends : pc[s] \in {"idle", "threw", "submit"} => submits[s] <= crashes

LEMMA SubmitStep ==
    ASSUME TypeOK, SubmitBudget, BeforeSubmit, [Next]_vars
    PROVE  (SubmitBudget /\ BeforeSubmit)'
<1> USE BoundsAreNat DEF TypeOK, SubmitBudget, BeforeSubmit, Go, sending, caching
<1>1. ASSUME NEW s \in Sends, Create(s) PROVE (SubmitBudget /\ BeforeSubmit)'
  BY <1>1 DEF Create, CreateFails
<1>2. ASSUME NEW s \in Sends, Submit(s) PROVE (SubmitBudget /\ BeforeSubmit)'
  BY <1>2 DEF Submit
<1>3. ASSUME NEW s \in Sends, Update(s) PROVE (SubmitBudget /\ BeforeSubmit)'
  BY <1>3 DEF Update
<1>4. ASSUME NEW s \in Sends, Count(s) PROVE (SubmitBudget /\ BeforeSubmit)'
  BY <1>4 DEF Count
<1>5. ASSUME NEW p \in Pods, Crash(p) PROVE (SubmitBudget /\ BeforeSubmit)'
  BY <1>5 DEF Crash, Running
<1>6. CASE UNCHANGED <<pc, submits, crashes>>
  BY <1>6
<1>7. \/ UNCHANGED <<pc, submits, crashes>>
      \/ \E s \in Sends : Create(s) \/ Submit(s) \/ Update(s) \/ Count(s)
      \/ \E p \in Pods : Crash(p)
  BY DEF Next, vars, InvalidateKeys, InvalidateDel, Verify, ReadStats, CacheStats, CacheExpires, Tick
<1> QED
  BY <1>1, <1>2, <1>3, <1>4, <1>5, <1>6, <1>7

(* The gateway is called once for a send, and once more for each crash. *)
THEOREM SubmissionsBounded == Spec => []SubmitBudget
<1>1. Init => TypeOK /\ SubmitBudget /\ BeforeSubmit
  BY TypeInit DEF Init, SubmitBudget, BeforeSubmit
<1>2. TypeOK /\ SubmitBudget /\ BeforeSubmit /\ [Next]_vars
        => (TypeOK /\ SubmitBudget /\ BeforeSubmit)'
  BY TypeStep, SubmitStep
<1> QED
  BY <1>1, <1>2, PTL DEF Spec

-----------------------------------------------------------------------------
(* Between its creation and its update a run has a row of its own that *)
(* nothing else has touched.                                           *)
OwnRow ==
    \A s \in Sends : pc[s] \in {"submit", "update"} =>
        \E w \in rows :
            w.tx = tx[s] /\ w.send = s /\ w.status = "PENDING" /\ w.smid = FALSE

RowInv == TypeOK /\ IsFiniteSet(rows) /\ UniqueTx /\ OwnRow

(* Two tables with the same ids have the same number of rows. *)
LEMMA SameIdsSameCount ==
    ASSUME NEW A, NEW B, IsFiniteSet(A),
           \A u, v \in A : u.tx = v.tx => u = v,
           \A u, v \in B : u.tx = v.tx => u = v,
           \A u \in A : \E v \in B : v.tx = u.tx,
           \A v \in B : \E u \in A : v.tx = u.tx
    PROVE  IsFiniteSet(B) /\ Cardinality(B) = Cardinality(A)
<1> DEFINE f == [u \in A |-> CHOOSE v \in B : v.tx = u.tx]
<1>1. \A u \in A : f[u] \in B /\ f[u].tx = u.tx
  OBVIOUS
<1>2. f \in [A -> B]
  BY <1>1
<1> HIDE DEF f
<1>3. f \in Injection(A, B)
  BY <1>1, <1>2 DEF Injection, IsInjective
<1>4. f \in Surjection(A, B)
  BY <1>1, <1>2 DEF Surjection
<1>5. ExistsBijection(A, B)
  BY <1>3, <1>4 DEF ExistsBijection, Bijection
<1> QED
  BY <1>5, FS_Bijection

RowsOf(s) == {w \in rows : w.send = s}

(* What the steps that touch the table do to it, send by send *)
LEMMA TableStep ==
    ASSUME RowInv, [Next]_vars
    PROVE  /\ IsFiniteSet(rows') /\ UniqueTx'
           /\ \A s \in Sends :
                /\ IsFiniteSet(RowsOf(s)) /\ IsFiniteSet(RowsOf(s)')
                /\ Cardinality(RowsOf(s)') >= Cardinality(RowsOf(s))
                /\ pc'[s] = "submit" /\ pc[s] # "submit" =>
                      Cardinality(RowsOf(s)') = Cardinality(RowsOf(s)) + 1
<1> USE DEF RowInv
<1>1. ASSUME NEW s \in Sends
      PROVE  IsFiniteSet(RowsOf(s)) /\ Cardinality(RowsOf(s)) \in Nat
  BY FS_Subset, FS_CardinalityType DEF RowsOf
<1> DEFINE Grown ==
        \A s \in Sends :
            /\ IsFiniteSet(RowsOf(s)')
            /\ Cardinality(RowsOf(s)') >= Cardinality(RowsOf(s))
            /\ pc'[s] = "submit" /\ pc[s] # "submit" =>
                  Cardinality(RowsOf(s)') = Cardinality(RowsOf(s)) + 1
<1>2. ASSUME \A u, v \in rows' : u.tx = v.tx => u = v,
             \A u \in rows : \E v \in rows' : v.tx = u.tx /\ v.send = u.send,
             \A v \in rows' : \E u \in rows : v.tx = u.tx /\ v.send = u.send,
             \A s \in Sends : pc'[s] = "submit" => pc[s] = "submit"
      PROVE  IsFiniteSet(rows') /\ UniqueTx' /\ Grown
  <2>1. IsFiniteSet(rows')
    BY <1>2, SameIdsSameCount DEF UniqueTx
  <2>2. ASSUME NEW s \in Sends
        PROVE  IsFiniteSet(RowsOf(s)') /\ Cardinality(RowsOf(s)') = Cardinality(RowsOf(s))
    <3> DEFINE A == RowsOf(s)
               B == {w \in rows' : w.send = s}
    <3>1. /\ \A u, v \in A : u.tx = v.tx => u = v
          /\ \A u, v \in B : u.tx = v.tx => u = v
          /\ \A u \in A : \E v \in B : v.tx = u.tx
          /\ \A v \in B : \E u \in A : v.tx = u.tx
      BY <1>2 DEF RowsOf, UniqueTx
    <3>2. IsFiniteSet(A)
      BY <1>1
    <3> HIDE DEF A, B
    <3>3. IsFiniteSet(B) /\ Cardinality(B) = Cardinality(A)
      BY <3>1, <3>2, SameIdsSameCount
    <3> QED
      BY <3>3 DEF A, B, RowsOf
  <2> QED
    BY <1>1, <1>2, <2>1, <2>2 DEF UniqueTx
<1>3. ASSUME NEW s \in Sends, Create(s) PROVE IsFiniteSet(rows') /\ UniqueTx' /\ Grown
  <2>1. PICK id \in TxIds :
          /\ pc[s] \in {"idle", "threw"}
          /\ \/ /\ \A w \in rows : w.tx # id
                /\ rows' = rows \cup
                     {[tx |-> id, send |-> s, status |-> "PENDING", smid |-> FALSE]}
                /\ pc' = [pc EXCEPT ![s] = "submit"]
             \/ /\ pc' = [pc EXCEPT ![s] = "threw"]
                /\ rows' = rows
    BY <1>3, CreateShape
  <2>2. CASE rows' = rows /\ pc' = [pc EXCEPT ![s] = "threw"]
    BY <1>2, <2>2 DEF TypeOK, UniqueTx
  <2>3. CASE rows' # rows \/ pc' # [pc EXCEPT ![s] = "threw"]
    <3> DEFINE new == [tx |-> id, send |-> s, status |-> "PENDING", smid |-> FALSE]
    <3>1. /\ new.tx = id /\ new.send = s
          /\ rows' = rows \cup {new} /\ \A w \in rows : w.tx # id
          /\ pc' = [pc EXCEPT ![s] = "submit"]
      BY <2>1, <2>3
    <3> HIDE DEF new
    <3>2. IsFiniteSet(rows') /\ UniqueTx' /\ new \notin rows
      BY <3>1, FS_AddElement DEF UniqueTx
    <3>3. RowsOf(s)' = RowsOf(s) \cup {new} /\ new \notin RowsOf(s)
      BY <3>1, <3>2 DEF RowsOf
    <3>4. /\ IsFiniteSet(RowsOf(s)')
          /\ Cardinality(RowsOf(s)') = Cardinality(RowsOf(s)) + 1
      BY <1>1, <3>3, FS_AddElement
    <3>5. \A r \in Sends \ {s} : RowsOf(r)' = RowsOf(r) /\ pc'[r] = pc[r]
      BY <3>1 DEF RowsOf, TypeOK
    <3> QED
      BY <1>1, <3>2, <3>4, <3>5
  <2> QED
    BY <2>2, <2>3
<1>4. ASSUME NEW s \in Sends, Update(s) PROVE IsFiniteSet(rows') /\ UniqueTx' /\ Grown
  <2>1. \A r \in Sends : pc'[r] = "submit" => pc[r] = "submit"
    BY <1>4 DEF Update, Go, TypeOK
  <2>2. CASE rows' = Updated(s)
    BY <1>2, <2>1, <2>2, UpdatedShape
  <2>3. CASE rows' = rows
    BY <1>2, <2>1, <2>3 DEF UniqueTx
  <2> QED
    BY <1>4, <2>2, <2>3 DEF Update
<1>5. ASSUME NEW w \in rows, Verify(w) PROVE IsFiniteSet(rows') /\ UniqueTx' /\ Grown
  BY <1>2, <1>5, VerifyShape
<1>6. ASSUME rows' = rows, \A s \in Sends : pc'[s] = "submit" => pc[s] = "submit"
      PROVE  IsFiniteSet(rows') /\ UniqueTx' /\ Grown
  BY <1>2, <1>6 DEF UniqueTx
<1>7. ASSUME NEW s \in Sends, Submit(s) \/ Count(s) PROVE IsFiniteSet(rows') /\ UniqueTx' /\ Grown
  BY <1>6, <1>7 DEF Submit, Count, Go, TypeOK
<1>8. ASSUME NEW p \in Pods, Crash(p) PROVE IsFiniteSet(rows') /\ UniqueTx' /\ Grown
  BY <1>6, <1>8 DEF Crash
<1>9. ASSUME UNCHANGED <<rows, pc>> PROVE IsFiniteSet(rows') /\ UniqueTx' /\ Grown
  BY <1>6, <1>9
<1>10. \/ UNCHANGED <<rows, pc>>
       \/ \E s \in Sends : Create(s) \/ Submit(s) \/ Update(s) \/ Count(s)
       \/ \E w \in rows : Verify(w)
       \/ \E p \in Pods : Crash(p)
  BY DEF Next, vars, sending, InvalidateKeys, InvalidateDel, ReadStats, CacheStats, CacheExpires,
         Tick
<1> HIDE DEF Grown
<1>11. IsFiniteSet(rows') /\ UniqueTx' /\ Grown
  BY <1>3, <1>4, <1>5, <1>7, <1>8, <1>9, <1>10
<1> QED
  BY <1>1, <1>11 DEF Grown

LEMMA OwnRowStep ==
    ASSUME RowInv, [Next]_vars
    PROVE  OwnRow'
<1> USE DEF RowInv
<1>1. ASSUME NEW s \in Sends, Create(s) PROVE OwnRow'
  <2>1. PICK id \in TxIds :
          /\ tx' = [tx EXCEPT ![s] = id]
          /\ \/ /\ rows' = rows \cup
                     {[tx |-> id, send |-> s, status |-> "PENDING", smid |-> FALSE]}
                /\ pc' = [pc EXCEPT ![s] = "submit"]
             \/ /\ pc' = [pc EXCEPT ![s] = "threw"]
                /\ rows' = rows
    BY <1>1, CreateShape
  <2> SUFFICES ASSUME NEW r \in Sends, pc'[r] \in {"submit", "update"}
               PROVE  \E w \in rows' : w.tx = tx'[r] /\ w.send = r
                                        /\ w.status = "PENDING" /\ w.smid = FALSE
    BY DEF OwnRow
  <2>2. CASE r = s
    <3> DEFINE new == [tx |-> id, send |-> s, status |-> "PENDING", smid |-> FALSE]
    <3>1. new \in rows' /\ tx'[s] = id
      BY <2>1, <2>2 DEF TypeOK
    <3> QED
      BY <2>2, <3>1
  <2>3. CASE r # s
    <3>1. pc[r] \in {"submit", "update"} /\ tx'[r] = tx[r] /\ rows \subseteq rows'
      BY <2>1, <2>3 DEF TypeOK
    <3> QED
      BY <3>1 DEF OwnRow
  <2> QED
    BY <2>2, <2>3
<1>2. ASSUME NEW s \in Sends, Submit(s) PROVE OwnRow'
  BY <1>2 DEF Submit, Go, OwnRow, TypeOK
<1>3. ASSUME NEW s \in Sends, Update(s) PROVE OwnRow'
  <2>1. pc[s] = "update" /\ pc' = [pc EXCEPT ![s] = "count"] /\ UNCHANGED tx
    BY <1>3 DEF Update, Go
  <2> SUFFICES ASSUME NEW r \in Sends, pc'[r] \in {"submit", "update"}
               PROVE  \E w \in rows' : w.tx = tx'[r] /\ w.send = r
                                        /\ w.status = "PENDING" /\ w.smid = FALSE
    BY DEF OwnRow
  <2>2. r # s /\ pc[r] \in {"submit", "update"}
    BY <2>1 DEF TypeOK
  <2>3. PICK w \in rows : w.tx = tx[r] /\ w.send = r /\ w.status = "PENDING" /\ w.smid = FALSE
    BY <2>2 DEF OwnRow
  <2>4. w.tx # tx[s]
    <3>1. PICK v \in rows : v.tx = tx[s] /\ v.send = s
      BY <2>1 DEF OwnRow
    <3> QED
      BY <2>2, <2>3, <3>1 DEF UniqueTx
  <2>5. CASE rows' = Updated(s)
    <3>1. PICK v \in Updated(s) : v.tx = w.tx
      BY UpdatedShape
    <3>2. v = w
      BY <2>4, <3>1, UpdatedShape DEF UniqueTx
    <3> QED
      BY <2>1, <2>3, <2>5, <3>1, <3>2
  <2> QED
    BY <1>3, <2>1, <2>3, <2>5 DEF Update
<1>4. ASSUME NEW w \in rows, Verify(w) PROVE OwnRow'
  <2>1. /\ \A u \in rows : u.smid = FALSE => u \in rows'
        /\ pc' = pc /\ tx' = tx
    BY <1>4, VerifyShape
  <2> QED
    BY <2>1 DEF OwnRow
<1>5. ASSUME NEW s \in Sends, Count(s) PROVE OwnRow'
  BY <1>5 DEF Count, Go, OwnRow, TypeOK
<1>6. ASSUME NEW p \in Pods, Crash(p) PROVE OwnRow'
  BY <1>6 DEF Crash, OwnRow
<1>7. CASE UNCHANGED <<rows, pc, tx>>
  BY <1>7 DEF OwnRow
<1>8. \/ UNCHANGED <<rows, pc, tx>>
      \/ \E s \in Sends : Create(s) \/ Submit(s) \/ Update(s) \/ Count(s)
      \/ \E w \in rows : Verify(w)
      \/ \E p \in Pods : Crash(p)
  BY DEF Next, vars, sending, InvalidateKeys, InvalidateDel, ReadStats, CacheStats, CacheExpires,
         Tick
<1> QED
  BY <1>1, <1>2, <1>3, <1>4, <1>5, <1>6, <1>7, <1>8

LEMMA RowStep == RowInv /\ [Next]_vars => RowInv'
BY TypeStep, TableStep, OwnRowStep DEF RowInv

LEMMA RowInit == Init => RowInv
BY TypeInit, FS_EmptySet DEF Init, RowInv, UniqueTx, OwnRow

-----------------------------------------------------------------------------
(* The row of a submission is there before the submission. *)
RowFirst ==
    \A s \in Sends : pc[s] = "submit" => submits[s] < Cardinality(RowsOf(s))

LEMMA LossStep ==
    ASSUME RowInv, NoTransactionLost, RowFirst, [Next]_vars
    PROVE  (NoTransactionLost /\ RowFirst)'
<1>1. ASSUME NEW s \in Sends
      PROVE  /\ submits[s] \in Nat /\ Cardinality(RowsOf(s)) \in Nat
             /\ Cardinality(RowsOf(s)') \in Nat
             /\ Cardinality(RowsOf(s)') >= Cardinality(RowsOf(s))
             /\ pc'[s] = "submit" /\ pc[s] # "submit" =>
                   Cardinality(RowsOf(s)') = Cardinality(RowsOf(s)) + 1
  BY TableStep, FS_CardinalityType DEF RowInv, TypeOK
<1>2. ASSUME NEW s \in Sends
      PROVE  \/ submits'[s] = submits[s]
             \/ pc[s] = "submit" /\ pc'[s] = "update" /\ submits'[s] = submits[s] + 1
  <2>1. CASE \E r \in Sends : Submit(r)
    BY <2>1 DEF Submit, Go, RowInv, TypeOK
  <2>2. CASE ~ \E r \in Sends : Submit(r)
    BY <2>2 DEF Next, vars, sending, Create, Update, Count, InvalidateKeys, InvalidateDel,
                Verify, ReadStats, CacheStats, CacheExpires, Tick, Crash
  <2> QED
    BY <2>1, <2>2
<1>3. ASSUME NEW s \in Sends
      PROVE  /\ submits'[s] <= Cardinality(RowsOf(s)')
             /\ pc'[s] = "submit" => submits'[s] < Cardinality(RowsOf(s)')
  <2>1. submits[s] <= Cardinality(RowsOf(s))
    BY DEF NoTransactionLost, RowsOf
  <2>2. pc[s] = "submit" => submits[s] < Cardinality(RowsOf(s))
    BY DEF RowFirst
  <2> QED
    BY <1>1, <1>2, <2>1, <2>2
<1> QED
  BY <1>3 DEF NoTransactionLost, RowFirst, RowsOf

(* "We never lose a transaction": a submission the table has no row for *)
(* does not exist, whatever failed or crashed.                          *)
THEOREM EverySubmissionHasARow == Spec => []NoTransactionLost
<1>1. Init => NoTransactionLost /\ RowFirst
  <2>1. Init => \A s \in Sends : {w \in rows : w.send = s} = {}
    BY DEF Init
  <2> QED
    BY <2>1, FS_EmptySet DEF Init, NoTransactionLost, RowFirst
<1>2. RowInv /\ NoTransactionLost /\ RowFirst /\ [Next]_vars
        => (RowInv /\ NoTransactionLost /\ RowFirst)'
  BY RowStep, LossStep
<1> QED
  BY <1>1, <1>2, RowInit, PTL DEF Spec

-----------------------------------------------------------------------------
(* The update of a send comes before its report: the row it writes is the *)
(* row of its own run, and PENDING.                                       *)
LEMMA DeliveredStep ==
    ASSUME RowInv, [Next]_vars
    PROVE  \A w \in rows : w.status = "DELIVERED" => w \in rows'
<1> SUFFICES ASSUME NEW w \in rows, w.status = "DELIVERED"
             PROVE  w \in rows'
  OBVIOUS
<1> USE DEF RowInv
<1>1. ASSUME NEW s \in Sends, Update(s) PROVE w \in rows'
  <2>1. w.tx # tx[s]
    BY <1>1 DEF Update, OwnRow, UniqueTx
  <2>2. CASE rows' = Updated(s)
    <3>1. PICK v \in Updated(s) : v.tx = w.tx
      BY UpdatedShape
    <3>2. v = w
      BY <2>1, <3>1, UpdatedShape DEF UniqueTx
    <3> QED
      BY <2>2, <3>1, <3>2
  <2> QED
    BY <1>1, <2>2 DEF Update
<1>2. ASSUME NEW v \in rows, Verify(v) PROVE w \in rows'
  BY <1>2, VerifyShape
<1>3. CASE rows \subseteq rows'
  BY <1>3
<1>4. \/ rows' = rows
      \/ \E s \in Sends : Create(s) \/ Update(s)
      \/ \E v \in rows : Verify(v)
  BY DEF Next, vars, sending, Submit, Count, InvalidateKeys, InvalidateDel, ReadStats,
         CacheStats, CacheExpires, Tick, Crash
<1>5. ASSUME NEW s \in Sends, Create(s) PROVE rows \subseteq rows'
  BY <1>5, CreateShape
<1> QED
  BY <1>1, <1>2, <1>3, <1>4, <1>5

(* No update of a send, of this run or of another, replaces the report of *)
(* the gateway that the SMS was delivered.                                *)
THEOREM DeliveryReportsStay == Spec => DeliveredStays
<1>1. RowInv /\ [Next]_vars => [\A w \in rows : w.status = "DELIVERED" => w \in rows']_vars
  BY DeliveredStep
<1> QED
  BY <1>1, RowInit, RowStep, PTL DEF Spec, DeliveredStays

-----------------------------------------------------------------------------
(* The row of a run whose update was not lost says what the gateway said,  *)
(* or what it reported since.                                              *)
ReplyRecorded ==
    faults = 0 =>
        \A s \in Sends : pc[s] \in {"count", "returned"} =>
            \E w \in rows :
                /\ w.tx = tx[s] /\ w.send = s /\ w.smid = reply[s].smid
                /\ w.status = Final(s) \/ (w.smid /\ w.status = "DELIVERED")

LEMMA UpdateWrites ==
    ASSUME TypeOK, NEW s \in Sends, NEW w \in rows
    PROVE  /\ w.tx # tx[s] => w \in Updated(s)
           /\ w.tx = tx[s] => \E v \in Updated(s) :
                v.tx = w.tx /\ v.send = w.send /\ v.status = Final(s) /\ v.smid = reply[s].smid
<1> DEFINE U(u) == IF u.tx = tx[s] THEN [u EXCEPT !.status = Final(s), !.smid = reply[s].smid]
                   ELSE u
<1>1. U(w) \in Updated(s)
  BY DEF Updated
<1>2. w.tx = tx[s] => /\ U(w).tx = w.tx /\ U(w).send = w.send
                      /\ U(w).status = Final(s) /\ U(w).smid = reply[s].smid
  BY DEF TypeOK, Rows
<1> QED
  BY <1>1, <1>2

LEMMA VerifyKeeps ==
    ASSUME TypeOK, NEW w \in rows, Verify(w), NEW u \in rows
    PROVE  \E v \in rows' : /\ v.tx = u.tx /\ v.send = u.send /\ v.smid = u.smid
                            /\ v.status = u.status \/ (v.smid /\ v.status = "DELIVERED")
<1> DEFINE V(v) == IF v.smid /\ v.tx = w.tx THEN [v EXCEPT !.status = "DELIVERED"] ELSE v
<1>1. V(u) \in rows'
  BY DEF Verify
<1>2. /\ V(u).tx = u.tx /\ V(u).send = u.send /\ V(u).smid = u.smid
      /\ V(u).status = u.status \/ (V(u).smid /\ V(u).status = "DELIVERED")
  BY DEF TypeOK, Rows
<1> QED
  BY <1>1, <1>2

LEMMA ReplyStep ==
    ASSUME RowInv, ReplyRecorded, [Next]_vars
    PROVE  ReplyRecorded'
<1> DEFINE Says(w, s) == /\ w.tx = tx[s] /\ w.send = s /\ w.smid = reply[s].smid
                         /\ w.status = Final(s) \/ (w.smid /\ w.status = "DELIVERED")
<1> USE DEF RowInv
<1> SUFFICES ASSUME faults' = 0, NEW s \in Sends, pc'[s] \in {"count", "returned"}
             PROVE  \E w \in rows' : Says(w, s)'
  BY DEF ReplyRecorded
<1>1. ASSUME faults = 0, pc[s] \in {"count", "returned"}, rows \subseteq rows',
             tx'[s] = tx[s], reply'[s] = reply[s]
      PROVE  \E w \in rows' : Says(w, s)'
  BY <1>1 DEF ReplyRecorded, Final
<1>2. ASSUME NEW r \in Sends, Create(r) PROVE \E w \in rows' : Says(w, s)'
  <2>1. PICK id \in TxIds :
          /\ tx' = [tx EXCEPT ![r] = id]
          /\ \/ /\ rows' = rows \cup
                     {[tx |-> id, send |-> r, status |-> "PENDING", smid |-> FALSE]}
                /\ pc' = [pc EXCEPT ![r] = "submit"]
                /\ faults' = faults
             \/ /\ faults' = faults \/ (faults < MaxFaults /\ faults' = faults + 1)
                /\ pc' = [pc EXCEPT ![r] = "threw"]
                /\ rows' = rows
          /\ reply' = reply
    BY <1>2, CreateShape
  <2>2. s # r /\ pc[s] = pc'[s] /\ tx'[s] = tx[s] /\ rows \subseteq rows' /\ faults = 0
    BY <2>1, BoundsAreNat DEF TypeOK
  <2> QED
    BY <1>1, <2>1, <2>2
<1>3. ASSUME NEW r \in Sends, Submit(r) PROVE \E w \in rows' : Says(w, s)'
  BY <1>1, <1>3 DEF Submit, Go, TypeOK
<1>4. ASSUME NEW r \in Sends, Update(r) PROVE \E w \in rows' : Says(w, s)'
  <2>1. /\ pc[r] = "update" /\ pc' = [pc EXCEPT ![r] = "count"]
        /\ rows' = Updated(r) /\ faults = 0 /\ UNCHANGED <<tx, reply>>
    BY <1>4, BoundsAreNat DEF Update, Go, TypeOK
  <2>2. PICK own \in rows : own.tx = tx[r] /\ own.send = r
    BY <2>1 DEF OwnRow
  <2>3. CASE s = r
    <3>1. PICK v \in Updated(r) : /\ v.tx = own.tx /\ v.send = own.send
                                  /\ v.status = Final(r) /\ v.smid = reply[r].smid
      BY <2>2, UpdateWrites
    <3> QED
      BY <2>1, <2>2, <2>3, <3>1 DEF Final
  <2>4. CASE s # r
    <3>1. pc[s] \in {"count", "returned"}
      BY <2>1, <2>4 DEF TypeOK
    <3>2. PICK w \in rows : Says(w, s)
      BY <2>1, <3>1 DEF ReplyRecorded
    <3>3. w.tx # tx[r]
      BY <2>2, <2>4, <3>2 DEF UniqueTx
    <3>4. w \in rows'
      BY <2>1, <3>3, UpdateWrites
    <3> QED
      BY <2>1, <3>2, <3>4 DEF Final
  <2> QED
    BY <2>3, <2>4
<1>5. ASSUME NEW w \in rows, Verify(w) PROVE \E v \in rows' : Says(v, s)'
  <2>1. UNCHANGED <<pc, tx, reply, faults>>
    BY <1>5 DEF Verify
  <2>2. PICK u \in rows : Says(u, s)
    BY <2>1 DEF ReplyRecorded
  <2>3. PICK v \in rows' : /\ v.tx = u.tx /\ v.send = u.send /\ v.smid = u.smid
                           /\ v.status = u.status \/ (v.smid /\ v.status = "DELIVERED")
    BY <1>5, VerifyKeeps
  <2> QED
    BY <2>1, <2>2, <2>3 DEF Final
<1>6. ASSUME NEW r \in Sends, Count(r) PROVE \E w \in rows' : Says(w, s)'
  BY <1>1, <1>6, BoundsAreNat DEF Count, Go, TypeOK
<1>7. ASSUME NEW p \in Pods, Crash(p) PROVE \E w \in rows' : Says(w, s)'
  BY <1>1, <1>7 DEF Crash
<1>8. CASE UNCHANGED <<rows, pc, tx, reply, faults>>
  BY <1>1, <1>8
<1>9. \/ UNCHANGED <<rows, pc, tx, reply, faults>>
      \/ \E r \in Sends : Create(r) \/ Submit(r) \/ Update(r) \/ Count(r)
      \/ \E w \in rows : Verify(w)
      \/ \E p \in Pods : Crash(p)
  BY DEF Next, vars, sending, InvalidateKeys, InvalidateDel, ReadStats, CacheStats, CacheExpires,
         Tick
<1> QED
  BY <1>2, <1>3, <1>4, <1>5, <1>6, <1>7, <1>8, <1>9

(* Without a database error a send that has its answer has a row with that  *)
(* answer, and no crash, later send or report takes it back: its row does   *)
(* not stay PENDING.                                                        *)
THEOREM RepliesAreRecorded == Spec => []ReplyRecorded
<1>1. Init => ReplyRecorded
  BY DEF Init, ReplyRecorded
<1>2. RowInv /\ ReplyRecorded /\ [Next]_vars => (RowInv /\ ReplyRecorded)'
  BY RowStep, ReplyStep
<1> QED
  BY <1>1, <1>2, RowInit, PTL DEF Spec

-----------------------------------------------------------------------------
Accepted == {s \in Sends : pc[s] = "returned" /\ reply[s].ok}
Refused  == {s \in Sends : pc[s] = "returned" /\ ~reply[s].ok}

(* The counters of the day against the sends that returned *)
StatsMatchReplies ==
    /\ stats.success <= Cardinality(Accepted)
    /\ stats.fail <= Cardinality(Refused)
    /\ Cardinality(Accepted) + Cardinality(Refused) <= stats.success + stats.fail + faults

StatsInv ==
    TypeOK /\ IsFiniteSet(Accepted) /\ IsFiniteSet(Refused) /\ StatsMatchReplies

LEMMA StatsStep ==
    ASSUME StatsInv, [Next]_vars
    PROVE  StatsInv'
<1> USE DEF StatsInv
<1>1. TypeOK'
  BY TypeStep
<1>2. /\ Cardinality(Accepted) \in Nat /\ Cardinality(Refused) \in Nat
      /\ stats.success \in Nat /\ stats.fail \in Nat /\ faults \in Nat /\ faults' \in Nat
  BY <1>1, FS_CardinalityType, BoundsAreNat DEF TypeOK, Stats
<1>3. ASSUME NEW s \in Sends, Count(s) PROVE StatsInv'
  <2>1. /\ pc[s] = "count" /\ pc' = [pc EXCEPT ![s] = "returned"] /\ reply' = reply
        /\ \/ stats' = Counted(s) /\ faults' = faults
           \/ stats' = stats /\ faults' = faults + 1
    BY <1>3 DEF Count, Go
  <2>2. CASE reply[s].ok
    <3>1. /\ Accepted' = Accepted \cup {s} /\ s \notin Accepted
          /\ Refused' = Refused
      BY <2>1, <2>2 DEF Accepted, Refused, TypeOK
    <3>2. /\ IsFiniteSet(Accepted')
          /\ Cardinality(Accepted') = Cardinality(Accepted) + 1
      BY <3>1, FS_AddElement
    <3>3. \/ stats'.success = stats.success + 1 /\ stats'.fail = stats.fail /\ faults' = faults
          \/ stats' = stats /\ faults' = faults + 1
      BY <2>1, <2>2 DEF Counted, TypeOK, Stats
    <3> QED
      BY <1>1, <1>2, <3>1, <3>2, <3>3 DEF StatsMatchReplies
  <2>3. CASE ~reply[s].ok
    <3>1. /\ Refused' = Refused \cup {s} /\ s \notin Refused
          /\ Accepted' = Accepted
      BY <2>1, <2>3 DEF Accepted, Refused, TypeOK
    <3>2. /\ IsFiniteSet(Refused')
          /\ Cardinality(Refused') = Cardinality(Refused) + 1
      BY <3>1, FS_AddElement
    <3>3. \/ stats'.fail = stats.fail + 1 /\ stats'.success = stats.success /\ faults' = faults
          \/ stats' = stats /\ faults' = faults + 1
      BY <2>1, <2>3 DEF Counted, TypeOK, Stats
    <3> QED
      BY <1>1, <1>2, <3>1, <3>2, <3>3 DEF StatsMatchReplies
  <2> QED
    BY <2>2, <2>3
<1>4. ASSUME \A s \in Sends : pc'[s] = "returned" <=> pc[s] = "returned",
             \A s \in Sends : pc[s] = "returned" => reply'[s] = reply[s],
             stats' = stats, faults' >= faults
      PROVE  StatsInv'
  <2>1. Accepted' = Accepted /\ Refused' = Refused
    BY <1>4 DEF Accepted, Refused
  <2> QED
    BY <1>1, <1>2, <1>4, <2>1 DEF StatsMatchReplies
<1>5. ASSUME NEW s \in Sends, Create(s) PROVE StatsInv'
  <2>1. /\ pc[s] \in {"idle", "threw"} /\ reply' = reply /\ stats' = stats
        /\ faults' = faults \/ faults' = faults + 1
        /\ \/ pc' = [pc EXCEPT ![s] = "submit"] \/ pc' = [pc EXCEPT ![s] = "threw"]
    BY <1>5, CreateShape
  <2> QED
    BY <1>2, <1>4, <2>1 DEF TypeOK
<1>6. ASSUME NEW s \in Sends, Submit(s) PROVE StatsInv'
  BY <1>2, <1>4, <1>6 DEF Submit, Go, TypeOK
<1>7. ASSUME NEW s \in Sends, Update(s) PROVE StatsInv'
  BY <1>2, <1>4, <1>7 DEF Update, Go, TypeOK
<1>8. ASSUME NEW w \in rows, Verify(w) PROVE StatsInv'
  BY <1>2, <1>4, <1>8 DEF Verify
<1>9. ASSUME NEW p \in Pods, Crash(p) PROVE StatsInv'
  BY <1>2, <1>4, <1>9 DEF Crash, Running, TypeOK
<1>10. CASE UNCHANGED <<pc, reply, stats, faults>>
  BY <1>2, <1>4, <1>10
<1>11. \/ UNCHANGED <<pc, reply, stats, faults>>
       \/ \E s \in Sends : Create(s) \/ Submit(s) \/ Update(s) \/ Count(s)
       \/ \E w \in rows : Verify(w)
       \/ \E p \in Pods : Crash(p)
  BY DEF Next, vars, sending, InvalidateKeys, InvalidateDel, ReadStats, CacheStats, CacheExpires,
         Tick
<1> QED
  BY <1>3, <1>5, <1>6, <1>7, <1>8, <1>9, <1>10, <1>11

(* The day's statistics count every send that returned, once and under the *)
(* answer it got, whatever crashed or was run again; they miss at most one *)
(* for each database error that onSmsSent swallowed.                       *)
THEOREM StatsCountTheReplies == Spec => []StatsMatchReplies
<1>1. Init => StatsInv
  <2>1. Init => Accepted = {} /\ Refused = {}
    BY DEF Init, Accepted, Refused
  <2> QED
    BY <2>1, TypeInit, FS_EmptySet DEF Init, StatsInv, StatsMatchReplies
<1>2. StatsInv /\ [Next]_vars => StatsInv'
  BY StatsStep
<1>3. StatsInv => StatsMatchReplies
  BY DEF StatsInv
<1> QED
  BY <1>1, <1>2, <1>3, PTL DEF Spec

-----------------------------------------------------------------------------
(* What the cache says about today is right, or an invalidation that will *)
(* remove it is under way.                                                *)
FreshOrInvalidated ==
    crashes = 0 =>
        \A q \in Dated \ raced :
            \/ cache[q] \in {NoStats, stats}
            \/ \E s \in Sends : inval[s].at = "keys" \/ (inval[s].at = "del" /\ q \in inval[s].found)

LEMMA CacheStep ==
    ASSUME TypeOK, FreshOrInvalidated, [Next]_vars
    PROVE  FreshOrInvalidated'
<1> USE SmsAssumption, BoundsAreNat DEF TypeOK, FreshOrInvalidated
<1>1. ASSUME NEW s \in Sends, Count(s) PROVE FreshOrInvalidated'
  BY <1>1 DEF Count, caching
<1>2. ASSUME NEW s \in Sends, InvalidateKeys(s) PROVE FreshOrInvalidated'
  BY <1>2 DEF InvalidateKeys, caching
<1>3. ASSUME NEW s \in Sends, InvalidateDel(s) PROVE FreshOrInvalidated'
  BY <1>3 DEF InvalidateDel, NoInval
<1>4. ASSUME NEW q \in Queries, CacheStats(q) PROVE FreshOrInvalidated'
  BY <1>4 DEF CacheStats
<1>5. ASSUME NEW q \in Queries, CacheExpires(q) PROVE FreshOrInvalidated'
  BY <1>5 DEF CacheExpires
<1>6. ASSUME NEW p \in Pods, Crash(p) PROVE FreshOrInvalidated'
  BY <1>6 DEF Crash
<1>7. CASE UNCHANGED <<stats, cache, raced, inval, crashes>>
  BY <1>7
<1>8. \/ UNCHANGED <<stats, cache, raced, inval, crashes>>
      \/ \E s \in Sends : Count(s) \/ InvalidateKeys(s) \/ InvalidateDel(s)
      \/ \E q \in Queries : CacheStats(q) \/ CacheExpires(q)
      \/ \E p \in Pods : Crash(p)
  BY DEF Next, vars, caching, Create, Submit, Update, Verify, ReadStats, Tick
<1> HIDE DEF TypeOK, FreshOrInvalidated
<1> QED
  BY <1>1, <1>2, <1>3, <1>4, <1>5, <1>6, <1>7, <1>8

(* With the invalidations through, today's statistics are read as they are *)
(* in the table, unless the read behind the cached ones raced with a send. *)
THEOREM TodayIsFresh == Spec => []DatedCacheFresh
<1>1. Init => FreshOrInvalidated
  BY SmsAssumption DEF Init, FreshOrInvalidated
<1>2. TypeOK /\ FreshOrInvalidated /\ [Next]_vars => (TypeOK /\ FreshOrInvalidated)'
  BY TypeStep, CacheStep
<1>3. FreshOrInvalidated => DatedCacheFresh
  BY DEF FreshOrInvalidated, DatedCacheFresh, NoInval
<1> QED
  BY <1>1, <1>2, <1>3, TypeInit, PTL DEF Spec

-----------------------------------------------------------------------------
(* Division with remainder, by a divisor that is not a numeral *)
LEMMA Division ==
    ASSUME NEW m \in Nat, m > 0, NEW n \in Nat
    PROVE  /\ n = m * (n \div m) + (n % m)
           /\ n \div m \in Nat
           /\ n % m \in 0 .. m - 1
<1>1. n = m * (n \div m) + (n % m)
  OBVIOUS
<1>2. n \div m \in Nat
  OBVIOUS
<1>3. n % m \in 0 .. m - 1
  OBVIOUS
<1> QED
  BY <1>1, <1>2, <1>3

LEMMA DivMod ==
    ASSUME NEW n \in Nat
    PROVE  /\ n = Modulus * (n \div Modulus) + (n % Modulus)
           /\ n \div Modulus \in Nat /\ n % Modulus \in 0 .. Modulus - 1
<1>1. Modulus \in Nat /\ Modulus > 0
  BY BoundsAreNat
<1> QED
  BY <1>1, Division

LEMMA MultiplesApart ==
    ASSUME NEW a \in Int, NEW b \in Int, a < b
    PROVE  Modulus * b >= Modulus * a + Modulus
<1>1. b - a - 1 \in Nat
  OBVIOUS
<1>2. Modulus * (b - a - 1) >= 0
  BY <1>1, SmsAssumption
<1>3. Modulus * (b - a - 1) = Modulus * b - Modulus * a - Modulus
  BY SmsAssumption
<1> QED
  BY <1>2, <1>3, SmsAssumption

(* Numbers with the same remainder are a modulus apart. *)
LEMMA SameRemainderApart ==
    ASSUME NEW i \in Nat, NEW j \in Nat, i < j, i % Modulus = j % Modulus
    PROVE  j - i >= Modulus
<1> DEFINE a == i \div Modulus
           b == j \div Modulus
<1>1. /\ i = Modulus * a + (i % Modulus) /\ j = Modulus * b + (j % Modulus)
      /\ a \in Nat /\ b \in Nat /\ i % Modulus \in 0 .. Modulus - 1
  BY DivMod
<1> USE SmsAssumption
<1> HIDE DEF a, b
<1>2. Modulus * a < Modulus * b
  BY <1>1
<1>3. ~(b <= a)
  BY <1>1, <1>2, MultiplesApart
<1> QED
  BY <1>1, <1>3, MultiplesApart

LEMMA RemainderUnique ==
    ASSUME NEW x \in Nat, NEW q \in Nat, NEW r \in 0 .. Modulus - 1, x = Modulus * q + r
    PROVE  x % Modulus = r
<1> DEFINE a == x \div Modulus
           s == x % Modulus
<1>1. x = Modulus * a + s /\ a \in Nat /\ s \in 0 .. Modulus - 1
  BY DivMod
<1> USE SmsAssumption
<1> HIDE DEF a, s
<1>2. ~(a < q) /\ ~(q < a)
  BY <1>1, MultiplesApart
<1> QED
  BY <1>1, <1>2 DEF s

(* (txSeq + 1) % modulus counts the ids, modulo the modulus. *)
LEMMA NextRemainder ==
    ASSUME NEW n \in Nat
    PROVE  ((n % Modulus) + 1) % Modulus = (n + 1) % Modulus
<1> DEFINE q == n \div Modulus
           r == n % Modulus
<1>1. n = Modulus * q + r /\ q \in Nat /\ r \in 0 .. Modulus - 1
  BY DivMod
<1> USE SmsAssumption
<1> HIDE DEF q, r
<1>2. CASE r + 1 < Modulus
  <2>1. (r + 1) % Modulus = r + 1
    BY <1>1, <1>2
  <2>2. (n + 1) % Modulus = r + 1
    BY <1>1, <1>2, RemainderUnique
  <2> QED
    BY <2>1, <2>2 DEF r
<1>3. CASE r + 1 = Modulus
  <2>1. n + 1 = Modulus * (q + 1) + 0
    BY <1>1, <1>3
  <2>2. (n + 1) % Modulus = 0
    BY <1>1, <1>3, <2>1, RemainderUnique
  <2>3. Modulus = Modulus * 1 + 0
    OBVIOUS
  <2>4. Modulus % Modulus = 0
    BY <2>3, RemainderUnique
  <2> QED
    BY <1>3, <2>2, <2>4 DEF r
<1> QED
  BY <1>1, <1>2, <1>3

-----------------------------------------------------------------------------
(* The ids of a pod that has not restarted can be numbered in the order of *)
(* their generation: f[i] is the i-th of n.                                *)
Numbers(p, n, f) ==
    /\ \A i \in 1 .. n : f[i] \in issued /\ pod[f[i].send] = p
    /\ \A c \in issued : pod[c.send] = p => \E i \in 1 .. n : f[i] = c
    /\ \A i, j \in 1 .. n : f[i] = f[j] => i = j
    /\ \A i \in 1 .. n : f[i].tx.seq = i % Modulus
    /\ \A i \in 1 .. n : f[i].tx.second <= clock
    /\ \A i, j \in 1 .. n : i <= j => f[i].tx.second <= f[j].tx.second
    /\ seq[p] = n % Modulus

Numbered == crashes = 0 => \A p \in Pods : \E n \in Nat : \E f : Numbers(p, n, f)

(* Every run of a send has one id. *)
RunsIssued == \A c \in issued : c.run <= runs[c.send]

IssueInv == TypeOK /\ IsFiniteSet(issued) /\ RunsIssued /\ Numbered

(* One more id of pod p *)
LEMMA NumbersExtend ==
    ASSUME TypeOK, NEW p \in Pods, NEW n \in Nat, NEW f, Numbers(p, n, f),
           NEW new, issued' = issued \cup {new}, new \notin issued, pod[new.send] = p,
           new.tx = [second |-> clock, seq |-> NextSeq(p)], seq'[p] = NextSeq(p),
           UNCHANGED <<pod, clock>>
    PROVE  \E m \in Nat : \E g : Numbers(p, m, g)'
<1> DEFINE g == [i \in 1 .. n + 1 |-> IF i = n + 1 THEN new ELSE f[i]]
<1>1. /\ \A i \in 1 .. n : g[i] = f[i]
      /\ g[n + 1] = new
      /\ \A i \in 1 .. n + 1 : i \in 1 .. n \/ i = n + 1
  OBVIOUS
<1> HIDE DEF g
<1>2. NextSeq(p) = (n + 1) % Modulus
  BY NextRemainder DEF NextSeq, Numbers
<1>3. new.tx.second = clock /\ new.tx.seq = (n + 1) % Modulus
  BY <1>2
<1>4. \A i \in 1 .. n + 1 : g[i] \in issued' /\ pod'[g[i].send] = p
  BY <1>1 DEF Numbers
<1>5. \A c \in issued' : pod'[c.send] = p => \E i \in 1 .. n + 1 : g[i] = c
  <2> SUFFICES ASSUME NEW c \in issued', pod'[c.send] = p
               PROVE  \E i \in 1 .. n + 1 : g[i] = c
    OBVIOUS
  <2>1. CASE c = new
    BY <1>1, <2>1
  <2>2. CASE c \in issued
    <3>1. PICK i \in 1 .. n : f[i] = c
      BY <2>2 DEF Numbers
    <3> QED
      BY <1>1, <3>1
  <2> QED
    BY <2>1, <2>2
<1>6. \A i, j \in 1 .. n + 1 : g[i] = g[j] => i = j
  <2> SUFFICES ASSUME NEW i \in 1 .. n + 1, NEW j \in 1 .. n + 1, g[i] = g[j]
               PROVE  i = j
    OBVIOUS
  <2>1. \A k \in 1 .. n : g[k] \in issued
    BY <1>1 DEF Numbers
  <2> QED
    BY <1>1, <2>1 DEF Numbers
<1>7. \A i \in 1 .. n + 1 : g[i].tx.seq = i % Modulus
  BY <1>1, <1>3 DEF Numbers
<1>8. /\ \A i \in 1 .. n + 1 : g[i].tx.second <= clock'
      /\ \A i, j \in 1 .. n + 1 : i <= j => g[i].tx.second <= g[j].tx.second
  <2>1. clock \in Int /\ clock' = clock
    BY DEF TypeOK
  <2>2. \A i \in 1 .. n : g[i].tx.second <= clock
    BY <1>1 DEF Numbers
  <2>3. \A i, j \in 1 .. n : i <= j => g[i].tx.second <= g[j].tx.second
    BY <1>1 DEF Numbers
  <2>4. g[n + 1].tx.second = clock
    BY <1>1, <1>3
  <2>5. \A i \in 1 .. n + 1 : g[i].tx.second <= clock'
    BY <1>1, <2>1, <2>2, <2>4
  <2>6. ASSUME NEW i \in 1 .. n + 1, NEW j \in 1 .. n + 1, i <= j
        PROVE  g[i].tx.second <= g[j].tx.second
    <3>1. CASE j = n + 1
      BY <2>1, <2>4, <2>5, <3>1
    <3>2. CASE j \in 1 .. n
      <4>1. i \in 1 .. n
        BY <2>6, <3>2
      <4> QED
        BY <2>3, <2>6, <3>2, <4>1
    <3> QED
      BY <1>1, <3>1, <3>2
  <2> QED
    BY <2>5, <2>6
<1>9. Numbers(p, n + 1, g)'
  BY <1>2, <1>4, <1>5, <1>6, <1>7, <1>8 DEF Numbers
<1> QED
  BY <1>9

(* A creation adds an id of a run that had none. *)
LEMMA RunsStep == IssueInv /\ [Next]_vars => RunsIssued' /\ IsFiniteSet(issued)'
<1> SUFFICES ASSUME IssueInv, [Next]_vars PROVE RunsIssued' /\ IsFiniteSet(issued)'
  OBVIOUS
<1> USE DEF IssueInv, RunsIssued
<1>1. ASSUME NEW s \in Sends, Create(s) PROVE RunsIssued' /\ IsFiniteSet(issued)'
  <2>1. /\ runs' = [runs EXCEPT ![s] = @ + 1]
        /\ \E id \in TxIds : issued' = issued \cup {[tx |-> id, send |-> s, run |-> runs[s] + 1]}
    BY <1>1, CreateShape
  <2>2. PICK id \in TxIds : issued' = issued \cup {[tx |-> id, send |-> s, run |-> runs[s] + 1]}
    BY <2>1
  <2>3. runs \in [Sends -> Nat] /\ \A c \in issued : c.send \in Sends /\ c.run \in Nat
    BY BoundsAreNat DEF TypeOK
  <2>4. \A t \in Sends : runs[t] <= runs'[t]
    BY <2>1, <2>3
  <2>5. runs'[s] = runs[s] + 1 /\ runs' \in [Sends -> Nat]
    BY <2>1, <2>3
  <2>6. ASSUME NEW c \in issued PROVE c.run <= runs'[c.send]
    BY <2>3, <2>4, <2>5
  <2>7. RunsIssued'
    BY <2>2, <2>5, <2>6
  <2>8. IsFiniteSet(issued)'
    BY <2>2, FS_AddElement
  <2> QED
    BY <2>7, <2>8
<1>2. CASE UNCHANGED <<runs, issued>>
  BY <1>2
<1>3. UNCHANGED <<runs, issued>> \/ \E s \in Sends : Create(s)
  BY DEF Next, vars, sending, Submit, Update, Count, InvalidateKeys, InvalidateDel, Verify,
         ReadStats, CacheStats, CacheExpires, Tick, Crash
<1> QED
  BY <1>1, <1>2, <1>3

(* An id of another pod, a tick, or none of both: the numbers stay. *)
LEMMA NumbersKept ==
    ASSUME TypeOK, TypeOK', NEW p \in Pods, NEW n \in Nat, NEW f, Numbers(p, n, f),
           clock <= clock', seq'[p] = seq[p], pod' = pod, issued \subseteq issued',
           \A c \in issued' : c \in issued \/ pod[c.send] # p
    PROVE  Numbers(p, n, f)'
<1>1. clock \in Int /\ clock' \in Int
  BY DEF TypeOK
<1>2. \A i \in 1 .. n : f[i].tx.second \in Int
  <2> SUFFICES ASSUME NEW i \in 1 .. n PROVE f[i].tx.second \in Int
    OBVIOUS
  <2>1. f[i] \in issued
    BY DEF Numbers
  <2>2. f[i].tx \in TxIds
    BY <2>1 DEF TypeOK
  <2> QED
    BY <2>2 DEF TxIds
<1>3. \A i \in 1 .. n : f[i].tx.second <= clock'
  BY <1>1, <1>2 DEF Numbers
<1> QED
  BY <1>3 DEF Numbers

LEMMA NumberStep == IssueInv /\ [Next]_vars => Numbered'
<1> SUFFICES ASSUME IssueInv, [Next]_vars, crashes' = 0, NEW p \in Pods
             PROVE  \E n \in Nat : \E f : Numbers(p, n, f)'
  BY DEF Numbered
<1>1. TypeOK /\ TypeOK'
  BY TypeStep DEF IssueInv
<1>2. (\E q \in Pods : Crash(q)) => FALSE
  BY <1>1 DEF Crash, TypeOK
<1>3. crashes = 0
  BY <1>2 DEF Next, vars, sending, caching, Create, Submit, Update, Count, InvalidateKeys,
         InvalidateDel, Verify, ReadStats, CacheStats, CacheExpires, Tick
<1>4. PICK n \in Nat : \E f : Numbers(p, n, f)
  BY <1>3 DEF IssueInv, Numbered
<1>5. PICK f : Numbers(p, n, f)
  BY <1>4
<1>6. ASSUME NEW s \in Sends, Create(s)
      PROVE  \E m \in Nat : \E g : Numbers(p, m, g)'
  <2>1. PICK id \in TxIds :
             /\ id = [second |-> clock, seq |-> NextSeq(pod[s])]
             /\ seq' = [seq EXCEPT ![pod[s]] = NextSeq(pod[s])]
             /\ issued' = issued \cup {[tx |-> id, send |-> s, run |-> runs[s] + 1]}
             /\ UNCHANGED <<clock, pod>>
    BY <1>1, <1>6, CreateShape
  <2> DEFINE new == [tx |-> id, send |-> s, run |-> runs[s] + 1]
  <2>2. new.tx = id /\ new.send = s /\ new.run = runs[s] + 1
    OBVIOUS
  <2>3. issued' = issued \cup {new}
    BY <2>1
  <2>4. seq \in [Pods -> Nat] /\ runs[s] \in Nat
    BY <1>1, BoundsAreNat DEF TypeOK
  <2> HIDE DEF new
  <2>5. CASE pod[s] = p
    <3>1. new \notin issued
      BY <2>2, <2>4 DEF IssueInv, RunsIssued
    <3>2. seq'[p] = NextSeq(p)
      BY <2>1, <2>4, <2>5
    <3> QED
      BY <1>1, <1>5, <2>1, <2>2, <2>3, <2>5, <3>1, <3>2, NumbersExtend
  <2>6. CASE pod[s] # p
    <3>1. clock <= clock' /\ seq'[p] = seq[p]
      BY <1>1, <2>1, <2>4, <2>6 DEF TypeOK
    <3> QED
      BY <1>1, <1>5, <2>1, <2>2, <2>3, <2>6, <3>1, NumbersKept
  <2> QED
    BY <2>5, <2>6
<1>7. CASE clock <= clock' /\ UNCHANGED <<seq, pod, issued>>
  BY <1>1, <1>5, <1>7, NumbersKept
<1>8. (\E s \in Sends : Create(s)) \/ (clock <= clock' /\ UNCHANGED <<seq, pod, issued>>)
  <2>1. clock \in Int
    BY <1>1 DEF TypeOK
  <2> QED
    BY <1>2, <2>1 DEF Next, vars, sending, Submit, Update, Count, InvalidateKeys,
         InvalidateDel, Verify, ReadStats, CacheStats, CacheExpires, Tick
<1> QED
  BY <1>6, <1>7, <1>8

LEMMA IssueInit == Init => IssueInv
<1> SUFFICES ASSUME Init PROVE IssueInv
  OBVIOUS
<1>1. TypeOK
  BY TypeInit
<1>2. IsFiniteSet(issued) /\ RunsIssued /\ issued = {}
  BY FS_EmptySet DEF Init, RunsIssued
<1>3. ASSUME NEW p \in Pods PROVE \E n \in Nat : \E f : Numbers(p, n, f)
  <2>1. seq[p] = 0 /\ 0 % Modulus = 0
    BY SmsAssumption DEF Init
  <2>2. \A i \in 1 .. 0 : FALSE
    OBVIOUS
  <2>3. Numbers(p, 0, seq)
    BY <1>2, <2>1, <2>2 DEF Numbers
  <2>4. \E f : Numbers(p, 0, f)
    BY <2>3
  <2> QED
    BY <2>4
<1> QED
  BY <1>1, <1>2, <1>3 DEF IssueInv, Numbered

LEMMA IssueStep == IssueInv /\ [Next]_vars => IssueInv'
BY TypeStep, RunsStep, NumberStep DEF IssueInv

(* The ids that pod p drew within one second *)
Drawn(p, second) == {c \in issued : c.tx.second = second /\ pod[c.send] = p}

(* Two of the ids of a pod that are the same bound a full round of txSeq    *)
(* within the second they share.                                            *)
LEMMA RoundWithinSecond ==
    ASSUME IssueInv, NEW p \in Pods, NEW n \in Nat, NEW f, Numbers(p, n, f),
           NEW i \in 1 .. n, NEW j \in 1 .. n, i < j, f[i].tx = f[j].tx
    PROVE  Cardinality(Drawn(p, f[i].tx.second)) > Modulus
<1> DEFINE C == Drawn(p, f[i].tx.second)
           h == [k \in i .. j |-> f[k]]
<1>1. j - i >= Modulus
  <2>1. i % Modulus = j % Modulus
    BY DEF Numbers
  <2> QED
    BY <2>1, SameRemainderApart
<1>2. \A k \in i .. j : k \in 1 .. n
  OBVIOUS
<1>3. \A k \in i .. j : f[k].tx.second = f[i].tx.second
  <2> SUFFICES ASSUME NEW k \in i .. j PROVE f[k].tx.second = f[i].tx.second
    OBVIOUS
  <2>1. f[i].tx.second <= f[k].tx.second /\ f[k].tx.second <= f[j].tx.second
    BY <1>2 DEF Numbers
  <2>2. \A l \in 1 .. n : f[l].tx.second \in Int
    <3> SUFFICES ASSUME NEW l \in 1 .. n PROVE f[l].tx.second \in Int
      OBVIOUS
    <3>1. f[l] \in issued
      BY DEF Numbers
    <3>2. f[l].tx \in TxIds
      BY <3>1 DEF IssueInv, TypeOK
    <3> QED
      BY <3>2 DEF TxIds
  <2>3. f[i].tx.second \in Int /\ f[k].tx.second \in Int
    BY <1>2, <2>2
  <2> QED
    BY <2>1, <2>3
<1>4. \A k \in i .. j : f[k] \in C
  BY <1>2, <1>3 DEF Numbers, Drawn
<1>5. IsFiniteSet(C)
  BY FS_Subset DEF IssueInv, Drawn
<1>6. \A k, l \in i .. j : f[k] = f[l] => k = l
  BY <1>2 DEF Numbers
<1> HIDE DEF C
<1>7. h \in Injection(i .. j, C)
  BY <1>4, <1>6 DEF Injection, IsInjective
<1>8. IsFiniteSet(i .. j) /\ Cardinality(i .. j) = j - i + 1
  BY FS_Interval
<1>9. Cardinality(i .. j) <= Cardinality(C)
  BY <1>5, <1>7, FS_Injection
<1> QED
  BY <1>1, <1>5, <1>8, <1>9, FS_CardinalityType, SmsAssumption DEF C

LEMMA IssueImplies == IssueInv => RepeatsOnlyAfterModulus
<1> SUFFICES ASSUME IssueInv, crashes = 0, NEW a \in issued, NEW b \in issued,
                    SameId(a, b), pod[a.send] = pod[b.send]
             PROVE  Cardinality(Drawn(pod[a.send], a.tx.second)) > Modulus
  BY DEF RepeatsOnlyAfterModulus, Drawn
<1> DEFINE p == pod[a.send]
<1>1. p \in Pods
  BY DEF IssueInv, TypeOK
<1>2. PICK n \in Nat : \E f : Numbers(p, n, f)
  BY <1>1 DEF IssueInv, Numbered
<1>3. PICK f : Numbers(p, n, f)
  BY <1>2
<1>4. PICK i \in 1 .. n : f[i] = a
  BY <1>3 DEF Numbers
<1>5. PICK j \in 1 .. n : f[j] = b
  BY <1>3 DEF Numbers
<1>6. f[i].tx = f[j].tx /\ a.tx = b.tx /\ i # j
  BY <1>4, <1>5 DEF SameId
<1> HIDE DEF p
<1>7. CASE i < j
  <2>1. Cardinality(Drawn(p, f[i].tx.second)) > Modulus
    BY <1>1, <1>3, <1>6, <1>7, RoundWithinSecond
  <2> QED
    BY <1>4, <2>1 DEF p
<1>8. CASE j < i
  <2>1. Cardinality(Drawn(p, f[j].tx.second)) > Modulus
    BY <1>1, <1>3, <1>6, <1>8, RoundWithinSecond
  <2> QED
    BY <1>5, <1>6, <2>1 DEF p
<1> QED
  BY <1>6, <1>7, <1>8

(* A pod that has not restarted repeats a transaction id only after it has *)
(* drawn more than Modulus ids within the second of that id.               *)
THEOREM IdsRepeatLate == Spec => []RepeatsOnlyAfterModulus
  BY IssueInit, IssueStep, IssueImplies, PTL DEF Spec
=============================================================================
