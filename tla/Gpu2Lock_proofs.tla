--------------------------- MODULE Gpu2Lock_proofs ---------------------------
(***************************************************************************)
(* Safety of Gpu2Lock for every set of coroutines: the type invariant,     *)
(* mutual exclusion, no lost wake-up, no overtaking, and that the lock     *)
(* implements Gpu2Mutex.                                                   *)
(*                                                                         *)
(* Mutual exclusion is not inductive: TakeLock raises the flag without a   *)
(* test, so one has to know that a woken task finds it down.  IInv says    *)
(* why: only the head of the queue is ever woken, only while the lock is   *)
(* free, and until it runs nobody can take the fast path.                  *)
(***************************************************************************)
EXTENDS Gpu2Lock, SequenceTheorems, TLAPS

Queued == /\ \A i, j \in DOMAIN waiters : waiters[i] = waiters[j] => i = j
          /\ \A r \in Reqs : fut[r] # "none" <=> \E i \in DOMAIN waiters : waiters[i] = r

WokenAtHead == \A r \in Reqs : fut[r] = "woken" =>
                   ~locked /\ waiters # <<>> /\ waiters[1] = r

HeadAwake == ~locked /\ waiters # <<>> => fut[waiters[1]] # "pending"

InsideIsOut == \A r \in inside : fut[r] = "none"

IInv == TypeOK /\ Queued /\ WokenAtHead /\ HeadAwake /\ MutualExclusion /\ InsideIsOut
-----------------------------------------------------------------------------
(* Removing the i-th entry keeps the others, in their order. *)
LEMMA WithoutProperties ==
    ASSUME NEW S, NEW q \in Seq(S), NEW i \in DOMAIN q
    PROVE  /\ Without(q, i) \in Seq(S)
           /\ DOMAIN Without(q, i) = 1 .. Len(q) - 1
           /\ \A j \in 1 .. Len(q) - 1 :
                 Without(q, i)[j] = IF j < i THEN q[j] ELSE q[j + 1]
<1>1. Len(q) \in Nat /\ DOMAIN q = 1 .. Len(q) /\ \A j \in 1 .. Len(q) : q[j] \in S
  OBVIOUS
<1>2. Len(q) - 1 \in Nat
  BY <1>1
<1>3. \A j \in 1 .. Len(q) - 1 : (IF j < i THEN q[j] ELSE q[j + 1]) \in S
  BY <1>1
<1>4. Without(q, i) \in [1 .. Len(q) - 1 -> S]
  BY <1>3 DEF Without
<1>5. Without(q, i) \in Seq(S)
  BY <1>2, <1>4
<1>6. QED
  BY <1>4, <1>5 DEF Without

(* In terms of membership: r leaves the queue and everybody else stays. *)
LEMMA WithoutMembers ==
    ASSUME NEW q \in Seq(Reqs), NEW i \in DOMAIN q,
           \A j, k \in DOMAIN q : q[j] = q[k] => j = k,
           NEW w \in Seq(Reqs), w = Without(q, i)
    PROVE  /\ \A j, k \in DOMAIN w : w[j] = w[k] => j = k
           /\ \A r \in Reqs : (\E j \in DOMAIN w : w[j] = r)
                     <=> (r # q[i] /\ \E j \in DOMAIN q : q[j] = r)
           /\ w # <<>> => w[1] = IF i = 1 THEN q[2] ELSE q[1]
           /\ w # <<>> => 1 \in DOMAIN w /\ 2 \in DOMAIN q
<1>1. Len(q) \in Nat \ {0} /\ DOMAIN q = 1 .. Len(q)
  OBVIOUS
<1>2. /\ w \in Seq(Reqs)
      /\ DOMAIN w = 1 .. Len(q) - 1
      /\ \A j \in 1 .. Len(q) - 1 : w[j] = IF j < i THEN q[j] ELSE q[j + 1]
  BY WithoutProperties
<1>3. \A j, k \in DOMAIN w : w[j] = w[k] => j = k
  <2> SUFFICES ASSUME NEW j \in DOMAIN w, NEW k \in DOMAIN w, w[j] = w[k]
               PROVE  j = k
    OBVIOUS
  <2>1. CASE j < i /\ k < i
    BY <1>1, <1>2, <2>1
  <2>2. CASE j < i /\ ~(k < i)
    <3>1. w[j] = q[j] /\ w[k] = q[k + 1]
      BY <1>1, <1>2, <2>2
    <3>2. j \in DOMAIN q /\ k + 1 \in DOMAIN q
      BY <1>1, <1>2
    <3>3. j = k + 1
      BY <3>1, <3>2
    <3>4. QED
      BY <3>3, <1>1, <1>2, <2>2
  <2>3. CASE ~(j < i) /\ k < i
    <3>1. w[j] = q[j + 1] /\ w[k] = q[k]
      BY <1>1, <1>2, <2>3
    <3>2. j + 1 \in DOMAIN q /\ k \in DOMAIN q
      BY <1>1, <1>2
    <3>3. j + 1 = k
      BY <3>1, <3>2
    <3>4. QED
      BY <3>3, <1>1, <1>2, <2>3
  <2>4. CASE ~(j < i) /\ ~(k < i)
    <3>1. w[j] = q[j + 1] /\ w[k] = q[k + 1]
      BY <1>1, <1>2, <2>4
    <3>2. j + 1 \in DOMAIN q /\ k + 1 \in DOMAIN q
      BY <1>1, <1>2
    <3>3. j + 1 = k + 1
      BY <3>1, <3>2
    <3>4. QED
      BY <3>3, <1>1, <1>2
  <2>5. QED
    BY <2>1, <2>2, <2>3, <2>4
<1>4. \A r \in Reqs : (\E j \in DOMAIN w : w[j] = r)
             <=> (r # q[i] /\ \E j \in DOMAIN q : q[j] = r)
  <2> SUFFICES ASSUME NEW r \in Reqs
               PROVE  (\E j \in DOMAIN w : w[j] = r)
                      <=> (r # q[i] /\ \E j \in DOMAIN q : q[j] = r)
    OBVIOUS
  <2>1. ASSUME NEW j \in DOMAIN w, w[j] = r
        PROVE  r # q[i] /\ \E k \in DOMAIN q : q[k] = r
    <3>1. CASE j < i
      BY <1>1, <1>2, <2>1, <3>1
    <3>2. CASE ~(j < i)
      <4>1. j + 1 \in DOMAIN q /\ q[j + 1] = r /\ j + 1 # i
        BY <1>1, <1>2, <2>1, <3>2
      <4>2. QED
        BY <4>1
    <3>3. QED
      BY <3>1, <3>2
  <2>2. ASSUME NEW k \in DOMAIN q, q[k] = r, r # q[i]
        PROVE  \E j \in DOMAIN w : w[j] = r
    <3>1. CASE k < i
      <4>1. k \in DOMAIN w /\ w[k] = r
        BY <1>1, <1>2, <2>2, <3>1
      <4>2. QED
        BY <4>1
    <3>2. CASE ~(k < i)
      <4>1. k # i
        BY <2>2
      <4>2. k - 1 \in DOMAIN w /\ w[k - 1] = q[(k - 1) + 1]
        BY <1>1, <1>2, <3>2, <4>1
      <4>3. (k - 1) + 1 = k
        BY <1>1
      <4>4. QED
        BY <4>2, <4>3, <2>2
    <3>3. QED
      BY <3>1, <3>2
  <2>3. QED
    BY <2>1, <2>2
<1>5. ASSUME w # <<>>
      PROVE  /\ w[1] = IF i = 1 THEN q[2] ELSE q[1]
             /\ 1 \in DOMAIN w /\ 2 \in DOMAIN q
  <2>1. 1 \in DOMAIN w
    BY <1>2, <1>5
  <2>2. 2 \in DOMAIN q
    BY <1>1, <1>2, <2>1
  <2>3. QED
    BY <1>1, <1>2, <2>1, <2>2
<1>6. QED
  BY <1>3, <1>4, <1>5
-----------------------------------------------------------------------------
(* WakeUpFirst in terms of the first entry. *)
LEMMA WakeUpFirstIs ==
    ASSUME NEW q \in Seq(Reqs), NEW f \in [Reqs -> FutStates]
    PROVE  WakeUpFirst(q, f) =
              IF q # <<>> /\ f[q[1]] = "pending"
              THEN [f EXCEPT ![q[1]] = "woken"] ELSE f
<1>1. q # <<>> => Head(q) = q[1]
  OBVIOUS
<1>2. QED
  BY <1>1 DEF WakeUpFirst

(* WakeUpFirst keeps the type of the futures. *)
LEMMA WakeUpFirstType ==
    ASSUME NEW q \in Seq(Reqs), NEW f \in [Reqs -> FutStates]
    PROVE  /\ WakeUpFirst(q, f) \in [Reqs -> FutStates]
           /\ \A r \in Reqs : WakeUpFirst(q, f)[r] = "none" <=> f[r] = "none"
           /\ \A r \in Reqs : WakeUpFirst(q, f)[r] = "woken" =>
                 f[r] = "woken" \/ (q # <<>> /\ q[1] = r)
           /\ \A r \in Reqs : WakeUpFirst(q, f)[r] \in {"pending", "woken"}
                              <=> f[r] \in {"pending", "woken"}
           /\ q # <<>> => WakeUpFirst(q, f)[q[1]] # "pending"
<1>1. CASE q # <<>> /\ f[q[1]] = "pending"
  <2>1. q[1] \in Reqs
    BY <1>1, q # <<>>
  <2>2. WakeUpFirst(q, f) = [f EXCEPT ![q[1]] = "woken"]
    BY <1>1, WakeUpFirstIs
  <2>3. QED
    BY <1>1, <2>1, <2>2 DEF FutStates
<1>2. CASE ~(q # <<>> /\ f[q[1]] = "pending")
  BY <1>2, WakeUpFirstIs
<1>3. QED
  BY <1>1, <1>2

(* Nobody waits at first. *)
LEMMA InitIInv == Init => IInv
<1> SUFFICES ASSUME Init PROVE IInv
  OBVIOUS
<1> USE DEF Init
<1>1. TypeOK
  BY EmptySeq DEF TypeOK, FutStates
<1>2. DOMAIN waiters = {}
  BY EmptySeq
<1>3. Queued /\ WokenAtHead
  BY <1>2 DEF Queued, WokenAtHead
<1>4. HeadAwake /\ MutualExclusion /\ InsideIsOut
  BY DEF HeadAwake, MutualExclusion, InsideIsOut
<1>5. QED
  BY <1>1, <1>3, <1>4 DEF IInv

(* The lock was free and no live waiter is passed. *)
LEMMA AcquireAtOnceIInv ==
    ASSUME IInv, NEW r \in Reqs, AcquireAtOnce(r)
    PROVE  IInv'
<1> USE DEF IInv, AcquireAtOnce
<1>1. TypeOK'
  BY DEF TypeOK
<1>2. Queued'
  BY DEF Queued
<1>3. WokenAtHead'
  <2>1. \A s \in Reqs : fut[s] # "woken"
    BY DEF WokenAtHead, Queued, MayTakeAtOnce, TypeOK
  <2>2. QED
    BY <2>1 DEF WokenAtHead
<1>4. HeadAwake'
  BY DEF HeadAwake
<1>5. MutualExclusion' /\ InsideIsOut'
  BY DEF MutualExclusion, InsideIsOut, MayTakeAtOnce
<1>6. QED
  BY <1>1, <1>2, <1>3, <1>4, <1>5

(* The newcomer queues last. *)
LEMMA AcquireLaterIInv ==
    ASSUME IInv, NEW r \in Reqs, AcquireLater(r)
    PROVE  IInv'
<1> USE DEF IInv, AcquireLater
<1>1. /\ waiters' \in Seq(Reqs) /\ waiters' # <<>>
      /\ DOMAIN waiters' = 1 .. Len(waiters) + 1
      /\ DOMAIN waiters = 1 .. Len(waiters) /\ Len(waiters) \in Nat
      /\ \A i \in DOMAIN waiters : waiters'[i] = waiters[i]
      /\ waiters'[Len(waiters) + 1] = r
  BY AppendProperties DEF TypeOK
<1>2. TypeOK'
  BY <1>1 DEF TypeOK, FutStates
<1>3. \A i \in DOMAIN waiters : waiters[i] # r
  BY DEF Queued
<1>4. Queued'
  <2>1. \A i, j \in DOMAIN waiters' : waiters'[i] = waiters'[j] => i = j
    BY <1>1, <1>3 DEF Queued
  <2>2. ASSUME NEW s \in Reqs
        PROVE  fut'[s] # "none" <=> \E i \in DOMAIN waiters' : waiters'[i] = s
    <3>1. CASE s = r
      <4>1. Len(waiters) + 1 \in DOMAIN waiters'
        BY <1>1
      <4>2. QED
        BY <1>1, <4>1, <3>1 DEF TypeOK
    <3>2. CASE s # r
      <4>1. (\E i \in DOMAIN waiters' : waiters'[i] = s)
            <=> (\E i \in DOMAIN waiters : waiters[i] = s)
        BY <1>1, <3>2
      <4>2. QED
        BY <3>2, <4>1 DEF TypeOK, Queued
    <3>3. QED
      BY <3>1, <3>2
  <2>3. QED
    BY <2>1, <2>2 DEF Queued
<1>5. ~locked => waiters # <<>>
  BY DEF MayTakeAtOnce
<1>6. waiters # <<>> => 1 \in DOMAIN waiters /\ waiters'[1] = waiters[1]
  BY <1>1 DEF TypeOK
<1>7. WokenAtHead'
  BY <1>1, <1>6 DEF WokenAtHead, TypeOK
<1>8. HeadAwake'
  BY <1>1, <1>3, <1>5, <1>6 DEF HeadAwake, TypeOK
<1>9. MutualExclusion' /\ InsideIsOut'
  BY DEF MutualExclusion, InsideIsOut, TypeOK
<1>10. QED
  BY <1>2, <1>4, <1>7, <1>8, <1>9

(* A timer changes one future and leaves the queue as it is. *)
LEMMA TimeoutIInv ==
    ASSUME IInv, NEW r \in Reqs, Timeout(r)
    PROVE  IInv'
<1> USE DEF IInv, Timeout
<1>1. PICK st \in {"cancelled", "late"} :
         fut' = [fut EXCEPT ![r] = st] /\ fut[r] \in {"pending", "woken"}
  OBVIOUS
<1>2. \A s \in Reqs : fut'[s] = IF s = r THEN st ELSE fut[s]
  BY <1>1 DEF TypeOK
<1>3. TypeOK'
  BY <1>1 DEF TypeOK, FutStates
<1>4. Queued'
  BY <1>1, <1>2 DEF Queued
<1>5. WokenAtHead' /\ MutualExclusion'
  BY <1>2 DEF WokenAtHead, MutualExclusion
<1>6. HeadAwake'
  <2>1. waiters # <<>> => waiters[1] \in Reqs
    BY DEF TypeOK
  <2>2. QED
    BY <1>2, <2>1 DEF HeadAwake
<1>7. InsideIsOut'
  BY <1>1, <1>2 DEF InsideIsOut, TypeOK
<1>8. QED
  BY <1>3, <1>4, <1>5, <1>6, <1>7

(* The woken task is the head of the queue and found the lock free. *)
LEMMA TakeLockIInv ==
    ASSUME IInv, NEW r \in Reqs, TakeLock(r)
    PROVE  IInv'
<1> USE DEF IInv
<1>1. PICK i \in DOMAIN waiters : waiters[i] = r /\ waiters' = Without(waiters, i)
  BY DEF TakeLock
<1>2. /\ fut[r] = "woken" /\ fut' = [fut EXCEPT ![r] = "none"]
      /\ locked' = TRUE /\ inside' = inside \cup {r}
  BY DEF TakeLock
<1>3. waiters \in Seq(Reqs) /\ waiters' \in Seq(Reqs)
  BY <1>1, WithoutProperties DEF TypeOK
<1>4. ~locked /\ inside = {}
  BY <1>2 DEF WokenAtHead, MutualExclusion
<1>5. \A s \in Reqs : fut'[s] = IF s = r THEN "none" ELSE fut[s]
  BY <1>2 DEF TypeOK
<1>6. TypeOK'
  BY <1>2, <1>3 DEF TypeOK, FutStates
<1>7. Queued'
  <2>1. /\ \A j, k \in DOMAIN waiters' : waiters'[j] = waiters'[k] => j = k
        /\ \A s \in Reqs : (\E j \in DOMAIN waiters' : waiters'[j] = s)
                  <=> (s # r /\ \E j \in DOMAIN waiters : waiters[j] = s)
    <3>1. \A j, k \in DOMAIN waiters : waiters[j] = waiters[k] => j = k
      BY DEF Queued
    <3>2. QED
      BY ONLY <1>1, <1>3, <3>1, WithoutMembers
  <2>2. QED
    BY <2>1, <1>5 DEF Queued
<1>8. WokenAtHead'
  BY <1>2, <1>5 DEF WokenAtHead
<1>9. HeadAwake'
  BY <1>2 DEF HeadAwake
<1>10. MutualExclusion' /\ InsideIsOut'
  BY <1>2, <1>4, <1>5 DEF MutualExclusion, InsideIsOut
<1>11. QED
  BY <1>6, <1>7, <1>8, <1>9, <1>10

(* A cancelled task leaves the queue and passes the wake-up on. *)
LEMMA GiveUpIInv ==
    ASSUME IInv, NEW r \in Reqs, GiveUp(r)
    PROVE  IInv'
<1> USE DEF IInv
<1> DEFINE f == [fut EXCEPT ![r] = "none"]
<1>1. PICK i \in DOMAIN waiters : waiters[i] = r /\ waiters' = Without(waiters, i)
  BY DEF GiveUp
<1>2. /\ fut[r] \in {"cancelled", "late"}
      /\ fut' = IF locked THEN f ELSE WakeUpFirst(waiters', f)
      /\ locked' = locked /\ inside' = inside
  BY DEF GiveUp
<1>3. waiters \in Seq(Reqs) /\ waiters' \in Seq(Reqs)
  BY <1>1, WithoutProperties DEF TypeOK
<1>4. f \in [Reqs -> FutStates] /\ \A s \in Reqs : f[s] = IF s = r THEN "none" ELSE fut[s]
  BY DEF TypeOK, FutStates
<1> HIDE DEF f
<1>5. /\ fut' \in [Reqs -> FutStates]
      /\ \A s \in Reqs : fut'[s] = "none" <=> f[s] = "none"
      /\ \A s \in Reqs : fut'[s] = "woken" =>
             f[s] = "woken" \/ (~locked /\ waiters' # <<>> /\ waiters'[1] = s)
      /\ ~locked /\ waiters' # <<>> => fut'[waiters'[1]] # "pending"
  BY <1>2, <1>3, <1>4, WakeUpFirstType
<1>6. /\ \A j, k \in DOMAIN waiters' : waiters'[j] = waiters'[k] => j = k
      /\ \A s \in Reqs : (\E j \in DOMAIN waiters' : waiters'[j] = s)
                <=> (s # r /\ \E j \in DOMAIN waiters : waiters[j] = s)
      /\ waiters' # <<>> => waiters'[1] = IF i = 1 THEN waiters[2] ELSE waiters[1]
  <2>1. \A j, k \in DOMAIN waiters : waiters[j] = waiters[k] => j = k
    BY DEF Queued
  <2>2. QED
    BY ONLY <1>1, <1>3, <2>1, WithoutMembers
<1>7. TypeOK'
  BY <1>2, <1>3, <1>5 DEF TypeOK
<1>8. Queued'
  <2>1. ASSUME NEW s \in Reqs
        PROVE  fut'[s] # "none" <=> \E j \in DOMAIN waiters' : waiters'[j] = s
    <3>1. fut'[s] # "none" <=> (s # r /\ fut[s] # "none")
      BY <1>4, <1>5
    <3>2. QED
      BY <3>1, <1>6 DEF Queued
  <2>2. QED
    BY <2>1, <1>6 DEF Queued
<1>9. WokenAtHead'
  <2> SUFFICES ASSUME NEW s \in Reqs, fut'[s] = "woken"
               PROVE  ~locked' /\ waiters' # <<>> /\ waiters'[1] = s
    BY DEF WokenAtHead
  <2>1. CASE f[s] = "woken"
    <3>1. s # r /\ fut[s] = "woken"
      BY <2>1, <1>4
    <3>2. ~locked /\ waiters[1] = s
      BY <3>1 DEF WokenAtHead
    <3>3. i # 1
      BY <3>1, <3>2, <1>1
    <3>4. \E j \in DOMAIN waiters' : waiters'[j] = s
      BY <3>1, <1>6 DEF Queued
    <3>5. waiters' # <<>>
      BY <3>4, EmptySeq
    <3>6. QED
      BY <3>2, <3>3, <3>5, <1>2, <1>6
  <2>2. CASE f[s] # "woken"
    BY <2>2, <1>2, <1>5
  <2>3. QED
    BY <2>1, <2>2
<1>10. HeadAwake'
  BY <1>2, <1>5 DEF HeadAwake
<1>11. MutualExclusion' /\ InsideIsOut'
  BY <1>2, <1>4, <1>5 DEF MutualExclusion, InsideIsOut, TypeOK
<1>12. QED
  BY <1>7, <1>8, <1>9, <1>10, <1>11

(* A release wakes the head of the queue. *)
LEMMA ReleaseIInv ==
    ASSUME IInv, NEW r \in Reqs, Release(r)
    PROVE  IInv'
<1> USE DEF IInv
<1>1. /\ r \in inside /\ locked' = FALSE /\ inside' = inside \ {r}
      /\ fut' = WakeUpFirst(waiters, fut) /\ waiters' = waiters
  BY DEF Release
<1>2. /\ fut' \in [Reqs -> FutStates]
      /\ \A s \in Reqs : fut'[s] = "none" <=> fut[s] = "none"
      /\ \A s \in Reqs : fut'[s] = "woken" =>
             fut[s] = "woken" \/ (waiters # <<>> /\ waiters[1] = s)
      /\ waiters # <<>> => fut'[waiters[1]] # "pending"
  BY <1>1, WakeUpFirstType DEF TypeOK
<1>3. locked /\ inside' = {}
  BY <1>1 DEF MutualExclusion
<1>4. TypeOK'
  BY <1>1, <1>2 DEF TypeOK
<1>5. Queued'
  BY <1>1, <1>2 DEF Queued
<1>6. WokenAtHead'
  BY <1>1, <1>2, <1>3 DEF WokenAtHead
<1>7. HeadAwake'
  BY <1>1, <1>2 DEF HeadAwake
<1>8. MutualExclusion' /\ InsideIsOut'
  BY <1>1, <1>3 DEF MutualExclusion, InsideIsOut
<1>9. QED
  BY <1>4, <1>5, <1>6, <1>7, <1>8

(* Every step keeps IInv. *)
LEMMA NextIInv == IInv /\ [Next]_vars => IInv'
<1> SUFFICES ASSUME IInv, [Next]_vars PROVE IInv'
  OBVIOUS
<1>1. CASE UNCHANGED vars
  BY <1>1 DEF IInv, TypeOK, Queued, WokenAtHead, HeadAwake, MutualExclusion,
              InsideIsOut, vars
<1>2. ASSUME NEW r \in Reqs,
             \/ AcquireAtOnce(r) \/ AcquireLater(r) \/ Timeout(r)
             \/ TakeLock(r) \/ GiveUp(r) \/ Release(r)
      PROVE  IInv'
  BY <1>2, AcquireAtOnceIInv, AcquireLaterIInv, TimeoutIInv, TakeLockIInv,
     GiveUpIInv, ReleaseIInv
<1>3. QED
  BY <1>1, <1>2 DEF Next

(* IInv holds in every reachable state. *)
THEOREM Invariance == Spec => []IInv
<1>1. QED
  BY InitIInv, NextIInv, PTL DEF Spec

(* The state of the asyncio lock keeps its shape. *)
THEOREM TypeCorrect == Spec => []TypeOK
<1>1. IInv => TypeOK
  BY DEF IInv
<1>2. QED
  BY <1>1, Invariance, PTL

(* No two coroutines are in the body of `async with gpu2_lock()`. *)
THEOREM MutexHolds == Spec => []MutualExclusion
<1>1. IInv => MutualExclusion
  BY DEF IInv
<1>2. QED
  BY <1>1, Invariance, PTL

(* A free lock with waiters always has a task on its way to it. *)
THEOREM NoWakeupLost == Spec => []NoLostWakeup
<1>1. IInv => NoLostWakeup
  <2> SUFFICES ASSUME IInv, waiters # <<>>
               PROVE  Head(waiters) = waiters[1]
    BY DEF IInv, HeadAwake, NoLostWakeup
  <2>1. QED
    BY DEF IInv, TypeOK
<1>2. QED
  BY <1>1, Invariance, PTL
-----------------------------------------------------------------------------
(* A coroutine never gets in ahead of a live waiter that queued before it. *)
THEOREM FirstComeFirstServed == Spec => NoOvertaking
<1> DEFINE A == \A r \in inside' \ inside, i \in DOMAIN waiters :
                   Live(waiters[i]) => \E j \in 1 .. i : waiters[j] = r
<1>1. ASSUME IInv, Next
      PROVE  A
  <2> SUFFICES ASSUME NEW r \in inside' \ inside, NEW i \in DOMAIN waiters,
                      Live(waiters[i])
               PROVE  \E j \in 1 .. i : waiters[j] = r
    OBVIOUS
  <2>1. PICK s \in Reqs : \/ AcquireAtOnce(s) \/ AcquireLater(s) \/ Timeout(s)
                         \/ TakeLock(s) \/ GiveUp(s) \/ Release(s)
    BY <1>1 DEF Next
  <2>2. CASE AcquireAtOnce(s)
    BY <2>2 DEF AcquireAtOnce, MayTakeAtOnce, Live
  <2>3. CASE TakeLock(s)
    <3>1. r = s /\ waiters[1] = s
      BY <1>1, <2>3 DEF TakeLock, IInv, WokenAtHead
    <3>2. 1 \in 1 .. i
      BY <1>1 DEF IInv, TypeOK
    <3>3. QED
      BY <3>1, <3>2
  <2>4. CASE AcquireLater(s) \/ Timeout(s) \/ GiveUp(s) \/ Release(s)
    BY <2>4 DEF AcquireLater, Timeout, GiveUp, Release
  <2>5. QED
    BY <2>1, <2>2, <2>3, <2>4
<1>2. IInv /\ [Next]_vars => [A]_vars
  BY <1>1
<1>3. QED
  BY <1>2, Invariance, PTL DEF Spec, NoOvertaking
-----------------------------------------------------------------------------
(* Seen from Gpu2Mutex, every step of the lock is a step of the abstract   *)
(* one or none: a resolved future changes nothing there, and a coroutine   *)
(* is gone when its timer fires, not when its task runs.                   *)
LEMMA StepRefines ==
    ASSUME IInv, [Next]_vars
    PROVE  [Mutex!Next]_(Mutex!mutexVars)
<1> DEFINE W == {r \in Reqs : Live(r)}
<1> USE DEF Mutex!mutexVars, Mutex!Outside, Live, IInv
<1>1. CASE UNCHANGED vars
  BY <1>1 DEF vars
<1>2. ASSUME NEW r \in Reqs, AcquireAtOnce(r)
      PROVE  Mutex!EnterNow(r)
  <2>1. inside = {}
    BY <1>2 DEF AcquireAtOnce, MayTakeAtOnce, MutualExclusion
  <2>2. W = {}
    BY <1>2 DEF AcquireAtOnce, MayTakeAtOnce, Queued
  <2>3. QED
    BY <1>2, <2>1, <2>2 DEF AcquireAtOnce, Mutex!EnterNow
<1>3. ASSUME NEW r \in Reqs, AcquireLater(r)
      PROVE  Mutex!Ask(r)
  <2>1. \A s \in Reqs : fut'[s] = IF s = r THEN "pending" ELSE fut[s]
    BY <1>3 DEF AcquireLater, TypeOK
  <2>2. W' = W \cup {r}
    BY <2>1
  <2>3. QED
    BY <1>3, <2>2 DEF AcquireLater, Mutex!Ask
<1>4. ASSUME NEW r \in Reqs, Timeout(r)
      PROVE  Mutex!Abandon(r)
  <2>1. fut[r] \in {"pending", "woken"} /\ fut'[r] \in {"cancelled", "late"}
        /\ \A s \in Reqs : s # r => fut'[s] = fut[s]
    BY <1>4 DEF Timeout, TypeOK
  <2>2. W' = W \ {r}
    BY <2>1
  <2>3. QED
    BY <1>4, <2>1, <2>2 DEF Timeout, Mutex!Abandon
<1>5. ASSUME NEW r \in Reqs, TakeLock(r)
      PROVE  Mutex!Grant(r)
  <2>1. \A s \in Reqs : fut'[s] = IF s = r THEN "none" ELSE fut[s]
    BY <1>5 DEF TakeLock, TypeOK
  <2>2. W' = W \ {r}
    BY <2>1
  <2>3. inside = {}
    BY <1>5 DEF TakeLock, WokenAtHead, MutualExclusion
  <2>4. QED
    BY <1>5, <2>2, <2>3 DEF TakeLock, Mutex!Grant
<1>6. ASSUME NEW r \in Reqs, GiveUp(r)
      PROVE  UNCHANGED Mutex!mutexVars
  <2> DEFINE f == [fut EXCEPT ![r] = "none"]
  <2>1. f \in [Reqs -> FutStates]
        /\ \A s \in Reqs : f[s] = IF s = r THEN "none" ELSE fut[s]
    BY DEF TypeOK, FutStates
  <2>2. /\ fut[r] \in {"cancelled", "late"}
        /\ fut' = IF locked THEN f ELSE WakeUpFirst(waiters', f)
        /\ inside' = inside
    BY <1>6 DEF GiveUp
  <2>3. waiters' \in Seq(Reqs)
    BY <1>6, WithoutProperties DEF GiveUp, TypeOK
  <2> HIDE DEF f
  <2>4. \A s \in Reqs : fut'[s] \in {"pending", "woken"} <=> f[s] \in {"pending", "woken"}
    BY <2>1, <2>2, <2>3, WakeUpFirstType
  <2>5. W' = W
    BY <2>1, <2>2, <2>4
  <2>6. QED
    BY <2>2, <2>5
<1>7. ASSUME NEW r \in Reqs, Release(r)
      PROVE  Mutex!Leave(r)
  <2>1. \A s \in Reqs : fut'[s] \in {"pending", "woken"} <=> fut[s] \in {"pending", "woken"}
    BY <1>7, WakeUpFirstType DEF Release, TypeOK
  <2>2. W' = W
    BY <2>1
  <2>3. QED
    BY <1>7, <2>2 DEF Release, Mutex!Leave
<1>8. QED
  BY <1>1, <1>2, <1>3, <1>4, <1>5, <1>6, <1>7 DEF Next, Mutex!Next

(* The asyncio lock implements the abstract lock on which Gpu2Engines is   *)
(* built.                                                                  *)
THEOREM LockImplementsMutex == Spec => MutexSpec
<1>1. Init => Mutex!Init
  BY DEF Init, Mutex!Init, Live
<1>2. IInv /\ [Next]_vars => [Mutex!Next]_(Mutex!mutexVars)
  BY StepRefines
<1>3. QED
  BY <1>1, <1>2, Invariance, PTL DEF Spec, MutexSpec, Mutex!Spec
=============================================================================
