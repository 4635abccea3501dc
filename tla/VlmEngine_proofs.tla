-------------------------- MODULE VlmEngine_proofs --------------------------
(***************************************************************************)
(* The semaphore of VLMEngine for every set of coroutines: its type, that  *)
(* the one permit is never lost or doubled, whatever timers fire, and that *)
(* autograd of the loop's thread comes back.                               *)
(*                                                                         *)
(* OnePermit counts.  IInv says the same without counting, and adds that   *)
(* only a waiter has a future, so that nobody is handed a permit who has   *)
(* one; and that no_grad found autograd on, which follows only because     *)
(* inferences do not overlap.                                              *)
(*                                                                         *)
(* The last part is the refinement of the abstract lock, Gpu2Mutex.        *)
(***************************************************************************)
EXTENDS VlmEngine, FiniteSetTheorems, TLAPS

\* r has a permit, by where everybody is and what they wait on.
Has(p, f, r) == p[r] \in {"preparing", "generating"} \/ f[r] \in {"woken", "late"}

OnlyWaitersQueue(p, f) == \A r \in Reqs : f[r] # "none" => p[r] = "waiting"

OneOwner(p, f) == \A r, s \in Reqs : Has(p, f, r) /\ Has(p, f, s) => r = s

\* n permits are left.
Left(n, p, f) == n = IF \E r \in Reqs : Has(p, f, r) THEN 0 ELSE 1

Semaphore(n, p, f) == OnlyWaitersQueue(p, f) /\ OneOwner(p, f) /\ Left(n, p, f)

FoundOn == \A r \in Reqs : pc[r] = "generating" => saved[r]

IInv == TypeOK /\ Semaphore(value, pc, fut) /\ GradRestored /\ FoundOn
-----------------------------------------------------------------------------
LEMMA RemoveAtType ==
    ASSUME NEW S, NEW q \in Seq(S), NEW i \in DOMAIN q
    PROVE  RemoveAt(q, i) \in Seq(S)
BY DEF RemoveAt

(* With one permit at most, Hand gives it to one waiter or keeps it. *)
LEMMA HandGivesOne ==
    ASSUME NEW n \in 0 .. Permits, NEW q \in Seq(Reqs), NEW f \in [Reqs -> FutStates],
           Hand(n, q, f)
    PROVE  \/ fut' = f /\ value' = n
           \/ /\ n = 1 /\ value' = 0
              /\ \E w \in Reqs : f[w] = "pending" /\ fut' = [f EXCEPT ![w] = "woken"]
<1> DEFINE asleep    == {i \in DOMAIN q : f[q[i]] = "pending"}
           before(j) == {k \in asleep : k < j}
           first     == {j \in asleep : Cardinality(before(j)) < n}
           woken     == {q[i] : i \in first}
<1>1. /\ fut'   = [r \in Reqs |-> IF r \in woken THEN "woken" ELSE f[r]]
      /\ value' = n - Cardinality(woken)
  BY DEF Hand
<1>2. asleep \subseteq 1 .. Len(q) /\ Len(q) \in Nat
  OBVIOUS
<1>3. IsFiniteSet(asleep)
  BY <1>2, FS_Interval, FS_Subset
<1>4. \A j \in asleep : /\ Cardinality(before(j)) \in Nat
                        /\ Cardinality(before(j)) = 0 => before(j) = {}
  <2>1. \A j \in asleep : before(j) \subseteq asleep
    OBVIOUS
  <2>2. \A j \in asleep : IsFiniteSet(before(j))
    BY <1>3, <2>1, FS_Subset
  <2>3. QED
    BY <2>2, FS_CardinalityType, FS_EmptySet
<1>5. CASE woken = {}
  <2>1. Cardinality(woken) = 0
    BY <1>5, FS_EmptySet
  <2>2. value' = n
    BY <1>1, <2>1 DEF Permits
  <2>3. fut' = [r \in Reqs |-> f[r]]
    BY <1>1, <1>5
  <2>4. QED
    BY <2>2, <2>3
<1>6. CASE woken # {}
  <2>1. PICK j \in first : TRUE
    BY <1>6
  <2>2. n = 1
    BY <2>1, <1>4 DEF Permits
  <2>3. \A i \in first : before(i) = {}
    BY <2>2, <1>4
  <2>4. \A i \in first : i = j
    BY <2>1, <2>3, <1>2
  <2>5. woken = {q[j]}
    BY <2>1, <2>4
  <2>6. Cardinality(woken) = 1
    BY <2>5, FS_Singleton
  <2>7. q[j] \in Reqs /\ f[q[j]] = "pending"
    BY <2>1
  <2>8. fut' = [f EXCEPT ![q[j]] = "woken"]
    BY <1>1, <2>5, <2>7
  <2>9. value' = 0
    BY <1>1, <2>2, <2>6
  <2>10. QED
    BY <2>2, <2>7, <2>8, <2>9
<1>7. QED
  BY <1>5, <1>6
-----------------------------------------------------------------------------
(* A step that hands out the n permits left by new places p and futures f. *)
LEMMA HandKeeps ==
    ASSUME NEW n \in 0 .. Permits, NEW q \in Seq(Reqs),
           NEW p \in [Reqs -> PcStates], NEW f \in [Reqs -> FutStates],
           Hand(n, q, f), pc' = p, Semaphore(n, p, f)
    PROVE  /\ value' \in 0 .. Permits /\ fut' \in [Reqs -> FutStates]
           /\ Semaphore(value', pc', fut')
<1> USE DEF Permits, FutStates, Has, OnlyWaitersQueue, OneOwner, Left, Semaphore
<1>1. CASE fut' = f /\ value' = n
  BY <1>1
<1>2. CASE /\ n = 1 /\ value' = 0
           /\ \E w \in Reqs : f[w] = "pending" /\ fut' = [f EXCEPT ![w] = "woken"]
  <2>1. PICK w \in Reqs : f[w] = "pending" /\ fut' = [f EXCEPT ![w] = "woken"]
    BY <1>2
  <2>2. fut'[w] = "woken" /\ \A r \in Reqs \ {w} : fut'[r] = f[r]
    BY <2>1
  <2>3. \A r \in Reqs : Has(pc', fut', r) <=> r = w
    BY <1>2, <2>2
  <2>4. QED
    BY <1>2, <2>1, <2>2, <2>3
<1>3. QED
  BY <1>1, <1>2, HandGivesOne

(* A holder leaves and its permit is handed on. *)
LEMMA ReleaseKeeps ==
    ASSUME IInv, NEW r \in Reqs, pc[r] \in {"preparing", "generating"},
           pc' = [pc EXCEPT ![r] = "done"], Released
    PROVE  /\ value' \in 0 .. Permits /\ fut' \in [Reqs -> FutStates]
           /\ waiters' \in Seq(Reqs) /\ Semaphore(value', pc', fut')
<1> DEFINE p == [pc EXCEPT ![r] = "done"]
<1>1. p \in [Reqs -> PcStates]
  BY DEF IInv, TypeOK, PcStates
<1>2. value = 0 /\ \A s \in Reqs : ~Has(p, fut, s)
  BY DEF IInv, TypeOK, Semaphore, Left, OneOwner, OnlyWaitersQueue, Has, PcStates
<1>3. Semaphore(value + 1, p, fut)
  BY <1>2 DEF IInv, TypeOK, Semaphore, Left, OneOwner, OnlyWaitersQueue, Has, PcStates
<1>4. value + 1 \in 0 .. Permits
  BY <1>2 DEF Permits
<1>5. Hand(value + 1, waiters, fut) /\ UNCHANGED waiters
  BY DEF Released
<1>6. QED
  BY <1>1, <1>3, <1>4, <1>5, HandKeeps DEF IInv, TypeOK

(* A waiter leaves the queue with its permit, or gives back what it has. *)
LEMMA UnqueueKeeps ==
    ASSUME IInv, NEW r \in Reqs, pc[r] = "waiting", Unqueue(r, Back(r)),
           \/ fut[r] = "woken" /\ pc' = [pc EXCEPT ![r] = "preparing"]
           \/ fut[r] \in {"cancelled", "late"} /\ pc' = [pc EXCEPT ![r] = "done"]
    PROVE  /\ value' \in 0 .. Permits /\ fut' \in [Reqs -> FutStates]
           /\ waiters' \in Seq(Reqs) /\ Semaphore(value', pc', fut')
<1> DEFINE f == [fut EXCEPT ![r] = "none"]
           n == value + Back(r)
<1>1. pc' \in [Reqs -> PcStates] /\ f \in [Reqs -> FutStates]
  BY DEF IInv, TypeOK, PcStates, FutStates
<1>2. n \in 0 .. Permits /\ Semaphore(n, pc', f)
  <2> USE DEF IInv, TypeOK, Semaphore, Left, OneOwner, OnlyWaitersQueue, Has,
              Permits, PcStates, FutStates, Back
  <2>1. CASE fut[r] = "woken" /\ pc' = [pc EXCEPT ![r] = "preparing"]
    BY <2>1
  <2>2. CASE fut[r] = "cancelled" /\ pc' = [pc EXCEPT ![r] = "done"]
    BY <2>2
  <2>3. CASE fut[r] = "late" /\ pc' = [pc EXCEPT ![r] = "done"]
    BY <2>3
  <2>4. QED
    BY <2>1, <2>2, <2>3
<1>3. PICK i \in DOMAIN waiters : waiters' = RemoveAt(waiters, i) /\ Hand(n, waiters', f)
  BY DEF Unqueue
<1>4. waiters' \in Seq(Reqs)
  BY <1>3, RemoveAtType DEF IInv, TypeOK
<1>5. QED
  BY <1>1, <1>2, <1>3, <1>4, HandKeeps
-----------------------------------------------------------------------------
LEMMA InitIInv == Init => IInv
<1> SUFFICES ASSUME Init PROVE IInv
  OBVIOUS
<1>1. TypeOK
  <2>1. value \in 0 .. Permits /\ waiters \in Seq(Reqs)
    BY DEF Init, Permits
  <2>2. fut \in [Reqs -> FutStates] /\ pc \in [Reqs -> PcStates] /\ answer \in [Reqs -> Answers]
    BY DEF Init, FutStates, PcStates, Answers
  <2>3. loaded \in BOOLEAN /\ grad \in BOOLEAN /\ saved \in [Reqs -> BOOLEAN]
    BY DEF Init
  <2>4. QED
    BY <2>1, <2>2, <2>3 DEF TypeOK
<1>2. Semaphore(value, pc, fut)
  BY DEF Init, Semaphore, Left, OneOwner, OnlyWaitersQueue, Has, Permits
<1>3. GradRestored /\ FoundOn
  BY DEF Init, GradRestored, FoundOn
<1>4. QED
  BY <1>1, <1>2, <1>3 DEF IInv

(* A newcomer takes the permit only when it is in the counter. *)
LEMMA AcquireKeeps ==
    ASSUME IInv, NEW r \in Reqs, AcquireAtOnce(r) \/ AcquireLater(r) \/ LoadFails(r)
    PROVE  IInv'
<1> USE DEF IInv, TypeOK, Goto, FutStates, PcStates, Answers, Permits
<1>1. Semaphore(value', pc', fut') /\ waiters' \in Seq(Reqs)
  <2> USE DEF Semaphore, Left, OneOwner, OnlyWaitersQueue, Has
  <2>1. CASE AcquireAtOnce(r)
    BY <2>1 DEF AcquireAtOnce, Locked
  <2>2. CASE AcquireLater(r)
    BY <2>2 DEF AcquireLater
  <2>3. CASE LoadFails(r)
    BY <2>3 DEF LoadFails, semVars
  <2>4. QED
    BY <2>1, <2>2, <2>3
<1>2. /\ value' \in 0 .. Permits /\ fut' \in [Reqs -> FutStates] /\ loaded' \in BOOLEAN
      /\ pc' \in [Reqs -> PcStates] /\ answer' \in [Reqs -> Answers]
      /\ UNCHANGED <<grad, saved>>
  <2>1. CASE AcquireAtOnce(r)
    <3>1. value = 1
      BY <2>1 DEF AcquireAtOnce, Locked
    <3>2. QED
      BY <2>1, <3>1 DEF AcquireAtOnce
  <2>2. CASE AcquireLater(r)
    BY <2>2 DEF AcquireLater
  <2>3. CASE LoadFails(r)
    BY <2>3 DEF LoadFails, semVars, Reply
  <2>4. QED
    BY <2>1, <2>2, <2>3
<1>3. \A s \in Reqs : pc'[s] = "generating" <=> pc[s] = "generating"
  BY DEF AcquireAtOnce, AcquireLater, LoadFails
<1>4. GradRestored' /\ FoundOn'
  BY <1>2, <1>3 DEF GradRestored, FoundOn
<1>5. QED
  BY <1>1, <1>2, <1>4

(* A timer marks a future and moves no permit. *)
LEMMA TimeoutKeeps ==
    ASSUME IInv, NEW r \in Reqs, Timeout(r)
    PROVE  IInv'
<1> USE DEF IInv, TypeOK, FutStates, PcStates
<1>1. Semaphore(value', pc', fut')
  BY DEF Timeout, Semaphore, Left, OneOwner, OnlyWaitersQueue, Has
<1>2. GradRestored' /\ FoundOn'
  BY DEF Timeout, GradRestored, FoundOn
<1>3. QED
  BY <1>1, <1>2 DEF Timeout

(* The two ways out of the queue. *)
LEMMA LeaveQueueKeeps ==
    ASSUME IInv, NEW r \in Reqs, Acquired(r) \/ GiveUp(r)
    PROVE  IInv'
<1>1. /\ pc[r] = "waiting" /\ Unqueue(r, Back(r))
      /\ \/ fut[r] = "woken" /\ pc' = [pc EXCEPT ![r] = "preparing"]
         \/ fut[r] \in {"cancelled", "late"} /\ pc' = [pc EXCEPT ![r] = "done"]
  BY DEF Acquired, GiveUp, Goto, Back
<1>2. /\ value' \in 0 .. Permits /\ fut' \in [Reqs -> FutStates]
      /\ waiters' \in Seq(Reqs) /\ Semaphore(value', pc', fut')
  BY <1>1, UnqueueKeeps
<1>3. /\ pc' \in [Reqs -> PcStates] /\ answer' \in [Reqs -> Answers]
      /\ UNCHANGED <<loaded, grad, saved>>
  BY <1>1 DEF IInv, TypeOK, Acquired, GiveUp, Reply, PcStates, Answers
<1>4. \A s \in Reqs : pc'[s] = "generating" <=> pc[s] = "generating"
  BY <1>1 DEF IInv, TypeOK
<1>5. GradRestored' /\ FoundOn'
  BY <1>3, <1>4 DEF IInv, GradRestored, FoundOn
<1>6. QED
  BY <1>2, <1>3, <1>5 DEF IInv, TypeOK

(* The holder's own steps. *)
LEMMA HolderKeeps ==
    ASSUME IInv, NEW r \in Reqs, PrepareFails(r) \/ Submit(r) \/ Finish(r)
    PROVE  IInv'
<1> USE DEF IInv, TypeOK, Goto, PcStates, Answers
<1>1. \A s \in Reqs \ {r} : pc[s] # "generating"
  BY DEF PrepareFails, Submit, Finish, Semaphore, OneOwner, Has
<1>2. CASE Submit(r)
  <2>1. Semaphore(value', pc', fut')
    BY <1>2 DEF Submit, Semaphore, Left, OneOwner, OnlyWaitersQueue, Has, semVars
  <2>2. grad /\ GradRestored' /\ FoundOn'
    BY <1>1, <1>2 DEF Submit, GradRestored, FoundOn
  <2>3. QED
    BY <1>2, <2>1, <2>2 DEF Submit, semVars
<1>3. CASE PrepareFails(r) \/ Finish(r)
  <2>1. /\ value' \in 0 .. Permits /\ fut' \in [Reqs -> FutStates]
        /\ waiters' \in Seq(Reqs) /\ Semaphore(value', pc', fut')
    BY <1>3, ReleaseKeeps DEF PrepareFails, Finish
  <2>2. /\ grad' /\ GradRestored' /\ FoundOn'
        /\ UNCHANGED <<loaded, saved>>
    BY <1>1, <1>3 DEF PrepareFails, Finish, GradRestored, FoundOn
  <2>3. pc' \in [Reqs -> PcStates] /\ answer' \in [Reqs -> Answers]
    BY <1>3 DEF PrepareFails, Finish, Reply
  <2>4. QED
    BY <2>1, <2>2, <2>3
<1>4. QED
  BY <1>2, <1>3

(* What neither holds nor waits. *)
LEMMA OthersKeep ==
    ASSUME IInv, (\E r \in Reqs : NextRequest(r)) \/ IdleUnload \/ UNCHANGED vars
    PROVE  IInv'
<1> USE DEF IInv, TypeOK, PcStates, Answers
<1> USE DEF Semaphore, Left, OneOwner, OnlyWaitersQueue, Has, GradRestored, FoundOn, semVars
<1>1. CASE \E r \in Reqs : NextRequest(r)
  BY <1>1 DEF NextRequest, Goto, Reply
<1>2. CASE IdleUnload
  BY <1>2 DEF IdleUnload
<1>3. CASE UNCHANGED vars
  BY <1>3 DEF vars
<1>4. QED
  BY <1>1, <1>2, <1>3
-----------------------------------------------------------------------------
(* IInv is inductive. *)
THEOREM Invariance == Spec => []IInv
<1>1. IInv /\ [Next]_vars => IInv'
  BY AcquireKeeps, TimeoutKeeps, LeaveQueueKeeps, HolderKeeps, OthersKeep DEF Next
<1>2. QED
  BY <1>1, InitIInv, PTL DEF Spec

(* The variables keep their types. *)
THEOREM TypeCorrect == Spec => []TypeOK
<1>1. IInv => TypeOK
  BY DEF IInv
<1>2. QED
  BY <1>1, Invariance, PTL

(* One permit, in the counter or with one coroutine: one inference at a    *)
(* time, and none of the timeouts and failures uses the permit up.         *)
THEOREM PermitIsKept == Spec => []OnePermit
<1>1. ASSUME IInv PROVE OnePermit
  <2> USE <1>1 DEF IInv, Semaphore, Left, OneOwner, OnlyWaitersQueue, Has,
                   Holders, Handed, OnePermit, Permits
  <2>1. Cardinality({}) = 0 /\ \A r \in Reqs : Cardinality({r}) = 1
    BY FS_EmptySet, FS_Singleton
  <2>2. CASE \A r \in Reqs : ~Has(pc, fut, r)
    <3>1. value = 1 /\ Holders = {} /\ Handed = {}
      BY <2>2
    <3>2. QED
      BY <2>1, <3>1
  <2>3. CASE \E r \in Reqs : Has(pc, fut, r)
    <3>1. PICK r \in Reqs : Has(pc, fut, r)
      BY <2>3
    <3>2. value = 0 /\ \A s \in Reqs : Has(pc, fut, s) => s = r
      BY <3>1
    <3>3. CASE pc[r] \in {"preparing", "generating"}
      <4>1. Holders = {r} /\ Handed = {}
        BY <3>2, <3>3
      <4>2. QED
        BY <2>1, <3>2, <4>1
    <3>4. CASE fut[r] \in {"woken", "late"}
      <4>1. Holders = {} /\ Handed = {r}
        BY <3>2, <3>4
      <4>2. QED
        BY <2>1, <3>2, <4>1
    <3>5. QED
      BY <3>1, <3>3, <3>4
  <2>4. QED
    BY <2>2, <2>3
<1>2. QED
  BY <1>1, Invariance, PTL

(* The blocks of no_grad of two coroutines never overlap, and autograd is  *)
(* on again after the last.                                                *)
THEOREM AutogradComesBack == Spec => []GradRestored
<1>1. IInv => GradRestored
  BY DEF IInv
<1>2. QED
  BY <1>1, Invariance, PTL
-----------------------------------------------------------------------------
(* Seen from Gpu2Mutex a permit that is handed on changes nothing: whoever *)
(* was handed one still waits, and is gone when its timer fires.  That a   *)
(* newcomer finds nobody waiting who is not in the deque is Queued.        *)
Waits(f) == {r \in Reqs : f[r] \in {"pending", "woken"}}

Queued == \A r \in Reqs : fut[r] # "none" => \E i \in DOMAIN waiters : waiters[i] = r

LEMMA RemoveAtKeeps ==
    ASSUME NEW S, NEW q \in Seq(S), NEW i \in DOMAIN q, NEW j \in DOMAIN q, q[j] # q[i]
    PROVE  \E k \in DOMAIN RemoveAt(q, i) : RemoveAt(q, i)[k] = q[j]
<1> DEFINE head == SubSeq(q, 1, i - 1)
           tail == SubSeq(q, i + 1, Len(q))
           p    == head \o tail
<1>1. i \in 1 .. Len(q) /\ j \in 1 .. Len(q) /\ i # j /\ Len(q) \in Nat
  OBVIOUS
<1>2. /\ head \in Seq(S) /\ Len(head) = i - 1
      /\ \A k \in 1 .. i - 1 : head[k] = q[k]
  BY <1>1
<1>3. /\ tail \in Seq(S) /\ Len(tail) = Len(q) - i
      /\ \A k \in 1 .. Len(q) - i : tail[k] = q[i + k]
  BY <1>1
<1>4. RemoveAt(q, i) = p
  BY DEF RemoveAt
<1> HIDE DEF head, tail
<1>5. /\ DOMAIN p = 1 .. Len(head) + Len(tail)
      /\ \A k \in 1 .. Len(head) + Len(tail) :
            p[k] = IF k <= Len(head) THEN head[k] ELSE tail[k - Len(head)]
  BY <1>2, <1>3
<1> HIDE DEF p
<1>6. Len(head) + Len(tail) = Len(q) - 1
  BY <1>1, <1>2, <1>3
<1>7. /\ DOMAIN p = 1 .. Len(q) - 1
      /\ \A k \in 1 .. Len(q) - 1 :
            p[k] = IF k <= i - 1 THEN head[k] ELSE tail[k - (i - 1)]
  BY <1>2, <1>5, <1>6
<1>8. CASE j < i
  <2>1. j \in 1 .. Len(q) - 1 /\ j \in 1 .. i - 1 /\ j <= i - 1
    BY <1>1, <1>8
  <2>2. j \in DOMAIN p /\ p[j] = q[j]
    BY <1>2, <1>7, <2>1
  <2> QED
    BY <1>4, <2>2
<1>9. CASE i < j
  <2> DEFINE n == Len(q)
             k == j - i
  <2>1. i \in 1 .. n /\ j \in 1 .. n /\ n \in Nat /\ i < j
    BY <1>1, <1>9
  <2> HIDE DEF n
  <2>2. k \in 1 .. n - i /\ i + k = j
    BY <2>1
  <2>3. j - 1 \in 1 .. n - 1 /\ ~(j - 1 <= i - 1) /\ (j - 1) - (i - 1) = k
    BY <2>1
  <2> HIDE DEF k
  <2>4. j - 1 \in DOMAIN p /\ p[j - 1] = tail[k]
    BY <1>7, <2>3 DEF n
  <2>5. tail[k] = q[j]
    BY <1>3, <2>2 DEF n
  <2> QED
    BY <1>4, <2>4, <2>5
<1> QED
  BY <1>1, <1>8, <1>9

LEMMA HandKeepsWaits ==
    ASSUME NEW n \in 0 .. Permits, NEW q \in Seq(Reqs), NEW f \in [Reqs -> FutStates],
           Hand(n, q, f)
    PROVE  Waits(fut') = Waits(f) /\ \A r \in Reqs : fut'[r] # "none" <=> f[r] # "none"
BY HandGivesOne DEF Waits, FutStates

(* Who leaves the queue takes nobody with it. *)
LEMMA UnqueueKeepsWaits ==
    ASSUME IInv, Queued, NEW r \in Reqs, Unqueue(r, Back(r)), fut[r] # "none"
    PROVE  Waits(fut') = Waits(fut) \ {r} /\ Queued'
<1> DEFINE f == [fut EXCEPT ![r] = "none"]
           n == value + Back(r)
<1>1. PICK i \in DOMAIN waiters : /\ waiters[i] = r /\ waiters' = RemoveAt(waiters, i)
                                 /\ Hand(n, waiters', f)
  BY DEF Unqueue
<1>2. waiters \in Seq(Reqs) /\ f \in [Reqs -> FutStates]
      /\ \A s \in Reqs : f[s] = IF s = r THEN "none" ELSE fut[s]
  BY DEF IInv, TypeOK, FutStates
<1>3. n \in 0 .. Permits
  <2>1. Back(r) = 1 => value = 0
    BY DEF Back, IInv, Semaphore, Left, Has
  <2>2. Back(r) \in {0, 1} /\ value \in 0 .. Permits
    BY DEF Back, IInv, TypeOK
  <2> QED
    BY <2>1, <2>2 DEF Permits
<1>4. waiters' \in Seq(Reqs)
  BY <1>1, <1>2, RemoveAtType
<1> HIDE DEF f, n
<1>5. Waits(fut') = Waits(f) /\ \A s \in Reqs : fut'[s] # "none" <=> f[s] # "none"
  BY <1>1, <1>2, <1>3, <1>4, HandKeepsWaits
<1>6. Waits(fut') = Waits(fut) \ {r}
  BY <1>2, <1>5 DEF Waits
<1>7. ASSUME NEW s \in Reqs, fut'[s] # "none"
      PROVE  \E k \in DOMAIN waiters' : waiters'[k] = s
  <2>1. s # r /\ fut[s] # "none"
    BY <1>2, <1>5, <1>7
  <2>2. PICK j \in DOMAIN waiters : waiters[j] = s
    BY <2>1 DEF Queued
  <2>3. \E k \in DOMAIN RemoveAt(waiters, i) : RemoveAt(waiters, i)[k] = waiters[j]
    BY <1>1, <1>2, <2>1, <2>2, RemoveAtKeeps
  <2> QED
    BY <1>1, <2>2, <2>3
<1> QED
  BY <1>6, <1>7 DEF Queued

(* Who leaves the semaphore hands its permit to one that waits. *)
LEMMA ReleaseKeepsWaits ==
    ASSUME IInv, Queued, Released, NEW r \in Reqs, pc[r] \in {"preparing", "generating"}
    PROVE  Waits(fut') = Waits(fut) /\ Queued'
<1>1. value + 1 \in 0 .. Permits /\ waiters \in Seq(Reqs) /\ fut \in [Reqs -> FutStates]
  BY DEF IInv, TypeOK, Semaphore, Left, Has, Permits
<1>2. Waits(fut') = Waits(fut) /\ \A s \in Reqs : fut'[s] # "none" <=> fut[s] # "none"
  BY <1>1, HandKeepsWaits DEF Released
<1> QED
  BY <1>2 DEF Released, Queued

LEMMA StepRefines ==
    ASSUME IInv, Queued, [Next]_vars
    PROVE  Queued' /\ [Mutex!Next]_(Mutex!mutexVars)
<1> DEFINE W == {r \in Reqs : fut[r] \in {"pending", "woken"}}
<1> USE DEF Mutex!mutexVars
<1>0. /\ waiters \in Seq(Reqs) /\ fut \in [Reqs -> FutStates] /\ pc \in [Reqs -> PcStates]
      /\ W = Waits(fut) /\ W' = Waits(fut')
  BY DEF IInv, TypeOK, Waits
<1>1. ASSUME NEW r \in Reqs, AcquireAtOnce(r)
      PROVE  Queued' /\ Mutex!EnterNow(r)
  <2>1. value # 0 /\ \A i \in DOMAIN waiters : fut[waiters[i]] = "cancelled"
    BY <1>1 DEF AcquireAtOnce, Locked
  <2>2. Holders = {} /\ W = {}
    BY <2>1 DEF IInv, Semaphore, Left, Has, Holders, Queued
  <2>3. /\ UNCHANGED <<waiters, fut>> /\ W' = W /\ pc[r] = "idle"
        /\ pc' = [pc EXCEPT ![r] = "preparing"]
    BY <1>1 DEF AcquireAtOnce, Goto
  <2>4. Holders' = {r}
    BY <1>0, <2>2, <2>3 DEF Holders
  <2> QED
    BY <2>2, <2>3, <2>4 DEF Queued, Mutex!EnterNow, Mutex!Outside
<1>2. ASSUME NEW r \in Reqs, AcquireLater(r)
      PROVE  Queued' /\ Mutex!Ask(r)
  <2>1. /\ pc[r] = "idle" /\ pc' = [pc EXCEPT ![r] = "waiting"]
        /\ waiters' = Append(waiters, r) /\ fut' = [fut EXCEPT ![r] = "pending"]
    BY <1>2 DEF AcquireLater, Goto
  <2>2. fut[r] = "none"
    BY <2>1 DEF IInv, Semaphore, OnlyWaitersQueue
  <2>3. W' = W \cup {r} /\ Holders' = Holders /\ r \notin W /\ r \notin Holders
    BY <1>0, <2>1, <2>2 DEF Holders
  <2>4. Queued'
    BY <1>0, <2>1 DEF Queued
  <2> QED
    BY <2>3, <2>4 DEF Mutex!Ask, Mutex!Outside
<1>3. ASSUME NEW r \in Reqs, Timeout(r)
      PROVE  Queued' /\ Mutex!Abandon(r)
  <2>1. /\ fut[r] \in {"pending", "woken"} /\ fut'[r] \in {"cancelled", "late"}
        /\ \A s \in Reqs : s # r => fut'[s] = fut[s]
        /\ UNCHANGED <<waiters, pc>>
    BY <1>0, <1>3 DEF Timeout
  <2>2. W' = W \ {r} /\ r \in W /\ Holders' = Holders
    BY <2>1 DEF Holders
  <2> QED
    BY <2>1, <2>2 DEF Queued, Mutex!Abandon
<1>4. ASSUME NEW r \in Reqs, Acquired(r)
      PROVE  Queued' /\ Mutex!Grant(r)
  <2>1. /\ fut[r] = "woken" /\ Unqueue(r, Back(r))
        /\ pc[r] = "waiting" /\ pc' = [pc EXCEPT ![r] = "preparing"]
    BY <1>4 DEF Acquired, Goto, Back
  <2>2. W' = W \ {r} /\ r \in W /\ Queued'
    BY <1>0, <2>1, UnqueueKeepsWaits
  <2>3. Holders = {}
    BY <2>1 DEF IInv, Semaphore, OneOwner, Has, Holders
  <2>4. Holders' = {r}
    BY <1>0, <2>1, <2>3 DEF Holders
  <2> QED
    BY <2>2, <2>3, <2>4 DEF Mutex!Grant
<1>5. ASSUME NEW r \in Reqs, GiveUp(r)
      PROVE  Queued' /\ UNCHANGED Mutex!mutexVars
  <2>1. /\ fut[r] \in {"cancelled", "late"} /\ Unqueue(r, Back(r))
        /\ pc[r] = "waiting" /\ pc' = [pc EXCEPT ![r] = "done"]
    BY <1>5 DEF GiveUp, Goto
  <2>2. W' = W \ {r} /\ r \notin W /\ Queued'
    BY <1>0, <2>1, UnqueueKeepsWaits
  <2>3. Holders' = Holders
    BY <1>0, <2>1 DEF Holders
  <2> QED
    BY <2>2, <2>3
<1>6. ASSUME NEW r \in Reqs, PrepareFails(r) \/ Finish(r)
      PROVE  Queued' /\ Mutex!Leave(r)
  <2>1. /\ pc[r] \in {"preparing", "generating"} /\ pc' = [pc EXCEPT ![r] = "done"]
        /\ Released
    BY <1>6 DEF PrepareFails, Finish, Goto
  <2>2. W' = W /\ Queued'
    BY <1>0, <2>1, ReleaseKeepsWaits
  <2>3. Holders' = Holders \ {r} /\ r \in Holders
    BY <1>0, <2>1 DEF Holders
  <2> QED
    BY <2>2, <2>3 DEF Mutex!Leave
<1>7. ASSUME NEW r \in Reqs, LoadFails(r) \/ Submit(r) \/ NextRequest(r)
      PROVE  Queued' /\ UNCHANGED Mutex!mutexVars
  <2>1. UNCHANGED <<waiters, fut>>
    BY <1>7 DEF LoadFails, Submit, NextRequest, semVars
  <2>2. Holders' = Holders
    BY <1>0, <1>7 DEF LoadFails, Submit, NextRequest, Goto, Holders
  <2> QED
    BY <2>1, <2>2 DEF Queued
<1>8. ASSUME IdleUnload \/ UNCHANGED vars
      PROVE  Queued' /\ UNCHANGED Mutex!mutexVars
  BY <1>8 DEF IdleUnload, vars, semVars, Holders, Queued
<1> QED
  BY <1>1, <1>2, <1>3, <1>4, <1>5, <1>6, <1>7, <1>8 DEF Next, Mutex!Next

(* The semaphore of the vision engine implements the abstract lock.        *)
THEOREM SemaphoreImplementsMutex == Spec => MutexSpec
<1>1. Init => Queued /\ Mutex!Init
  BY DEF Init, Queued, Mutex!Init, Holders
<1>2. IInv /\ Queued /\ [Next]_vars => Queued' /\ [Mutex!Next]_(Mutex!mutexVars)
  BY StepRefines
<1> QED
  BY <1>1, <1>2, Invariance, PTL DEF Spec, MutexSpec, Mutex!Spec
=============================================================================
