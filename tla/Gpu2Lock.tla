------------------------------ MODULE Gpu2Lock ------------------------------
(***************************************************************************)
(* The lock that serialises GPU 2, at the grain of the event loop:         *)
(* gpu2_lock.__aenter__ awaits wait_for(_gpu2_lock.acquire(), timeout) and *)
(* __aexit__ calls _gpu2_lock.release().  _gpu2_lock is an asyncio.Lock of *)
(* Python 3.12 (the Dockerfile's base image): a flag and a deque of        *)
(* futures.  A release resolves the future of the first waiter only; the   *)
(* flag stays down until that waiter's task runs again, and the timer of   *)
(* wait_for may cancel the task before or after its future is resolved.    *)
(***************************************************************************)
EXTENDS Naturals, Sequences, FiniteSets

CONSTANT Reqs                 \* coroutines that use GPU 2

VARIABLES locked,             \* asyncio.Lock._locked
          waiters,            \* asyncio.Lock._waiters, oldest first
          fut,                \* the future each coroutine waits on
          inside              \* coroutines in the body of `async with`

vars == <<locked, waiters, fut, inside>>

(***************************************************************************)
(* "none"       not waiting                                                *)
(* "pending"    suspended, future unresolved                               *)
(* "woken"      future resolved by _wake_up_first, task not yet run        *)
(* "cancelled"  future cancelled by the timer, task not yet run            *)
(* "late"       the timer fired after the wake-up: the future is resolved  *)
(*              but the task will be resumed with CancelledError           *)
(***************************************************************************)
FutStates == {"none", "pending", "woken", "cancelled", "late"}

TypeOK == /\ locked  \in BOOLEAN
          /\ waiters \in Seq(Reqs)
          /\ fut     \in [Reqs -> FutStates]
          /\ inside  \subseteq Reqs

Init == /\ locked  = FALSE
        /\ waiters = <<>>
        /\ fut     = [r \in Reqs |-> "none"]
        /\ inside  = {}

(* q without its i-th entry: `self._waiters.remove(fut)`. *)
Without(q, i) == [j \in 1 .. Len(q) - 1 |-> IF j < i THEN q[j] ELSE q[j + 1]]

\* Mutant of WakeUpFirst: leaves the result where the future was.
WakeUpWithResult(q, f) ==
    IF q # <<>> /\ f[Head(q)] = "pending" THEN [f EXCEPT ![Head(q)] = "result"] ELSE f

(* Lock._wake_up_first: resolve the first future unless it is done already *)
(* (its task will then look for the next one itself, see GiveUp).          *)
WakeUpFirst(q, f) ==
    IF q # <<>> /\ f[Head(q)] = "pending"
    THEN [f EXCEPT ![Head(q)] = "woken"]
    ELSE f

\* Mutant of MayTakeAtOnce: a newcomer looks at the flag only.
MayBarge == ~locked

(* The guard of acquire's fast path: a newcomer may take a free lock only  *)
(* when every waiter has been cancelled, so it never overtakes a live one. *)
MayTakeAtOnce == ~locked /\ \A i \in DOMAIN waiters : fut[waiters[i]] = "cancelled"

AcquireAtOnce(r) ==
    /\ fut[r] = "none" /\ r \notin inside
    /\ MayTakeAtOnce
    /\ locked' = TRUE
    /\ inside' = inside \cup {r}
    /\ UNCHANGED <<waiters, fut>>

AcquireLater(r) ==
    /\ fut[r] = "none" /\ r \notin inside
    /\ ~MayTakeAtOnce
    /\ waiters' = Append(waiters, r)
    /\ fut' = [fut EXCEPT ![r] = "pending"]
    /\ UNCHANGED <<locked, inside>>

(* GPU2_LOCK_TIMEOUT elapses: wait_for's timer cancels the waiting task.   *)
Timeout(r) ==
    /\ \/ fut[r] = "pending" /\ fut' = [fut EXCEPT ![r] = "cancelled"]
       \/ fut[r] = "woken"   /\ fut' = [fut EXCEPT ![r] = "late"]
    /\ UNCHANGED <<locked, waiters, inside>>

(* The task of a woken waiter runs: it leaves the queue and raises the     *)
(* flag without looking at it again.                                       *)
TakeLock(r) ==
    /\ fut[r] = "woken"
    /\ \E i \in DOMAIN waiters : waiters[i] = r /\ waiters' = Without(waiters, i)
    /\ fut' = [fut EXCEPT ![r] = "none"]
    /\ locked' = TRUE
    /\ inside' = inside \cup {r}

\* Mutant of GiveUp: the wake-up it may have received is not passed on.
GiveUpSilently(r) ==
    /\ fut[r] \in {"cancelled", "late"}
    /\ \E i \in DOMAIN waiters : waiters[i] = r /\ waiters' = Without(waiters, i)
    /\ fut' = [fut EXCEPT ![r] = "none"]
    /\ UNCHANGED <<locked, inside>>

(* The task of a cancelled waiter runs: it leaves the queue, passes the    *)
(* wake-up on if the lock is free, and __aenter__ raises GPU2LockTimeout.  *)
GiveUp(r) ==
    /\ fut[r] \in {"cancelled", "late"}
    /\ \E i \in DOMAIN waiters : waiters[i] = r /\ waiters' = Without(waiters, i)
    /\ fut' = LET f == [fut EXCEPT ![r] = "none"]
              IN  IF locked THEN f ELSE WakeUpFirst(waiters', f)
    /\ UNCHANGED <<locked, inside>>

(* __aexit__: reached on every way out of the body, also by an exception.  *)
Release(r) ==
    /\ r \in inside
    /\ locked' = FALSE
    /\ inside' = inside \ {r}
    /\ fut' = WakeUpFirst(waiters, fut)
    /\ UNCHANGED waiters

Next == \E r \in Reqs : \/ AcquireAtOnce(r) \/ AcquireLater(r) \/ Timeout(r)
                        \/ TakeLock(r) \/ GiveUp(r) \/ Release(r)

Spec == Init /\ [][Next]_vars

(* The loop runs every ready task and the body of `async with` ends.       *)
(* Nothing is assumed of the timer.                                        *)
Fairness == \A r \in Reqs : /\ WF_vars(TakeLock(r))
                            /\ WF_vars(GiveUp(r))
                            /\ WF_vars(Release(r))

FairSpec == Spec /\ Fairness
-----------------------------------------------------------------------------
(* A waiter that will still take the lock when its task runs. *)
Live(r) == fut[r] \in {"pending", "woken"}

(* No two coroutines are ever in the body of `async with gpu2_lock()`, and *)
(* the flag says whether one is (TakeLock does not test the flag: that the *)
(* woken task cannot find it up is what has to be shown).                  *)
MutualExclusion == /\ \A r, s \in inside : r = s
                   /\ locked <=> inside # {}

(* A free lock with waiters has a task on its way to it: the head of the   *)
(* queue has been woken or cancelled, whatever the order in which release, *)
(* the timer and the tasks ran.                                            *)
NoLostWakeup == ~locked /\ waiters # <<>> => fut[Head(waiters)] # "pending"

(* A coroutine never gets in ahead of a live waiter that queued before it. *)
NoOvertaking ==
    [][\A r \in inside' \ inside, i \in DOMAIN waiters :
          Live(waiters[i]) => \E j \in 1 .. i : waiters[j] = r]_vars

(* If every body ends, every waiter leaves the queue, although no timeout  *)
(* is ever obliged to fire.                                                *)
NoStarvation == \A r \in Reqs : fut[r] = "pending" ~> fut[r] = "none"

(* The lock implements the abstract one: a coroutine waits there from the  *)
(* time it queues until it gets in or its timer fires.                     *)
Mutex == INSTANCE Gpu2Mutex WITH waiting <- {r \in Reqs : Live(r)}
MutexSpec == Mutex!Spec
=============================================================================
