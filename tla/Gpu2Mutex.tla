------------------------------ MODULE Gpu2Mutex ------------------------------
(***************************************************************************)
(* What `async with gpu2_lock()` promises to the three engines of GPU 2    *)
(* (api/infrastructure/utils/gpu2_lock.py): a coroutine that asks either   *)
(* gets in, alone, or gives up after GPU2_LOCK_TIMEOUT.  Nothing is said   *)
(* here of asyncio's futures and wake-ups: Gpu2Lock has them and is shown  *)
(* to implement this module, and Gpu2Engines is built on this module.      *)
(* The semaphore of GPU 1 keeps the same promise (VlmEngine).              *)
(***************************************************************************)
EXTENDS FiniteSets

CONSTANT Reqs          \* the coroutines that use the lock

VARIABLES inside,      \* between __aenter__'s return and __aexit__
          waiting      \* suspended in __aenter__ and not timed out

mutexVars == <<inside, waiting>>

MutexTypeOK == /\ inside  \subseteq Reqs
               /\ waiting \subseteq Reqs

Init == inside = {} /\ waiting = {}

Outside(r) == r \notin inside \cup waiting

\* The lock is free and nobody else wants it: __aenter__ returns at once.
EnterNow(r) == /\ Outside(r)
               /\ inside = {} /\ waiting = {}
               /\ inside' = {r}
               /\ UNCHANGED waiting

\* Otherwise the coroutine is suspended.
Ask(r) == /\ Outside(r)
          /\ waiting' = waiting \cup {r}
          /\ UNCHANGED inside

\* A suspended coroutine gets a lock that is free.
Grant(r) == /\ r \in waiting
            /\ inside = {}
            /\ inside' = {r}
            /\ waiting' = waiting \ {r}

\* The timeout of a suspended coroutine fires (GPU2LockTimeout).
Abandon(r) == /\ r \in waiting
              /\ waiting' = waiting \ {r}
              /\ UNCHANGED inside

\* __aexit__
Leave(r) == /\ r \in inside
            /\ inside' = inside \ {r}
            /\ UNCHANGED waiting

Next == \E r \in Reqs : \/ EnterNow(r) \/ Ask(r) \/ Grant(r)
                        \/ Abandon(r) \/ Leave(r)

Spec == Init /\ [][Next]_mutexVars
=============================================================================
