----------------------------- MODULE VlmEngine -----------------------------
(***************************************************************************)
(* VLMEngine (api/infrastructure/models/vlm_engine.py): inference on GPU 1 *)
(* behind a class-wide asyncio.Semaphore (Python 3.12) that is awaited     *)
(* under a timeout.  Unlike the lock of GPU 2, the semaphore hands a       *)
(* permit to a waiter when it wakes it; a waiter whose timer fires after   *)
(* that has to give the permit back.  `with torch.no_grad()` spans the     *)
(* wait for the executor and switches the mode of the LOOP's thread, which *)
(* all coroutines share.                                                   *)
(***************************************************************************)
EXTENDS Naturals, FiniteSets, SequencesExt

CONSTANT Reqs                 \* coroutines that call generate

VARIABLES value,              \* Semaphore._value
          waiters,            \* Semaphore._waiters, oldest first
          fut,                \* the future each coroutine waits on
          loaded,             \* VLMEngine._loaded
          pc,                 \* where each coroutine is
          grad,               \* is autograd on in the loop's thread?
          saved,              \* what no_grad puts back when it is left
          answer              \* what the caller gets

semVars == <<value, waiters, fut>>
vars    == <<semVars, loaded, pc, grad, saved, answer>>

Permits == 1                  \* asyncio.Semaphore(1)

\* "late": woken, then cancelled by the timer before its task ran.
FutStates == {"none", "pending", "woken", "cancelled", "late"}
PcStates  == {"idle", "waiting", "preparing", "generating", "done"}
Answers   == {"none", "text", "error", "busy"}

TypeOK == /\ value   \in 0 .. Permits
          /\ waiters \in Seq(Reqs)
          /\ fut     \in [Reqs -> FutStates]
          /\ loaded  \in BOOLEAN
          /\ pc      \in [Reqs -> PcStates]
          /\ grad    \in BOOLEAN
          /\ saved   \in [Reqs -> BOOLEAN]
          /\ answer  \in [Reqs -> Answers]

Init == /\ value   = Permits
        /\ waiters = <<>>
        /\ fut     = [r \in Reqs |-> "none"]
        /\ loaded  = FALSE
        /\ pc      = [r \in Reqs |-> "idle"]
        /\ grad    = TRUE
        /\ saved   = [r \in Reqs |-> TRUE]
        /\ answer  = [r \in Reqs |-> "none"]

Goto(r, from, to) == pc[r] = from /\ pc' = [pc EXCEPT ![r] = to]

Reply(r, a) == answer' = [answer EXCEPT ![r] = a]
-----------------------------------------------------------------------------
(* asyncio.Semaphore *)

\* Mutant of Locked: a newcomer looks at the queue only.
LockedByWaiters == \E i \in DOMAIN waiters : fut[waiters[i]] # "cancelled"

\* A newcomer has to queue: no permit is free, or somebody is before it.
Locked == value = 0 \/ \E i \in DOMAIN waiters : fut[waiters[i]] # "cancelled"

\* n permits are free: the first n waiters whose future is not done get one
\* each, and what is left stays in the counter.
Hand(n, q, f) ==
    LET asleep == {i \in DOMAIN q : f[q[i]] = "pending"}
        woken  == {q[i] : i \in {j \in asleep : Cardinality({k \in asleep : k < j}) < n}} IN
    /\ fut'   = [r \in Reqs |-> IF r \in woken THEN "woken" ELSE f[r]]
    /\ value' = n - Cardinality(woken)

\* release
Released == /\ Hand(value + 1, waiters, fut)
            /\ UNCHANGED waiters

\* Mutant of Back: a late waiter forgets the permit it was handed.
BackNever(r) == 0

\* Mutant of Back: a waiter that gives up returns a permit it was never handed.
BackAlways(r) == 1

\* The permit a cancelled waiter gives back, if it was handed one.
Back(r) == IF fut[r] = "late" THEN 1 ELSE 0

\* The task of r runs: it leaves the queue, and permits that are free go on.
Unqueue(r, n) == \E i \in DOMAIN waiters :
                    /\ waiters[i] = r
                    /\ waiters' = RemoveAt(waiters, i)
                    /\ Hand(value + n, waiters', [fut EXCEPT ![r] = "none"])
-----------------------------------------------------------------------------
(* generate *)

\* load_model comes before the semaphore and does not suspend.
LoadFails(r) == /\ ~loaded
                /\ Goto(r, "idle", "done")
                /\ Reply(r, "error")
                /\ UNCHANGED <<semVars, loaded, grad, saved>>

AcquireAtOnce(r) == /\ ~Locked
                    /\ Goto(r, "idle", "preparing")
                    /\ value' = value - 1
                    /\ loaded' = TRUE
                    /\ UNCHANGED <<waiters, fut, grad, saved, answer>>

AcquireLater(r) == /\ Locked
                   /\ Goto(r, "idle", "waiting")
                   /\ waiters' = Append(waiters, r)
                   /\ fut' = [fut EXCEPT ![r] = "pending"]
                   /\ loaded' = TRUE
                   /\ UNCHANGED <<value, grad, saved, answer>>

\* _SEMAPHORE_TIMEOUT elapses.
Timeout(r) == /\ \/ fut[r] = "pending" /\ fut' = [fut EXCEPT ![r] = "cancelled"]
                 \/ fut[r] = "woken"   /\ fut' = [fut EXCEPT ![r] = "late"]
              /\ UNCHANGED <<value, waiters, loaded, pc, grad, saved, answer>>

Acquired(r) == /\ fut[r] = "woken"
               /\ Goto(r, "waiting", "preparing")
               /\ Unqueue(r, 0)
               /\ UNCHANGED <<loaded, grad, saved, answer>>

GiveUp(r) == /\ fut[r] \in {"cancelled", "late"}
             /\ Goto(r, "waiting", "done")
             /\ Unqueue(r, Back(r))
             /\ Reply(r, "busy")
             /\ UNCHANGED <<loaded, grad, saved>>

\* _generate_impl up to no_grad; it suspends for images and for the messages.
PrepareFails(r) == /\ Goto(r, "preparing", "done")
                   /\ Released
                   /\ Reply(r, "error")
                   /\ UNCHANGED <<loaded, grad, saved>>

Submit(r) == /\ Goto(r, "preparing", "generating")
             /\ saved' = [saved EXCEPT ![r] = grad]
             /\ grad'  = FALSE
             /\ UNCHANGED <<semVars, loaded, answer>>

\* Mutant of Finish: an inference that raised keeps its permit.
FinishKeeps(r) == /\ Goto(r, "generating", "done")
                  /\ grad' = saved[r]
                  /\ \/ Reply(r, "text") /\ Released
                     \/ Reply(r, "error") /\ UNCHANGED semVars
                  /\ UNCHANGED <<loaded, saved>>

\* The executor is done: no_grad is left, then the semaphore, on every path.
Finish(r) == /\ Goto(r, "generating", "done")
             /\ grad' = saved[r]
             /\ Released
             /\ \E a \in {"text", "error"} : Reply(r, a)
             /\ UNCHANGED <<loaded, saved>>

NextRequest(r) == /\ Goto(r, "done", "idle")
                  /\ Reply(r, "none")
                  /\ saved' = [saved EXCEPT ![r] = TRUE]
                  /\ UNCHANGED <<semVars, loaded, grad>>

\* The idle watcher drops the engine object, also under a long inference; the
\* next request makes a new one, which loads anew.  Requests past their load
\* keep the old object, and share the class's semaphore with the new one's.
IdleUnload == /\ loaded
              /\ loaded' = FALSE
              /\ UNCHANGED <<semVars, pc, grad, saved, answer>>

Next == \/ \E r \in Reqs :
              \/ LoadFails(r) \/ AcquireAtOnce(r) \/ AcquireLater(r) \/ Timeout(r)
              \/ Acquired(r) \/ GiveUp(r) \/ PrepareFails(r) \/ Submit(r)
              \/ Finish(r) \/ NextRequest(r)
        \/ IdleUnload

Spec == Init /\ [][Next]_vars

(* The loop runs what is ready, preparing and generating end.  Nothing is  *)
(* assumed of the timers.                                                  *)
Fairness == \A r \in Reqs : /\ WF_vars(Acquired(r))
                            /\ WF_vars(GiveUp(r))
                            /\ WF_vars(PrepareFails(r) \/ Submit(r))
                            /\ WF_vars(Finish(r))

FairSpec == Spec /\ Fairness
-----------------------------------------------------------------------------
Holders == {r \in Reqs : pc[r] \in {"preparing", "generating"}}

Handed == {r \in Reqs : fut[r] \in {"woken", "late"}}

(* The one permit is in one place: in the counter, with the coroutine in   *)
(* _generate_impl, or with a waiter that was woken, also when its timer    *)
(* has fired since; so one inference at a time runs on GPU 1, and no       *)
(* sequence of timeouts uses the permit up.                                *)
OnePermit == value + Cardinality(Holders) + Cardinality(Handed) = Permits

(* Autograd of the loop's thread is off exactly while an inference is      *)
(* awaited: the no_grad blocks of two coroutines never overlap, so that    *)
(* none puts back what another had switched off.                           *)
GradRestored == grad <=> \A r \in Reqs : pc[r] # "generating"

(* Every request is answered, in the end by the inference before it in the *)
(* queue: no timer needs to fire.                                          *)
EveryoneAnswered == \A r \in Reqs : pc[r] = "waiting" ~> pc[r] = "done"

(* With its one permit, its handed permits and its own timers the          *)
(* semaphore implements the abstract lock that the engines of GPU 2 are    *)
(* built on: a coroutine waits there until it gets in or its timer fires.  *)
Mutex == INSTANCE Gpu2Mutex WITH
            inside  <- Holders,
            waiting <- {r \in Reqs : fut[r] \in {"pending", "woken"}}
MutexSpec == Mutex!Spec
=============================================================================
