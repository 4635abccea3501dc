---------------------------- MODULE IdleWatcher ----------------------------
(***************************************************************************)
(* The engines of GPU 2 together with the background task that frees the   *)
(* models of a service nobody uses (api/infrastructure/utils/              *)
(* idle_watcher.py), and the router that makes the engines anew.  The      *)
(* watcher takes no lock and looks only at the time of the last arrival.   *)
(* Nothing bounds the time between two steps of a request, so here it may  *)
(* act at any moment; Gateway has its clock.                               *)
(*                                                                         *)
(* What OCR loads belongs to its class, a converter to its DoclingEngine.  *)
(* Gpu2Engines' variables stand for the latest DoclingEngine, the one that *)
(* _engine_unloaders knows; `old` are the ones before it.                  *)
(***************************************************************************)
EXTENDS Gpu2Engines

VARIABLES held,        \* engines the router has an object of
          old          \* earlier DoclingEngines that requests still use

watchVars == <<vars, held, old>>

\* The router keeps no ColPali engine, so the watcher never meets it.
Routed == {"docling", "ocr"}

OldEngine == [users     : (SUBSET DoclingReqs) \ {{}},
              converter : {{}} \cup Converters,
              cpu       : BOOLEAN]

WatchTypeOK == /\ TypeOK
               /\ held \subseteq Routed
               /\ old \subseteq OldEngine

WatchInit == /\ Init
             /\ held = registered
             /\ old  = {}

InHand(r) == pc[r] \notin {"idle", "done"}

OnOld == UNION {o.users : o \in old}
-----------------------------------------------------------------------------
(* _get_engine: an engine is made when the router has none. *)

\* The requests that hold the latest DoclingEngine keep it.
Superseded == LET users == {r \in DoclingReqs : InHand(r)} \ OnOld IN
              IF users = {} THEN {}
              ELSE {[users |-> users, converter |-> loaded["docling"], cpu |-> useCpu]}

DoclingArrives(r) ==
    /\ pc[r] = "idle"
    /\ held' = held \cup {"docling"}
    /\ \/ /\ "docling" \in held
          /\ DoclingCall(r, loaded, useCpu)
          /\ UNCHANGED old
       \/ /\ "docling" \notin held
          /\ DoclingCall(r, [loaded EXCEPT !["docling"] = {}], FALSE)
          /\ old' = old \cup Superseded

OcrArrives(r) == /\ pc[r] = "idle"
                 /\ held' = held \cup {"ocr"}
                 /\ Ocr(r)
                 /\ UNCHANGED old
-----------------------------------------------------------------------------
(* A request goes on with the engine it was given. *)

\* An earlier engine changes; without users it is collected.
Changed(o, p) == old' = (old \ {o}) \cup (IF p.users = {} THEN {} ELSE {p})

OldEnter(r, o) ==
    /\ pc[r] = "waiting"
    /\ loaded' = AfterUnloadOthers("docling", loaded)
    /\ \/ /\ EnterBody(r, "submitted")
          /\ Changed(o, [o EXCEPT !.converter = NewConverter(o.cpu)])
       \/ /\ EnterBody(r, "finished")
          /\ UNCHANGED old
    /\ UNCHANGED <<useCpu, registered, armed>>

OldRetry(r, o) ==
    /\ \/ /\ SecondTry(r, "submitted")
          /\ Changed(o, [o EXCEPT !.converter = NewConverter(TRUE), !.cpu = TRUE])
       \/ /\ SecondTry(r, "finished")
          /\ Changed(o, [o EXCEPT !.converter = {}, !.cpu = TRUE])
    /\ UNCHANGED <<loaded, useCpu>>

OldStart(r, o) == /\ Goto(r, "submitted", "running")
                  /\ armed' = [armed EXCEPT ![r] = o.converter # {}]
                  /\ UNCHANGED <<lockVars, engineVars, outcome, retried, answer, old>>

OldEnds(r, o) == /\ Answer(r) \/ Timeout(r)
                 /\ Changed(o, [o EXCEPT !.users = @ \ {r}])

OnOldEngine(r) == \E o \in old : /\ r \in o.users
                                 /\ \/ OldEnter(r, o) \/ OldRetry(r, o)
                                    \/ OldStart(r, o) \/ OldEnds(r, o)
                                    \/ FinishThread(r) /\ UNCHANGED old

OnEngine(r) == /\ r \notin OnOld /\ pc[r] # "idle"
               /\ \/ r \in DoclingReqs /\ Docling(r)
                  \/ r \in OcrReqs /\ Ocr(r)
                  \/ StartThread(r) \/ FinishThread(r) \/ Answer(r)
                  \/ Timeout(r) \/ NextRequest(r)
               /\ UNCHANGED old

\* The other actions of ColPali's requests are those of all.
ColPaliStep(r) == /\ ColPali(r)
                  /\ UNCHANGED old

RequestStep == \/ \E r \in DoclingReqs : DoclingArrives(r)
               \/ \E r \in OcrReqs : OcrArrives(r)
               \/ /\ \/ \E r \in ColPaliReqs : ColPaliStep(r)
                     \/ \E r \in Reqs : OnOldEngine(r) \/ OnEngine(r)
                  /\ UNCHANGED held
-----------------------------------------------------------------------------
(* _unload_all_models: the engines are unloaded and their objects dropped. *)
UnloadAll == /\ held # {}
             /\ loaded'  = [e \in Engines |-> IF e \in held THEN {} ELSE loaded[e]]
             /\ current' = "none"
             /\ held'    = {}
             /\ UNCHANGED <<lockVars, pc, useCpu, registered, jobVars, answer, old>>

WatchNext == RequestStep \/ UnloadAll

WatchSpec == WatchInit /\ [][WatchNext]_watchVars
-----------------------------------------------------------------------------
(* idle_watcher.py:43: the watcher unloads "all GPU models".  What an idle *)
(* service keeps on GPU 2 should therefore be within its reach; but a      *)
(* request that was in hand when it dropped the engines builds its         *)
(* converter in an engine the router no longer has.                        *)
WithinReach == (\A r \in Reqs : ~InHand(r)) =>
                  \A e \in Routed : OnGpu2(e) => e \in held
=============================================================================
