------------------------- MODULE IdleWatcher_proofs -------------------------
(***************************************************************************)
(* What the watcher of idle models leaves true, although it takes no lock  *)
(* and may act in the middle of any request.  Of Gpu2Engines_proofs SInv   *)
(* is kept: the watcher only takes models away, and a request that goes on *)
(* with an engine the router dropped still asks the same lock and unloads  *)
(* the others at it.  What EInv adds to SInv is not: the watcher takes a   *)
(* model between a job's submission and its thread's read, and the name of *)
(* the lock's holder with it.  The engines of OneTenant and FallbackSticks *)
(* are the latest ones; a converter of an earlier one is out of reach of   *)
(* the unloading at the lock.                                              *)
(***************************************************************************)
EXTENDS IdleWatcher, Gpu2Engines_proofs

(* No Docling engine that fell back to the CPU, not even one that the      *)
(* router dropped, builds a converter for the GPU again.                   *)
EachFallbackSticks == /\ FallbackSticks
                      /\ \A o \in old : o.cpu => o.converter # {"converter"}

WInv == SInv /\ WatchTypeOK /\ EachFallbackSticks
-----------------------------------------------------------------------------
(* A request goes on with an engine of the router, or gets a new one. *)

(* The engine the requests in hand keep when a new one is made.            *)
LEMMA SupersededFacts ==
    ASSUME WInv
    PROVE  \A o \in Superseded : o \in OldEngine /\ (o.cpu => o.converter # {"converter"})
<1>1. /\ loaded["docling"] \in {{}} \cup Converters /\ useCpu \in BOOLEAN
      /\ useCpu => loaded["docling"] # {"converter"}
  BY DEF WInv, SInv, Shapes, TypeOK, FallbackSticks, OnGpu2
<1> DEFINE users == {r \in DoclingReqs : InHand(r)} \ OnOld
<1>2. users \subseteq DoclingReqs
  OBVIOUS
<1>3. Superseded = IF users = {} THEN {}
                   ELSE {[users |-> users, converter |-> loaded["docling"], cpu |-> useCpu]}
  BY DEF Superseded
<1> HIDE DEF users
<1>4. CASE users = {}
  BY <1>3, <1>4
<1>5. CASE users # {}
  <2> DEFINE o == [users |-> users, converter |-> loaded["docling"], cpu |-> useCpu]
  <2>1. users \in (SUBSET DoclingReqs) \ {{}}
    BY <1>2, <1>5
  <2>2. o \in OldEngine /\ (o.cpu => o.converter # {"converter"})
    BY <1>1, <2>1 DEF OldEngine
  <2>3. Superseded = {o}
    BY <1>3, <1>5
  <2> HIDE DEF o
  <2>4. QED
    BY <2>2, <2>3
<1>6. QED
  BY <1>4, <1>5

LEMMA DoclingCallSInv ==
    ASSUME SInv, NEW r \in DoclingReqs, NEW ld, NEW cpu,
           Handed(ld, cpu), DoclingCall(r, ld, cpu)
    PROVE  SInv'
BY DoclingWithoutGpuSInv, DoclingAskSInv, DoclingEnterSInv DEF DoclingCall

LEMMA DoclingArrivesWInv ==
    ASSUME WInv, NEW r \in DoclingReqs, DoclingArrives(r)
    PROVE  WInv'
<1> USE DEF WInv
<1>1. CASE DoclingCall(r, loaded, useCpu) /\ UNCHANGED old
  <2>1. SInv'
    BY <1>1, DoclingCallSInv DEF Handed
  <2>2. QED
    BY <1>1, <2>1 DEF SInv, DoclingArrives, WatchTypeOK, EachFallbackSticks, Routed
<1>2. CASE /\ DoclingCall(r, [loaded EXCEPT !["docling"] = {}], FALSE)
           /\ old' = old \cup Superseded
  <2>1. SInv'
    BY <1>2, DoclingCallSInv DEF Handed
  <2>2. QED
    BY <1>2, <2>1, SupersededFacts DEF SInv, DoclingArrives, WatchTypeOK,
       EachFallbackSticks, Routed
<1>3. QED
  BY <1>1, <1>2 DEF DoclingArrives

LEMMA OcrSInv ==
    ASSUME SInv, NEW r \in OcrReqs, Ocr(r)
    PROVE  SInv'
BY OcrManualSInv, OcrAskSInv, OcrEnterSInv DEF Ocr

LEMMA OcrArrivesWInv ==
    ASSUME WInv, NEW r \in OcrReqs, OcrArrives(r)
    PROVE  WInv'
BY OcrSInv DEF WInv, SInv, OcrArrives, WatchTypeOK, EachFallbackSticks, Routed

LEMMA ColPaliWInv ==
    ASSUME WInv, NEW r \in ColPaliReqs, ColPaliStep(r), UNCHANGED held
    PROVE  WInv'
<1>1. SInv'
  BY ColPaliLoadFailsSInv, ColPaliAskSInv, ColPaliEnterSInv DEF WInv, ColPaliStep, ColPali
<1>2. QED
  BY <1>1 DEF WInv, SInv, ColPaliStep, WatchTypeOK, EachFallbackSticks

LEMMA OnEngineWInv ==
    ASSUME WInv, NEW r \in Reqs, OnEngine(r), UNCHANGED held
    PROVE  WInv'
<1>1. ASSUME r \in DoclingReqs /\ Docling(r) PROVE SInv'
  BY <1>1, DoclingCallSInv, DoclingRetrySInv DEF WInv, Docling, Handed
<1>2. ASSUME r \in OcrReqs /\ Ocr(r) PROVE SInv'
  BY <1>2, OcrSInv DEF WInv
<1>3. ASSUME StartThread(r) \/ FinishThread(r) \/ Answer(r) \/ Timeout(r) \/ NextRequest(r)
      PROVE  SInv'
  BY <1>3, StartThreadSInv, FinishThreadSInv, AnswerSInv, TimeoutSInv, NextRequestSInv
     DEF WInv
<1>4. SInv'
  BY <1>1, <1>2, <1>3 DEF OnEngine, WInv
<1>5. QED
  BY <1>4 DEF WInv, SInv, OnEngine, WatchTypeOK, EachFallbackSticks
-----------------------------------------------------------------------------
(* A request goes on with a Docling engine that the router dropped.        *)

(* An earlier engine that changes to one of the same kind.                 *)
LEMMA ChangedFacts ==
    ASSUME WatchTypeOK, EachFallbackSticks, NEW o \in old, NEW p, Changed(o, p),
           p.users = {} \/ p \in OldEngine, p.cpu => p.converter # {"converter"}
    PROVE  /\ old' \subseteq OldEngine
           /\ \A q \in old' : q.cpu => q.converter # {"converter"}
BY DEF WatchTypeOK, EachFallbackSticks, Changed

(* The lock and the unloading at it are those of the latest engine; only   *)
(* the converter is built elsewhere.                                       *)
LEMMA OldEnterWInv ==
    ASSUME WInv, NEW o \in old, NEW r \in o.users, OldEnter(r, o), UNCHANGED held
    PROVE  WInv'
<1> USE ReqsAssumption DEF WInv
<1>1. /\ o \in OldEngine /\ r \in DoclingReqs /\ o.cpu \in BOOLEAN
      /\ o.users \in (SUBSET DoclingReqs) \ {{}}
  BY DEF WatchTypeOK, OldEngine
<1>2. PICK to \in {"submitted", "finished"} : EnterBody(r, to)
  BY DEF OldEnter
<1>3. "docling" \in registered
  <2>1. r \in waiting /\ EngineOf(r) = "docling"
    BY <1>1 DEF OldEnter, SInv, WaitersWait, EngineOf, Reqs
  <2>2. QED
    BY <2>1 DEF SInv, LoadedIsRegistered
<1>4. SInv'
  BY <1>1, <1>2, <1>3, DoclingEntersSInv DEF OldEnter, Handed
<1>5. /\ old' \subseteq OldEngine
      /\ \A q \in old' : q.cpu => q.converter # {"converter"}
  <2>1. CASE Changed(o, [o EXCEPT !.converter = NewConverter(o.cpu)])
    <3> DEFINE p == [o EXCEPT !.converter = NewConverter(o.cpu)]
    <3>1. p \in OldEngine /\ (p.cpu => p.converter # {"converter"})
      BY <1>1 DEF OldEngine, NewConverter, Converters
    <3> HIDE DEF p
    <3>2. QED
      BY <2>1, <3>1, ChangedFacts DEF p
  <2>2. CASE UNCHANGED old
    BY <2>2 DEF WatchTypeOK, EachFallbackSticks
  <2>3. QED
    BY <2>1, <2>2 DEF OldEnter
<1>6. QED
  BY <1>4, <1>5 DEF SInv, WatchTypeOK, EachFallbackSticks

(* The second conversion on an earlier engine leaves the latest alone.     *)
LEMMA OldRetryWInv ==
    ASSUME WInv, NEW o \in old, NEW r \in o.users, OldRetry(r, o), UNCHANGED held
    PROVE  WInv'
<1> USE ReqsAssumption DEF WInv
<1>1. o \in OldEngine /\ r \in DoclingReqs /\ r \in Reqs
  BY DEF WatchTypeOK, OldEngine, Reqs
<1>2. PICK to \in {"submitted", "finished"} : SecondTry(r, to)
  BY DEF OldRetry
<1>3. /\ pc' = [pc EXCEPT ![r] = to]
      /\ outcome' = [outcome EXCEPT ![r] = IF to = "finished" THEN "error" ELSE "none"]
      /\ retried' = retried \cup {r}
      /\ inside' = inside /\ waiting' = waiting
      /\ registered' = registered /\ current' = current
      /\ armed' = armed /\ answer' = answer
      /\ OneJob' /\ WaitersWait'
      /\ InFlight' = InFlight
  BY <1>1, <1>2, SecondTryFacts
<1>4. loaded' = loaded /\ useCpu' = useCpu
  BY DEF OldRetry
<1>5. TypeOK'
  BY <1>1, <1>3, <1>4 DEF SInv, TypeOK, Mutex!MutexTypeOK, PcStates, Outcomes
<1>6. LoadedIsRegistered' /\ Shapes' /\ FallbackSticks' /\ OneTenant'
  BY <1>3, <1>4 DEF SInv, LoadedIsRegistered, Shapes, FallbackSticks, OneTenant, OnGpu2
<1>7. SInv'
  BY <1>3, <1>5, <1>6 DEF SInv
<1>8. PICK c \in {{"converter", "cpu"}, {}} :
         Changed(o, [o EXCEPT !.converter = c, !.cpu = TRUE])
  BY DEF OldRetry, NewConverter
<1>9. /\ old' \subseteq OldEngine
      /\ \A q \in old' : q.cpu => q.converter # {"converter"}
  <2> DEFINE p == [o EXCEPT !.converter = c, !.cpu = TRUE]
  <2>1. p \in OldEngine /\ (p.cpu => p.converter # {"converter"})
    BY <1>1, <1>8 DEF OldEngine, Converters
  <2> HIDE DEF p
  <2>2. QED
    BY <1>8, <2>1, ChangedFacts DEF p
<1>10. QED
  BY <1>7, <1>9 DEF SInv, WatchTypeOK, EachFallbackSticks

(* The thread reads the earlier engine.                                    *)
LEMMA OldStartWInv ==
    ASSUME WInv, NEW o \in old, NEW r \in o.users, OldStart(r, o), UNCHANGED held
    PROVE  WInv'
<1> USE ReqsAssumption DEF WInv
<1>1. r \in DoclingReqs /\ r \in Reqs
  BY DEF WatchTypeOK, OldEngine, Reqs
<1>2. PICK b \in BOOLEAN : armed' = [armed EXCEPT ![r] = b]
  BY DEF OldStart
<1>3. /\ pc[r] = "submitted" /\ pc' = [pc EXCEPT ![r] = "running"]
      /\ UNCHANGED <<inside, waiting, loaded, useCpu, registered, current,
                     outcome, retried, answer, old>>
  BY DEF OldStart, Goto, lockVars, engineVars
<1>4. TypeOK'
  BY <1>1, <1>2, <1>3 DEF SInv, TypeOK, Mutex!MutexTypeOK, PcStates
<1>5. InFlight' = InFlight
  BY <1>1, <1>3 DEF SInv, TypeOK, InFlight
<1>6. OneJob' /\ WaitersWait'
  BY <1>1, <1>3, <1>5 DEF SInv, TypeOK, OneJob, WaitersWait
<1>7. LoadedIsRegistered' /\ Shapes' /\ FallbackSticks' /\ OneTenant'
  BY <1>3, <1>5 DEF SInv, LoadedIsRegistered, Shapes, FallbackSticks, OneTenant, OnGpu2
<1>8. QED
  BY <1>3, <1>4, <1>6, <1>7 DEF SInv, WatchTypeOK, EachFallbackSticks

(* A request that ends lets go of the earlier engine.                      *)
LEMMA OldEndsWInv ==
    ASSUME WInv, NEW o \in old, NEW r \in o.users, OldEnds(r, o), UNCHANGED held
    PROVE  WInv'
<1> USE ReqsAssumption DEF WInv
<1>1. o \in OldEngine /\ r \in Reqs /\ (o.cpu => o.converter # {"converter"})
  BY DEF WatchTypeOK, OldEngine, Reqs, EachFallbackSticks
<1>2. SInv'
  BY <1>1, AnswerSInv, TimeoutSInv DEF OldEnds
<1>3. /\ old' \subseteq OldEngine
      /\ \A q \in old' : q.cpu => q.converter # {"converter"}
  <2> DEFINE p == [o EXCEPT !.users = @ \ {r}]
  <2>1. (p.users = {} \/ p \in OldEngine) /\ (p.cpu => p.converter # {"converter"})
    BY <1>1 DEF OldEngine
  <2>2. Changed(o, p)
    BY DEF OldEnds
  <2> HIDE DEF p
  <2>3. QED
    BY <2>1, <2>2, ChangedFacts
<1>4. QED
  BY <1>2, <1>3 DEF SInv, WatchTypeOK, EachFallbackSticks

LEMMA OnOldEngineWInv ==
    ASSUME WInv, NEW r \in Reqs, OnOldEngine(r), UNCHANGED held
    PROVE  WInv'
<1>1. PICK o \in old : /\ r \in o.users
                       /\ \/ OldEnter(r, o) \/ OldRetry(r, o)
                          \/ OldStart(r, o) \/ OldEnds(r, o)
                          \/ FinishThread(r) /\ UNCHANGED old
  BY DEF OnOldEngine
<1>2. CASE FinishThread(r) /\ UNCHANGED old
  BY <1>2, FinishThreadSInv DEF WInv, SInv, WatchTypeOK, EachFallbackSticks
<1>3. QED
  BY <1>1, <1>2, OldEnterWInv, OldRetryWInv, OldStartWInv, OldEndsWInv
-----------------------------------------------------------------------------
(* The watcher takes models away and nothing else.                         *)
LEMMA UnloadAllWInv ==
    ASSUME WInv, UnloadAll
    PROVE  WInv'
<1> USE DEF WInv
<1>1. /\ loaded' \in [Engines -> SUBSET Parts]
      /\ \A x \in Engines : loaded'[x] \in {loaded[x], {}}
  BY DEF UnloadAll, SInv, TypeOK
<1>2. /\ UNCHANGED <<inside, waiting, pc, useCpu, registered, armed, outcome,
                     retried, answer, old>>
      /\ current' = "none" /\ held' = {}
  BY DEF UnloadAll, lockVars, jobVars
<1>3. "docling" \in Engines /\ "ocr" \in Engines
  BY DEF Engines
<1>4. TypeOK'
  BY <1>1, <1>2 DEF SInv, TypeOK, Mutex!MutexTypeOK
<1>5. InFlight' = InFlight
  BY <1>2 DEF InFlight
<1>6. OneJob' /\ WaitersWait'
  BY <1>2, <1>5 DEF SInv, OneJob, WaitersWait
<1>7. LoadedIsRegistered' /\ Shapes' /\ FallbackSticks'
  BY <1>1, <1>2, <1>3 DEF SInv, LoadedIsRegistered, Shapes, FallbackSticks, OnGpu2
<1>8. OneTenant'
  BY <1>1, <1>3, <1>5 DEF SInv, OneTenant, OnGpu2
<1>9. QED
  BY <1>2, <1>4, <1>6, <1>7, <1>8 DEF SInv, WatchTypeOK, EachFallbackSticks

LEMMA WatchInitWInv == WatchInit => WInv
<1> SUFFICES ASSUME WatchInit PROVE WInv
  OBVIOUS
<1>1. SInv /\ FallbackSticks
  BY InitEInv DEF WatchInit, EInv, SInv
<1>2. held \subseteq Routed /\ old = {}
  BY DEF WatchInit, Init, Routed
<1>3. QED
  BY <1>1, <1>2 DEF WInv, SInv, WatchTypeOK, EachFallbackSticks

LEMMA WatchNextWInv == WInv /\ [WatchNext]_watchVars => WInv'
<1> SUFFICES ASSUME WInv, [WatchNext]_watchVars PROVE WInv'
  OBVIOUS
<1>1. CASE UNCHANGED watchVars
  <2>1. SInv'
    BY <1>1 DEF WInv, SInv, TypeOK, Mutex!MutexTypeOK, OneJob, WaitersWait,
       LoadedIsRegistered, Shapes, OneTenant, FallbackSticks, InFlight, OnGpu2,
       watchVars, vars, lockVars, engineVars, jobVars
  <2>2. QED
    BY <1>1, <2>1 DEF WInv, SInv, WatchTypeOK, EachFallbackSticks, watchVars
<1>2. CASE RequestStep
  BY <1>2, DoclingArrivesWInv, OcrArrivesWInv, ColPaliWInv, OnOldEngineWInv,
     OnEngineWInv DEF RequestStep
<1>3. CASE UnloadAll
  BY <1>3, UnloadAllWInv
<1>4. QED
  BY <1>1, <1>2, <1>3 DEF WatchNext

(* WInv holds in every reachable state of the engines beside the watcher.  *)
THEOREM WatchedInvariance == WatchSpec => []WInv
<1>1. QED
  BY WatchInitWInv, WatchNextWInv, PTL DEF WatchSpec

(* Every variable keeps its type, the engines the router dropped included. *)
THEOREM WatchedTypesKept == WatchSpec => []WatchTypeOK
<1>1. WInv => WatchTypeOK
  BY DEF WInv
<1>2. QED
  BY <1>1, WatchedInvariance, PTL

(* Jobs stay serial although the watcher acts without the lock and in the  *)
(* middle of requests: one that goes on with an engine the router dropped  *)
(* takes the lock and gives it back as any other.                          *)
THEOREM WatchedJobsAreSerial == WatchSpec => []OneJob
<1>1. WInv => OneJob
  BY DEF WInv, SInv
<1>2. QED
  BY <1>1, WatchedInvariance, PTL

(* OCR and the latest Docling engine are not on GPU 2 together, whenever   *)
(* the watcher unloads them and whatever engine is made anew: what a new   *)
(* engine loads is registered like what the old one had.                   *)
THEOREM WatchedEnginesExclude == WatchSpec => []OneTenant
<1>1. WInv => OneTenant
  BY DEF WInv, SInv
<1>2. QED
  BY <1>1, WatchedInvariance, PTL

(* A Docling engine that fell back to the CPU never builds a converter for *)
(* the GPU again, also when the router has dropped it and made a new one,  *)
(* which starts without the fallback.                                      *)
THEOREM WatchedFallbackSticks == WatchSpec => []EachFallbackSticks
<1>1. WInv => EachFallbackSticks
  BY DEF WInv
<1>2. QED
  BY <1>1, WatchedInvariance, PTL
=============================================================================
