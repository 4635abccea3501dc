------------------------- MODULE Gpu2Engines_proofs -------------------------
(***************************************************************************)
(* Safety of Gpu2Engines for any number of requests of each engine.        *)
(*                                                                         *)
(* That OCR and Docling are never on GPU 2 together is not inductive.  SInv *)
(* adds why the unloading at the lock reaches whatever is loaded: an       *)
(* engine holds something only after it registered its callback.  EInv     *)
(* adds why a thread finds its model: only a request that enters the lock  *)
(* unloads, and nobody enters while a job is in flight.  The idle watcher  *)
(* breaks the second argument and not the first, so the lemmas about SInv  *)
(* stand apart, and those about Docling leave open which engine the router *)
(* hands out: IdleWatcher_proofs cites them.                               *)
(***************************************************************************)
EXTENDS Gpu2Engines, TLAPS

WaitersWait == waiting = {r \in Reqs : pc[r] = "waiting"}

LoadedIsRegistered ==
    /\ \A e \in {"docling", "ocr"} : loaded[e] # {} => e \in registered
    /\ \A r \in inside \cup waiting : EngineOf(r) \in registered

Shapes == /\ loaded["docling"] \in {{}} \cup Converters
          /\ loaded["ocr"] \subseteq FullLoad
          /\ "ready" \in loaded["ocr"] => loaded["ocr"] = FullLoad

SInv == /\ TypeOK /\ OneJob /\ WaitersWait
        /\ LoadedIsRegistered /\ Shapes /\ OneTenant /\ FallbackSticks

\* A job of Docling or OCR keeps what it needs until it is answered.
JobKeepsModel ==
    \A r \in DoclingReqs \cup OcrReqs :
       /\ pc[r] = "submitted" => HasModel(EngineOf(r), loaded)
       /\ r \in OcrReqs /\ (pc[r] = "running" \/ (pc[r] = "finished" /\ outcome[r] = "ok"))
             => "model" \in loaded["ocr"]

EInv == SInv /\ HolderNamed /\ JobKeepsModel /\ JobHasModel /\ ChandraIsNamed

\* What the router hands out: the engine it has, or a new one in its place.
Handed(ld, cpu) == \/ ld = loaded /\ cpu = useCpu
                   \/ ld = [loaded EXCEPT !["docling"] = {}] /\ cpu = FALSE
-----------------------------------------------------------------------------
(* A request that enters the lock finds no job in flight. *)
LEMMA EnterFacts ==
    ASSUME SInv, NEW r \in Reqs, NEW to \in {"submitted", "finished"}, EnterBody(r, to)
    PROVE  /\ InFlight = {} /\ inside = {} /\ inside' = {r}
           /\ pc[r] \in {"idle", "waiting"}
           /\ pc' = [pc EXCEPT ![r] = to]
           /\ waiting' = waiting \ {r}
           /\ current' = EngineOf(r)
           /\ outcome' = [outcome EXCEPT ![r] = IF to = "finished" THEN "error" ELSE "none"]
           /\ retried' = retried /\ answer' = answer
           /\ InFlight' = {r}
<1>1. /\ InFlight = {} /\ inside = {} /\ inside' = {r}
      /\ pc[r] \in {"idle", "waiting"}
      /\ pc' = [pc EXCEPT ![r] = to]
      /\ waiting' = waiting \ {r}
      /\ current' = EngineOf(r)
      /\ outcome' = [outcome EXCEPT ![r] = IF to = "finished" THEN "error" ELSE "none"]
      /\ retried' = retried /\ answer' = answer
  BY DEF SInv, OneJob, EnterBody, Goto, Mutex!EnterNow, Mutex!Grant, WaitersWait
<1>2. InFlight' = {r}
  BY <1>1 DEF InFlight, SInv, TypeOK
<1>3. QED
  BY <1>1, <1>2

(* What entering makes of the lock is the same for each engine. *)
LEMMA EnterSerial ==
    ASSUME SInv, NEW r \in Reqs, NEW to \in {"submitted", "finished"}, EnterBody(r, to)
    PROVE  OneJob' /\ WaitersWait'
BY EnterFacts DEF SInv, TypeOK, Mutex!MutexTypeOK, OneJob, WaitersWait

(* What unload_other_gpu2_engines leaves of Docling and OCR: what was not  *)
(* registered held nothing.                                                *)
LEMMA UnloadFacts ==
    ASSUME SInv, NEW e \in Engines, NEW ld \in [Engines -> SUBSET Parts],
           \A x \in {"docling", "ocr"} : ld[x] \in {loaded[x], {}}
    PROVE  /\ AfterUnloadOthers(e, ld) \in [Engines -> SUBSET Parts]
           /\ AfterUnloadOthers(e, ld)[e] = ld[e]
           /\ \A x \in {"docling", "ocr"} \ {e} : AfterUnloadOthers(e, ld)[x] = {}
BY DEF SInv, LoadedIsRegistered, AfterUnloadOthers, Engines

(* The engine that is handed out has OCR's models as they are.             *)
LEMMA HandedFacts ==
    ASSUME SInv, NEW ld, NEW cpu, Handed(ld, cpu)
    PROVE  /\ ld \in [Engines -> SUBSET Parts] /\ cpu \in BOOLEAN
           /\ ld["docling"] \in {loaded["docling"], {}}
           /\ ld["ocr"] = loaded["ocr"]
           /\ cpu => ld["docling"] # {"converter"}
<1>1. /\ loaded \in [Engines -> SUBSET Parts] /\ useCpu \in BOOLEAN
      /\ useCpu => loaded["docling"] # {"converter"}
  BY DEF SInv, TypeOK, FallbackSticks, OnGpu2
<1>2. CASE ld = loaded /\ cpu = useCpu
  BY <1>1, <1>2
<1>3. CASE ld = [loaded EXCEPT !["docling"] = {}] /\ cpu = FALSE
  BY <1>1, <1>3 DEF Engines
<1>4. QED
  BY <1>2, <1>3 DEF Handed

-----------------------------------------------------------------------------
(* SInv: whatever engine the router hands out. *)

(* A request refused before the lock touches neither the lock nor a model. *)
LEMMA DoclingWithoutGpuSInv ==
    ASSUME SInv, NEW r \in DoclingReqs, NEW ld, NEW cpu,
           Handed(ld, cpu), DoclingWithoutGpu(r, ld, cpu)
    PROVE  SInv'
<1>1. /\ loaded' \in [Engines -> SUBSET Parts] /\ useCpu' \in BOOLEAN
      /\ loaded'["docling"] \in {loaded["docling"], {}}
      /\ loaded'["ocr"] = loaded["ocr"]
      /\ useCpu' => loaded'["docling"] # {"converter"}
      /\ EngineOf(r) = "docling" /\ r \in Reqs
  BY HandedFacts DEF DoclingWithoutGpu, EngineOf, Reqs
<1> USE ReqsAssumption DEF SInv, Goto, lockVars, jobVars
<1>2. /\ pc[r] = "idle" /\ pc' = [pc EXCEPT ![r] = "done"]
      /\ \E a \in Answers : answer' = [answer EXCEPT ![r] = a]
      /\ registered' = registered \cup {"docling"}
      /\ UNCHANGED <<inside, waiting, current, armed, outcome, retried>>
  BY DEF DoclingWithoutGpu, Refuse, Construct, Answers
<1>3. TypeOK'
  BY <1>1, <1>2 DEF TypeOK, Mutex!MutexTypeOK, PcStates, Answers, Engines
<1>4. OneJob' /\ WaitersWait'
  BY <1>1, <1>2 DEF TypeOK, Mutex!MutexTypeOK, OneJob, WaitersWait, InFlight
<1>5. LoadedIsRegistered'
  BY <1>1, <1>2 DEF LoadedIsRegistered
<1>6. Shapes' /\ FallbackSticks'
  BY <1>1 DEF Shapes, FallbackSticks, OnGpu2
<1>7. OneTenant'
  <2>1. InFlight' = InFlight
    BY <1>1, <1>2 DEF InFlight, TypeOK
  <2>2. QED
    BY <1>1, <2>1 DEF OneTenant, OnGpu2
<1>8. QED
  BY <1>3, <1>4, <1>5, <1>6, <1>7

(* Waiting for the lock touches no model. *)
LEMMA DoclingAskSInv ==
    ASSUME SInv, NEW r \in DoclingReqs, NEW ld, NEW cpu,
           Handed(ld, cpu), DoclingAsk(r, ld, cpu)
    PROVE  SInv'
<1>1. /\ loaded' \in [Engines -> SUBSET Parts] /\ useCpu' \in BOOLEAN
      /\ loaded'["docling"] \in {loaded["docling"], {}}
      /\ loaded'["ocr"] = loaded["ocr"]
      /\ useCpu' => loaded'["docling"] # {"converter"}
      /\ EngineOf(r) = "docling" /\ r \in Reqs
  BY HandedFacts DEF DoclingAsk, EngineOf, Reqs
<1> USE ReqsAssumption DEF SInv, Goto, jobVars
<1>2. /\ pc[r] = "idle" /\ pc' = [pc EXCEPT ![r] = "waiting"]
      /\ waiting' = waiting \cup {r}
      /\ registered' = registered \cup {"docling"}
      /\ UNCHANGED <<inside, current, armed, outcome, retried, answer>>
  BY DEF DoclingAsk, Suspend, Mutex!Ask, Construct
<1>3. TypeOK'
  BY <1>1, <1>2 DEF TypeOK, Mutex!MutexTypeOK, PcStates, Answers, Engines
<1>4. OneJob' /\ WaitersWait'
  BY <1>1, <1>2 DEF TypeOK, Mutex!MutexTypeOK, OneJob, WaitersWait, InFlight
<1>5. LoadedIsRegistered'
  BY <1>1, <1>2 DEF LoadedIsRegistered
<1>6. Shapes' /\ FallbackSticks'
  BY <1>1 DEF Shapes, FallbackSticks, OnGpu2
<1>7. OneTenant'
  <2>1. InFlight' = InFlight
    BY <1>1, <1>2 DEF InFlight, TypeOK
  <2>2. QED
    BY <1>1, <2>1 DEF OneTenant, OnGpu2
<1>8. QED
  BY <1>3, <1>4, <1>5, <1>6, <1>7

(* Docling enters: OCR was unloaded, and a converter is built or it is not. *)
LEMMA DoclingEntersSInv ==
    ASSUME SInv, NEW r \in DoclingReqs, NEW ld, NEW cpu, Handed(ld, cpu),
           NEW to \in {"submitted", "finished"}, EnterBody(r, to),
           useCpu' = cpu, armed' = armed, registered' = registered \cup {"docling"},
           LET kept == AfterUnloadOthers("docling", ld)
           IN  loaded' \in {kept, [kept EXCEPT !["docling"] = NewConverter(cpu)]}
    PROVE  SInv' /\ loaded'["docling"] \in {ld["docling"], NewConverter(cpu)}
<1> DEFINE kept == AfterUnloadOthers("docling", ld)
<1> USE ReqsAssumption DEF SInv, Reqs
<1>1. EngineOf(r) = "docling" /\ "docling" \in Engines /\ "ocr" \in Engines
  BY DEF EngineOf, Engines
<1>2. /\ ld \in [Engines -> SUBSET Parts] /\ cpu \in BOOLEAN
      /\ ld["docling"] \in {loaded["docling"], {}}
      /\ ld["ocr"] = loaded["ocr"]
      /\ cpu => ld["docling"] # {"converter"}
  BY HandedFacts
<1>3. /\ kept \in [Engines -> SUBSET Parts]
      /\ kept["docling"] = ld["docling"] /\ kept["ocr"] = {}
  <2>1. \A x \in {"docling", "ocr"} : ld[x] \in {loaded[x], {}}
    BY <1>2
  <2>2. QED
    BY <1>1, <1>2, <2>1, UnloadFacts
<1>4. loaded' \in {kept, [kept EXCEPT !["docling"] = NewConverter(cpu)]}
  OBVIOUS
<1> HIDE DEF kept
<1>5. /\ loaded' \in [Engines -> SUBSET Parts]
      /\ loaded'["ocr"] = {}
      /\ loaded'["docling"] \in {ld["docling"], NewConverter(cpu)}
  BY <1>1, <1>3, <1>4 DEF NewConverter, Parts
<1>6. /\ inside' = {r}
      /\ pc[r] \in {"idle", "waiting"}
      /\ pc' = [pc EXCEPT ![r] = to]
      /\ waiting' = waiting \ {r}
      /\ current' = "docling"
      /\ outcome' = [outcome EXCEPT ![r] = IF to = "finished" THEN "error" ELSE "none"]
      /\ retried' = retried /\ answer' = answer
      /\ InFlight' = {r}
  BY <1>1, EnterFacts
<1>7. TypeOK'
  BY <1>1, <1>2, <1>5, <1>6 DEF TypeOK, Mutex!MutexTypeOK, PcStates, Outcomes
<1>8. OneJob' /\ WaitersWait'
  BY EnterSerial
<1>9. LoadedIsRegistered'
  BY <1>1, <1>5, <1>6 DEF LoadedIsRegistered
<1>10. Shapes' /\ FallbackSticks'
  BY <1>2, <1>5 DEF Shapes, Converters, FallbackSticks, OnGpu2, NewConverter
<1>11. OneTenant'
  BY <1>1, <1>5, <1>6 DEF OneTenant, OnGpu2
<1>12. QED
  BY <1>5, <1>7, <1>8, <1>9, <1>10, <1>11

(* So it is for the engine the router handed out.                          *)
LEMMA DoclingEnterSInv ==
    ASSUME SInv, NEW r \in DoclingReqs, NEW ld, NEW cpu,
           Handed(ld, cpu), DoclingEnter(r, ld, cpu)
    PROVE  SInv'
<1>1. PICK to \in {"submitted", "finished"} :
         /\ EnterBody(r, to)
         /\ LET kept == AfterUnloadOthers("docling", ld)
            IN  loaded' \in {kept, [kept EXCEPT !["docling"] = NewConverter(cpu)]}
  BY DEF DoclingEnter
<1>2. /\ registered' = registered \cup {"docling"}
      /\ useCpu' = cpu /\ armed' = armed
  BY DEF DoclingEnter, Construct
<1>3. QED
  BY <1>1, <1>2, DoclingEntersSInv

(* A second try ends or goes on inside the lock.                           *)
LEMMA SecondTryFacts ==
    ASSUME SInv, NEW r \in DoclingReqs, NEW to \in {"submitted", "finished"},
           SecondTry(r, to)
    PROVE  /\ pc[r] = "finished" /\ pc' = [pc EXCEPT ![r] = to]
           /\ outcome[r] = "meta"
           /\ outcome' = [outcome EXCEPT ![r] = IF to = "finished" THEN "error" ELSE "none"]
           /\ retried' = retried \cup {r}
           /\ inside' = inside /\ waiting' = waiting
           /\ registered' = registered /\ current' = current
           /\ armed' = armed /\ answer' = answer
           /\ OneJob' /\ WaitersWait'
           /\ InFlight' = InFlight /\ r \in inside /\ r \in InFlight
<1>1. /\ pc[r] = "finished" /\ pc' = [pc EXCEPT ![r] = to]
      /\ outcome[r] = "meta"
      /\ outcome' = [outcome EXCEPT ![r] = IF to = "finished" THEN "error" ELSE "none"]
      /\ retried' = retried \cup {r}
      /\ inside' = inside /\ waiting' = waiting
      /\ registered' = registered /\ current' = current
      /\ armed' = armed /\ answer' = answer
  BY DEF SecondTry, Goto, lockVars
<1>2. InFlight' = InFlight /\ r \in InFlight
  BY <1>1 DEF InFlight, SInv, TypeOK, Reqs
<1>3. OneJob' /\ r \in inside
  BY <1>1, <1>2 DEF SInv, OneJob
<1>4. WaitersWait'
  BY <1>1 DEF SInv, TypeOK, WaitersWait
<1>5. QED
  BY <1>1, <1>2, <1>3, <1>4

(* The second conversion replaces the converter of the job that holds the  *)
(* lock, or leaves none.                                                   *)
LEMMA DoclingRetrySInv ==
    ASSUME SInv, NEW r \in DoclingReqs, DoclingRetry(r)
    PROVE  /\ SInv'
           /\ loaded'["ocr"] = loaded["ocr"]
           /\ pc'[r] = "submitted" => loaded'["docling"] = {"converter", "cpu"}
<1> USE ReqsAssumption DEF SInv, Reqs
<1>1. PICK to \in {"submitted", "finished"} :
         /\ SecondTry(r, to)
         /\ loaded' = [loaded EXCEPT !["docling"] =
                          IF to = "submitted" THEN {"converter", "cpu"} ELSE {}]
  BY DEF DoclingRetry, NewConverter
<1>2. useCpu' = TRUE
  BY DEF DoclingRetry
<1>3. /\ pc' = [pc EXCEPT ![r] = to]
      /\ outcome' = [outcome EXCEPT ![r] = IF to = "finished" THEN "error" ELSE "none"]
      /\ retried' = retried \cup {r}
      /\ inside' = inside /\ waiting' = waiting
      /\ registered' = registered /\ current' = current
      /\ armed' = armed /\ answer' = answer
      /\ OneJob' /\ WaitersWait'
      /\ InFlight' = InFlight /\ r \in inside /\ r \in InFlight
  BY <1>1, SecondTryFacts
<1>4. EngineOf(r) = "docling" /\ "docling" \in Engines /\ "ocr" \in Engines
  BY DEF EngineOf, Engines
<1>5. /\ loaded' \in [Engines -> SUBSET Parts]
      /\ loaded'["ocr"] = loaded["ocr"]
      /\ loaded'["docling"] = IF to = "submitted" THEN {"converter", "cpu"} ELSE {}
  BY <1>1, <1>4 DEF TypeOK, Parts
<1>6. TypeOK'
  BY <1>2, <1>3, <1>5 DEF TypeOK, Mutex!MutexTypeOK, PcStates, Outcomes
<1>7. LoadedIsRegistered' /\ Shapes' /\ FallbackSticks'
  BY <1>2, <1>3, <1>4, <1>5 DEF LoadedIsRegistered, Shapes, Converters,
     FallbackSticks, OnGpu2
<1>8. OneTenant'
  BY <1>3, <1>5 DEF OneTenant, OnGpu2
<1>9. pc'[r] = to
  BY <1>3 DEF TypeOK
<1>10. QED
  BY <1>3, <1>5, <1>6, <1>7, <1>8, <1>9

(* The manual answer touches neither the lock nor a model. *)
LEMMA OcrManualSInv ==
    ASSUME SInv, NEW r \in OcrReqs, OcrManual(r)
    PROVE  SInv'
<1> USE ReqsAssumption DEF SInv, OcrManual, Goto, Reqs, lockVars, jobVars,
    Refuse, Construct
<1>1. TypeOK'
  BY DEF TypeOK, Mutex!MutexTypeOK, PcStates, Answers, Engines
<1>2. OneJob' /\ WaitersWait'
  BY DEF TypeOK, Mutex!MutexTypeOK, OneJob, WaitersWait, InFlight
<1>3. LoadedIsRegistered' /\ Shapes' /\ FallbackSticks'
  BY DEF TypeOK, LoadedIsRegistered, Shapes, Converters, FullLoad,
     FallbackSticks, OnGpu2
<1>4. OneTenant'
  BY DEF TypeOK, Shapes, Converters, OneTenant, OnGpu2, InFlight
<1>5. QED
  BY <1>1, <1>2, <1>3, <1>4

(* Waiting for the lock touches no model. *)
LEMMA OcrAskSInv ==
    ASSUME SInv, NEW r \in OcrReqs, OcrAsk(r)
    PROVE  SInv'
<1> USE ReqsAssumption DEF SInv, OcrAsk, Goto, Reqs, jobVars, Suspend,
    Mutex!Ask, Construct
<1>1. TypeOK'
  BY DEF TypeOK, Mutex!MutexTypeOK, PcStates, Engines
<1>2. OneJob' /\ WaitersWait'
  BY DEF TypeOK, Mutex!MutexTypeOK, OneJob, WaitersWait, InFlight
<1>3. LoadedIsRegistered' /\ Shapes' /\ FallbackSticks'
  BY DEF TypeOK, LoadedIsRegistered, Shapes, Converters, FullLoad,
     FallbackSticks, OnGpu2, EngineOf, Engines
<1>4. OneTenant'
  BY DEF Shapes, Converters, OneTenant, OnGpu2, InFlight
<1>5. QED
  BY <1>1, <1>2, <1>3, <1>4

(* OCR enters: Docling was unloaded, and the model is kept or loaded again. *)
LEMMA OcrEnterSInv ==
    ASSUME SInv, NEW r \in OcrReqs, OcrEnter(r)
    PROVE  SInv' /\ (pc'[r] = "submitted" => loaded'["ocr"] = FullLoad)
<1> DEFINE kept == AfterUnloadOthers("ocr", loaded)
<1> USE ReqsAssumption DEF SInv, Reqs
<1>1. EngineOf(r) = "ocr" /\ "ocr" \in Engines
  BY DEF EngineOf, Engines
<1>2. PICK to \in {"submitted", "finished"} : EnterBody(r, to) /\ (pc'[r] = to)
  BY DEF OcrEnter, EnterBody, Goto, TypeOK
<1>3. /\ registered' = registered \cup {"ocr"}
      /\ useCpu' = useCpu /\ armed' = armed
  BY DEF OcrEnter, Construct
<1>4. /\ inside' = {r}
      /\ pc' = [pc EXCEPT ![r] = to]
      /\ waiting' = waiting \ {r}
      /\ current' = "ocr"
      /\ outcome' = [outcome EXCEPT ![r] = IF to = "finished" THEN "error" ELSE "none"]
      /\ retried' = retried /\ answer' = answer
      /\ InFlight' = {r}
  BY <1>1, <1>2, EnterFacts
<1>5. /\ kept \in [Engines -> SUBSET Parts]
      /\ kept["ocr"] = loaded["ocr"] /\ kept["docling"] = {}
  BY <1>1, UnloadFacts DEF TypeOK
<1> HIDE DEF kept
<1>6. /\ loaded' \in [Engines -> SUBSET Parts]
      /\ loaded'["docling"] = {}
      /\ loaded'["ocr"] \subseteq FullLoad
      /\ "ready" \in loaded'["ocr"] => loaded'["ocr"] = FullLoad
      /\ to = "submitted" => loaded'["ocr"] = FullLoad
  <2> DEFINE ready == {"model", "ready"} \subseteq loaded["ocr"]
  <2>1. ready \/ "ready" \notin loaded["ocr"]
    BY DEF Shapes, FullLoad
  <2>2. FullLoad \in SUBSET Parts
    BY DEF FullLoad, Parts
  <2>3. CASE EnterBody(r, "submitted") /\ loaded' = IF ready THEN kept ELSE [kept EXCEPT !["ocr"] = FullLoad]
    BY <1>1, <1>5, <2>1, <2>2, <2>3 DEF Shapes, Engines
  <2>4. CASE /\ ~ready /\ EnterBody(r, "finished")
             /\ \E ld \in LoadFailures(loaded["ocr"]) : loaded' = [kept EXCEPT !["ocr"] = ld]
    <3>1. PICK ld \in LoadFailures(loaded["ocr"]) : loaded' = [kept EXCEPT !["ocr"] = ld]
      BY <2>4
    <3>2. ld \subseteq FullLoad /\ "ready" \notin ld
      BY <2>1, <2>4 DEF LoadFailures, Shapes, FullLoad
    <3>3. to = "finished"
      BY <1>2, <2>4 DEF EnterBody, Goto, TypeOK
    <3>4. QED
      BY <1>1, <1>5, <2>2, <3>1, <3>2, <3>3 DEF Engines
  <2>5. QED
    BY <2>3, <2>4 DEF OcrEnter, kept
<1>7. TypeOK'
  BY <1>1, <1>3, <1>4, <1>6 DEF TypeOK, Mutex!MutexTypeOK, PcStates, Outcomes
<1>8. OneJob' /\ WaitersWait'
  BY <1>2, EnterSerial
<1>9. LoadedIsRegistered' /\ Shapes' /\ FallbackSticks'
  BY <1>1, <1>3, <1>4, <1>6 DEF LoadedIsRegistered, Shapes, FallbackSticks, OnGpu2
<1>10. OneTenant'
  BY <1>1, <1>4, <1>6 DEF OneTenant, OnGpu2
<1>11. QED
  BY <1>2, <1>6, <1>7, <1>8, <1>9, <1>10

(* ColPali loads outside the lock, but only what is its own. *)
LEMMA ColPaliLoadFailsSInv ==
    ASSUME SInv, NEW r \in ColPaliReqs, ColPaliLoadFails(r)
    PROVE  SInv'
<1> USE ReqsAssumption DEF SInv, ColPaliLoadFails, Goto, Reqs, lockVars,
    jobVars, Refuse, Construct, LoadFailures
<1>1. TypeOK'
  BY DEF TypeOK, Mutex!MutexTypeOK, PcStates, Answers, Engines, Parts
<1>2. OneJob' /\ WaitersWait'
  BY DEF TypeOK, Mutex!MutexTypeOK, OneJob, WaitersWait, InFlight
<1>3. LoadedIsRegistered' /\ Shapes' /\ FallbackSticks'
  BY DEF LoadedIsRegistered, Shapes, Converters, FullLoad, FallbackSticks, OnGpu2
<1>4. OneTenant'
  BY DEF Shapes, Converters, OneTenant, OnGpu2, InFlight
<1>5. QED
  BY <1>1, <1>2, <1>3, <1>4

(* ColPali loads outside the lock, but only what is its own. *)
LEMMA ColPaliAskSInv ==
    ASSUME SInv, NEW r \in ColPaliReqs, ColPaliAsk(r)
    PROVE  SInv'
<1> USE ReqsAssumption DEF SInv, ColPaliAsk, Goto, Reqs, jobVars, Suspend,
    Mutex!Ask, Construct, AfterColPaliLoad
<1>1. TypeOK'
  BY DEF TypeOK, Mutex!MutexTypeOK, PcStates, Engines, Parts, FullLoad
<1>2. OneJob' /\ WaitersWait'
  BY DEF TypeOK, Mutex!MutexTypeOK, OneJob, WaitersWait, InFlight
<1>3. LoadedIsRegistered' /\ Shapes' /\ FallbackSticks'
  BY DEF TypeOK, LoadedIsRegistered, Shapes, Converters, FullLoad,
     FallbackSticks, OnGpu2, EngineOf, Engines
<1>4. OneTenant'
  BY DEF Shapes, Converters, OneTenant, OnGpu2, InFlight
<1>5. QED
  BY <1>1, <1>2, <1>3, <1>4

(* ColPali enters: both others were unloaded. *)
LEMMA ColPaliEnterSInv ==
    ASSUME SInv, NEW r \in ColPaliReqs, ColPaliEnter(r)
    PROVE  SInv'
<1> DEFINE ld == IF pc[r] = "idle" THEN AfterColPaliLoad ELSE loaded
<1> USE ReqsAssumption DEF SInv, Reqs
<1>1. EngineOf(r) = "colpali" /\ "colpali" \in Engines
  BY DEF EngineOf, Engines
<1>2. EnterBody(r, "submitted")
  BY DEF ColPaliEnter
<1>3. /\ registered' = registered \cup {"colpali"}
      /\ useCpu' = useCpu
      /\ \E b \in BOOLEAN : armed' = [armed EXCEPT ![r] = b]
      /\ loaded' = AfterUnloadOthers("colpali", ld)
  BY DEF ColPaliEnter, Construct, HasModel
<1>4. /\ inside' = {r}
      /\ pc' = [pc EXCEPT ![r] = "submitted"]
      /\ waiting' = waiting \ {r}
      /\ current' = "colpali"
      /\ outcome' = [outcome EXCEPT ![r] = "none"]
      /\ retried' = retried /\ answer' = answer
  BY <1>1, <1>2, EnterFacts
<1>5. ld \in [Engines -> SUBSET Parts] /\ \A x \in {"docling", "ocr"} : ld[x] \in {loaded[x], {}}
  BY DEF TypeOK, AfterColPaliLoad, FullLoad, Parts, Engines
<1> HIDE DEF ld
<1>6. /\ loaded' \in [Engines -> SUBSET Parts]
      /\ loaded'["docling"] = {} /\ loaded'["ocr"] = {}
  BY <1>1, <1>3, <1>5, UnloadFacts
<1>7. TypeOK'
  BY <1>1, <1>3, <1>4, <1>6 DEF TypeOK, Mutex!MutexTypeOK, PcStates, Outcomes
<1>8. OneJob' /\ WaitersWait'
  BY <1>2, EnterSerial
<1>9. /\ LoadedIsRegistered' /\ Shapes' /\ FallbackSticks' /\ OneTenant'
  BY <1>1, <1>3, <1>4, <1>6 DEF LoadedIsRegistered, Shapes, FallbackSticks,
     OneTenant, OnGpu2
<1>10. QED
  BY <1>7, <1>8, <1>9

(* The thread of the only job in flight reads the model the handler left. *)
LEMMA StartThreadSInv ==
    ASSUME SInv, NEW r \in Reqs, StartThread(r)
    PROVE  SInv'
<1> USE ReqsAssumption DEF SInv, StartThread, Goto, Reqs, lockVars, engineVars
<1>1. HasModel(EngineOf(r), loaded) \in BOOLEAN
  BY Zenon DEF HasModel
<1>2. TypeOK'
  <2>1. PICK b \in BOOLEAN : armed' = [armed EXCEPT ![r] = b]
    <3>1. CASE r \in ColPaliReqs
      BY <3>1 DEF TypeOK
    <3>2. CASE r \notin ColPaliReqs
      BY <3>2, <1>1
    <3>3. QED
      BY <3>1, <3>2
  <2>2. QED
    BY <2>1 DEF TypeOK, Mutex!MutexTypeOK, PcStates
<1>3. OneJob' /\ WaitersWait'
  BY DEF TypeOK, Mutex!MutexTypeOK, OneJob, WaitersWait, InFlight
<1>4. LoadedIsRegistered' /\ Shapes' /\ FallbackSticks'
  BY DEF LoadedIsRegistered, Shapes, FallbackSticks, OnGpu2
<1>5. OneTenant'
  BY DEF TypeOK, OneTenant, OnGpu2, InFlight
<1>6. QED
  BY <1>2, <1>3, <1>4, <1>5

(* A thread hands back its outcome and changes no model. *)
LEMMA FinishThreadSInv ==
    ASSUME SInv, NEW r \in Reqs, FinishThread(r)
    PROVE  SInv'
<1> USE ReqsAssumption DEF SInv, FinishThread, Goto, lockVars, engineVars
<1>1. TypeOK'
  BY DEF TypeOK, Mutex!MutexTypeOK, PcStates, Outcomes
<1>2. OneJob' /\ WaitersWait'
  BY DEF TypeOK, Mutex!MutexTypeOK, OneJob, WaitersWait, InFlight
<1>3. LoadedIsRegistered' /\ Shapes' /\ FallbackSticks'
  BY DEF LoadedIsRegistered, Shapes, Converters, FullLoad, FallbackSticks, OnGpu2
<1>4. OneTenant'
  BY DEF Shapes, Converters, OneTenant, OnGpu2, InFlight
<1>5. QED
  BY <1>1, <1>2, <1>3, <1>4

(* Leaving the lock ends the only job in flight. *)
LEMMA AnswerSInv ==
    ASSUME SInv, NEW r \in Reqs, Answer(r)
    PROVE  SInv'
<1> USE ReqsAssumption DEF SInv, Answer, Goto, Reqs, engineVars, Mutex!Leave,
    Result
<1>1. TypeOK'
  BY DEF TypeOK, Mutex!MutexTypeOK, PcStates, Outcomes, Answers
<1>2. OneJob' /\ WaitersWait'
  BY DEF TypeOK, Mutex!MutexTypeOK, OneJob, WaitersWait, InFlight
<1>3. LoadedIsRegistered' /\ Shapes' /\ FallbackSticks'
  BY DEF TypeOK, LoadedIsRegistered, Shapes, Converters, FullLoad,
     FallbackSticks, OnGpu2
<1>4. OneTenant'
  BY DEF Shapes, Converters, OneTenant, OnGpu2, InFlight
<1>5. QED
  BY <1>1, <1>2, <1>3, <1>4

(* A request that times out was not in flight. *)
LEMMA TimeoutSInv ==
    ASSUME SInv, NEW r \in Reqs, Timeout(r)
    PROVE  SInv'
<1> USE ReqsAssumption DEF SInv, Timeout, Goto, engineVars, jobVars, Mutex!Abandon
<1>1. TypeOK'
  BY DEF TypeOK, Mutex!MutexTypeOK, PcStates, Answers
<1>2. OneJob' /\ WaitersWait'
  BY DEF TypeOK, Mutex!MutexTypeOK, OneJob, WaitersWait, InFlight
<1>3. LoadedIsRegistered' /\ Shapes' /\ FallbackSticks'
  BY DEF TypeOK, LoadedIsRegistered, Shapes, Converters, FullLoad,
     FallbackSticks, OnGpu2
<1>4. OneTenant'
  BY DEF Shapes, Converters, OneTenant, OnGpu2, InFlight
<1>5. QED
  BY <1>1, <1>2, <1>3, <1>4

(* A new request starts outside the lock. *)
LEMMA NextRequestSInv ==
    ASSUME SInv, NEW r \in Reqs, NextRequest(r)
    PROVE  SInv'
<1> USE ReqsAssumption DEF SInv, NextRequest, Goto, lockVars, engineVars, jobVars
<1>1. TypeOK'
  BY DEF TypeOK, Mutex!MutexTypeOK, PcStates, Answers
<1>2. OneJob' /\ WaitersWait'
  BY DEF TypeOK, Mutex!MutexTypeOK, OneJob, WaitersWait, InFlight
<1>3. LoadedIsRegistered' /\ Shapes' /\ FallbackSticks'
  BY DEF LoadedIsRegistered, Shapes, Converters, FullLoad, FallbackSticks, OnGpu2
<1>4. OneTenant'
  BY DEF Shapes, Converters, OneTenant, OnGpu2, InFlight
<1>5. QED
  BY <1>1, <1>2, <1>3, <1>4

-----------------------------------------------------------------------------
(* EInv: the router keeps its engines. *)

(* A request refused before the lock touches neither the lock nor a model. *)
LEMMA DoclingWithoutGpuEInv ==
    ASSUME EInv, NEW r \in DoclingReqs, DoclingWithoutGpu(r, loaded, useCpu)
    PROVE  EInv'
<1>1. SInv'
  BY DoclingWithoutGpuSInv DEF EInv, Handed
<1> USE ReqsAssumption DEF EInv, SInv, DoclingWithoutGpu, Goto, lockVars, jobVars,
    Refuse, Construct
<1>2. HolderNamed' /\ JobKeepsModel' /\ JobHasModel'
  BY DEF HolderNamed, JobKeepsModel, JobHasModel, Needs, FullLoad, Engines
<1>3. ChandraIsNamed'
  BY DEF ChandraIsNamed, JobKeepsModel
<1>4. QED
  BY <1>1, <1>2, <1>3 DEF EInv

(* Waiting for the lock touches no model. *)
LEMMA DoclingAskEInv ==
    ASSUME EInv, NEW r \in DoclingReqs, DoclingAsk(r, loaded, useCpu)
    PROVE  EInv'
<1>1. SInv'
  BY DoclingAskSInv DEF EInv, Handed
<1> USE ReqsAssumption DEF EInv, SInv, DoclingAsk, Goto, Reqs, jobVars, Suspend,
    Mutex!Ask, Construct
<1>2. HolderNamed' /\ JobKeepsModel' /\ JobHasModel'
  BY DEF HolderNamed, JobKeepsModel, JobHasModel, Needs, FullLoad, Engines
<1>3. ChandraIsNamed'
  BY DEF ChandraIsNamed, JobKeepsModel
<1>4. QED
  BY <1>1, <1>2, <1>3 DEF EInv

(* Docling enters: the converter is there or the job is not. *)
LEMMA DoclingEnterEInv ==
    ASSUME EInv, NEW r \in DoclingReqs, DoclingEnter(r, loaded, useCpu)
    PROVE  EInv'
<1> USE ReqsAssumption DEF Reqs
<1>1. SInv /\ SInv'
  BY DoclingEnterSInv DEF EInv, Handed
<1>2. PICK to \in {"submitted", "finished"} :
         /\ EnterBody(r, to)
         /\ to = "submitted" => loaded'["docling"] = NewConverter(useCpu)
  <2>1. CASE EnterBody(r, "finished")
    BY <2>1
  <2>2. CASE /\ EnterBody(r, "submitted")
             /\ loaded' = [AfterUnloadOthers("docling", loaded)
                             EXCEPT !["docling"] = NewConverter(useCpu)]
    BY <2>2 DEF AfterUnloadOthers, Engines
  <2>3. QED
    BY <2>1, <2>2 DEF DoclingEnter
<1>3. /\ InFlight = {} /\ inside' = {r} /\ EngineOf(r) = "docling"
      /\ pc' = [pc EXCEPT ![r] = to]
      /\ current' = EngineOf(r)
      /\ outcome' = [outcome EXCEPT ![r] = IF to = "finished" THEN "error" ELSE "none"]
      /\ answer' = answer /\ armed' = armed
  BY <1>1, <1>2, EnterFacts DEF EngineOf, DoclingEnter
<1>4. HolderNamed' /\ JobHasModel' /\ ChandraIsNamed'
  BY <1>3 DEF EInv, SInv, TypeOK, HolderNamed, JobHasModel, ChandraIsNamed
<1>5. JobKeepsModel'
  <2>1. to = "submitted" => HasModel("docling", loaded')
    BY <1>2 DEF HasModel, Needs, NewConverter
  <2>2. QED
    BY <1>1, <1>3, <2>1 DEF JobKeepsModel, InFlight, SInv, TypeOK
<1>6. QED
  BY <1>1, <1>4, <1>5 DEF EInv

(* The second conversion has a converter, or there is none. *)
LEMMA DoclingRetryEInv ==
    ASSUME EInv, NEW r \in DoclingReqs, DoclingRetry(r)
    PROVE  EInv'
<1> USE ReqsAssumption DEF Reqs
<1>1. /\ SInv /\ SInv'
      /\ loaded'["ocr"] = loaded["ocr"]
      /\ pc'[r] = "submitted" => loaded'["docling"] = {"converter", "cpu"}
  BY DoclingRetrySInv DEF EInv
<1>2. PICK to \in {"submitted", "finished"} : SecondTry(r, to)
  BY DEF DoclingRetry
<1>3. /\ pc' = [pc EXCEPT ![r] = to]
      /\ outcome' = [outcome EXCEPT ![r] = IF to = "finished" THEN "error" ELSE "none"]
      /\ inside' = inside /\ current' = current
      /\ armed' = armed /\ answer' = answer
      /\ r \in inside /\ EngineOf(r) = "docling"
  BY <1>1, <1>2, SecondTryFacts DEF EngineOf
<1>4. HolderNamed' /\ JobHasModel' /\ ChandraIsNamed'
  BY <1>3 DEF EInv, SInv, TypeOK, HolderNamed, JobHasModel, ChandraIsNamed
<1>5. JobKeepsModel'
  <2>1. \A s \in InFlight : s = r
    BY <1>3 DEF EInv, SInv, OneJob
  <2>2. pc'[r] = "submitted" => HasModel("docling", loaded')
    BY <1>1 DEF HasModel, Needs
  <2>3. QED
    BY <1>1, <1>3, <2>1, <2>2 DEF EInv, JobKeepsModel, InFlight, SInv, TypeOK
<1>6. QED
  BY <1>1, <1>4, <1>5 DEF EInv

(* The manual answer touches neither the lock nor a model. *)
LEMMA OcrManualEInv ==
    ASSUME EInv, NEW r \in OcrReqs, OcrManual(r)
    PROVE  EInv'
<1>1. SInv'
  BY OcrManualSInv DEF EInv
<1> USE ReqsAssumption DEF EInv, SInv, OcrManual, Goto, Reqs, lockVars, jobVars,
    Refuse, Construct
<1>2. HolderNamed' /\ JobKeepsModel' /\ JobHasModel'
  BY DEF TypeOK, HolderNamed, JobKeepsModel, JobHasModel, Needs, FullLoad, Engines
<1>3. ChandraIsNamed'
  BY DEF TypeOK, ChandraIsNamed, JobKeepsModel
<1>4. QED
  BY <1>1, <1>2, <1>3 DEF EInv

(* Waiting for the lock touches no model. *)
LEMMA OcrAskEInv ==
    ASSUME EInv, NEW r \in OcrReqs, OcrAsk(r)
    PROVE  EInv'
<1>1. SInv'
  BY OcrAskSInv DEF EInv
<1> USE ReqsAssumption DEF EInv, SInv, OcrAsk, Goto, Reqs, jobVars, Suspend,
    Mutex!Ask, Construct
<1>2. HolderNamed' /\ JobKeepsModel' /\ JobHasModel'
  BY DEF HolderNamed, JobKeepsModel, JobHasModel, Needs, FullLoad, Engines
<1>3. ChandraIsNamed'
  BY DEF ChandraIsNamed, JobKeepsModel
<1>4. QED
  BY <1>1, <1>2, <1>3 DEF EInv

(* OCR enters, and its job finds what it needs. *)
LEMMA OcrEnterEInv ==
    ASSUME EInv, NEW r \in OcrReqs, OcrEnter(r)
    PROVE  EInv'
<1> USE ReqsAssumption DEF Reqs
<1>1. SInv /\ SInv' /\ (pc'[r] = "submitted" => loaded'["ocr"] = FullLoad)
  BY OcrEnterSInv DEF EInv
<1>2. PICK to \in {"submitted", "finished"} : EnterBody(r, to)
  BY DEF OcrEnter
<1>3. /\ InFlight = {} /\ inside' = {r} /\ EngineOf(r) = "ocr"
      /\ pc' = [pc EXCEPT ![r] = to]
      /\ current' = EngineOf(r)
      /\ outcome' = [outcome EXCEPT ![r] = IF to = "finished" THEN "error" ELSE "none"]
      /\ answer' = answer /\ armed' = armed
  BY <1>1, <1>2, EnterFacts DEF EngineOf, OcrEnter
<1>4. HolderNamed' /\ JobHasModel' /\ ChandraIsNamed'
  BY <1>3 DEF EInv, SInv, TypeOK, HolderNamed, JobHasModel, ChandraIsNamed
<1>5. JobKeepsModel'
  <2>1. pc'[r] = "submitted" => HasModel("ocr", loaded')
    BY <1>1 DEF HasModel, Needs, FullLoad
  <2>2. QED
    BY <1>1, <1>3, <2>1 DEF JobKeepsModel, InFlight, SInv, TypeOK
<1>6. QED
  BY <1>1, <1>4, <1>5 DEF EInv

(* ColPali loads outside the lock, but only what is its own. *)
LEMMA ColPaliLoadFailsEInv ==
    ASSUME EInv, NEW r \in ColPaliReqs, ColPaliLoadFails(r)
    PROVE  EInv'
<1>1. SInv'
  BY ColPaliLoadFailsSInv DEF EInv
<1> USE ReqsAssumption DEF EInv, SInv, ColPaliLoadFails, Goto, Reqs, lockVars,
    jobVars, Refuse, Construct, LoadFailures
<1>2. HolderNamed' /\ JobKeepsModel' /\ JobHasModel'
  BY DEF HolderNamed, JobKeepsModel, JobHasModel, HasModel, Needs, FullLoad,
     Engines
<1>3. ChandraIsNamed'
  BY DEF ChandraIsNamed, JobKeepsModel
<1>4. QED
  BY <1>1, <1>2, <1>3 DEF EInv

(* ColPali loads outside the lock, but only what is its own. *)
LEMMA ColPaliAskEInv ==
    ASSUME EInv, NEW r \in ColPaliReqs, ColPaliAsk(r)
    PROVE  EInv'
<1>1. SInv'
  BY ColPaliAskSInv DEF EInv
<1> USE ReqsAssumption DEF EInv, SInv, ColPaliAsk, Goto, Reqs, jobVars, Suspend,
    Mutex!Ask, Construct, AfterColPaliLoad
<1>2. HolderNamed' /\ JobKeepsModel' /\ JobHasModel'
  BY DEF HolderNamed, JobKeepsModel, JobHasModel, HasModel, Needs, FullLoad,
     Engines
<1>3. ChandraIsNamed'
  BY DEF ChandraIsNamed, JobKeepsModel
<1>4. QED
  BY <1>1, <1>2, <1>3 DEF EInv

(* ColPali enters when no job of another engine is in flight. *)
LEMMA ColPaliEnterEInv ==
    ASSUME EInv, NEW r \in ColPaliReqs, ColPaliEnter(r)
    PROVE  EInv'
<1> USE ReqsAssumption DEF Reqs
<1>1. SInv /\ SInv'
  BY ColPaliEnterSInv DEF EInv
<1>2. /\ InFlight = {} /\ inside' = {r}
      /\ pc' = [pc EXCEPT ![r] = "submitted"]
      /\ current' = EngineOf(r)
      /\ outcome' = [outcome EXCEPT ![r] = "none"]
      /\ answer' = answer
  BY <1>1, EnterFacts DEF ColPaliEnter
<1>3. HolderNamed' /\ ChandraIsNamed'
  BY <1>2 DEF EInv, HolderNamed, ChandraIsNamed
<1>4. JobHasModel' /\ JobKeepsModel'
  BY <1>1, <1>2 DEF SInv, TypeOK, JobHasModel, JobKeepsModel, InFlight
<1>5. QED
  BY <1>1, <1>3, <1>4 DEF EInv

(* The thread of the only job in flight reads the model the handler left. *)
LEMMA StartThreadEInv ==
    ASSUME EInv, NEW r \in Reqs, StartThread(r)
    PROVE  EInv'
<1>1. SInv'
  BY StartThreadSInv DEF EInv
<1> USE ReqsAssumption DEF EInv, SInv, StartThread, Goto, Reqs, lockVars, engineVars
<1>2. HolderNamed' /\ ChandraIsNamed'
  BY DEF HolderNamed, ChandraIsNamed
<1>3. JobKeepsModel' /\ JobHasModel'
  BY DEF TypeOK, JobKeepsModel, JobHasModel, HasModel, Needs, EngineOf
<1>4. QED
  BY <1>1, <1>2, <1>3 DEF EInv

(* A thread hands back its outcome and changes no model. *)
LEMMA FinishThreadEInv ==
    ASSUME EInv, NEW r \in Reqs, FinishThread(r)
    PROVE  EInv'
<1>1. SInv'
  BY FinishThreadSInv DEF EInv
<1> USE ReqsAssumption DEF EInv, SInv, FinishThread, Goto, lockVars, engineVars
<1>2. HolderNamed' /\ JobKeepsModel' /\ JobHasModel'
  BY DEF HolderNamed, JobKeepsModel, JobHasModel, Needs, FullLoad, Engines
<1>3. ChandraIsNamed'
  BY DEF ChandraIsNamed, JobKeepsModel
<1>4. QED
  BY <1>1, <1>2, <1>3 DEF EInv

(* Leaving the lock ends the only job in flight. *)
LEMMA AnswerEInv ==
    ASSUME EInv, NEW r \in Reqs, Answer(r)
    PROVE  EInv'
<1>1. SInv'
  BY AnswerSInv DEF EInv
<1> USE ReqsAssumption DEF EInv, SInv, Answer, Goto, Reqs, engineVars, Mutex!Leave,
    Result
<1>2. HolderNamed' /\ JobKeepsModel' /\ JobHasModel'
  BY DEF HolderNamed, JobKeepsModel, JobHasModel, Needs, FullLoad, Engines
<1>3. ChandraIsNamed'
  BY DEF ChandraIsNamed, JobKeepsModel
<1>4. QED
  BY <1>1, <1>2, <1>3 DEF EInv

(* A request that times out was not in flight. *)
LEMMA TimeoutEInv ==
    ASSUME EInv, NEW r \in Reqs, Timeout(r)
    PROVE  EInv'
<1>1. SInv'
  BY TimeoutSInv DEF EInv
<1> USE ReqsAssumption DEF EInv, SInv, Timeout, Goto, engineVars, jobVars, Mutex!Abandon
<1>2. HolderNamed' /\ JobKeepsModel' /\ JobHasModel'
  BY DEF HolderNamed, JobKeepsModel, JobHasModel, Needs, FullLoad, Engines
<1>3. ChandraIsNamed'
  BY DEF ChandraIsNamed, JobKeepsModel
<1>4. QED
  BY <1>1, <1>2, <1>3 DEF EInv

(* A new request starts outside the lock. *)
LEMMA NextRequestEInv ==
    ASSUME EInv, NEW r \in Reqs, NextRequest(r)
    PROVE  EInv'
<1>1. SInv'
  BY NextRequestSInv DEF EInv
<1> USE ReqsAssumption DEF EInv, SInv, NextRequest, Goto, lockVars, engineVars, jobVars
<1>2. HolderNamed' /\ JobKeepsModel' /\ JobHasModel'
  BY DEF HolderNamed, JobKeepsModel, JobHasModel, Needs, FullLoad, Engines
<1>3. ChandraIsNamed'
  BY DEF ChandraIsNamed, JobKeepsModel
<1>4. QED
  BY <1>1, <1>2, <1>3 DEF EInv

-----------------------------------------------------------------------------
(* Nothing is in flight at first, and OCR is loaded only if it is registered. *)
LEMMA InitEInv == Init => EInv
<1> SUFFICES ASSUME Init PROVE EInv
  OBVIOUS
<1> USE ReqsAssumption DEF Init, Mutex!Init
<1>1. TypeOK
  BY DEF TypeOK, Mutex!MutexTypeOK, PcStates, Outcomes, Answers, Engines, Parts,
     FullLoad
<1>2. InFlight = {}
  BY DEF InFlight
<1>3. OneJob /\ WaitersWait /\ HolderNamed
  BY <1>2 DEF OneJob, WaitersWait, HolderNamed
<1>4. loaded["docling"] = {} /\ loaded["ocr"] = IF OcrPreloaded THEN FullLoad ELSE {}
  BY DEF Engines
<1>5. LoadedIsRegistered /\ Shapes /\ FallbackSticks
  BY <1>4 DEF LoadedIsRegistered, Shapes, FallbackSticks
<1>6. OneTenant
  BY <1>2, <1>4 DEF OneTenant, OnGpu2
<1>7. JobKeepsModel /\ JobHasModel /\ ChandraIsNamed
  BY DEF JobKeepsModel, JobHasModel, ChandraIsNamed, Reqs
<1>8. QED
  BY <1>1, <1>3, <1>5, <1>6, <1>7 DEF EInv, SInv

(* Every step keeps EInv. *)
LEMMA NextEInv == EInv /\ [Next]_vars => EInv'
<1> SUFFICES ASSUME EInv, [Next]_vars PROVE EInv'
  OBVIOUS
<1>1. CASE UNCHANGED vars
  BY <1>1 DEF EInv, SInv, TypeOK, Mutex!MutexTypeOK, OneJob, WaitersWait,
     LoadedIsRegistered, Shapes, OneTenant, FallbackSticks, HolderNamed,
     JobKeepsModel, JobHasModel, ChandraIsNamed, InFlight, OnGpu2, vars,
     lockVars, engineVars, jobVars
<1>2. CASE \E r \in DoclingReqs : Docling(r)
  BY <1>2, DoclingWithoutGpuEInv, DoclingAskEInv, DoclingEnterEInv,
     DoclingRetryEInv DEF Docling, DoclingCall
<1>3. CASE \E r \in OcrReqs : Ocr(r)
  BY <1>3, OcrManualEInv, OcrAskEInv, OcrEnterEInv DEF Ocr
<1>4. CASE \E r \in ColPaliReqs : ColPali(r)
  BY <1>4, ColPaliLoadFailsEInv, ColPaliAskEInv, ColPaliEnterEInv DEF ColPali
<1>5. CASE \E r \in Reqs : \/ StartThread(r) \/ FinishThread(r) \/ Answer(r)
                          \/ Timeout(r) \/ NextRequest(r)
  BY <1>5, StartThreadEInv, FinishThreadEInv, AnswerEInv, TimeoutEInv,
     NextRequestEInv
<1>6. QED
  BY <1>1, <1>2, <1>3, <1>4, <1>5 DEF Next

(* EInv holds in every reachable state. *)
THEOREM Invariance == Spec => []EInv
<1>1. QED
  BY InitEInv, NextEInv, PTL DEF Spec

(* Every variable keeps its type. *)
THEOREM TypeCorrect == Spec => []TypeOK
<1>1. EInv => TypeOK
  BY DEF EInv, SInv
<1>2. QED
  BY <1>1, Invariance, PTL

(* The lock is held exactly while one job is in flight, and by its request:  *)
(* no path through the handlers forgets it or gives it up early.           *)
THEOREM JobsAreSerial == Spec => []OneJob
<1>1. EInv => OneJob
  BY DEF EInv, SInv
<1>2. QED
  BY <1>1, Invariance, PTL

(* Docling and Chandra are never on GPU 2 together. *)
THEOREM DoclingAndOcrExclude == Spec => []OneTenant
<1>1. EInv => OneTenant
  BY DEF EInv, SInv
<1>2. QED
  BY <1>1, Invariance, PTL

(* A thread of Docling or OCR that starts finds its model, and an OCR text *)
(* read by Chandra is labelled so.                                         *)
THEOREM ModelsOutliveJobs == Spec => [](JobHasModel /\ ChandraIsNamed)
<1>1. EInv => JobHasModel /\ ChandraIsNamed
  BY DEF EInv, SInv
<1>2. QED
  BY <1>1, Invariance, PTL

(* The engine a GPU2LockTimeout names is the one that holds the lock. *)
THEOREM HolderIsNamed == Spec => []HolderNamed
<1>1. EInv => HolderNamed
  BY DEF EInv, SInv
<1>2. QED
  BY <1>1, Invariance, PTL

(* After a meta-tensor failure Docling stays off GPU 2 for good. *)
THEOREM CpuFallbackSticks == Spec => []FallbackSticks
<1>1. EInv => FallbackSticks
  BY DEF EInv, SInv
<1>2. QED
  BY <1>1, Invariance, PTL
=============================================================================
