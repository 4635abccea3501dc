----------------------------- MODULE Gpu2Engines -----------------------------
(***************************************************************************)
(* The three engines that share GPU 2 (DoclingEngine, OCREngine and        *)
(* ColPaliEngine under api/infrastructure/models), from a request's        *)
(* arrival to its answer.  A handler runs on the event loop up to its next *)
(* suspension, so what lies between two awaits is one action; GPU work     *)
(* runs in the executor's threads, beside the loop.  Of the lock only what *)
(* Gpu2Mutex promises is used.                                             *)
(***************************************************************************)
EXTENDS FiniteSets

CONSTANTS DoclingReqs, OcrReqs, ColPaliReqs,  \* requests, by engine
          OcrPreloaded  \* was OCREngine._ensure_model_loaded called before the
                        \* first request?  Nothing in api/ does (ocr_engine.py:194)

ASSUME ReqsAssumption == /\ DoclingReqs \cap OcrReqs = {}
                         /\ DoclingReqs \cap ColPaliReqs = {}
                         /\ OcrReqs \cap ColPaliReqs = {}
                         /\ OcrPreloaded \in BOOLEAN

Reqs == DoclingReqs \cup OcrReqs \cup ColPaliReqs

Engines == {"docling", "ocr", "colpali"}

EngineOf(r) == IF r \in DoclingReqs THEN "docling"
               ELSE IF r \in OcrReqs THEN "ocr" ELSE "colpali"

(***************************************************************************)
(* loaded[e] holds the attributes of engine e that are set:                *)
(*   docling   "converter", and "cpu" when it runs the CPU pipeline        *)
(*   others    "model" (_model), "processor" (_processor),                 *)
(*             "ready" (_model_loaded of OCR, _loaded of ColPali)          *)
(***************************************************************************)
Parts      == {"converter", "cpu", "model", "processor", "ready"}
FullLoad   == {"model", "processor", "ready"}
Converters == {{"converter"}, {"converter", "cpu"}}

VARIABLES
    inside, waiting,   \* the lock (Gpu2Mutex)
    pc,                \* where each request is
    loaded,            \* what each engine keeps alive
    useCpu,            \* DoclingEngine._use_cpu_fallback
    registered,        \* keys of _engine_unloaders
    current,           \* _current_gpu2_engine
    armed,             \* the job sees a model (else it fails on None)
    outcome,           \* what the thread hands back
    retried,           \* requests on their second, CPU, conversion
    answer             \* what the request is answered

lockVars   == <<inside, waiting>>
engineVars == <<loaded, useCpu, registered, current>>
jobVars    == <<armed, outcome, retried>>
vars       == <<lockVars, pc, engineVars, jobVars, answer>>

Mutex == INSTANCE Gpu2Mutex

PcStates == {"idle", "waiting", "submitted", "running", "finished", "done"}
Outcomes == {"none", "ok", "meta", "error"}
Answers  == {"none", "text", "document", "chandra", "chandraAsManual",
             "manual", "manualAsChandra", "embedding", "error", "busy"}

TypeOK == /\ Mutex!MutexTypeOK
          /\ pc         \in [Reqs -> PcStates]
          /\ loaded     \in [Engines -> SUBSET Parts]
          /\ useCpu     \in BOOLEAN
          /\ registered \subseteq Engines
          /\ current    \in Engines \cup {"none"}
          /\ armed      \in [Reqs -> BOOLEAN]
          /\ outcome    \in [Reqs -> Outcomes]
          /\ retried    \subseteq DoclingReqs
          /\ answer     \in [Reqs -> Answers]

(* Nothing is loaded or registered; or whoever embeds the service made and *)
(* loaded OCR first, without which its use of the lock is unreachable.     *)
Init == /\ Mutex!Init
        /\ pc         = [r \in Reqs |-> "idle"]
        /\ loaded     = [e \in Engines |->
                            IF e = "ocr" /\ OcrPreloaded THEN FullLoad ELSE {}]
        /\ useCpu     = FALSE
        /\ registered = IF OcrPreloaded THEN {"ocr"} ELSE {}
        /\ current    = "none"
        /\ armed      = [r \in Reqs |-> FALSE]
        /\ outcome    = [r \in Reqs |-> "none"]
        /\ retried    = {}
        /\ answer     = [r \in Reqs |-> "none"]
-----------------------------------------------------------------------------
Goto(r, from, to) == pc[r] = from /\ pc' = [pc EXCEPT ![r] = to]

(* The engine is constructed on its first request and registers its        *)
(* unload callback.                                                        *)
Construct(e) == registered' = registered \cup {e}

\* Mutant of AfterUnloadOthers: trusts _current_gpu2_engine.
AfterUnloadCurrent(e, ld) ==
    [x \in Engines |-> IF x # e /\ x = current THEN {} ELSE ld[x]]

(* unload_other_gpu2_engines(e): what remains loaded.  The callbacks never *)
(* raise, so the retry and the forced clearing stay unreached.             *)
AfterUnloadOthers(e, ld) ==
    [x \in Engines |-> IF x # e /\ x \in registered THEN {} ELSE ld[x]]

(* What a failed load leaves behind, by the statement that raised: the     *)
(* first from_pretrained, the processor's, or one before the ready flag.   *)
LoadFailures(ld) == {ld, ld \cup {"model"}, ld \cup {"model", "processor"}}

(* What run_in_executor's function finds when it reads the engine.         *)
Needs(e) == IF e = "docling" THEN {"converter"} ELSE {"model", "processor"}
HasModel(e, ld) == Needs(e) \subseteq ld[e]

Refuse(r, a) == /\ Goto(r, "idle", "done")
                /\ answer' = [answer EXCEPT ![r] = a]

\* The lock is held, or somebody is queued for it: a request that timed out
\* when it was woken is, until it runs.
Suspend(r) == /\ inside \cup waiting # {} \/ \E s \in Reqs : answer[s] = "busy"
              /\ Goto(r, "idle", "waiting")
              /\ Mutex!Ask(r)
              /\ UNCHANGED answer

(* __aenter__ returned: the body runs up to run_in_executor, and `to` is   *)
(* "submitted"; or it raises, and `to` is "finished" with an error.        *)
EnterBody(r, to) ==
    /\ \/ Goto(r, "idle", to)    /\ Mutex!EnterNow(r)
       \/ Goto(r, "waiting", to) /\ Mutex!Grant(r)
    /\ current' = EngineOf(r)
    /\ outcome' = [outcome EXCEPT ![r] = IF to = "finished" THEN "error" ELSE "none"]
    /\ UNCHANGED <<retried, answer>>
-----------------------------------------------------------------------------
(* DoclingEngine.process_document.  ld and cpu are what is loaded and which  *)
(* pipeline the engine uses when the router hands it out: a new object      *)
(* starts without either (IdleWatcher).                                    *)

\* Mutant of NewConverter: the second conversion rebuilds the same pipeline.
SameConverter(cpu) == {"converter"}

NewConverter(cpu) == IF cpu THEN {"converter", "cpu"} ELSE {"converter"}

\* A text file, or a body that is not base64: answered without the lock.
DoclingWithoutGpu(r, ld, cpu) ==
    /\ \E a \in {"text", "error"} : Refuse(r, a)
    /\ Construct("docling")
    /\ loaded' = ld /\ useCpu' = cpu
    /\ UNCHANGED <<lockVars, current, jobVars>>

\* Mutant of DoclingAsk: names the engine before it has the lock.
DoclingAskNamed(r, ld, cpu) == /\ Suspend(r)
                               /\ Construct("docling")
                               /\ loaded' = ld /\ useCpu' = cpu
                               /\ current' = "docling"
                               /\ UNCHANGED jobVars

DoclingAsk(r, ld, cpu) == /\ Suspend(r)
                          /\ Construct("docling")
                          /\ loaded' = ld /\ useCpu' = cpu
                          /\ UNCHANGED <<current, jobVars>>

\* _run_conversion builds a converter on every call, then submits the job.
DoclingEnter(r, ld, cpu) ==
    LET kept == AfterUnloadOthers("docling", ld) IN
    /\ Construct("docling")
    /\ \/ /\ EnterBody(r, "submitted")
          /\ loaded' = [kept EXCEPT !["docling"] = NewConverter(cpu)]
       \/ /\ EnterBody(r, "finished")
          /\ loaded' = kept
    /\ useCpu' = cpu
    /\ UNCHANGED armed

DoclingCall(r, ld, cpu) == \/ DoclingWithoutGpu(r, ld, cpu)
                           \/ DoclingAsk(r, ld, cpu)
                           \/ DoclingEnter(r, ld, cpu)

\* Mutant of SecondTry: nothing remembers that it was made.
SecondTryAlways(r, to) ==
    /\ outcome[r] = "meta"
    /\ Goto(r, "finished", to)
    /\ outcome' = [outcome EXCEPT ![r] = IF to = "finished" THEN "error" ELSE "none"]
    /\ UNCHANGED <<lockVars, registered, current, armed, retried, answer>>

\* The meta-tensor error: one more conversion, on the CPU, inside the lock.
SecondTry(r, to) ==
    /\ outcome[r] = "meta" /\ r \notin retried
    /\ retried' = retried \cup {r}
    /\ Goto(r, "finished", to)
    /\ outcome' = [outcome EXCEPT ![r] = IF to = "finished" THEN "error" ELSE "none"]
    /\ UNCHANGED <<lockVars, registered, current, armed, answer>>

\* The former converter is let go of before a new one is built, or cannot be.
DoclingRetry(r) ==
    /\ useCpu' = TRUE
    /\ \/ /\ SecondTry(r, "submitted")
          /\ loaded' = [loaded EXCEPT !["docling"] = NewConverter(TRUE)]
       \/ /\ SecondTry(r, "finished")
          /\ loaded' = [loaded EXCEPT !["docling"] = {}]
-----------------------------------------------------------------------------
(* OCREngine.process *)

\* The test made before the lock; when it fails the engine answers a fixed
\* text, but the name it puts on it depends on _model alone.
UsesChandra == {"model", "processor"} \subseteq loaded["ocr"]

OcrManual(r) ==
    /\ \/ /\ ~UsesChandra
          /\ Refuse(r, IF "model" \in loaded["ocr"] THEN "manualAsChandra" ELSE "manual")
       \/ Refuse(r, "error")                  \* the image does not decode
    /\ Construct("ocr")
    /\ UNCHANGED <<lockVars, loaded, useCpu, current, jobVars>>

OcrAsk(r) == /\ UsesChandra
             /\ Suspend(r)
             /\ Construct("ocr")
             /\ UNCHANGED <<loaded, useCpu, current, jobVars>>

\* The test made inside the lock: reload what was unloaded during the wait.
OcrEnter(r) ==
    LET kept  == AfterUnloadOthers("ocr", loaded)
        ready == {"model", "ready"} \subseteq loaded["ocr"] IN
    /\ pc[r] = "idle" => UsesChandra
    /\ Construct("ocr")
    /\ \/ /\ EnterBody(r, "submitted")
          /\ loaded' = IF ready THEN kept ELSE [kept EXCEPT !["ocr"] = FullLoad]
       \/ /\ ~ready
          /\ EnterBody(r, "finished")
          /\ \E ld \in LoadFailures(loaded["ocr"]) : loaded' = [kept EXCEPT !["ocr"] = ld]
    /\ UNCHANGED <<useCpu, armed>>
-----------------------------------------------------------------------------
(* ColPaliEngine.embed: _load_model comes before the lock. *)

AfterColPaliLoad == [loaded EXCEPT !["colpali"] = FullLoad]

ColPaliLoadFails(r) ==
    /\ "ready" \notin loaded["colpali"]
    /\ Refuse(r, "error")
    /\ Construct("colpali")
    /\ \E ld \in LoadFailures(loaded["colpali"]) :
          loaded' = [loaded EXCEPT !["colpali"] = ld]
    /\ UNCHANGED <<lockVars, useCpu, current, jobVars>>

\* Mutant of ColPaliAsk: makes room before the lock.
ColPaliAskUnloads(r) == /\ Suspend(r)
                        /\ Construct("colpali")
                        /\ loaded' = AfterUnloadOthers("colpali", AfterColPaliLoad)
                        /\ UNCHANGED <<useCpu, current, jobVars>>

ColPaliAsk(r) == /\ Suspend(r)
                 /\ Construct("colpali")
                 /\ loaded' = AfterColPaliLoad
                 /\ UNCHANGED <<useCpu, current, jobVars>>

\* The model is read here, inside the lock: None if it was unloaded meanwhile.
ColPaliEnter(r) ==
    LET ld == IF pc[r] = "idle" THEN AfterColPaliLoad ELSE loaded IN
    /\ Construct("colpali")
    /\ EnterBody(r, "submitted")
    /\ loaded' = AfterUnloadOthers("colpali", ld)
    /\ armed'  = [armed EXCEPT ![r] = HasModel("colpali", ld)]
    /\ UNCHANGED useCpu
-----------------------------------------------------------------------------
(* The executor, and the end of every handler. *)

\* The thread starts: Docling and OCR read their model only now.
StartThread(r) ==
    /\ Goto(r, "submitted", "running")
    /\ armed' = [armed EXCEPT ![r] =
                    IF r \in ColPaliReqs THEN @ ELSE HasModel(EngineOf(r), loaded)]
    /\ UNCHANGED <<lockVars, engineVars, outcome, retried, answer>>

FinishThread(r) ==
    /\ Goto(r, "running", "finished")
    /\ \E o \in {"ok", "error", "meta"} :
          /\ o = "ok"   => armed[r]
          /\ o = "meta" => armed[r] /\ r \in DoclingReqs
          /\ outcome' = [outcome EXCEPT ![r] = o]
    /\ UNCHANGED <<lockVars, engineVars, armed, retried, answer>>

\* Mutant of Result: the thread's result is handed out as it is.
ResultAsIs(r) == outcome[r]

\* The handler resumes, leaves the lock on every path, and answers.  OCR
\* looks at _model once more, for the name it puts on the result.
Result(r) == CASE r \in DoclingReqs -> "document"
               [] r \in OcrReqs     -> IF "model" \in loaded["ocr"]
                                       THEN "chandra" ELSE "chandraAsManual"
               [] r \in ColPaliReqs -> "embedding"

\* Mutant of Answer: a failed job keeps the lock.
AnswerKeepsLock(r) ==
    /\ Goto(r, "finished", "done")
    /\ outcome[r] = "meta" => r \in retried
    /\ IF outcome[r] = "ok" THEN Mutex!Leave(r) ELSE UNCHANGED lockVars
    /\ answer'  = [answer EXCEPT ![r] = IF outcome[r] = "ok" THEN Result(r) ELSE "error"]
    /\ armed'   = [armed EXCEPT ![r] = FALSE]
    /\ outcome' = [outcome EXCEPT ![r] = "none"]
    /\ retried' = retried \ {r}
    /\ UNCHANGED engineVars

Answer(r) ==
    /\ Goto(r, "finished", "done")
    /\ outcome[r] = "meta" => r \in retried
    /\ Mutex!Leave(r)
    /\ answer'  = [answer EXCEPT ![r] = IF outcome[r] = "ok" THEN Result(r) ELSE "error"]
    /\ armed'   = [armed EXCEPT ![r] = FALSE]
    /\ outcome' = [outcome EXCEPT ![r] = "none"]
    /\ retried' = retried \ {r}
    /\ UNCHANGED engineVars

\* GPU2_LOCK_TIMEOUT: __aenter__ raises GPU2LockTimeout.
Timeout(r) == /\ Goto(r, "waiting", "done")
              /\ Mutex!Abandon(r)
              /\ answer' = [answer EXCEPT ![r] = "busy"]
              /\ UNCHANGED <<engineVars, jobVars>>

\* The client sends its next request.
NextRequest(r) == /\ Goto(r, "done", "idle")
                  /\ answer' = [answer EXCEPT ![r] = "none"]
                  /\ UNCHANGED <<lockVars, engineVars, jobVars>>
-----------------------------------------------------------------------------
Docling(r) == DoclingCall(r, loaded, useCpu) \/ DoclingRetry(r)
Ocr(r)     == OcrManual(r) \/ OcrAsk(r) \/ OcrEnter(r)
ColPali(r) == ColPaliLoadFails(r) \/ ColPaliAsk(r) \/ ColPaliEnter(r)

Next == \/ \E r \in DoclingReqs : Docling(r)
        \/ \E r \in OcrReqs : Ocr(r)
        \/ \E r \in ColPaliReqs : ColPali(r)
        \/ \E r \in Reqs : \/ StartThread(r) \/ FinishThread(r) \/ Answer(r)
                           \/ Timeout(r) \/ NextRequest(r)

Spec == Init /\ [][Next]_vars

(* The loop runs ready tasks, jobs end, and the timer of a request that    *)
(* keeps waiting fires.                                                    *)
Fairness == /\ \A r \in Reqs : /\ WF_vars(StartThread(r))
                               /\ WF_vars(FinishThread(r))
                               /\ WF_vars(Answer(r))
                               /\ WF_vars(Timeout(r))
            /\ \A r \in DoclingReqs : WF_vars(DoclingRetry(r))

FairSpec == Spec /\ Fairness
-----------------------------------------------------------------------------
InFlight == {r \in Reqs : pc[r] \in {"submitted", "running", "finished"}}

OnGpu2(e) == IF e = "docling" THEN loaded[e] = {"converter"} ELSE "model" \in loaded[e]

(* Jobs never overlap on GPU 2 and the lock is held exactly while one is   *)
(* in flight: every way out of a handler (a failed load, a failed job, the *)
(* second conversion of the fallback) gives it back, and none gives it     *)
(* back while a thread still works.                                        *)
OneJob == /\ inside = InFlight
          /\ \A r, s \in inside : r = s

(* Docling and OCR are never on GPU 2 together, and while a job is in      *)
(* flight neither is, unless it is the job's own engine: what was loaded   *)
(* was registered, so unload_other_gpu2_engines reached it.                *)
OneTenant == /\ ~(OnGpu2("docling") /\ OnGpu2("ocr"))
             /\ \A r \in InFlight, e \in {"docling", "ocr"} :
                   OnGpu2(e) => e = EngineOf(r)

(* A thread of Docling or OCR, which reads its model only when it starts,  *)
(* finds one: nothing unloads an engine between submission and the read.   *)
JobHasModel == \A r \in DoclingReqs \cup OcrReqs : pc[r] = "running" => armed[r]

(* The name GPU2LockTimeout reports as the holder (gpu2_lock.py:97) is the *)
(* engine whose job holds the lock.                                        *)
HolderNamed == \A r \in inside : current = EngineOf(r)

(* A text read by Chandra is not handed out under the name of the manual   *)
(* fallback, although the name is chosen after the lock was left.          *)
ChandraIsNamed == \A r \in OcrReqs : answer[r] # "chandraAsManual"

(* After one meta-tensor failure no Docling converter of any request uses  *)
(* GPU 2 as long as the engine object lives.                               *)
FallbackSticks == useCpu => ~OnGpu2("docling")

(* Every request is answered: a waiting one at the latest by its timeout,  *)
(* and none waits for ever on a lock somebody forgot.                      *)
EveryoneAnswered == \A r \in Reqs :
                       pc[r] \notin {"idle", "done"} ~> pc[r] = "done"
-----------------------------------------------------------------------------
(* What comments of the code say and the code does not do.                 *)

(* gpu2_lock.py:3-4: every load on GPU 2 happens inside the lock, where    *)
(* the others are unloaded first, so one engine at a time is on it.        *)
(* ColPali loads before it asks for the lock.                              *)
ExclusiveGpu2 == \A e, f \in Engines : OnGpu2(e) /\ OnGpu2(f) => e = f
=============================================================================
