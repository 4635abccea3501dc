# Verification of the self-hosting API

The repository is an OpenAI-compatible HTTP service (FastAPI, one process, one
event loop) in front of models on three GPUs: an LLM on GPU 0 (vLLM, or
HuggingFace as a fallback), a vision model on GPU 1, and on GPU 2 three engines
that take turns: Docling (documents), Chandra (OCR) and ColPali (embeddings).
This directory holds TLA+ modules of its concurrent parts, TLC configurations
that check them on small instances, and TLAPS proofs for any number of requests
of every safety property the passing runs check. `PROJECT.json` is the index:
components, runs, the source lines behind every definition, findings, hazards,
theorems, and for each property a mutated definition that breaks it.

    tlc -workers 2 -config Gpu2Engines.cfg Gpu2Engines.tla
    tlapm Gpu2Engines_proofs.tla

## 1. Inventory

Paths are below `src/api/`. Everything runs on one event loop: code between two
`await`s is not interrupted. Concurrency comes from the interleaving of
coroutines at awaits, from the threads of `run_in_executor`, from timers, and
from vLLM, which computes beside the loop.

| Part | State | Operations | Used by / uses | What makes it correct |
|---|---|---|---|---|
| GPU 2 lock, `infrastructure/utils/gpu2_lock.py` | an `asyncio.Lock`, the unload callbacks, the holder's name | acquire with a 120 s timeout, release, unload the others | the three engines of GPU 2 | exclusive, no lost wake-up, fair, released on every path |
| Docling, `infrastructure/models/docling_engine.py` | converter, CPU-fallback flag | `process_document`, `_unload` | lock, executor | one job at a time, converter there when the thread reads it, fallback is final |
| Chandra OCR, `infrastructure/models/ocr_engine.py` | model, processor, loaded flag (class-wide) | `process`, `_ensure_model_loaded`, `unload_class` | lock, executor | model there when the thread reads it, result labelled by who read it |
| ColPali, `infrastructure/models/colpali_engine.py` | model, processor, loaded flag | `embed`, `_load_model`, `_unload` | lock, executor | as above |
| vLLM, `infrastructure/models/vllm_engine.py` | engine, loaded flag, prompts in vLLM | `load_model`, `generate` (3 attempts), `generate_batch` (chunks) | vLLM, tenacity | no attempt survives its timeout, every call ends, results complete and in order, bounded concurrency |
| VLM, `infrastructure/models/vlm_engine.py` | class-wide semaphore, model, autograd mode | `generate` | executor, `model_loader.py` | one inference at a time, permit never lost, autograd restored |
| Rate limit and key check, `presentation/middleware/{auth,rate_limiter}.py` | times of each caller's requests | `dispatch` | every `/v1` request | never above the limit, never refused without cause, honest Retry-After |
| Answer cache, `infrastructure/adapters/cache_adapter.py` | ordered dict of entries | get, set, clean-up | chat service | fresh, bounded, least recently used goes first |
| Chat service, `application/services/chat_service.py` | none; a cache | single and batch completion | cache, router | answers fit their requests, repeated ones come from the cache |
| Model router, `application/services/model_router_service.py` | the engines, made lazily | choose and call an engine | services, engines | each engine made once, the right one called |
| Idle watcher, `infrastructure/utils/idle_watcher.py`, timer in `presentation/middleware/logging.py` | time of the last request | unload and forget the engines | router, engines | frees every idle engine in time, leaves the lock's exclusion intact, loses no model |
| Routers and error mapping, `presentation/routers`, `presentation/middleware/error_handler.py` | none | map exceptions to statuses | services | a busy GPU is 503, a bad input 4xx |
| HuggingFace LLM, `infrastructure/models/{llm_engine,model_loader}.py` | model, loaded flag | load, `generate`, `generate_batch` | router, batch processor | every item has its outcome, in order |
| Batch processor, `infrastructure/utils/batch_processor.py` | none; a semaphore per call | slices of a batch over an engine | LLM or vLLM engine | order kept, failures reported, bounded concurrency, permits given back |
| RunPod client, `infrastructure/clients/runpod_client.py` | HTTP clients | one call with retries | nothing in `api/` | retries bounded |
| Start-up and health, `main.py` | background task | lifespan, preloading, middleware order | all | starts, stops the watcher |
| Settings, logging, domain types, scripts, nginx | values | none | | |

The hard behaviours, listed line by line under `hazards` in `PROJECT.json`:
a timer that fires between the wake-up of a waiter and its run; jobs in threads
while other requests unload models; state tested before a lock and used inside
it; retries next to work that was not stopped; `gather` that forgets its other
tasks; sliding windows shared by several limits; caches at their limit.

## 2. Modules

| Module | What it models |
|---|---|
| `Gpu2Mutex` | abstract: what `async with gpu2_lock()` promises, and the semaphore of GPU 1 too |
| `Gpu2Lock` | the lock with asyncio's futures, queue and timers; implements `Gpu2Mutex` |
| `Gpu2Lock_proofs` | proofs about `Gpu2Lock`, the refinement among them |
| `Gpu2Engines` | Docling, OCR and ColPali on top of `Gpu2Mutex` |
| `Gpu2Engines_proofs` | proofs about `Gpu2Engines` |
| `IdleWatcher` | `Gpu2Engines` with the watcher that unloads and replaces its engines |
| `IdleWatcher_proofs` | proofs about `IdleWatcher` |
| `VllmEngine`, `MCVllmEngine` | calls and batches through vLLM; the run with one kind at a time |
| `VllmEngine_proofs` | proofs about `VllmEngine` |
| `VlmEngine` | the vision engine and its semaphore |
| `VlmEngine_proofs` | proofs about `VlmEngine`, the refinement of `Gpu2Mutex` among them |
| `BatchProcessor` | batches on the HuggingFace engine |
| `BatchProcessor_proofs` | proofs about `BatchProcessor` |
| `RateLimiter`, `MCRateLimiter` | key check and rate limit; the limits of the runs |
| `Gateway`, `MCGateway` | the middlewares around `RateLimiter`, the router's engines and the watcher's loop, against the clock |
| `Gateway_proofs` | proofs about `Gateway` and `RateLimiter`, and that the one implements the other |
| `Routers` | which exception of which layer becomes which status |
| `CacheAdapter` | the cache as operators on its dict |
| `ChatService`, `MCChatService` | chat requests through the cache; symmetry of the run |
| `ChatService_proofs` | proofs about `ChatService` and the operators of `CacheAdapter` |

`Gpu2Engines` uses the actions of `Gpu2Mutex` (`Mutex == INSTANCE Gpu2Mutex`),
so it sees only what the lock promises; that `Gpu2Lock` keeps the promise is
checked and proved. `IdleWatcher` extends `Gpu2Engines`, `Gateway` extends
`RateLimiter`, `ChatService` extends `CacheAdapter`. The watcher is in two
modules because it is two things: a loop against a clock (`Gateway`, which knows
of an engine only whether it exists and is loaded) and a set of unloads (`IdleWatcher`,
which knows what an unload does to the models and their jobs, and of the clock
nothing: there the watcher may act between any two steps of a request).

### GPU 2

`Gpu2Lock`. `__aenter__` is `AcquireAtOnce`, or `AcquireLater` followed by
`TakeLock`, or by `Timeout` and `GiveUp`; `__aexit__` is `Release`. The lock is
`asyncio.Lock` of Python 3.12, where `wait_for` runs `acquire` in the caller's
own task: its timer cancels the task, and if the future was resolved before the
task ran, the task sees the cancellation (`"late"`) and must pass the wake-up on.

`Gpu2Engines`. A request is `idle`, `waiting` for the lock, `submitted` to the
executor, `running` in a thread, `finished` (the thread returned, the handler
has not resumed) or `done`. `loaded` holds the attributes of each engine that are set, so
that a load that failed half-way is visible. Each handler up to its first await
is one action (`DoclingAsk`, `OcrManual`, `ColPaliAsk`, ...), entering the lock
with all that follows up to `run_in_executor` is one (`DoclingEnter`, ...), and
`Answer` is everything from the executor's result to the response, with the
release. `DoclingRetry` is the second conversion inside the same lock.

`OcrPreloaded`: `_ensure_model_loaded` is called in one place, inside the lock,
behind a test (`ocr_engine.py:194`) that needs the model to be loaded. So from the
service's own start the OCR branch under the lock is unreachable, and every image
is answered with the fixed fallback text, although `ocr_engine.py:77` and `:338`
say that the model is loaded lazily inside the lock. No interleaving is needed to
see it: `OcrManual` is that branch. To check and prove what lies behind the test as
well, the constant lets an embedder load the model first. It is FALSE for the
service as it starts; the proofs hold for both.

When the load inside the lock fails after the model and before the processor,
later requests get the fallback text under the name "chandra"
(`manualAsChandra`). It needs `OcrPreloaded`, so it is described here and not
reported as a finding.

### Idle watcher

The watcher takes no lock and compares the clock with the last ARRIVAL only: the
timer is set back by `logging.py:15` before the body of a request is read, and never
again while it is in hand. Nothing bounds a request: the wait for the lock takes up
to 120 s, three attempts of vLLM up to half an hour, an upload or a job of Docling any time. So
`IdleWatcher` lets `UnloadAll` happen at any moment at which the router has an
engine of GPU 2. (`IDLE_UNLOAD_SECONDS` is 0 by default, and then there is no
watcher; `Gpu2Engines` is that service.)

The variables of `Gpu2Engines` stand for the latest `DoclingEngine`, the one whose
callback is registered; `held` are the engines the router has an object of, and
`old` the earlier Docling engines that requests still use, each with its users, its
converter and its CPU flag. `DoclingArrives` is the router's `_get_engine` and what
the handler does up to its first suspension: when the router has no Docling engine
it makes a new one, without converter and without the fallback, and the one before
it moves to `old` if it still has users (`Superseded`). `OldEnter`, `OldRetry`,
`OldStart`, `OldEnds` are the rest of a request that goes on with such an engine. The
attributes of OCR belong to its class, so all its objects share them.

What is left of the properties beside the watcher:

- `OneJob`, `OneTenant` and `FallbackSticks` hold for requests of any length, and are
  proved. `OneTenant` and `FallbackSticks` speak of the latest Docling engine; the
  fallback is proved of the old ones too (`EachFallbackSticks`).
- `JobHasModel`, `ChandraIsNamed` and `HolderNamed` do not hold: `UnloadAll` takes the
  model of a job before its thread has read it, so that the request fails; it
  takes the model of an OCR job whose text is then labelled "manual"; and it resets the
  holder's name. They are checked and proved for `Gpu2Engines` alone. Nothing in the
  repository promises them for a request that outlives the idle time.
- A converter in an old engine is out of reach of the unloading at the lock, since
  a new engine's callback has replaced its own, and may be on GPU 2 beside OCR.
- `WithinReach` does not hold: see the run `IdleWatcher` below.

ColPali is not among the router's engines, so the watcher never meets it; the
HuggingFace LLM has no unload and is skipped (`idle_watcher.py:43` says "all
models").

### vLLM

Each prompt is a job: `queued`, `streaming`, `aborting`, then `ok` or `error`.
`running` is what vLLM computes, which the coroutine that submitted the job may
no longer know of; `leaked` are jobs whose abort raised, which the code logs and
ignores. `Attempt` is the body of `generate` up to the first wait, with the lazy load;
`AfterFailure` is tenacity's decision. `StartBatch`, `ChunkDone` and
`ChunkRaises` are `generate_batch`: `NextChunk` creates the tasks of the next
chunk. A batch larger than twice `VLLM_MAX_NUM_SEQS` is refused. `IdleUnload` is
the watcher dropping the engine object when nothing is in hand.

Calls and batches share nothing but the loaded engine: each prompt has its own
id, timer and stream. So `MCVllmEngine` explores them one kind at a time
(`OneKind`), which keeps both large enough within one run.

### VLM

`asyncio.Semaphore(1)` differs from the lock: the permit is handed over at the
wake-up (`Hand` lowers the counter), so a waiter whose timer fires afterwards
has to give it back (`Back`). `grad` is the autograd mode of the loop's thread,
which `with torch.no_grad()` around an `await` changes for every coroutine.
`IdleUnload` is the watcher's, at any moment: requests past their load keep the old
object, and the semaphore belongs to the class.

### Batches

`BatchProcessor` is `process_batch` over `LLMEngine.generate` (mode `items`) and
`enrich_chunks_batch` over `LLMEngine.generate_batch` (mode `engine`). A batch goes
slice by slice: `SliceDone` collects the results of a `gather` and creates the next
slice; `SliceRaises` is the first error of a `gather` that must not lose one,
after which the rest of the slice goes on unobserved. `Start` takes a permit of the
call's semaphore, `Finish` returns it, `StartFails` does both. `generate_batch`
takes `allow_partial_failure` and does not look at it (`Forgiving`), against its own
documentation; the run `BatchFailures` is about that, and `BatchComplete` asks for
successes alone of `process_batch` only. The run of `BatchProcessor` checks for
deadlock, so that a lost permit would show there too.

### Rate limit

The clock has `Second` ticks in a second, so that `int()` in
`int(_WINDOW - (now - entries[0])) + 1` (`RetryAfter`) has a fraction to drop; the entry
leaves the window in the middle of a second, and the `+ 1` is what makes the
promise good. `Admit` and `Refuse` are the two outcomes of `dispatch`; `Recent` is
`_clean_old_entries`. The code filters a list that is in order of time, so what
it removes (`Expired`) is the head, and `Recent` is written as what follows it; that the
list is in order is proved (`InOrder`). The limiter is inside the key check, so with keys
configured it counts by key, without them by host. `admitted` and `promise` are
history variables for the properties.

### Gateway

`main.py` adds the middlewares so that logging is outermost, then the key check,
then the rate limit. So even a refused request sets the timer back (`Touch` in
`Unauthorized` and `TooMany`), and so does the container's health check
(`Public`), every 30 seconds. A request that needs an
engine goes through `Arrive` (the decision of the middlewares), `GetEngine` (the
router hands out an object, made if it has none) and `Load` (the first use of an
object loads its model), and may end with `Answer` after any of them. The clock does
not wait for it: any time may lie between two of these steps. `Look` and `Unload`
are the watcher's loop: a minute of sleep before each look, and the idle time more
after an unload. A request whose engine is dropped goes on with an object the router
no longer has; what that means on GPU 2 is in `IdleWatcher`. `Preload` are the
engines of `PRELOAD_LLM` and `PRELOAD_VLM`, of which any may have failed at start-up.

`FreedInTime` bounds the time a model stays by the last arrival or the latest load,
because a load may come long after the arrival that asked for it. A load that
blocks the loop (all are synchronous) also stops the watcher; that time comes on top
of the bound.

### Routers

One request from validation to its status, one action per router, service and
engine, then the router's own `except` chain (`ChatCaught`, `DocumentsCaught`,
...) and the handlers of `error_handler.py`. Requests do not meet here, so there
is one, and all its paths are explored. The engines raise whatever the other
modules found they can raise, a busy lock and a CUDA error included.

### Chat and cache

The cache is a function from the keys to their entries, as the dict is. Which of
two entries last used in the same tick was used first the model does not know, so
`Oldest` are all those the `min` of the code may find; `Room` and `AfterSet` are the
caches that may be left. `Arrive` is everything a request does
before it waits: all items of a batch look into the cache (one instant of the
clock), and then wait for the engine. `EngineAnswers` stores and answers. A key
determines whether its request streams, because the flag is part of what is
hashed. `Shared` is TRUE for one service with one cache for all requests, as
`tests/integration/test_services.py:150-157` uses it, and FALSE for what
`get_chat_service` builds: a service and a cache per HTTP request. The second service never finds an
answer of an earlier request, although `docs/CODE_ANALYSIS.md:88-89` describes a
look into the cache before the model is called; this takes no interleaving to see,
so the run is of the first. The clean-up
task runs only in the first case: FastAPI calls the synchronous
`get_chat_service` in a thread, where no loop is running.

## 3. Runs

Every run is exhaustive within its bounds.

| Run | Shows | Bounds and why they are enough |
|---|---|---|
| `Gpu2Lock` | `MutualExclusion`, `NoLostWakeup`, `NoOvertaking`, `NoStarvation`, and refinement of `Gpu2Mutex` (`MutexSpec`) | 4 coroutines: one inside, one woken or timed out, two queued behind. The safety part is proved for any number |
| `Gpu2Engines` | `OneJob`, `OneTenant`, `JobHasModel`, `HolderNamed`, `ChandraIsNamed`, `FallbackSticks`, `EveryoneAnswered` | 2 Docling, 1 OCR, 1 ColPali request, each repeated for ever: every pair of engines competes, and Docling with itself. Safety is proved for any number |
| `MCVllmEngine` | `NoZombie`, `BatchComplete`, `SeqsBounded`, `JobsEnd`, `EveryoneAnswered` | 2 calls with all 3 attempts, which share only the engine that is loaded; or a batch of 0 to 5 prompts at 2 sequences: empty, one chunk, full chunk, uneven, two full chunks, refused |
| `VlmEngine` | `OnePermit`, `GradRestored`, `EveryoneAnswered`, and refinement of `Gpu2Mutex` (`MutexSpec`) | 4 coroutines, as for the lock, and the watcher |
| `BatchProcessor` | `BatchComplete`, `Throttled`, `EveryoneAnswered` | 0 to 5 items in slices of 3 with 2 permits: empty, one slice, a full and an uneven one, items that wait for a permit |
| `MCGateway` | `WithinLimit`, `RefusedForCause`, `RetryAfterKeptOnWidest`, `FreedInTime` | limits 1 and 2, half-second ticks, a window of 2 s, 6 ticks: entries leave the window while others stay, and the time left is a whole number of seconds or not. Idle time of 2 ticks, a look every tick, so the sleep after an unload ends 3 ticks later: the first unload can be at 2, that sleep ends at 5 and the clock goes on to 6, so that a model loaded right after an unload is followed through the long sleep and past its bound; what is loaded later in that sleep is due later and is left to the proof. One request in hand for any time; others come and go between its steps. `MaxTime` ends the clock, hence no deadlock check |
| `ChatService` | `AnswersFit`, `CacheBounded`, `NewestCached`, `EvictsLeastRecent` | 2 requests of up to 2 items, 3 cached keys for 2 entries and one streaming key, TTL of 2 in 3 ticks: hits, misses, expiry, eviction, concurrent misses. `MaxTime` ends the clock, hence no deadlock check |

Each passing run also has its module's type invariant.

Five runs check a statement of the repository and find it violated:

| Run | Statement | What happens |
|---|---|---|
| `Gpu2OneModel` | one model at a time on GPU 2, every load inside the lock (`gpu2_lock.py:3-4`) | ColPali loads before the lock, next to Docling's converter |
| `IdleWatcher` | the watcher unloads all GPU models of a service without requests (`idle_watcher.py:1`, `:43`) | it drops the engines while a request waits for the lock; the request builds its converter in the dropped object, and when it has ended the converter is on GPU 2 and the router has no Docling engine to unload. 2 Docling requests are enough |
| `RetryAfter` | "Retry after Ns." (`rate_limiter.py:74`) | the log is shared by all paths, so on a narrow path several entries must leave; the caller is refused again |
| `Routers` | a file above 500 MB is answered with 413 (`tests/integration/test_e2e.py:235`, `245`; the routers raise it) | the `HTTPException` is caught by the router's own `except Exception`, and the client gets a 500 |
| `BatchFailures` | a batch goes on after a failure if `allow_partial_failure` says so (`llm_engine.py:178`, `batch_processor.py:99`) | `generate_batch` gathers with `return_exceptions=True` whatever the flag; called with False it returns an error among its results. `VLLMEngine.generate_batch` and `process_batch` do raise |

Fairness. The event loop runs every ready task, so actions that stand for a
task that is ready are weakly fair. Jobs in the executor end (`Release`,
`FinishThread`, `Finish`): models generate a bounded number of tokens; in
`BatchProcessor` that is all, there is no timer. Timers:
`NoStarvation` and the `EveryoneAnswered` of the VLM assume none fires;
`EveryoneAnswered` of GPU 2 assumes that the timer of a request that waits
for ever fires, because the lock's timeout is armed for each; in `VllmEngine` the
timers are all that is assumed, vLLM itself may hang. In none is a client
assumed to send anything, or the watcher to run: `FreedInTime` is a safety
property, because the loop's sleep ends at a known time and the clock does not
pass it.

## 4. Proofs

All are for any sets of coroutines or requests and any settings, under the
modules' named assumptions and nothing else: the sets of callers are disjoint
(`ReqsAssumption`, `EngineAssumption`), the settings are numbers, the limits are a
finite, non-empty table (`LimiterAssumption`), and `Serves` and `Preload` name
engines (`GatewayAssumption`). No assumption bounds the length of a request.

`Gpu2Lock_proofs`. Mutual exclusion is not inductive: `TakeLock` raises the
flag without looking at it. `IInv` adds that a coroutine queues at most once and
has a future exactly while it queues, that only the head of the queue can be
woken and only while the lock is free, and that the head of a free lock's queue
is not asleep. From it follow `MutexHolds`, `NoWakeupLost`, `FirstComeFirstServed`
(an action property: a newcomer finds only cancelled waiters, a woken one is
the head) and `LockImplementsMutex`, step by step: `TakeLock` maps to `Grant`,
`Timeout` to `Abandon`, `GiveUp` to a stutter.

`Gpu2Engines_proofs`. The inductive invariant comes in two parts. `SInv` is what holds
whoever else unloads models: types, the shapes of what is loaded, that jobs are
serial, that Docling and OCR exclude each other, and that the fallback sticks. Exclusion rests on two
facts: whatever holds a model has registered its callback, so the unloading at the
lock reaches it; and a request that enters the lock finds no job in flight, so it
takes no model from one. `EInv` adds to it what a job in flight relies on: its model
is in place until its thread has read it, and the holder is named. `LEMMA EnterFacts`
is the argument of the entry, and every action of `Next` has lemmas of its own, those for `SInv` with the engine as the router
hands it out (`Handed`) as a parameter. The theorems: `JobsAreSerial`, `DoclingAndOcrExclude`,
`ModelsOutliveJobs`, `HolderIsNamed`, `CpuFallbackSticks`.

`IdleWatcher_proofs` keeps `SInv` beside the watcher, which may act at any moment. `WInv`
is `SInv` with the types of `held` and `old` and `EachFallbackSticks`: an engine that fell back to
the CPU has no converter for the GPU, whichever object it is. A request on the
latest engine is covered by the lemmas of `Gpu2Engines_proofs`; new are the arrival at a new
engine, which starts as `Handed` allows, the steps of the requests on old engines,
which take the same lock and unload the others as any, and `UnloadAll`, which only takes models away.
The theorems: `WatchedInvariance`, `WatchedTypesKept`, `WatchedJobsAreSerial`,
`WatchedEnginesExclude`, `WatchedFallbackSticks`.

`Gateway_proofs`. The watcher looks rarely, and sleeps longer after an unload. `IInv`
says where the sleep it is in ends (`SleepEnds`): while the router has a loaded engine, within
an idle time and a look of the last arrival or of the latest load. An arrival and a load
bring that moment up to now, from which no sleep is longer than an idle time and a
look; only an unload begins the long one, and it leaves nothing loaded. From it
follows `IdleModelsAreFreed`, for requests of any length.

Its second half is the limiter. `WithinLimit` speaks of all windows of a caller's
history, a step of the log it keeps. `LimiterInv` joins them: both are in order of
time (`InOrder`), the log is the end of the history and all before it has left the
window (`Faithful`), so the log's length after the clean-up is the number of
requests in the window (`LEMMA WindowCounted`), and a request let through on a path
found fewer than the path's limit before it in its window (`Within`). That the widest path's promise is kept needs
the other direction: a log is never longer than the largest limit, so on that path
the first entry is all that has to leave, and by the promised time it has
(`Promised`): what `int()` drops is less than a second, and a second is added
(`LEMMA SecondsCover`, for any resolution of the clock). Theorems:
`CallersStayWithinLimit`, `RefusalsAreDeserved`, `WidestPromiseIsKept`.
`GatewayLimits` shows that the middlewares around the limiter implement it, a
request to a public path and the watcher's steps being stutters, and
`GatewayKeepsLimits` takes the three theorems over.

`VlmEngine_proofs`. `OnePermit` counts permits. `IInv` says the same without counting
(at most one coroutine has a permit, and the counter is 0 exactly when one
has), and adds that only a waiter has a future, so that a wake-up never goes to
someone who has a permit. `LEMMA HandGivesOne` is what a wake-up does.
`SemaphoreImplementsMutex` is the refinement of `Gpu2Mutex`: whoever was handed the
permit still waits there, `Acquired` maps to `Grant`, `Timeout` to `Abandon`, and the
permit a late waiter gives back to a stutter. It needs that whoever has a future is
in the deque (`Queued`), the only place where a newcomer looks for others. Autograd
needs the permit: that `no_grad` finds it on (`FoundOn`) holds because
inferences do not overlap. Theorems: `TypeCorrect`, `PermitIsKept`,
`AutogradComesBack`, `SemaphoreImplementsMutex`.

`VllmEngine_proofs`. The properties speak of vLLM's jobs, the steps of what the
coroutines know of them. `IInv` ties the two: a job that did not escape its abort is
computed only while its timer is armed or its abort under way (`Tracked`), and such
jobs belong to the current attempt (`CallLive`) or the current chunk
(`BatchLive`), also after the batch has raised. Theorems: `OnlyTheCurrentAttempt`,
`BatchStaysWithinLimit`. What a batch returns is its second part: `BInv` adds that the
results are, at every moment, those of the jobs up to `from`, each in its place
(`Collects`); a chunk appends exactly its own (`LEMMA ChunkSpan`), and no other step
touches a job that has ended. Theorem: `EveryPromptIsAnswered`.

`BatchProcessor_proofs`. `IInv` is the layout of a batch: up to `from` everything has
ended and is collected, the current slice is under way, behind it nothing exists
(`Layout`, `Collected`); all slices but the last are full (`WholeSlices`); and permits are free or at work (`Permits`), counted by
the cardinality of a set from which a step takes or to which it adds one item.
Theorems: `EveryItemIsAnswered`, `ItemsAreThrottled`.

`ChatService_proofs`. `AnswersFit` and `EvictsLeastRecent` are about steps, and neither
follows from types: `IsCache` says of each entry that its value is of its own key,
that it expires TTL after the model's answer, and that it was last used between
that answer and now; `Remembered` ties the history of uses to the entries. There is a
lemma for each method of the cache (`GetsKeep`, `RoomKeeps`, `SetKeeps`,
`CleanupKeeps`), and the lemmas of the service's actions rest on them alone. Theorems:
`CachesStayBounded`, `CacheKeepsUp`, `AnswersAreFit`, `LeastRecentGoes`.

Only model-checked: all liveness (`NoStarvation`, `JobsEnd` and the
`EveryoneAnswered` of four modules), because the prover treats neither fairness
nor `ENABLED`; and the five statements the code violates, which a run refutes.
`Routers` has no theorem: it is one request through a finite choice of
exceptions, which the run covers in full.

## 5. Not modelled

- Cancellation of a request: nothing in `api/` cancels one; the server's
  shutdown does, and nothing follows it.
- A dropped vLLM engine beside its successor. The watcher only forgets the object, and
  a request in hand goes on with it as before, so `VllmEngine`, which has one object at
  a time, has `IdleUnload` between requests.
- `main.py` uses `asyncio` (line 78) without importing it. As it stands the start of
  the watcher raises; the modules have the import in place, because without it
  there is no service to model.
- The retry and forced clearing in `unload_other_gpu2_engines`: no callback that
  is registered raises.
- The RunPod client: since the engines became local nothing in `api/` calls it,
  only a health script and its unit tests do. It is one sequential retry loop.
- Content: documents, images, prompts, tensors, token counts, logging, the
  bodies of error answers and of the health check.
- A clock that is set back, and the growth of the limiter's log by callers that
  never return.
- Two engines of vLLM in memory after a failed tokenizer: the model has the
  state (`llm` without `loaded`), the GPU's memory is not part of it.
- `_generate_single` of vLLM, `delete` of the cache, `load_ocr_model` of the
  loader: nobody calls them.
- Configuration, domain types other than their validators, scripts and
  deployment keep no state of interest.

## 6. Plan

1. A transparent cache as an abstract specification: with one service for all
   requests a hit is what the model answered last to that key. It needs a history of
   the model's answers in `ChatService`.
2. An abstract semaphore of any number of permits for `BatchProcessor`, as
   `Gpu2Mutex` is for `VlmEngine`.
3. Dropped engines of vLLM: two objects at once on GPU 0 while a request of the first
   is still in hand.
