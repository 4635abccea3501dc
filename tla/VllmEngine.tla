----------------------------- MODULE VllmEngine -----------------------------
(***************************************************************************)
(* VLLMEngine (api/infrastructure/models/vllm_engine.py): the lazy load,   *)
(* generate with its three attempts, and generate_batch with its chunks.   *)
(* Every prompt submitted to vLLM is a job with a timer of its own; a job  *)
(* whose timer fires is aborted, and vLLM keeps computing it until the     *)
(* abort succeeds or the job ends by itself.                               *)
(***************************************************************************)
EXTENDS Naturals, Sequences, FiniteSets

CONSTANTS Calls,       \* callers of generate
          Batches,     \* callers of generate_batch
          MaxLen,      \* bound: prompts in one batch
          MaxSeqs,     \* settings.VLLM_MAX_NUM_SEQS
          ChunkSize    \* settings.BATCH_CHUNK_SIZE, 0 for None

ASSUME EngineAssumption == /\ Calls \cap Batches = {}
                           /\ MaxLen \in Nat /\ ChunkSize \in Nat
                           /\ MaxSeqs \in Nat \ {0}

Attempts == 3          \* stop_after_attempt

Jobs == (Calls \X (1 .. Attempts)) \cup (Batches \X (1 .. MaxLen))

VARIABLES
    llm,         \* has the router's engine object built an AsyncLLMEngine?
    loaded,      \* _loaded
    job,         \* each job, as the coroutine that submitted it sees it
    running,     \* jobs vLLM computes
    leaked,      \* jobs whose abort raised
    pc, try,     \* each call, and its current attempt
    bpc,         \* each batch
    size,        \* len(messages_list)
    partial,     \* allow_partial_failure
    from,        \* prompts before the current chunk
    results      \* what the batch has collected

engineVars == <<llm, loaded>>
callVars   == <<pc, try>>
batchVars  == <<bpc, size, partial, from, results>>
vars       == <<engineVars, job, running, leaked, callVars, batchVars>>

JobStates   == {"none", "queued", "streaming", "aborting", "ok", "error"}
Ended       == {"ok", "error"}
CallStates  == {"idle", "attempt", "waiting", "backoff", "ok", "error"}
BatchStates == {"idle", "waiting", "returned", "raised"}

TypeOK == /\ llm     \in BOOLEAN
          /\ loaded  \in BOOLEAN
          /\ job     \in [Jobs -> JobStates]
          /\ running \subseteq Jobs
          /\ leaked  \subseteq Jobs
          /\ pc      \in [Calls -> CallStates]
          /\ try     \in [Calls -> 1 .. Attempts]
          /\ bpc     \in [Batches -> BatchStates]
          /\ size    \in [Batches -> 0 .. MaxLen]
          /\ partial \in [Batches -> BOOLEAN]
          /\ from    \in [Batches -> 0 .. MaxLen]
          /\ results \in [Batches -> Seq(Ended)]

Init == /\ llm     = FALSE
        /\ loaded  = FALSE
        /\ job     = [j \in Jobs |-> "none"]
        /\ running = {}
        /\ leaked  = {}
        /\ pc      = [r \in Calls |-> "idle"]
        /\ try     = [r \in Calls |-> 1]
        /\ bpc     = [b \in Batches |-> "idle"]
        /\ size    = [b \in Batches |-> 0]
        /\ partial = [b \in Batches |-> TRUE]
        /\ from    = [b \in Batches |-> 0]
        /\ results = [b \in Batches |-> <<>>]
-----------------------------------------------------------------------------
(* load_model: runs without a suspension, at the head of every attempt.    *)

Load == /\ llm'    = TRUE
        /\ loaded' = TRUE

\* from_engine_args raised, or the tokenizer's from_pretrained did after it.
LoadFails == /\ ~loaded
             /\ llm' \in BOOLEAN
             /\ UNCHANGED loaded
-----------------------------------------------------------------------------
(* A job: llm.generate under asyncio.timeout. *)

\* The task of a prompt of a batch gets to run.
Stream(j) == /\ job[j] = "queued"
             /\ job'     = [job EXCEPT ![j] = "streaming"]
             /\ running' = running \cup {j}
             /\ UNCHANGED <<engineVars, leaked, callVars, batchVars>>

\* The stream ends with an output, without one, or with an error.
StreamEnds(j) == /\ job[j] = "streaming"
                 /\ \E o \in Ended : job' = [job EXCEPT ![j] = o]
                 /\ running' = running \ {j}
                 /\ UNCHANGED <<engineVars, leaked, callVars, batchVars>>

\* Mutant of TimesOut: the stream is read without a timer, as _generate_single does.
NeverTimesOut(j) == /\ FALSE
                    /\ job' = [job EXCEPT ![j] = "aborting"]
                    /\ UNCHANGED <<engineVars, running, leaked, callVars, batchVars>>

TimesOut(j) == /\ job[j] = "streaming"
               /\ job' = [job EXCEPT ![j] = "aborting"]
               /\ UNCHANGED <<engineVars, running, leaked, callVars, batchVars>>

\* Mutant of Abort: the handler gives the job up without telling vLLM.
AbortForgotten(j) == /\ job[j] = "aborting"
                     /\ job' = [job EXCEPT ![j] = "error"]
                     /\ UNCHANGED <<engineVars, running, leaked, callVars, batchVars>>

\* `await self.llm.abort(request_id)`; that it raised is only logged.
Abort(j) == /\ job[j] = "aborting"
            /\ job' = [job EXCEPT ![j] = "error"]
            /\ \/ running' = running \ {j} /\ UNCHANGED leaked
               \/ leaked' = leaked \cup {j} /\ UNCHANGED running
            /\ UNCHANGED <<engineVars, callVars, batchVars>>

\* vLLM ends a job nobody reads any more.
EngineEnds(j) == /\ j \in running /\ job[j] # "streaming"
                 /\ running' = running \ {j}
                 /\ UNCHANGED <<engineVars, job, leaked, callVars, batchVars>>
-----------------------------------------------------------------------------
(* generate, under tenacity's @retry. *)

\* Mutant of AfterFailure: one attempt too many.
AfterLateFailure(r) == IF try[r] <= Attempts THEN "backoff" ELSE "error"

\* What @retry does when an attempt raised, whatever it raised.
AfterFailure(r) == IF try[r] < Attempts THEN "backoff" ELSE "error"

Begin(r) == /\ pc[r] = "idle"
            /\ pc' = [pc EXCEPT ![r] = "attempt"]
            /\ UNCHANGED <<engineVars, job, running, leaked, try, batchVars>>

Attempt(r) ==
    /\ pc[r] = "attempt"
    /\ \/ /\ Load
          /\ pc'      = [pc EXCEPT ![r] = "waiting"]
          /\ job'     = [job EXCEPT ![<<r, try[r]>>] = "streaming"]
          /\ running' = running \cup {<<r, try[r]>>}
       \/ /\ LoadFails
          /\ pc' = [pc EXCEPT ![r] = AfterFailure(r)]
          /\ UNCHANGED <<job, running>>
    /\ UNCHANGED <<leaked, try, batchVars>>

Settle(r) ==
    /\ pc[r] = "waiting" /\ job[<<r, try[r]>>] \in Ended
    /\ pc' = [pc EXCEPT ![r] = IF job[<<r, try[r]>>] = "ok" THEN "ok" ELSE AfterFailure(r)]
    /\ UNCHANGED <<engineVars, job, running, leaked, try, batchVars>>

\* wait_exponential is over.
TryAgain(r) == /\ pc[r] = "backoff"
               /\ pc'  = [pc EXCEPT ![r] = "attempt"]
               /\ try' = [try EXCEPT ![r] = @ + 1]
               /\ UNCHANGED <<engineVars, job, running, leaked, batchVars>>
-----------------------------------------------------------------------------
(* generate_batch *)

\* Mutant of ChunkLen: only the setting splits a batch.
ChunkLenAsSet(n) == IF ChunkSize # 0 THEN ChunkSize ELSE n

\* Prompts per chunk of a batch of n: the setting, or all of them unless
\* vLLM could not run them together.
ChunkLen(n) == IF ChunkSize # 0 THEN ChunkSize ELSE IF n > MaxSeqs THEN MaxSeqs ELSE n

\* Mutant of Chunk: a chunk starts with the last prompt of the one before.
ChunkOverlap(n, k) == {i \in 1 .. n : k <= i /\ i <= k + ChunkLen(n)}

\* The prompts of the chunk of a batch of n that comes after the first k.
Chunk(n, k) == {i \in 1 .. n : k < i /\ i <= k + ChunkLen(n)}

\* All tasks of the next chunk are created, or nothing is left to do.
NextChunk(b, n, k) ==
    /\ from' = [from EXCEPT ![b] = k]
    /\ job'  = [j \in Jobs |-> IF j[1] = b /\ j[2] \in Chunk(n, k) THEN "queued" ELSE job[j]]
    /\ bpc'  = [bpc EXCEPT ![b] = IF Chunk(n, k) = {} THEN "returned" ELSE "waiting"]

\* It raises when the load fails, for a batch that is too large, and when
\* SamplingParams does not take its arguments.
StartBatch(b, n, p) ==
    /\ bpc[b] = "idle"
    /\ size'    = [size EXCEPT ![b] = n]
    /\ partial' = [partial EXCEPT ![b] = p]
    /\ \/ Load /\ n <= 2 * MaxSeqs /\ NextChunk(b, n, 0)
       \/ /\ Load \/ LoadFails
          /\ bpc' = [bpc EXCEPT ![b] = "raised"]
          /\ UNCHANGED <<from, job>>
    /\ UNCHANGED <<running, leaked, callVars, results>>

\* asyncio.gather returns: a failed prompt is an error entry of the results.
ChunkDone(b) ==
    LET chunk == Chunk(size[b], from[b])
        ended == [i \in 1 .. Cardinality(chunk) |-> job[<<b, from[b] + i>>]] IN
    /\ bpc[b] = "waiting"
    /\ \A i \in chunk : job[<<b, i>>] \in (IF partial[b] THEN Ended ELSE {"ok"})
    /\ results' = [results EXCEPT ![b] = @ \o ended]
    /\ NextChunk(b, size[b], from[b] + Cardinality(chunk))
    /\ UNCHANGED <<engineVars, running, leaked, callVars, size, partial>>

\* asyncio.gather raises the first error and forgets the other tasks.
ChunkRaises(b) ==
    /\ bpc[b] = "waiting" /\ ~partial[b]
    /\ \E i \in Chunk(size[b], from[b]) : job[<<b, i>>] = "error"
    /\ bpc' = [bpc EXCEPT ![b] = "raised"]
    /\ UNCHANGED <<engineVars, job, running, leaked, callVars, size, partial, from, results>>
-----------------------------------------------------------------------------
\* The caller's next request; its identifiers are new, so the names used
\* here are free only when no task or vLLM knows them any more.
Forget(c) == /\ \A j \in Jobs : j[1] = c => job[j] \in Ended \cup {"none"} /\ j \notin running
             /\ job'    = [j \in Jobs |-> IF j[1] = c THEN "none" ELSE job[j]]
             /\ leaked' = {j \in leaked : j[1] # c}

NextCall(r) == /\ pc[r] \in Ended
               /\ Forget(r)
               /\ pc'  = [pc EXCEPT ![r] = "idle"]
               /\ try' = [try EXCEPT ![r] = 1]
               /\ UNCHANGED <<engineVars, running, batchVars>>

NextBatch(b) == /\ bpc[b] \in {"returned", "raised"}
                /\ Forget(b)
                /\ bpc'     = [bpc EXCEPT ![b] = "idle"]
                /\ size'    = [size EXCEPT ![b] = 0]
                /\ partial' = [partial EXCEPT ![b] = TRUE]
                /\ from'    = [from EXCEPT ![b] = 0]
                /\ results' = [results EXCEPT ![b] = <<>>]
                /\ UNCHANGED <<engineVars, running, callVars>>

\* The idle watcher drops the engine object; the next request makes a new one.
\* What still runs belongs to the old one.  Requests in hand would go on with
\* theirs as if it had not been dropped, so that here, with one object at a
\* time, the new one's requests begin when they have been answered.
IdleUnload == /\ loaded
              /\ \A r \in Calls : pc[r] \in Ended \cup {"idle"}
              /\ \A b \in Batches : bpc[b] # "waiting"
              /\ llm' = FALSE
              /\ loaded' = FALSE
              /\ UNCHANGED <<job, running, leaked, callVars, batchVars>>

Next == \/ \E j \in Jobs : \/ Stream(j) \/ StreamEnds(j) \/ TimesOut(j)
                           \/ Abort(j) \/ EngineEnds(j)
        \/ \E r \in Calls : \/ Begin(r) \/ Attempt(r) \/ Settle(r)
                            \/ TryAgain(r) \/ NextCall(r)
        \/ \E b \in Batches : \/ \E n \in 0 .. MaxLen, p \in BOOLEAN : StartBatch(b, n, p)
                              \/ ChunkDone(b) \/ ChunkRaises(b) \/ NextBatch(b)
        \/ IdleUnload

Spec == Init /\ [][Next]_vars

(* The loop runs what is ready, timers fire and abort returns; that vLLM   *)
(* ever ends a job is not assumed.                                         *)
Fairness == /\ \A j \in Jobs : /\ WF_vars(Stream(j))
                               /\ WF_vars(TimesOut(j))
                               /\ WF_vars(Abort(j))
            /\ \A r \in Calls : /\ WF_vars(Attempt(r))
                                /\ WF_vars(Settle(r))
                                /\ WF_vars(TryAgain(r))
            /\ \A b \in Batches : /\ WF_vars(ChunkDone(b))
                                  /\ WF_vars(ChunkRaises(b))

FairSpec == Spec /\ Fairness
-----------------------------------------------------------------------------
Owned(c) == {j \in running \ leaked : j[1] = c}

(* Unless an abort raised, vLLM computes for a call the current attempt    *)
(* only, so a retry never runs beside the attempt it replaces, and nothing *)
(* once the call is answered.                                              *)
NoZombie == \A r \in Calls : Owned(r) \subseteq
               IF pc[r] = "waiting" THEN {<<r, try[r]>>} ELSE {}

(* A batch that returns has collected one entry for each prompt, in the    *)
(* order of the prompts, only successes if it must not lose one, and       *)
(* (unless an abort raised) left no job behind.                            *)
BatchComplete == \A b \in Batches : bpc[b] = "returned" =>
                    /\ results[b] = [i \in 1 .. size[b] |-> job[<<b, i>>]]
                    /\ ~partial[b] => \A i \in 1 .. size[b] : results[b][i] = "ok"
                    /\ Owned(b) = {}

(* Without a setting of its own a batch never asks vLLM for more sequences *)
(* than VLLM_MAX_NUM_SEQS: a chunk starts when the one before has ended    *)
(* or was aborted.                                                         *)
SeqsBounded == ChunkSize = 0 => \A b \in Batches : Cardinality(Owned(b)) <= MaxSeqs

(* Every job leaves vLLM or is known to have escaped its abort, also those *)
(* a batch forgot when one of them failed: each has its own timer.         *)
JobsEnd == \A j \in Jobs : j \in running ~> j \notin running \/ j \in leaked

(* Every call is answered after its last attempt, and every batch returns  *)
(* or raises, though vLLM may hang on any prompt and on every attempt.     *)
EveryoneAnswered ==
    /\ \A r \in Calls : pc[r] = "attempt" ~> pc[r] \in Ended
    /\ \A b \in Batches : bpc[b] = "waiting" ~> bpc[b] \in {"returned", "raised"}
=============================================================================
