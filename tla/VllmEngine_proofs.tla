-------------------------- MODULE VllmEngine_proofs --------------------------
(***************************************************************************)
(* What vLLM computes for a caller, for any number of calls and batches,   *)
(* any length of a batch and any settings: no attempt of a call runs       *)
(* beside the one that replaced it, and a batch stays within the limit of  *)
(* sequences.                                                              *)
(*                                                                         *)
(* NoZombie and SeqsBounded speak of vLLM's jobs; a step, however, looks   *)
(* only at what the coroutines know of them.  IInv ties the two together:  *)
(* a job that did not escape its abort is computed only while its timer is *)
(* armed or its abort under way (Tracked), and those are jobs of the       *)
(* current attempt, or of the current chunk (CallLive, BatchLive).         *)
(*                                                                         *)
(* The second part is what a batch returns.  BInv adds to IInv that the    *)
(* results are those of the jobs up to `from`, each at its place           *)
(* (Collects), which holds because a job that has ended stays as it is and *)
(* because chunks follow each other without a gap.                         *)
(***************************************************************************)
EXTENDS VllmEngine, FiniteSetTheorems, SequenceTheorems, TLAPS

Live(j) == job[j] \in {"queued", "streaming", "aborting"}

Types == /\ job \in [Jobs -> JobStates]
         /\ running \subseteq Jobs
         /\ pc  \in [Calls -> CallStates]
         /\ try \in [Calls -> 1 .. Attempts]
         /\ bpc  \in [Batches -> BatchStates]
         /\ size \in [Batches -> 0 .. MaxLen]
         /\ from \in [Batches -> Nat]

\* There is an attempt left for a call that waits to try again.
BackoffCounts == \A r \in Calls : pc[r] = "backoff" => try[r] < Attempts

Tracked == \A j \in running \ leaked : job[j] \in {"streaming", "aborting"}

CallLive == \A r \in Calls, k \in 1 .. Attempts : Live(<<r, k>>) =>
               job[<<r, k>>] # "queued" /\ pc[r] = "waiting" /\ k = try[r]

BatchLive == \A b \in Batches, i \in 1 .. MaxLen : Live(<<b, i>>) =>
                bpc[b] \in {"waiting", "raised"} /\ i \in Chunk(size[b], from[b])

IInv == Types /\ BackoffCounts /\ Tracked /\ CallLive /\ BatchLive
-----------------------------------------------------------------------------
(* A chunk is finite and not longer than the setting. *)
LEMMA ChunkSizes ==
    ASSUME NEW n \in 0 .. MaxLen, NEW k \in Nat
    PROVE  /\ IsFiniteSet(Chunk(n, k)) /\ Cardinality(Chunk(n, k)) \in Nat
           /\ ChunkSize = 0 => Cardinality(Chunk(n, k)) <= MaxSeqs
<1> DEFINE m == ChunkLen(n)
           span == k + 1 .. k + m
<1>1. m \in Nat /\ (ChunkSize = 0 => m <= MaxSeqs)
  BY EngineAssumption DEF ChunkLen
<1>2. Chunk(n, k) \subseteq span
  BY <1>1, EngineAssumption DEF Chunk
<1> HIDE DEF m
<1>3. IsFiniteSet(span) /\ Cardinality(span) = m
  <2>1. k + 1 \in Int /\ k + m \in Int
    BY <1>1
  <2>2. /\ IsFiniteSet(span)
        /\ Cardinality(span) = IF k + 1 > k + m THEN 0 ELSE (k + m) - (k + 1) + 1
    BY <2>1, FS_Interval
  <2>3. m = IF k + 1 > k + m THEN 0 ELSE (k + m) - (k + 1) + 1
    BY <1>1
  <2>4. QED
    BY <2>2, <2>3
<1>4. IsFiniteSet(Chunk(n, k)) /\ Cardinality(Chunk(n, k)) <= m
  <2> HIDE DEF span
  <2>1. Chunk(n, k) \in SUBSET span
    BY <1>2
  <2>2. IsFiniteSet(Chunk(n, k)) /\ Cardinality(Chunk(n, k)) <= Cardinality(span)
    BY <1>3, <2>1, FS_Subset
  <2>3. QED
    BY <1>3, <2>2
<1>5. Cardinality(Chunk(n, k)) \in Nat
  BY <1>4, FS_CardinalityType
<1>6. QED
  BY <1>1, <1>4, <1>5, EngineAssumption

LEMMA InitIInv == Init => IInv
<1> SUFFICES ASSUME Init PROVE IInv
  OBVIOUS
<1>1. Types
  <2>1. job \in [Jobs -> JobStates] /\ running \subseteq Jobs
    BY DEF Init, JobStates
  <2>2. pc \in [Calls -> CallStates] /\ try \in [Calls -> 1 .. Attempts]
    BY DEF Init, CallStates, Attempts
  <2>3. /\ bpc \in [Batches -> BatchStates] /\ size \in [Batches -> 0 .. MaxLen]
        /\ from \in [Batches -> Nat]
    BY EngineAssumption DEF Init, BatchStates
  <2>4. QED
    BY <2>1, <2>2, <2>3 DEF Types
<1>2. \A j \in Jobs : ~Live(j)
  BY DEF Init, Live
<1>3. Tracked /\ BackoffCounts
  BY DEF Init, Tracked, BackoffCounts
<1>4. QED
  BY <1>1, <1>2, <1>3 DEF IInv, CallLive, BatchLive, Jobs

(* A job's own steps. *)
LEMMA JobKeeps ==
    ASSUME IInv, NEW j \in Jobs,
           Stream(j) \/ StreamEnds(j) \/ TimesOut(j) \/ Abort(j) \/ EngineEnds(j)
    PROVE  IInv'
<1> USE DEF IInv, Types, JobStates, Ended
<1>1. /\ job' \in [Jobs -> JobStates] /\ running' \subseteq Jobs
      /\ \A i \in Jobs : i # j => job'[i] = job[i]
      /\ Live(j)' => Live(j) /\ (job'[j] = "queued" => job[j] = "queued")
      /\ UNCHANGED <<callVars, batchVars>>
  <2>1. CASE Stream(j)
    BY <2>1 DEF Stream, Live
  <2>2. CASE StreamEnds(j)
    BY <2>2 DEF StreamEnds, Live
  <2>3. CASE TimesOut(j)
    BY <2>3 DEF TimesOut, Live
  <2>4. CASE Abort(j)
    BY <2>4 DEF Abort, Live
  <2>5. CASE EngineEnds(j)
    BY <2>5 DEF EngineEnds, Live
  <2>6. QED
    BY <2>1, <2>2, <2>3, <2>4, <2>5
<1>2. Tracked'
  <2> USE DEF Tracked
  <2>1. CASE Stream(j)
    BY <2>1 DEF Stream
  <2>2. CASE StreamEnds(j)
    BY <2>2 DEF StreamEnds
  <2>3. CASE TimesOut(j)
    BY <2>3 DEF TimesOut
  <2>4. CASE Abort(j)
    BY <2>4 DEF Abort
  <2>5. CASE EngineEnds(j)
    BY <2>5 DEF EngineEnds
  <2>6. QED
    BY <2>1, <2>2, <2>3, <2>4, <2>5
<1>3. \A i \in Jobs : Live(i)' => Live(i) /\ (job'[i] = "queued" => job[i] = "queued")
  BY <1>1 DEF Live
<1>4. CallLive' /\ BatchLive'
  BY <1>1, <1>3 DEF CallLive, BatchLive, Jobs, callVars, batchVars
<1>5. QED
  BY <1>1, <1>2, <1>4 DEF BackoffCounts, callVars, batchVars

(* A caller's names are used again when nothing goes by them. *)
LEMMA ForgetKeeps ==
    ASSUME IInv, NEW c, Forget(c), UNCHANGED running
    PROVE  /\ job' \in [Jobs -> JobStates] /\ Tracked'
           /\ \A j \in Jobs : Live(j)' => Live(j) /\ j[1] # c /\ job'[j] = job[j]
<1>1. \A j \in Jobs : job'[j] = IF j[1] = c THEN "none" ELSE job[j]
  BY DEF Forget
<1>2. job' \in [Jobs -> JobStates]
  BY DEF IInv, Types, Forget, JobStates
<1>3. \A j \in running' \ leaked' : j \in running \ leaked /\ j[1] # c
  BY DEF Forget, IInv, Types
<1>4. Tracked'
  BY <1>1, <1>3 DEF IInv, Types, Tracked
<1>5. QED
  BY <1>1, <1>2, <1>4 DEF Live

(* A call's own steps: an attempt is begun only when no job of the call is *)
(* live, and given up only when its job has ended.                         *)
LEMMA CallKeeps ==
    ASSUME IInv, NEW r \in Calls,
           Begin(r) \/ Attempt(r) \/ Settle(r) \/ TryAgain(r) \/ NextCall(r)
    PROVE  IInv'
<1> USE DEF IInv, Types, CallStates, Attempts
<1>1. r \notin Batches /\ <<r, try[r]>> \in Jobs
  BY EngineAssumption DEF Jobs
<1>2. UNCHANGED batchVars
  BY DEF Begin, Attempt, Settle, TryAgain, NextCall
<1>3. CASE Begin(r) \/ TryAgain(r)
  <2>1. /\ UNCHANGED <<job, running, leaked>>
        /\ pc' = [pc EXCEPT ![r] = "attempt"]
        /\ try' \in [Calls -> 1 .. Attempts]
        /\ pc[r] \in {"idle", "backoff"}
        /\ \A s \in Calls \ {r} : try'[s] = try[s]
    BY <1>3 DEF Begin, TryAgain, BackoffCounts
  <2>2. BackoffCounts' /\ Tracked' /\ CallLive' /\ BatchLive'
    BY <1>2, <2>1 DEF BackoffCounts, Tracked, CallLive, BatchLive, Live, batchVars
  <2>3. QED
    BY <1>2, <2>1, <2>2 DEF batchVars
<1>4. CASE Attempt(r)
  <2>1. UNCHANGED <<leaked, try>> /\ pc[r] = "attempt"
    BY <1>4 DEF Attempt
  <2>2. CASE /\ pc'      = [pc EXCEPT ![r] = "waiting"]
             /\ job'     = [job EXCEPT ![<<r, try[r]>>] = "streaming"]
             /\ running' = running \cup {<<r, try[r]>>}
    <3>1. job' \in [Jobs -> JobStates] /\ running' \subseteq Jobs
      BY <1>1, <2>2 DEF JobStates
    <3>2. Tracked'
      BY <1>1, <2>1, <2>2 DEF Tracked
    <3>3. CallLive'
      BY <1>1, <2>1, <2>2 DEF CallLive, Live, Jobs
    <3>4. BatchLive'
      BY <1>1, <1>2, <2>2 DEF BatchLive, Live, Jobs, batchVars
    <3>5. QED
      BY <1>2, <2>1, <2>2, <3>1, <3>2, <3>3, <3>4 DEF BackoffCounts, batchVars
  <2>3. CASE pc' = [pc EXCEPT ![r] = AfterFailure(r)] /\ UNCHANGED <<job, running>>
    <3>1. BackoffCounts' /\ Tracked' /\ CallLive' /\ BatchLive'
      BY <1>2, <2>1, <2>3 DEF BackoffCounts, Tracked, CallLive, BatchLive, Live, batchVars, AfterFailure
    <3>2. QED
      BY <1>2, <2>1, <2>3, <3>1 DEF batchVars, AfterFailure
  <2>4. QED
    BY <1>4, <2>2, <2>3 DEF Attempt
<1>5. CASE Settle(r)
  <2>1. /\ UNCHANGED <<job, running, leaked, try>>
        /\ pc[r] = "waiting" /\ ~Live(<<r, try[r]>>)
        /\ \A s \in Calls \ {r} : pc'[s] = pc[s]
    BY <1>5 DEF Settle, Live, Ended
  <2>2. pc' \in [Calls -> CallStates] /\ (pc'[r] = "backoff" => try[r] < Attempts)
    BY <1>5 DEF Settle, AfterFailure
  <2>3. CallLive'
    BY <2>1 DEF CallLive, Live
  <2>4. BackoffCounts' /\ Tracked' /\ BatchLive'
    BY <1>2, <2>1, <2>2 DEF BackoffCounts, Tracked, BatchLive, Live, batchVars
  <2>5. QED
    BY <1>2, <2>1, <2>2, <2>3, <2>4 DEF batchVars
<1>6. CASE NextCall(r)
  <2>1. /\ job' \in [Jobs -> JobStates] /\ Tracked'
        /\ \A j \in Jobs : Live(j)' => Live(j) /\ j[1] # r /\ job'[j] = job[j]
    BY <1>6, ForgetKeeps DEF NextCall
  <2>2. /\ pc' = [pc EXCEPT ![r] = "idle"] /\ try' = [try EXCEPT ![r] = 1]
        /\ UNCHANGED running
    BY <1>6 DEF NextCall
  <2>3. CallLive'
    <3> SUFFICES ASSUME NEW s \in Calls, NEW k \in 1 .. Attempts, Live(<<s, k>>)'
                 PROVE  job'[<<s, k>>] # "queued" /\ pc'[s] = "waiting" /\ k = try'[s]
      BY DEF CallLive
    <3>1. <<s, k>> \in Jobs /\ <<s, k>>[1] = s
      BY DEF Jobs
    <3>2. Live(<<s, k>>) /\ s # r /\ job'[<<s, k>>] = job[<<s, k>>]
      BY <2>1, <3>1
    <3>3. QED
      BY <2>2, <3>2 DEF CallLive
  <2>4. BatchLive'
    BY <1>2, <2>1 DEF BatchLive, Jobs, batchVars
  <2>5. QED
    BY <1>2, <2>1, <2>2, <2>3, <2>4 DEF BackoffCounts, batchVars
<1>7. QED
  BY <1>3, <1>4, <1>5, <1>6

(* The next chunk is created only when none of the batch's jobs is live. *)
LEMMA NextChunkKeeps ==
    ASSUME IInv, NEW b \in Batches, NEW n \in 0 .. MaxLen, NEW k \in Nat,
           NextChunk(b, n, k), size' = [size EXCEPT ![b] = n],
           \A i \in 1 .. MaxLen : ~Live(<<b, i>>),
           UNCHANGED <<running, leaked, callVars>>
    PROVE  IInv'
<1> USE DEF IInv, Types
<1>1. b \notin Calls
  BY EngineAssumption
<1>2. \A j \in Jobs : job'[j] = IF j[1] = b /\ j[2] \in Chunk(n, k) THEN "queued" ELSE job[j]
  BY DEF NextChunk
<1>3. /\ job' \in [Jobs -> JobStates] /\ size' \in [Batches -> 0 .. MaxLen]
      /\ from' \in [Batches -> Nat] /\ bpc' \in [Batches -> BatchStates]
  BY DEF NextChunk, JobStates, BatchStates
<1>4. \A j \in Jobs : j[1] # b => job'[j] = job[j]
  BY <1>2
<1>5. Tracked'
  <2> SUFFICES ASSUME NEW j \in running \ leaked
               PROVE  job'[j] \in {"streaming", "aborting"}
    BY DEF Tracked
  <2>1. j \in Jobs /\ Live(j) /\ job[j] \in {"streaming", "aborting"}
    BY DEF Tracked, Live
  <2>2. j[1] # b
    BY <1>1, <2>1 DEF Jobs
  <2>3. QED
    BY <1>4, <2>1, <2>2
<1>6. CallLive'
  <2>1. \A r \in Calls, i \in 1 .. Attempts : job'[<<r, i>>] = job[<<r, i>>]
    BY <1>1, <1>4 DEF Jobs
  <2>2. QED
    BY <2>1 DEF CallLive, Live, callVars
<1>7. BatchLive'
  <2> SUFFICES ASSUME NEW c \in Batches, NEW i \in 1 .. MaxLen, Live(<<c, i>>)'
               PROVE  bpc'[c] \in {"waiting", "raised"} /\ i \in Chunk(size'[c], from'[c])
    BY DEF BatchLive, Chunk, ChunkLen
  <2>1. <<c, i>> \in Jobs /\ <<c, i>>[1] = c /\ <<c, i>>[2] = i
    BY DEF Jobs
  <2>2. CASE c = b
    <3>1. i \in Chunk(n, k)
      BY <1>2, <2>1, <2>2 DEF Live
    <3>2. bpc'[b] = "waiting" /\ size'[b] = n /\ from'[b] = k
      BY <3>1 DEF NextChunk
    <3>3. QED
      BY <2>2, <3>1, <3>2
  <2>3. CASE c # b
    <3>1. Live(<<c, i>>)
      BY <1>4, <2>1, <2>3 DEF Live
    <3>2. bpc'[c] = bpc[c] /\ size'[c] = size[c] /\ from'[c] = from[c]
      BY <2>3 DEF NextChunk
    <3>3. QED
      BY <3>1, <3>2 DEF BatchLive
  <2>4. QED
    BY <2>2, <2>3
<1>8. QED
  BY <1>3, <1>5, <1>6, <1>7 DEF BackoffCounts, callVars

(* A batch's own steps. *)
LEMMA BatchKeeps ==
    ASSUME IInv, NEW b \in Batches,
           \/ \E n \in 0 .. MaxLen, p \in BOOLEAN : StartBatch(b, n, p)
           \/ ChunkDone(b) \/ ChunkRaises(b) \/ NextBatch(b)
    PROVE  IInv'
<1> USE DEF IInv, Types
<1>1. ASSUME NEW n \in 0 .. MaxLen, NEW p \in BOOLEAN, StartBatch(b, n, p)
      PROVE  IInv'
  <2>1. \A i \in 1 .. MaxLen : ~Live(<<b, i>>)
    BY <1>1 DEF StartBatch, BatchLive
  <2>2. size' = [size EXCEPT ![b] = n] /\ UNCHANGED <<running, leaked, callVars>>
    BY <1>1 DEF StartBatch
  <2>3. CASE NextChunk(b, n, 0)
    BY <2>1, <2>2, <2>3, NextChunkKeeps
  <2>4. CASE bpc' = [bpc EXCEPT ![b] = "raised"] /\ UNCHANGED <<from, job>>
    <3>1. BatchLive'
      BY <2>1, <2>2, <2>4 DEF BatchLive, Live
    <3>2. QED
      BY <2>2, <2>4, <3>1 DEF BackoffCounts, Tracked, CallLive, Live, callVars, BatchStates
  <2>5. QED
    BY <1>1, <2>3, <2>4 DEF StartBatch
<1>2. CASE ChunkDone(b)
  <2> DEFINE n == size[b]
             k == from[b] + Cardinality(Chunk(size[b], from[b]))
  <2>1. n \in 0 .. MaxLen /\ k \in Nat
    BY ChunkSizes
  <2>2. \A i \in 1 .. MaxLen : ~Live(<<b, i>>)
    BY <1>2 DEF ChunkDone, BatchLive, Live, Ended
  <2>3. /\ NextChunk(b, n, k) /\ UNCHANGED <<running, leaked, callVars>>
        /\ size' = [size EXCEPT ![b] = n]
    BY <1>2 DEF ChunkDone
  <2>4. QED
    BY <2>1, <2>2, <2>3, NextChunkKeeps
<1>3. CASE ChunkRaises(b)
  <2>1. /\ bpc' = [bpc EXCEPT ![b] = "raised"]
        /\ UNCHANGED <<job, running, leaked, callVars, size, from>>
    BY <1>3 DEF ChunkRaises
  <2>2. QED
    BY <2>1 DEF BackoffCounts, Tracked, CallLive, BatchLive, Live, callVars, BatchStates
<1>4. CASE NextBatch(b)
  <2>1. /\ job' \in [Jobs -> JobStates] /\ Tracked'
        /\ \A j \in Jobs : Live(j)' => Live(j) /\ j[1] # b /\ job'[j] = job[j]
    BY <1>4, ForgetKeeps DEF NextBatch
  <2>2. /\ bpc' = [bpc EXCEPT ![b] = "idle"] /\ size' = [size EXCEPT ![b] = 0]
        /\ from' = [from EXCEPT ![b] = 0] /\ UNCHANGED <<running, callVars>>
    BY <1>4 DEF NextBatch
  <2>3. CallLive'
    BY <2>1, <2>2 DEF CallLive, Jobs, callVars
  <2>4. BatchLive'
    <3> SUFFICES ASSUME NEW c \in Batches, NEW i \in 1 .. MaxLen, Live(<<c, i>>)'
                 PROVE  bpc'[c] \in {"waiting", "raised"} /\ i \in Chunk(size'[c], from'[c])
      BY DEF BatchLive, Chunk, ChunkLen
    <3>1. <<c, i>> \in Jobs /\ <<c, i>>[1] = c
      BY DEF Jobs
    <3>2. Live(<<c, i>>) /\ c # b
      BY <2>1, <3>1
    <3>3. QED
      BY <2>2, <3>2 DEF BatchLive
  <2>5. QED
    BY <2>1, <2>2, <2>3, <2>4, EngineAssumption DEF BackoffCounts, callVars, BatchStates
<1>5. QED
  BY <1>1, <1>2, <1>3, <1>4
-----------------------------------------------------------------------------
(* IInv is inductive. *)
THEOREM Invariance == Spec => []IInv
<1>1. ASSUME IInv, [Next]_vars PROVE IInv'
  <2>1. CASE IdleUnload \/ UNCHANGED vars
    <3>1. UNCHANGED <<job, running, leaked, callVars, batchVars>>
      BY <2>1 DEF IdleUnload, vars
    <3>2. QED
      BY <1>1, <3>1 DEF IInv, Types, BackoffCounts, Tracked, CallLive, BatchLive, Live,
                        callVars, batchVars
  <2>2. QED
    BY <1>1, <2>1, JobKeeps, CallKeeps, BatchKeeps DEF Next
<1>2. QED
  BY <1>1, InitIInv, PTL DEF Spec

(* Unless an abort raised, vLLM computes for a call nothing but the        *)
(* attempt the call is waiting for.                                        *)
THEOREM OnlyTheCurrentAttempt == Spec => []NoZombie
<1>1. ASSUME IInv PROVE NoZombie
  <2> SUFFICES ASSUME NEW r \in Calls, NEW j \in Owned(r)
               PROVE  pc[r] = "waiting" /\ j = <<r, try[r]>>
    BY DEF NoZombie
  <2>1. j \in Jobs /\ j[1] = r /\ Live(j)
    BY <1>1 DEF Owned, IInv, Types, Tracked, Live
  <2>2. PICK k \in 1 .. Attempts : j = <<r, k>>
    BY <2>1, EngineAssumption DEF Jobs
  <2>3. QED
    BY <1>1, <2>1, <2>2 DEF IInv, CallLive
<1>2. QED
  BY <1>1, Invariance, PTL

(* Without a chunk size of its own no batch asks vLLM for more sequences   *)
(* than its limit, also when it has already raised.                        *)
THEOREM BatchStaysWithinLimit == Spec => []SeqsBounded
<1>1. ASSUME IInv PROVE SeqsBounded
  <2> SUFFICES ASSUME ChunkSize = 0, NEW b \in Batches
               PROVE  Cardinality(Owned(b)) <= MaxSeqs
    BY DEF SeqsBounded
  <2> DEFINE chunk == Chunk(size[b], from[b])
             place == [j \in Owned(b) |-> j[2]]
  <2>1. IsFiniteSet(chunk) /\ Cardinality(chunk) \in Nat /\ Cardinality(chunk) <= MaxSeqs
    BY <1>1, ChunkSizes DEF IInv, Types
  <2>2. \A j \in Owned(b) : j = <<b, j[2]>> /\ j[2] \in chunk
    <3> SUFFICES ASSUME NEW j \in Owned(b)
                 PROVE  j = <<b, j[2]>> /\ j[2] \in chunk
      OBVIOUS
    <3>1. j \in Jobs /\ j[1] = b /\ Live(j)
      BY <1>1 DEF Owned, IInv, Types, Tracked, Live
    <3>2. PICK i \in 1 .. MaxLen : j = <<b, i>>
      BY <3>1, EngineAssumption DEF Jobs
    <3>3. QED
      BY <1>1, <3>1, <3>2 DEF IInv, BatchLive
  <2> HIDE DEF chunk
  <2>3. place \in [Owned(b) -> chunk]
    BY <2>2
  <2>4. \A i, j \in Owned(b) : place[i] = place[j] => i = j
    BY <2>2
  <2>5. place \in Injection(Owned(b), chunk)
    BY <2>3, <2>4 DEF Injection, IsInjective
  <2>6. IsFiniteSet(Owned(b)) /\ Cardinality(Owned(b)) <= Cardinality(chunk)
    BY <2>1, <2>5, FS_Injection
  <2>7. Cardinality(Owned(b)) \in Nat
    BY <2>6, FS_CardinalityType
  <2>8. QED
    BY <2>1, <2>6, <2>7, EngineAssumption
<1>2. QED
  BY <1>1, Invariance, PTL
-----------------------------------------------------------------------------
(* What a batch collects: the prompts before the current chunk have ended  *)
(* as they should, and `results` holds how.                                *)
Collects(b) == /\ from[b] <= size[b]
               /\ \A i \in 1 .. from[b] : job[<<b, i>>] \in (IF partial[b] THEN Ended ELSE {"ok"})
               /\ results[b] = [i \in 1 .. from[b] |-> job[<<b, i>>]]
               /\ bpc[b] = "idle" => from[b] = 0
               /\ bpc[b] = "returned" => from[b] = size[b]

Kinds == /\ llm \in BOOLEAN /\ loaded \in BOOLEAN
         /\ leaked  \subseteq Jobs
         /\ partial \in [Batches -> BOOLEAN]
         /\ results \in [Batches -> Seq(Ended)]

BInv == IInv /\ Kinds /\ \A b \in Batches : Collects(b)

(* Two stretches of a function, one after the other. *)
LEMMA Appended ==
    ASSUME NEW S, NEW m \in Nat, NEW n \in Nat, NEW f \in [1 .. m + n -> S]
    PROVE  [i \in 1 .. m |-> f[i]] \o [i \in 1 .. n |-> f[m + i]] = f
<1> DEFINE s == [i \in 1 .. m |-> f[i]]
           t == [i \in 1 .. n |-> f[m + i]]
<1>1. s \in Seq(S) /\ Len(s) = m /\ t \in Seq(S) /\ Len(t) = n
  OBVIOUS
<1>2. f \in Seq(S) /\ Len(f) = m + n
  OBVIOUS
<1>3. (\A i \in 1 .. m : s[i] = f[i]) /\ (\A i \in 1 .. n : t[i] = f[m + i])
  OBVIOUS
<1> HIDE DEF s, t
<1>4. /\ s \o t \in Seq(S) /\ Len(s \o t) = m + n
      /\ \A i \in 1 .. m + n : (s \o t)[i] = IF i <= m THEN s[i] ELSE t[i - m]
  BY <1>1, ConcatProperties
<1>5. \A i \in 1 .. m + n : (s \o t)[i] = f[i]
  <2> TAKE i \in 1 .. m + n
  <2>1. CASE i <= m
    BY <1>3, <1>4, <2>1
  <2>2. CASE i > m
    <3>1. PICK k \in 1 .. n : i - m = k /\ i = m + k
      BY <2>2
    <3>2. (s \o t)[i] = t[k]
      BY <1>4, <2>2, <3>1
    <3>3. t[k] = f[m + k]
      BY <1>3
    <3>4. QED
      BY <3>1, <3>2, <3>3
  <2>3. i <= m \/ i > m
    OBVIOUS
  <2>4. QED
    BY <2>1, <2>2, <2>3
<1>6. s \o t = f
  BY <1>2, <1>4, <1>5, SeqEqual
<1>7. QED
  BY <1>6 DEF s, t

(* A chunk is a stretch of the batch behind the prompts already taken. *)
LEMMA ChunkSpan ==
    ASSUME NEW n \in 0 .. MaxLen, NEW k \in 0 .. n, NEW last,
           last = IF n <= k + ChunkLen(n) THEN n ELSE k + ChunkLen(n)
    PROVE  /\ last \in k .. n
           /\ Chunk(n, k) = k + 1 .. last
           /\ Cardinality(Chunk(n, k)) = last - k
           /\ Chunk(n, k) = {} => k = n
<1> DEFINE m == ChunkLen(n)
<1>1. MaxLen \in Nat /\ n \in Nat /\ k \in Nat /\ m \in Nat /\ (k < n => m > 0)
  BY EngineAssumption DEF ChunkLen
<1>2. Chunk(n, k) = {i \in 1 .. n : k < i /\ i <= k + m} /\ last = IF n <= k + m THEN n ELSE k + m
  BY DEF Chunk
<1> HIDE DEF m
<1>3. last \in k .. n /\ last \in Nat /\ (last = k => k = n)
  BY <1>1, <1>2
<1>4. Chunk(n, k) = k + 1 .. last
  BY <1>1, <1>2
<1>5. Cardinality(k + 1 .. last) = last - k
  <2>1. k + 1 \in Int /\ last \in Int
    BY <1>1, <1>3
  <2>2. Cardinality(k + 1 .. last) = IF k + 1 > last THEN 0 ELSE last - (k + 1) + 1
    BY <2>1, FS_Interval
  <2>3. QED
    BY <1>1, <1>3, <2>2
<1>6. Chunk(n, k) = {} => k = n
  BY <1>1, <1>3, <1>4
<1>7. QED
  BY <1>3, <1>4, <1>5, <1>6

(* A step of something else: what a batch has collected has ended before. *)
LEMMA OthersKeep ==
    ASSUME IInv, NEW b \in Batches, Collects(b),
           bpc'[b] = bpc[b], size'[b] = size[b], partial'[b] = partial[b],
           from'[b] = from[b], results'[b] = results[b],
           \A i \in 1 .. MaxLen : job[<<b, i>>] \in Ended => job'[<<b, i>>] = job[<<b, i>>]
    PROVE  Collects(b)'
<1>1. from[b] \in Nat /\ size[b] \in 0 .. MaxLen /\ MaxLen \in Nat /\ from[b] <= size[b]
  BY EngineAssumption DEF IInv, Types, Collects
<1>2. \A i \in 1 .. from[b] : i \in 1 .. MaxLen
  BY <1>1
<1>3. \A i \in 1 .. from[b] : job'[<<b, i>>] = job[<<b, i>>]
  BY <1>2 DEF Collects, Ended
<1>4. QED
  BY <1>3 DEF Collects

LEMMA InitBInv == Init => BInv
<1> SUFFICES ASSUME Init PROVE BInv
  OBVIOUS
<1>1. Kinds
  <2>1. llm \in BOOLEAN /\ loaded \in BOOLEAN /\ leaked \subseteq Jobs
    BY DEF Init
  <2>2. partial \in [Batches -> BOOLEAN] /\ results \in [Batches -> Seq(Ended)]
    BY DEF Init
  <2>3. QED
    BY <2>1, <2>2 DEF Kinds
<1>2. \A b \in Batches : Collects(b)
  BY DEF Init, Collects
<1>3. QED
  BY <1>1, <1>2, InitIInv DEF BInv

LEMMA OtherStepsCollect ==
    ASSUME BInv,
           \/ \E j \in Jobs : Stream(j) \/ StreamEnds(j) \/ TimesOut(j) \/ Abort(j) \/ EngineEnds(j)
           \/ \E r \in Calls : Begin(r) \/ Attempt(r) \/ Settle(r) \/ TryAgain(r) \/ NextCall(r)
           \/ IdleUnload
    PROVE  Kinds' /\ \A b \in Batches : Collects(b)'
<1> USE DEF BInv, Kinds, batchVars
<1> DEFINE Aside == /\ UNCHANGED batchVars
                    /\ llm' \in BOOLEAN /\ loaded' \in BOOLEAN /\ leaked' \subseteq Jobs
                    /\ \A b \in Batches, i \in 1 .. MaxLen :
                          job[<<b, i>>] \in Ended => job'[<<b, i>>] = job[<<b, i>>]
<1>1. job \in [Jobs -> JobStates]
  BY DEF IInv, Types
<1>2. ASSUME NEW j \in Jobs, Stream(j) \/ StreamEnds(j) \/ TimesOut(j) \/ Abort(j) \/ EngineEnds(j)
      PROVE  Aside
  <2>1. /\ UNCHANGED <<engineVars, batchVars>> /\ leaked' \subseteq Jobs
        /\ job[j] \in Ended => UNCHANGED job
        /\ UNCHANGED job \/ \E o : job' = [job EXCEPT ![j] = o]
    BY <1>2 DEF Stream, StreamEnds, TimesOut, Abort, EngineEnds, Ended
  <2>2. \A i \in Jobs : job[i] \in Ended => job'[i] = job[i]
    BY <1>1, <2>1
  <2>3. QED
    BY <2>1, <2>2 DEF engineVars, Jobs
<1>3. ASSUME NEW r \in Calls, Begin(r) \/ Attempt(r) \/ Settle(r) \/ TryAgain(r) \/ NextCall(r)
      PROVE  Aside
  <2>1. r \notin Batches
    BY EngineAssumption
  <2>2. /\ UNCHANGED batchVars /\ leaked' \subseteq Jobs
        /\ llm' \in BOOLEAN /\ loaded' \in BOOLEAN
    BY <1>3 DEF Begin, Attempt, Settle, TryAgain, NextCall, Forget, Load, LoadFails, engineVars
  <2>3. \A j \in Jobs : j[1] # r => job'[j] = job[j]
    <3>1. CASE NextCall(r)
      BY <3>1 DEF NextCall, Forget
    <3>2. CASE Begin(r) \/ Attempt(r) \/ Settle(r) \/ TryAgain(r)
      BY <1>1, <3>2 DEF Begin, Attempt, Settle, TryAgain
    <3>3. QED
      BY <1>3, <3>1, <3>2
  <2>4. QED
    BY <2>1, <2>2, <2>3 DEF Jobs
<1>4. ASSUME IdleUnload PROVE Aside
  BY <1>4 DEF IdleUnload
<1>5. Aside
  BY <1>2, <1>3, <1>4
<1> HIDE DEF Aside
<1>6. ASSUME NEW b \in Batches PROVE Collects(b)'
  BY <1>5, OthersKeep DEF Aside
<1>7. QED
  BY <1>5, <1>6 DEF Aside

(* The next chunk comes when the prompts before it have ended as they      *)
(* should.                                                                 *)
LEMMA NextChunkCollects ==
    ASSUME BInv, NEW b \in Batches, NEW n \in 0 .. MaxLen, NEW k \in 0 .. n,
           NEW p \in BOOLEAN,
           NextChunk(b, n, k), size' = [size EXCEPT ![b] = n],
           partial' = [partial EXCEPT ![b] = p],
           \A i \in 1 .. MaxLen : i <= k => job[<<b, i>>] \in (IF p THEN Ended ELSE {"ok"}),
           results' = [results EXCEPT ![b] = [i \in 1 .. k |-> job[<<b, i>>]]],
           llm' \in BOOLEAN, loaded' \in BOOLEAN, UNCHANGED leaked
    PROVE  Kinds' /\ \A c \in Batches : Collects(c)'
<1> USE DEF BInv
<1>1. /\ Types /\ Kinds /\ MaxLen \in Nat /\ k \in Nat /\ n \in Nat
      /\ \A i \in 1 .. k : i \in 1 .. MaxLen
  BY EngineAssumption DEF IInv
<1>2. \A c \in Batches, i \in 1 .. MaxLen :
         c # b \/ i <= k => job'[<<c, i>>] = job[<<c, i>>]
  BY DEF NextChunk, Chunk, Jobs
<1>3. \A i \in 1 .. k : job[<<b, i>>] \in Ended
  BY <1>1 DEF Ended
<1>4. Kinds'
  <2> DEFINE ended == [i \in 1 .. k |-> job[<<b, i>>]]
  <2>1. ended \in [1 .. k -> Ended] /\ results' = [results EXCEPT ![b] = ended]
    BY <1>3
  <2> HIDE DEF ended
  <2>2. ended \in Seq(Ended)
    BY <1>1, <2>1
  <2>3. results' \in [Batches -> Seq(Ended)]
    BY <1>1, <2>1, <2>2 DEF Kinds
  <2>4. QED
    BY <1>1, <2>3 DEF Kinds
<1>5. Collects(b)'
  <2>1. from'[b] = k /\ bpc'[b] = IF Chunk(n, k) = {} THEN "returned" ELSE "waiting"
    BY <1>1 DEF NextChunk, Types
  <2>2. size'[b] = n /\ partial'[b] = p /\ results'[b] = [i \in 1 .. k |-> job[<<b, i>>]]
    BY <1>1 DEF Kinds, Types
  <2>3. Chunk(n, k) = {} => k = n
    BY ChunkSpan
  <2>4. \A i \in 1 .. k : job'[<<b, i>>] = job[<<b, i>>]
    BY <1>1, <1>2
  <2>5. k <= n /\ \A i \in 1 .. k : job'[<<b, i>>] \in (IF p THEN Ended ELSE {"ok"})
    BY <1>1, <2>4
  <2>6. results'[b] = [i \in 1 .. k |-> job'[<<b, i>>]]
    BY <2>2, <2>4
  <2>7. QED
    BY <2>1, <2>2, <2>3, <2>5, <2>6 DEF Collects
<1>6. ASSUME NEW c \in Batches, c # b PROVE Collects(c)'
  <2>1. /\ bpc'[c] = bpc[c] /\ size'[c] = size[c] /\ partial'[c] = partial[c]
        /\ from'[c] = from[c] /\ results'[c] = results[c]
    BY <1>1, <1>6 DEF NextChunk, Types, Kinds
  <2>2. QED
    BY <1>2, <1>6, <2>1, OthersKeep
<1>7. QED
  BY <1>4, <1>5, <1>6

LEMMA BatchStepsCollect ==
    ASSUME BInv, NEW b \in Batches,
           \/ \E n \in 0 .. MaxLen, p \in BOOLEAN : StartBatch(b, n, p)
           \/ ChunkDone(b) \/ ChunkRaises(b) \/ NextBatch(b)
    PROVE  Kinds' /\ \A c \in Batches : Collects(c)'
<1> USE DEF BInv
<1>1. Types /\ Kinds /\ MaxLen \in Nat /\ Collects(b)
  BY EngineAssumption DEF IInv
<1>2. ASSUME NEW n \in 0 .. MaxLen, NEW p \in BOOLEAN, StartBatch(b, n, p)
      PROVE  Kinds' /\ \A c \in Batches : Collects(c)'
  <2>1. /\ size' = [size EXCEPT ![b] = n] /\ partial' = [partial EXCEPT ![b] = p]
        /\ llm' \in BOOLEAN /\ loaded' \in BOOLEAN /\ UNCHANGED <<leaked, results>>
    BY <1>1, <1>2 DEF StartBatch, Load, LoadFails, Kinds
  <2>2. from[b] = 0 /\ n \in Nat
    BY <1>1, <1>2 DEF StartBatch, Collects
  <2>3. results[b] = [i \in 1 .. 0 |-> job[<<b, i>>]]
    BY <1>1, <2>2 DEF Collects
  <2>4. CASE NextChunk(b, n, 0)
    <3>1. results' = [results EXCEPT ![b] = [i \in 1 .. 0 |-> job[<<b, i>>]]]
      BY <1>1, <2>1, <2>3 DEF Kinds
    <3>2. 0 \in 0 .. n /\ \A i \in 1 .. MaxLen : ~(i <= 0)
      BY <1>1, <2>2
    <3>3. QED
      BY <2>1, <2>4, <3>1, <3>2, NextChunkCollects
  <2>5. CASE bpc' = [bpc EXCEPT ![b] = "raised"] /\ UNCHANGED <<from, job>>
    <3>1. Kinds'
      BY <1>1, <2>1 DEF Kinds
    <3>2. bpc'[b] = "raised" /\ size'[b] = n
      BY <1>1, <2>1, <2>5 DEF Types
    <3>3. Collects(b)'
      BY <1>1, <2>1, <2>2, <2>5, <3>2 DEF Collects
    <3>4. ASSUME NEW c \in Batches, c # b PROVE Collects(c)'
      <4>1. bpc'[c] = bpc[c] /\ size'[c] = size[c] /\ partial'[c] = partial[c]
        BY <1>1, <2>1, <2>5, <3>4 DEF Types, Kinds
      <4>2. QED
        BY <2>1, <2>5, <3>4, <4>1, OthersKeep
    <3>5. QED
      BY <3>1, <3>3, <3>4
  <2>6. QED
    BY <1>2, <2>4, <2>5 DEF StartBatch
<1>3. CASE ChunkDone(b)
  <2> DEFINE n == size[b]
             k == from[b]
  <2>1. n \in 0 .. MaxLen /\ k \in 0 .. n
    BY <1>1 DEF Types, Collects
  <2> DEFINE last == IF n <= k + ChunkLen(n) THEN n ELSE k + ChunkLen(n)
  <2>2. last \in k .. n /\ Chunk(n, k) = k + 1 .. last /\ Cardinality(Chunk(n, k)) = last - k
    BY <2>1, ChunkSpan
  <2> HIDE DEF last
  <2> DEFINE m == Cardinality(Chunk(n, k))
             f == [i \in 1 .. last |-> job[<<b, i>>]]
  <2>3. /\ m \in Nat /\ last \in Nat /\ k \in Nat /\ k + m = last /\ last <= MaxLen
        /\ last \in 0 .. n
    BY <1>1, <2>1, <2>2
  <2>4. /\ NextChunk(b, n, last) /\ partial' = [partial EXCEPT ![b] = partial[b]]
        /\ size' = [size EXCEPT ![b] = n] /\ UNCHANGED leaked
        /\ llm' \in BOOLEAN /\ loaded' \in BOOLEAN /\ partial[b] \in BOOLEAN
    BY <1>1, <1>3, <2>3 DEF ChunkDone, Types, Kinds, engineVars
  <2>5. ASSUME NEW i \in 1 .. MaxLen, i <= last
        PROVE  job[<<b, i>>] \in (IF partial[b] THEN Ended ELSE {"ok"})
    <3>1. CASE i <= k
      BY <1>1, <2>3, <3>1 DEF Collects
    <3>2. CASE i > k
      <4>1. i \in Chunk(n, k)
        BY <2>2, <2>3, <2>5, <3>2
      <4>2. QED
        BY <1>3, <4>1 DEF ChunkDone
    <3>3. QED
      BY <2>3, <3>1, <3>2
  <2>6. results' = [results EXCEPT ![b] = f]
    <3>1. f \in [1 .. last -> Ended]
      <4>1. \A i \in 1 .. last : i \in 1 .. MaxLen /\ i <= last
        BY <1>1, <2>3
      <4>2. \A i \in 1 .. last : job[<<b, i>>] \in Ended
        BY <2>5, <4>1 DEF Ended
      <4>3. QED
        BY <4>2
    <3>2. results[b] = [i \in 1 .. k |-> f[i]]
      BY <1>1, <2>3 DEF Collects
    <3>3. [i \in 1 .. m |-> job[<<b, k + i>>]] = [i \in 1 .. m |-> f[k + i]]
      BY <2>3
    <3>4. results' = [results EXCEPT ![b] = @ \o [i \in 1 .. m |-> job[<<b, k + i>>]]]
      BY <1>3 DEF ChunkDone
    <3> HIDE DEF m, f
    <3>5. f \in [1 .. k + m -> Ended]
      BY <2>3, <3>1
    <3>6. [i \in 1 .. k |-> f[i]] \o [i \in 1 .. m |-> f[k + i]] = f
      BY <2>3, <3>5, Appended
    <3>7. QED
      BY <3>2, <3>3, <3>4, <3>6
  <2>7. QED
    BY <2>1, <2>3, <2>4, <2>5, <2>6, NextChunkCollects
<1>4. CASE ChunkRaises(b)
  <2>1. /\ bpc' = [bpc EXCEPT ![b] = "raised"]
        /\ UNCHANGED <<llm, loaded, job, leaked, size, partial, from, results>>
    BY <1>4 DEF ChunkRaises, engineVars
  <2>2. Kinds' /\ Collects(b)'
    BY <1>1, <2>1 DEF Kinds, Collects, Types
  <2>3. ASSUME NEW c \in Batches, c # b PROVE Collects(c)'
    BY <1>1, <2>1, <2>3, OthersKeep DEF Types
  <2>4. QED
    BY <2>2, <2>3
<1>5. CASE NextBatch(b)
  <2>1. /\ bpc' = [bpc EXCEPT ![b] = "idle"] /\ size' = [size EXCEPT ![b] = 0]
        /\ partial' = [partial EXCEPT ![b] = TRUE] /\ from' = [from EXCEPT ![b] = 0]
        /\ results' = [results EXCEPT ![b] = <<>>] /\ UNCHANGED <<llm, loaded>>
    BY <1>5 DEF NextBatch, engineVars
  <2>2. leaked' \subseteq Jobs /\ \A j \in Jobs : j[1] # b => job'[j] = job[j]
    BY <1>1, <1>5 DEF NextBatch, Forget, Kinds
  <2>3. Kinds'
    BY <1>1, <2>1, <2>2 DEF Kinds
  <2>4. Collects(b)'
    BY <1>1, <2>1 DEF Collects, Types, Kinds
  <2>5. ASSUME NEW c \in Batches, c # b PROVE Collects(c)'
    <3>1. /\ bpc'[c] = bpc[c] /\ size'[c] = size[c] /\ partial'[c] = partial[c]
          /\ from'[c] = from[c] /\ results'[c] = results[c]
      BY <1>1, <2>1, <2>5 DEF Types, Kinds
    <3>2. \A i \in 1 .. MaxLen : job'[<<c, i>>] = job[<<c, i>>]
      BY <2>2, <2>5 DEF Jobs
    <3>3. QED
      BY <3>1, <3>2, OthersKeep
  <2>6. QED
    BY <2>3, <2>4, <2>5
<1>6. QED
  BY <1>2, <1>3, <1>4, <1>5

(* BInv is inductive. *)
THEOREM CollectingInvariance == Spec => []BInv
<1>1. ASSUME BInv, IInv', [Next]_vars PROVE BInv'
  <2>1. CASE UNCHANGED vars
    <3>1. \A b \in Batches : Collects(b)'
      BY <1>1, <2>1, OthersKeep DEF BInv, vars, batchVars
    <3>2. QED
      BY <1>1, <2>1, <3>1 DEF BInv, Kinds, vars, batchVars, engineVars
  <2>2. CASE Next
    <3>1. Kinds' /\ \A b \in Batches : Collects(b)'
      BY <1>1, <2>2, OtherStepsCollect, BatchStepsCollect DEF Next
    <3>2. QED
      BY <1>1, <3>1 DEF BInv
  <2>3. QED
    BY <1>1, <2>1, <2>2
<1>2. QED
  BY <1>1, InitBInv, Invariance, PTL DEF Spec

(* Every variable keeps its type. *)
THEOREM TypesKept == Spec => []TypeOK
<1>1. ASSUME BInv PROVE TypeOK
  <2>1. ASSUME NEW b \in Batches PROVE from[b] \in 0 .. MaxLen
    <3>1. from[b] \in Nat /\ size[b] \in 0 .. MaxLen /\ from[b] <= size[b]
      BY <1>1 DEF BInv, IInv, Types, Collects
    <3>2. QED
      BY <3>1, EngineAssumption
  <2>2. from \in [Batches -> 0 .. MaxLen]
    BY <1>1, <2>1 DEF BInv, IInv, Types
  <2>3. QED
    BY <1>1, <2>2 DEF BInv, IInv, Types, Kinds, TypeOK
<1>2. QED
  BY <1>1, CollectingInvariance, PTL

(* A batch that returns has an entry for every prompt at its place, and    *)
(* vLLM computes nothing for it any more.                                  *)
THEOREM EveryPromptIsAnswered == Spec => []BatchComplete
<1>1. ASSUME BInv PROVE BatchComplete
  <2> SUFFICES ASSUME NEW b \in Batches, bpc[b] = "returned"
               PROVE  /\ results[b] = [i \in 1 .. size[b] |-> job[<<b, i>>]]
                      /\ ~partial[b] => \A i \in 1 .. size[b] : results[b][i] = "ok"
                      /\ Owned(b) = {}
    BY DEF BatchComplete
  <2>1. from[b] = size[b] /\ Collects(b) /\ size[b] \in 0 .. MaxLen
    BY <1>1 DEF BInv, Collects, IInv, Types
  <2>2. Owned(b) = {}
    <3> SUFFICES ASSUME NEW j \in Owned(b) PROVE FALSE
      OBVIOUS
    <3>1. j \in Jobs /\ j[1] = b /\ Live(j)
      BY <1>1 DEF Owned, BInv, IInv, Types, Tracked, Live
    <3>2. PICK i \in 1 .. MaxLen : j = <<b, i>>
      BY <3>1, EngineAssumption DEF Jobs
    <3>3. i \in Chunk(size[b], from[b])
      BY <1>1, <3>1, <3>2 DEF BInv, IInv, BatchLive
    <3>4. QED
      BY <2>1, <3>3, EngineAssumption DEF Chunk
  <2>3. QED
    BY <2>1, <2>2 DEF Collects
<1>2. QED
  BY <1>1, CollectingInvariance, PTL
=============================================================================
