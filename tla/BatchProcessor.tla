--------------------------- MODULE BatchProcessor ---------------------------
(***************************************************************************)
(* Batches on the HuggingFace engine: process_batch and                    *)
(* enrich_chunks_batch (api/infrastructure/utils/batch_processor.py) over  *)
(* LLMEngine (api/infrastructure/models/llm_engine.py).  Unlike vLLM the   *)
(* engine has no timeout: an item works in a thread of the executor until  *)
(* the model has generated its last token.                                 *)
(***************************************************************************)
EXTENDS Naturals, Sequences, FiniteSets

CONSTANTS Batches,       \* callers
          MaxLen,        \* bound: items in one batch
          BatchSize,     \* batch_size
          MaxConcurrent  \* max_concurrent, 0 for None

ASSUME BatchAssumption == /\ MaxLen \in Nat /\ MaxConcurrent \in Nat
                          /\ BatchSize \in Nat \ {0}

(* "items"  process_batch over LLMEngine.generate                          *)
(* "engine" enrich_chunks_batch, which prefers LLMEngine.generate_batch    *)
Modes == {"items", "engine"}

Items == Batches \X (1 .. MaxLen)

VARIABLES
    loaded,      \* LLMEngine._loaded
    bpc,         \* each batch
    mode, size, partial,  \* its arguments
    from,        \* items before the current slice
    item,        \* each item's coroutine
    free,        \* permits of the call's semaphore
    results      \* what the call has collected

argVars == <<mode, size, partial>>
vars    == <<loaded, bpc, argVars, from, item, free, results>>

BatchStates == {"idle", "waiting", "returned", "raised"}
Ended       == {"ok", "error"}
ItemStates  == {"none", "created", "working"} \cup Ended
Entries     == {"ok", "None", "error"}

TypeOK == /\ loaded  \in BOOLEAN
          /\ bpc     \in [Batches -> BatchStates]
          /\ mode    \in [Batches -> Modes]
          /\ size    \in [Batches -> 0 .. MaxLen]
          /\ partial \in [Batches -> BOOLEAN]
          /\ from    \in [Batches -> 0 .. MaxLen]
          /\ item    \in [Items -> ItemStates]
          /\ free    \in [Batches -> 0 .. MaxConcurrent]
          /\ results \in [Batches -> Seq(Entries)]

Init == /\ loaded  = FALSE
        /\ bpc     = [b \in Batches |-> "idle"]
        /\ mode    = [b \in Batches |-> "items"]
        /\ size    = [b \in Batches |-> 0]
        /\ partial = [b \in Batches |-> TRUE]
        /\ from    = [b \in Batches |-> 0]
        /\ item    = [j \in Items |-> "none"]
        /\ free    = [b \in Batches |-> MaxConcurrent]
        /\ results = [b \in Batches |-> <<>>]
-----------------------------------------------------------------------------
(* load_model, without a suspension: the loader keeps the model and the    *)
(* tokenizer only when it has both.                                        *)
Load      == loaded' = TRUE
LoadFails == ~loaded /\ UNCHANGED loaded

\* Mutant of Slice: the last item of a slice is also the first of the next.
SliceOverlap(b, k) == {i \in 1 .. size[b] : k <= i /\ i <= k + BatchSize}

\* The items taken together after the first k: generate_batch takes them all.
Slice(b, k) == {i \in 1 .. size[b] : k < i /\ (mode[b] = "engine" \/ i <= k + BatchSize)}

\* What the results hold for an item that ended.
Entry(b, o) == IF o = "ok" THEN "ok" ELSE IF mode[b] = "engine" THEN "error" ELSE "None"

\* generate_batch takes allow_partial_failure and does not look at it.
Forgiving(b) == partial[b] \/ mode[b] = "engine"

\* The coroutines of the next slice, or nothing is left.
NextSlice(b, k) ==
    /\ from' = [from EXCEPT ![b] = k]
    /\ item' = [j \in Items |-> IF j[1] = b /\ j[2] \in Slice(b, k) THEN "created" ELSE item[j]]
    /\ bpc'  = [bpc EXCEPT ![b] = IF Slice(b, k) = {} THEN "returned" ELSE "waiting"]

Call(b, m, n, p) == /\ bpc[b] = "idle"
                    /\ bpc'     = [bpc EXCEPT ![b] = "waiting"]
                    /\ mode'    = [mode EXCEPT ![b] = m]
                    /\ size'    = [size EXCEPT ![b] = n]
                    /\ partial' = [partial EXCEPT ![b] = p]
                    /\ UNCHANGED <<loaded, from, item, free, results>>

Fresh(b) == bpc[b] = "waiting" /\ \A j \in Items : j[1] = b => item[j] = "none"

\* The call runs up to its first gather; generate_batch loads before.
Begin(b) == /\ Fresh(b)
            /\ \/ /\ IF mode[b] = "engine" THEN Load ELSE UNCHANGED loaded
                  /\ NextSlice(b, 0)
               \/ /\ mode[b] = "engine" /\ LoadFails
                  /\ bpc' = [bpc EXCEPT ![b] = "raised"]
                  /\ UNCHANGED <<from, item>>
            /\ UNCHANGED <<argVars, free, results>>
-----------------------------------------------------------------------------
(* One item: the semaphore if there is one, then generate. *)

Limited(b) == mode[b] = "items" /\ MaxConcurrent > 0

\* Coroutines take their first step, and later the permits, in order.
MayStart(b, i) == /\ item[<<b, i>>] = "created"
                  /\ \A k \in 1 .. i - 1 : item[<<b, k>>] # "created"
                  /\ Limited(b) => free[b] > 0

Start(b, i) == /\ MayStart(b, i)
               /\ Load
               /\ item' = [item EXCEPT ![<<b, i>>] = "working"]
               /\ free' = [free EXCEPT ![b] = IF Limited(b) THEN @ - 1 ELSE @]
               /\ UNCHANGED <<bpc, argVars, from, results>>

\* Mutant of StartFails: it gives the permit back twice.
StartFailsTwice(b, i) ==
    /\ MayStart(b, i)
    /\ Load \/ LoadFails
    /\ item' = [item EXCEPT ![<<b, i>>] = "error"]
    /\ free' = [free EXCEPT ![b] = IF Limited(b) THEN @ + 1 ELSE @]
    /\ UNCHANGED <<bpc, argVars, from, results>>

\* The load or the tokenizer raises: the permit is taken and given back.
StartFails(b, i) == /\ MayStart(b, i)
                    /\ Load \/ LoadFails
                    /\ item' = [item EXCEPT ![<<b, i>>] = "error"]
                    /\ UNCHANGED <<bpc, argVars, from, free, results>>

\* The thread ends with tokens or an exception; the permit goes back.
Finish(b, i) ==
    /\ item[<<b, i>>] = "working"
    /\ \E o \in Ended : item' = [item EXCEPT ![<<b, i>>] = o]
    /\ free' = [free EXCEPT ![b] = IF Limited(b) THEN @ + 1 ELSE @]
    /\ UNCHANGED <<loaded, bpc, argVars, from, results>>
-----------------------------------------------------------------------------
\* Mutant of Gathered: the slice is left with its first result.
GatheredFirst(b, k) == \E i \in Slice(b, k) : item[<<b, i>>] \in Ended

\* gather returns: everything has ended, and well unless errors are results.
Gathered(b, k) == \A i \in Slice(b, k) :
                     item[<<b, i>>] \in (IF Forgiving(b) THEN Ended ELSE {"ok"})

\* Mutant of SliceDone: a slice is taken again until nothing of it fails.
SliceAgain(b) ==
    LET n     == Cardinality(Slice(b, from[b]))
        again == \E i \in Slice(b, from[b]) : item[<<b, i>>] = "error" IN
    /\ bpc[b] = "waiting" /\ ~Fresh(b)
    /\ Gathered(b, from[b])
    /\ results' = [results EXCEPT ![b] =
                      IF again THEN @ ELSE @ \o [i \in 1 .. n |-> Entry(b, item[<<b, from[b] + i>>])]]
    /\ NextSlice(b, IF again THEN from[b] ELSE from[b] + n)
    /\ UNCHANGED <<loaded, argVars, free>>

SliceDone(b) ==
    LET n == Cardinality(Slice(b, from[b])) IN
    /\ bpc[b] = "waiting" /\ ~Fresh(b)
    /\ Gathered(b, from[b])
    /\ results' = [results EXCEPT ![b] =
                      @ \o [i \in 1 .. n |-> Entry(b, item[<<b, from[b] + i>>])]]
    /\ NextSlice(b, from[b] + n)
    /\ UNCHANGED <<loaded, argVars, free>>

\* gather raises the first error; the other items of the slice go on.
SliceRaises(b) ==
    /\ bpc[b] = "waiting" /\ ~Forgiving(b)
    /\ \E i \in Slice(b, from[b]) : item[<<b, i>>] = "error"
    /\ bpc' = [bpc EXCEPT ![b] = "raised"]
    /\ UNCHANGED <<loaded, argVars, from, item, free, results>>

\* The caller's next batch, with names no item goes by any more.
NextBatch(b) == /\ bpc[b] \in {"returned", "raised"}
                /\ \A j \in Items : j[1] = b => item[j] \in Ended \cup {"none"}
                /\ bpc'     = [bpc EXCEPT ![b] = "idle"]
                /\ mode'    = [mode EXCEPT ![b] = "items"]
                /\ size'    = [size EXCEPT ![b] = 0]
                /\ partial' = [partial EXCEPT ![b] = TRUE]
                /\ from'    = [from EXCEPT ![b] = 0]
                /\ item'    = [j \in Items |-> IF j[1] = b THEN "none" ELSE item[j]]
                /\ free'    = [free EXCEPT ![b] = MaxConcurrent]
                /\ results' = [results EXCEPT ![b] = <<>>]
                /\ UNCHANGED loaded

Next == \E b \in Batches :
           \/ \E m \in Modes, n \in 0 .. MaxLen, p \in BOOLEAN : Call(b, m, n, p)
           \/ Begin(b) \/ SliceDone(b) \/ SliceRaises(b) \/ NextBatch(b)
           \/ \E i \in 1 .. MaxLen : Start(b, i) \/ StartFails(b, i) \/ Finish(b, i)

Spec == Init /\ [][Next]_vars

(* The loop runs what is ready, and a thread ends: the number of tokens it *)
(* may generate is bounded.                                                *)
Fairness == \A b \in Batches :
               /\ WF_vars(Begin(b)) /\ WF_vars(SliceDone(b)) /\ WF_vars(SliceRaises(b))
               /\ \A i \in 1 .. MaxLen : /\ WF_vars(Start(b, i) \/ StartFails(b, i))
                                         /\ WF_vars(Finish(b, i))

FairSpec == Spec /\ Fairness
-----------------------------------------------------------------------------
Working(b) == {i \in 1 .. MaxLen : item[<<b, i>>] = "working"}

(* A batch that returns has one entry for each item, in the order of the   *)
(* items, whatever order they ended in and whichever failed; and one of    *)
(* process_batch that must not lose an item returns only successes.        *)
BatchComplete == \A b \in Batches : bpc[b] = "returned" =>
                    /\ results[b] = [i \in 1 .. size[b] |-> Entry(b, item[<<b, i>>])]
                    /\ mode[b] = "items" /\ ~partial[b] =>
                          \A i \in 1 .. size[b] : results[b][i] = "ok"

(* Items of process_batch work side by side up to the permits and within   *)
(* one slice: none is begun while one of an earlier slice still works, so  *)
(* that an item that fails a batch keeps all later slices from being       *)
(* begun, and what it leaves behind is never more than a slice.            *)
Throttled == \A b \in Batches : mode[b] = "items" =>
                /\ MaxConcurrent > 0 => Cardinality(Working(b)) <= MaxConcurrent
                /\ \A i, k \in 1 .. MaxLen :
                      /\ (k - 1) \div BatchSize < (i - 1) \div BatchSize
                      /\ item[<<b, i>>] # "none"
                      => item[<<b, k>>] \in (IF partial[b] THEN Ended ELSE {"ok"})

(* Every batch returns or raises: the items that wait for a permit are not *)
(* left without one by those that failed.                                  *)
EveryoneAnswered == \A b \in Batches : bpc[b] = "waiting" ~> bpc[b] \in {"returned", "raised"}
-----------------------------------------------------------------------------
(* llm_engine.py:178 and batch_processor.py:99: a batch goes on after a    *)
(* failure if allow_partial_failure says so, which it does by default.  On *)
(* the HuggingFace engine it goes on, and returns the failures among its   *)
(* results, when the caller said no.                                       *)
FailuresEndBatch == \A b \in Batches : bpc[b] = "returned" /\ ~partial[b] =>
                       \A i \in DOMAIN results[b] : results[b][i] = "ok"
=============================================================================
