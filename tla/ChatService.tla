----------------------------- MODULE ChatService -----------------------------
(***************************************************************************)
(* Chat completions, one or a batch of them per HTTP request, through the  *)
(* answer cache (api/application/services/chat_service.py).  All items of  *)
(* a request look into the cache before any of them can get an answer:     *)
(* gather queues their tasks together and each runs without a suspension   *)
(* up to the engine.                                                       *)
(***************************************************************************)
EXTENDS CacheAdapter, Sequences

CONSTANTS Requests,    \* HTTP requests
          Keys,        \* cache keys: what distinguishes chat requests
          Streaming,   \* the keys of requests with stream=True, which the
                       \* key is made of too: they pass the cache by
          TTL,         \* ttl=3600, in ticks of the clock
          Shared,      \* one service for all requests?  get_chat_service
                       \* makes one, with a cache of its own, for each
          MaxItems,    \* bound: items of a batch
          MaxTime      \* bound: the last tick

ASSUME ChatAssumption == /\ MaxEntries \in Nat \ {0} /\ TTL \in Nat \ {0}
                         /\ MaxItems \in Nat /\ MaxTime \in Nat \ {0}
                         /\ Shared \in BOOLEAN /\ Streaming \subseteq Keys

Services == IF Shared THEN {"shared"} ELSE Requests

ServiceOf(r) == IF Shared THEN "shared" ELSE r

VARIABLES
    now,         \* time.time()
    cache,       \* _cache of each service
    items,       \* the keys a request asks for
    answers,     \* per item: "pending", "error" or an answer
    used         \* history: when each cached key was last answered or stored

vars == <<now, cache, items, answers, used>>

Never   == 0           \* the clock starts at 1
Times   == 1 .. MaxTime
Value   == [of : Keys, at : Times]
Pending == [state |-> "pending"]
Failed  == [state |-> "error"]
Given(v) == [state |-> "ok", value |-> v]

Batches == UNION {[1 .. n -> Keys] : n \in 1 .. MaxItems}

Entries == [value : Value, exp : 1 .. MaxTime + TTL, last : Times]
Answers == {Pending, Failed} \cup {Given(v) : v \in Value}

TypeOK == /\ now \in Times
          /\ cache = [s \in Services |-> cache[s]]
          /\ \A s \in Services : /\ DOMAIN cache[s] \subseteq Keys \ Streaming
                                /\ cache[s] \in [DOMAIN cache[s] -> Entries]
          /\ items \in [Requests -> {Empty} \cup Batches]
          /\ answers = [r \in Requests |-> answers[r]]
          /\ \A r \in Requests : answers[r] \in [DOMAIN items[r] -> Answers]
          /\ used \in [Services -> [Keys -> {Never} \cup Times]]

Init == /\ now      = 1
        /\ cache    = [s \in Services |-> Empty]
        /\ items    = [r \in Requests |-> Empty]
        /\ answers  = [r \in Requests |-> Empty]
        /\ used     = [s \in Services |-> [k \in Keys |-> Never]]
-----------------------------------------------------------------------------
Tick == /\ now < MaxTime
        /\ now' = now + 1
        /\ UNCHANGED <<cache, items, answers, used>>

\* History: service s has just used ks; what is no longer cached is forgotten.
Uses(s, ks) == used' = [x \in Services |-> [k \in Keys |->
                  IF k \notin DOMAIN cache'[x] THEN Never
                  ELSE IF x = s /\ k \in ks THEN now ELSE used[x][k]]]

Asked(ks) == {ks[i] : i \in DOMAIN ks}

Found(c, k) == k \notin Streaming /\ Hit(c, k, now)

\* A request arrives; without a cache of its own service it gets a new one.
Arrive(r, ks) ==
    LET s == ServiceOf(r)
        c == IF Shared THEN cache[s] ELSE Empty IN
    /\ items[r] = Empty
    /\ items'   = [items EXCEPT ![r] = ks]
    /\ answers' = [answers EXCEPT ![r] =
          [i \in DOMAIN ks |-> IF Found(c, ks[i]) THEN Given(c[ks[i]].value)
                              ELSE Pending]]
    /\ cache'   = [cache EXCEPT ![s] = AfterGets(c, Asked(ks) \ Streaming, now)]
    /\ Uses(s, {k \in Asked(ks) : Found(c, k)})
    /\ UNCHANGED now

\* route_chat_completion returns: the answer is stored, then handed out.
EngineAnswers(r, i) ==
    LET s == ServiceOf(r)
        k == items[r][i]
        v == [of |-> k, at |-> now] IN
    /\ answers[r][i] = Pending
    /\ answers' = [answers EXCEPT ![r][i] = Given(v)]
    /\ IF k \in Streaming THEN UNCHANGED cache
       ELSE \E c \in AfterSet(cache[s], k, v, now, TTL) : cache' = [cache EXCEPT ![s] = c]
    /\ Uses(s, {k})
    /\ UNCHANGED <<now, items>>

\* It raises; in a batch gather keeps the exception as the item's result.
EngineFails(r, i) == /\ answers[r][i] = Pending
                     /\ answers' = [answers EXCEPT ![r][i] = Failed]
                     /\ UNCHANGED <<now, cache, items, used>>

\* Every item has its answer or its error: the response goes out, and the
\* caller may send its next request.
Return(r) ==
    /\ items[r] # Empty
    /\ \A i \in DOMAIN answers[r] : answers[r][i] # Pending
    /\ items'   = [items EXCEPT ![r] = Empty]
    /\ answers' = [answers EXCEPT ![r] = Empty]
    /\ UNCHANGED <<now, cache, used>>

\* The clean-up task runs only where the cache was made inside the loop.
Cleanup == /\ Shared
           /\ cache' = [s \in Services |-> AfterCleanup(cache[s], now)]
           /\ Uses("shared", {})
           /\ UNCHANGED <<now, items, answers>>

Next == \/ Tick \/ Cleanup
        \/ \E r \in Requests :
              \/ \E ks \in Batches : Arrive(r, ks)
              \/ \E i \in DOMAIN answers[r] : EngineAnswers(r, i) \/ EngineFails(r, i)
              \/ Return(r)

Spec == Init /\ [][Next]_vars
-----------------------------------------------------------------------------
(* A request is answered for the key it asked for, and a cached answer is  *)
(* younger than TTL, although other requests store, evict and clean up     *)
(* meanwhile.                                                              *)
AnswersFit ==
    [][\A r \in Requests : \A i \in DOMAIN answers'[r] :
          LET a == answers'[r][i] IN
          a.state = "ok" /\ (i \in DOMAIN answers[r] => answers[r][i] # a) =>
             a.value.of = items'[r][i] /\ now < a.value.at + TTL]_vars

(* The cache stays within MAX_CACHE_ENTRIES, whoever stores in it.         *)
CacheBounded == \A s \in Services : Cardinality(DOMAIN cache[s]) <= MaxEntries

(* The cache never falls behind what was given out: of two requests that  *)
(* missed, the one answered last is kept.                                  *)
NewestCached ==
    Shared => \A r \in Requests : \A i \in DOMAIN answers[r] :
       LET a == answers[r][i]
           k == items[r][i] IN
       a.state = "ok" /\ k \in DOMAIN cache["shared"]
          => cache["shared"][k].value.at >= a.value.at

(* An entry that has not expired goes only to make room, and only when     *)
(* every other one was used since: hits keep what is in use.               *)
EvictsLeastRecent ==
    [][\A s \in Services, k \in Keys :
          Shared /\ Hit(cache[s], k, now) /\ k \notin DOMAIN cache'[s] =>
             \A x \in DOMAIN cache'[s] : used[s][k] <= used'[s][x]]_vars
=============================================================================
