------------------------- MODULE ChatService_proofs -------------------------
(***************************************************************************)
(* Proofs about ChatService, for any requests, keys, times to live and     *)
(* sizes of the cache, with one cache for all requests and with one each.  *)
(* That answers fit and that the least recently used entry goes are not    *)
(* inductive: both depend on what an entry of the cache says of itself and *)
(* on when it was used, which IsCache and Remembered tell.                 *)
(***************************************************************************)
EXTENDS ChatService, FiniteSetTheorems, TLAPS

\* At time t an entry has the value of its key, expires TTL after the model's
\* answer, and was last used between that answer and now.
Sound(c, t) == \A k \in DOMAIN c : /\ c[k].value.of = k
                                   /\ c[k].exp = c[k].value.at + TTL
                                   /\ c[k].value.at <= c[k].last
                                   /\ c[k].last <= t

\* What the methods of the cache keep of it.
IsCache(c, t) == /\ DOMAIN c \subseteq Keys \ Streaming
                 /\ c \in [DOMAIN c -> Entries]
                 /\ IsFiniteSet(DOMAIN c)
                 /\ Cardinality(DOMAIN c) <= MaxEntries
                 /\ Sound(c, t)

\* The history is what the entries say.
Remembered == \A s \in Services : \A k \in Keys :
    used[s][k] = IF k \in DOMAIN cache[s] THEN cache[s][k].last ELSE Never

NoneOfTheFuture == \A r \in Requests : \A i \in DOMAIN answers[r] :
    answers[r][i].state = "ok" => answers[r][i].value.at <= now

IInv == /\ TypeOK
        /\ \A s \in Services : IsCache(cache[s], now)
        /\ Remembered
        /\ NoneOfTheFuture
        /\ NewestCached
-----------------------------------------------------------------------------
(* The methods of the cache.                                               *)

\* A new cache is empty.
LEMMA EmptyIsCache == \A t : IsCache(Empty, t)
<1> TAKE t
<1>1. DOMAIN Empty = {}
  BY DEF Empty
<1>2. Empty \in [DOMAIN Empty -> Entries]
  BY <1>1 DEF Empty
<1>3. IsFiniteSet({}) /\ Cardinality({}) = 0
  BY FS_EmptySet
<1> QED
  BY <1>1, <1>2, <1>3, ChatAssumption DEF IsCache, Sound

\* Time alone does not harm it.
LEMMA LaterIsCache ==
    ASSUME NEW c, NEW t \in Nat, IsCache(c, t)
    PROVE  IsCache(c, t + 1)
<1>1. \A k \in DOMAIN c : c[k].last \in Nat
  BY DEF IsCache, Entries, Times
<1> QED
  BY <1>1 DEF IsCache, Sound

\* A part of a cache is a cache.
LEMMA KeptIsCache ==
    ASSUME NEW c, NEW t \in Times, IsCache(c, t), NEW ks \in SUBSET DOMAIN c
    PROVE  /\ IsCache(Kept(c, ks), t)
           /\ DOMAIN Kept(c, ks) = ks
           /\ \A k \in ks : Kept(c, ks)[k] = c[k]
<1>1. /\ DOMAIN Kept(c, ks) = ks
      /\ \A k \in ks : Kept(c, ks)[k] = c[k]
      /\ Kept(c, ks) \in [ks -> Entries]
  BY DEF Kept, IsCache
<1>2. IsFiniteSet(ks) /\ Cardinality(ks) <= Cardinality(DOMAIN c)
  BY FS_Subset DEF IsCache
<1>3. /\ Cardinality(ks) \in Nat /\ Cardinality(DOMAIN c) \in Nat
      /\ Cardinality(DOMAIN c) <= MaxEntries /\ MaxEntries \in Nat
  BY <1>2, FS_CardinalityType, ChatAssumption DEF IsCache
<1>4. Cardinality(ks) <= MaxEntries
  BY <1>2, <1>3
<1>5. Sound(Kept(c, ks), t)
  BY <1>1 DEF IsCache, Sound
<1> QED
  BY <1>1, <1>2, <1>4, <1>5 DEF IsCache

\* get: values stay, what goes was no hit.
LEMMA GetsKeep ==
    ASSUME NEW c, NEW t \in Times, IsCache(c, t), NEW ks
    PROVE  LET d == AfterGets(c, ks, t) IN
           /\ IsCache(d, t)
           /\ \A k : k \in DOMAIN d <=> k \in DOMAIN c /\ (k \in ks => Hit(c, k, t))
           /\ \A k \in DOMAIN d : /\ d[k].value = c[k].value
                                  /\ d[k].last = IF k \in ks THEN t ELSE c[k].last
<1> DEFINE d == AfterGets(c, ks, t)
           K == {k \in DOMAIN c : k \in ks => Hit(c, k, t)}
<1>1. /\ DOMAIN d = K
      /\ \A k \in K : d[k] = IF k \in ks THEN [c[k] EXCEPT !.last = t] ELSE c[k]
  BY DEF AfterGets
<1>2. K \in SUBSET DOMAIN c
  OBVIOUS
<1>3. IsCache(Kept(c, K), t) /\ DOMAIN Kept(c, K) = K
  BY <1>2, KeptIsCache
<1>4. \A k \in K : c[k] \in Entries /\ Sound(c, t)
  BY DEF IsCache
<1>5. \A k \in K : /\ d[k] \in Entries
                   /\ d[k].value = c[k].value /\ d[k].exp = c[k].exp
                   /\ d[k].last = IF k \in ks THEN t ELSE c[k].last
  BY <1>1, <1>4 DEF Entries
<1>6. \A k \in K : /\ c[k].value.at \in Nat /\ c[k].last \in Nat /\ t \in Nat
                   /\ c[k].value.at <= c[k].last /\ c[k].last <= t
                   /\ c[k].value.of = k /\ c[k].exp = c[k].value.at + TTL
  BY <1>4 DEF Entries, Value, Times, Sound
<1>7. Sound(d, t)
  BY <1>1, <1>5, <1>6 DEF Sound
<1>8. d \in [K -> Entries]
  BY <1>1, <1>5 DEF AfterGets
<1>9. IsCache(d, t)
  BY <1>1, <1>3, <1>7, <1>8 DEF IsCache
<1> HIDE DEF d
<1> QED
  BY <1>1, <1>5, <1>9 DEF d

\* Making room leaves a place for k, and what goes was used before the rest.
LEMMA RoomKeeps ==
    ASSUME NEW c, NEW t \in Times, IsCache(c, t), NEW k, NEW room \in Room(c, k)
    PROVE  /\ IsCache(room, t)
           /\ DOMAIN room \subseteq DOMAIN c
           /\ \A x \in DOMAIN room : room[x] = c[x]
           /\ k \notin DOMAIN room => Cardinality(DOMAIN room) < MaxEntries
           /\ \A x \in DOMAIN c \ DOMAIN room :
                 x # k /\ \A y \in DOMAIN room : c[x].last <= c[y].last
<1> DEFINE n == Cardinality(DOMAIN c)
<1>1. n \in Nat /\ MaxEntries \in Nat /\ IsFiniteSet(DOMAIN c) /\ n <= MaxEntries
  BY FS_CardinalityType, ChatAssumption DEF IsCache
<1>2. CASE n >= MaxEntries /\ k \notin DOMAIN c
  <2>1. PICK old \in Oldest(c) : room = Kept(c, DOMAIN c \ {old})
    BY <1>2 DEF Room
  <2>2. old \in DOMAIN c /\ \A x \in DOMAIN c : c[old].last <= c[x].last
    BY DEF Oldest
  <2>3. /\ IsCache(room, t) /\ DOMAIN room = DOMAIN c \ {old}
        /\ \A x \in DOMAIN room : room[x] = c[x]
    BY <2>1, KeptIsCache
  <2>4. Cardinality(DOMAIN room) = n - 1
    BY <1>1, <2>2, <2>3, FS_RemoveElement
  <2> HIDE DEF n
  <2>5. Cardinality(DOMAIN room) < MaxEntries
    BY <1>1, <2>4
  <2> QED
    BY <1>2, <2>2, <2>3, <2>5
<1>3. CASE ~(n >= MaxEntries /\ k \notin DOMAIN c)
  <2>1. room = c
    BY <1>3 DEF Room
  <2> QED
    BY <1>1, <1>3, <2>1
<1> QED
  BY <1>2, <1>3

\* set: the new value is there, the others are as they were.
LEMMA SetKeeps ==
    ASSUME NEW c, NEW t \in Times, IsCache(c, t), NEW k \in Keys \ Streaming,
           NEW d \in AfterSet(c, k, [of |-> k, at |-> t], t, TTL)
    PROVE  /\ IsCache(d, t)
           /\ k \in DOMAIN d /\ d[k].value = [of |-> k, at |-> t] /\ d[k].last = t
           /\ \A x \in DOMAIN d \ {k} : x \in DOMAIN c /\ d[x] = c[x]
           /\ \A x \in DOMAIN c \ DOMAIN d : \A y \in DOMAIN d \ {k} : c[x].last <= c[y].last
<1> DEFINE v == [of |-> k, at |-> t]
           new == [value |-> v, exp |-> t + TTL, last |-> t]
<1>1. PICK room \in Room(c, k) : d = Stored(room, k, v, t, TTL)
  BY DEF AfterSet
<1>2. /\ IsCache(room, t)
      /\ DOMAIN room \subseteq DOMAIN c
      /\ \A x \in DOMAIN room : room[x] = c[x]
      /\ k \notin DOMAIN room => Cardinality(DOMAIN room) < MaxEntries
      /\ \A x \in DOMAIN c \ DOMAIN room :
            x # k /\ \A y \in DOMAIN room : c[x].last <= c[y].last
  BY RoomKeeps
<1>3. /\ DOMAIN d = DOMAIN room \cup {k}
      /\ d[k] = new
      /\ \A x \in DOMAIN d \ {k} : x \in DOMAIN room /\ d[x] = room[x]
      /\ d = [x \in DOMAIN d |-> d[x]]
  BY <1>1 DEF Stored
<1>4. /\ t \in Nat /\ TTL \in Nat /\ t >= 1 /\ t <= MaxTime /\ MaxTime \in Nat /\ MaxEntries \in Nat
      /\ t + TTL \in 1 .. MaxTime + TTL
  BY ChatAssumption DEF Times
<1>5. new \in Entries /\ new.value.of = k /\ new.exp = new.value.at + TTL
      /\ new.value.at <= new.last /\ new.last <= t
  BY <1>4 DEF Entries, Value
<1>6. d \in [DOMAIN d -> Entries] /\ Sound(d, t)
  <2>1. \A x \in DOMAIN room : room[x] \in Entries
    BY <1>2 DEF IsCache
  <2> HIDE DEF new
  <2> QED
    BY <1>2, <1>3, <1>5, <2>1 DEF IsCache, Sound
<1>7. IsFiniteSet(DOMAIN d) /\ Cardinality(DOMAIN d) <= MaxEntries
  <2> DEFINE m == Cardinality(DOMAIN room)
  <2>1. IsFiniteSet(DOMAIN room) /\ m \in Nat /\ m <= MaxEntries
    BY <1>2, FS_CardinalityType DEF IsCache
  <2>2. /\ IsFiniteSet(DOMAIN d)
        /\ Cardinality(DOMAIN d) = IF k \in DOMAIN room THEN m ELSE m + 1
    BY <1>3, <2>1, FS_AddElement
  <2>3. k \notin DOMAIN room => m < MaxEntries
    BY <1>2
  <2> HIDE DEF m
  <2> QED
    BY <1>4, <2>1, <2>2, <2>3
<1>8. DOMAIN d \subseteq Keys \ Streaming
  BY <1>2, <1>3 DEF IsCache
<1>9. IsCache(d, t)
  BY <1>6, <1>7, <1>8 DEF IsCache
<1> QED
  BY <1>2, <1>3, <1>9

\* One round of the clean-up drops what has expired.
LEMMA CleanupKeeps ==
    ASSUME NEW c, NEW t \in Times, IsCache(c, t)
    PROVE  LET d == AfterCleanup(c, t) IN
           /\ IsCache(d, t)
           /\ DOMAIN d = {k \in DOMAIN c : t < c[k].exp}
           /\ \A k \in DOMAIN d : d[k] = c[k]
BY KeptIsCache DEF AfterCleanup
-----------------------------------------------------------------------------
(* What a step has to show.                                                *)

\* AnswersFit and EvictsLeastRecent, of one step.
Fits == \A r \in Requests : \A i \in DOMAIN answers'[r] :
           LET a == answers'[r][i] IN
           a.state = "ok" /\ (i \in DOMAIN answers[r] => answers[r][i] # a) =>
              a.value.of = items'[r][i] /\ now < a.value.at + TTL

Evicts == \A s \in Services, k \in Keys :
             Shared /\ Hit(cache[s], k, now) /\ k \notin DOMAIN cache'[s] =>
                \A x \in DOMAIN cache'[s] : used[s][k] <= used'[s][x]

\* The items of a request are keys, one for each answer.
LEMMA ItemsAreKeys ==
    ASSUME TypeOK, NEW r \in Requests
    PROVE  /\ DOMAIN answers[r] = DOMAIN items[r]
           /\ \A i \in DOMAIN items[r] : items[r][i] \in Keys
<1>1. items[r] = Empty \/ items[r] \in Batches
  BY DEF TypeOK
<1>2. \A i \in DOMAIN items[r] : items[r][i] \in Keys
  BY <1>1 DEF Empty, Batches
<1> QED
  BY <1>2 DEF TypeOK

LEMMA ServiceIsOne == \A r \in Requests : ServiceOf(r) \in Services
BY DEF ServiceOf, Services

\* Caches that are caches keep the type.
LEMMA CachesAreTyped ==
    ASSUME cache' = [s \in Services |-> cache'[s]], \A s \in Services : IsCache(cache[s], now)'
    PROVE  \A s \in Services : /\ DOMAIN cache'[s] \subseteq Keys \ Streaming
                              /\ cache'[s] \in [DOMAIN cache'[s] -> Entries]
BY DEF IsCache

\* Uses writes down what has happened to the entries.
LEMMA UsesRemember ==
    ASSUME TypeOK, Remembered, now' = now, NEW s \in Services, NEW ks, Uses(s, ks),
           \A x \in Services : \A k \in DOMAIN cache'[x] :
              IF x = s /\ k \in ks
              THEN cache'[x][k].last = now
              ELSE k \in DOMAIN cache[x] /\ cache'[x][k].last = cache[x][k].last
    PROVE  /\ Remembered'
           /\ used' \in [Services -> [Keys -> {Never} \cup Times]]
<1>1. \A x \in Services, k \in Keys :
         used'[x][k] = IF k \notin DOMAIN cache'[x] THEN Never
                       ELSE IF x = s /\ k \in ks THEN now ELSE used[x][k]
  BY DEF Uses
<1>2. Remembered'
  BY <1>1 DEF Remembered
<1>3. \A x \in Services, k \in Keys : used'[x][k] \in {Never} \cup Times
  BY <1>1 DEF TypeOK
<1>4. used' = [x \in Services |-> [k \in Keys |-> used'[x][k]]]
  BY DEF Uses
<1> QED
  BY <1>2, <1>3, <1>4
-----------------------------------------------------------------------------
(* Init, and one lemma for every action.                                   *)

LEMMA InitIInv == Init => IInv
<1> SUFFICES ASSUME Init PROVE IInv
  OBVIOUS
<1>1. \A s \in Services : cache[s] = Empty /\ IsCache(cache[s], now)
  BY EmptyIsCache DEF Init
<1>2. DOMAIN Empty = {} /\ Empty \in [{} -> Answers]
  BY DEF Empty
<1>3. now \in Times
  BY ChatAssumption DEF Init, Times
<1>4. TypeOK
  <2>1. /\ cache = [s \in Services |-> cache[s]]
        /\ \A s \in Services : /\ DOMAIN cache[s] \subseteq Keys \ Streaming
                              /\ cache[s] \in [DOMAIN cache[s] -> Entries]
    BY <1>1 DEF Init, IsCache
  <2>2. /\ items \in [Requests -> {Empty} \cup Batches]
        /\ answers = [r \in Requests |-> answers[r]]
        /\ \A r \in Requests : answers[r] \in [DOMAIN items[r] -> Answers]
    BY <1>2 DEF Init
  <2>3. used \in [Services -> [Keys -> {Never} \cup Times]]
    BY DEF Init
  <2> QED
    BY <1>3, <2>1, <2>2, <2>3 DEF TypeOK
<1>5. Remembered
  BY <1>1, <1>2 DEF Init, Remembered
<1>6. NoneOfTheFuture /\ NewestCached
  BY <1>2 DEF Init, NoneOfTheFuture, NewestCached
<1> QED
  BY <1>1, <1>4, <1>5, <1>6 DEF IInv

LEMMA TickKeeps ==
    ASSUME IInv, Tick
    PROVE  IInv' /\ Fits /\ Evicts
<1>1. /\ now \in Nat /\ now' = now + 1 /\ now' \in Times
      /\ UNCHANGED <<cache, items, answers, used>>
  BY ChatAssumption DEF IInv, TypeOK, Tick, Times
<1>2. \A s \in Services : IsCache(cache[s], now)'
  BY <1>1, LaterIsCache DEF IInv
<1>3. TypeOK'
  BY <1>1 DEF IInv, TypeOK
<1>4. Remembered' /\ NewestCached'
  BY <1>1 DEF IInv, Remembered, NewestCached
<1>5. NoneOfTheFuture'
  <2>1. \A r \in Requests : \A i \in DOMAIN answers[r] :
           answers[r][i].state = "ok" => answers[r][i].value.at \in Nat
    <3> SUFFICES ASSUME NEW r \in Requests, NEW i \in DOMAIN answers[r], answers[r][i].state = "ok"
                 PROVE  answers[r][i].value.at \in Nat
      OBVIOUS
    <3>1. answers[r][i] \in Answers
      BY DEF IInv, TypeOK
    <3>2. PICK v \in Value : answers[r][i] = Given(v)
      BY <3>1 DEF Answers, Pending, Failed
    <3> QED
      BY <3>2 DEF Given, Value, Times
  <2> QED
    BY <1>1, <2>1 DEF IInv, NoneOfTheFuture
<1>6. Fits /\ Evicts
  BY <1>1 DEF Fits, Evicts, Hit
<1> QED
  BY <1>2, <1>3, <1>4, <1>5, <1>6 DEF IInv

LEMMA EngineFailsKeeps ==
    ASSUME IInv, NEW r \in Requests, NEW i \in DOMAIN answers[r], EngineFails(r, i)
    PROVE  IInv' /\ Fits /\ Evicts
<1>1. /\ UNCHANGED <<now, cache, items, used>>
      /\ answers' = [answers EXCEPT ![r][i] = Failed]
      /\ Failed.state = "error"
  BY DEF EngineFails, Failed
<1>2. /\ answers' = [x \in Requests |-> answers'[x]]
      /\ \A x \in Requests : /\ answers'[x] \in [DOMAIN items[x] -> Answers]
                            /\ DOMAIN answers'[x] = DOMAIN answers[x]
      /\ \A x \in Requests : \A j \in DOMAIN answers[x] :
            answers'[x][j] = IF x = r /\ j = i THEN Failed ELSE answers[x][j]
  BY <1>1 DEF IInv, TypeOK, Answers
<1>3. TypeOK'
  BY <1>1, <1>2 DEF IInv, TypeOK
<1>4. Remembered' /\ \A s \in Services : IsCache(cache[s], now)'
  BY <1>1 DEF IInv, Remembered
<1>5. NoneOfTheFuture' /\ NewestCached'
  BY <1>1, <1>2 DEF IInv, NoneOfTheFuture, NewestCached
<1>6. Fits /\ Evicts
  BY <1>1, <1>2 DEF Fits, Evicts, Hit
<1> QED
  BY <1>3, <1>4, <1>5, <1>6 DEF IInv

LEMMA ReturnKeeps ==
    ASSUME IInv, NEW r \in Requests, Return(r)
    PROVE  IInv' /\ Fits /\ Evicts
<1>1. /\ UNCHANGED <<now, cache, used>>
      /\ items' = [items EXCEPT ![r] = Empty]
      /\ answers' = [answers EXCEPT ![r] = Empty]
      /\ DOMAIN Empty = {} /\ Empty \in [{} -> Answers]
  BY DEF Return, Empty
<1>2. /\ items' \in [Requests -> {Empty} \cup Batches]
      /\ answers' = [x \in Requests |-> answers'[x]]
      /\ \A x \in Requests :
            /\ answers'[x] = IF x = r THEN Empty ELSE answers[x]
            /\ items'[x] = IF x = r THEN Empty ELSE items[x]
  BY <1>1 DEF IInv, TypeOK
<1>3. TypeOK'
  BY <1>1, <1>2 DEF IInv, TypeOK
<1>4. Remembered' /\ \A s \in Services : IsCache(cache[s], now)'
  BY <1>1 DEF IInv, Remembered
<1>5. NoneOfTheFuture' /\ NewestCached'
  BY <1>1, <1>2 DEF IInv, NoneOfTheFuture, NewestCached
<1>6. Fits /\ Evicts
  BY <1>1, <1>2 DEF Fits, Evicts, Hit
<1> QED
  BY <1>3, <1>4, <1>5, <1>6 DEF IInv

LEMMA CleanupKeepsIInv ==
    ASSUME IInv, Cleanup
    PROVE  IInv' /\ Fits /\ Evicts
<1>1. /\ UNCHANGED <<now, items, answers>> /\ now \in Times
      /\ Uses("shared", {})
      /\ cache' = [s \in Services |-> AfterCleanup(cache[s], now)]
      /\ "shared" \in Services
  BY DEF IInv, TypeOK, Cleanup, Services
<1>2. \A s \in Services : /\ cache'[s] = AfterCleanup(cache[s], now)
                         /\ IsCache(cache[s], now)
  BY <1>1 DEF IInv
<1>3. \A s \in Services :
         /\ IsCache(cache'[s], now)
         /\ DOMAIN cache'[s] = {k \in DOMAIN cache[s] : now < cache[s][k].exp}
         /\ \A k \in DOMAIN cache'[s] : cache'[s][k] = cache[s][k]
  BY <1>1, <1>2, CleanupKeeps
<1>4. /\ Remembered'
      /\ used' \in [Services -> [Keys -> {Never} \cup Times]]
  <2>1. \A x \in Services : \A k \in DOMAIN cache'[x] :
           IF x = "shared" /\ k \in {}
           THEN cache'[x][k].last = now
           ELSE k \in DOMAIN cache[x] /\ cache'[x][k].last = cache[x][k].last
    BY <1>3
  <2>2. TypeOK /\ Remembered /\ now' = now
    BY <1>1 DEF IInv
  <2> QED
    BY <1>1, <2>1, <2>2, UsesRemember
<1>5. /\ cache' = [s \in Services |-> cache'[s]]
      /\ \A s \in Services : IsCache(cache[s], now)'
  BY <1>1, <1>3
<1>6. TypeOK'
  BY <1>1, <1>4, <1>5, CachesAreTyped DEF IInv, TypeOK
<1>7. NoneOfTheFuture'
  BY <1>1 DEF IInv, NoneOfTheFuture
<1>8. NewestCached'
  BY <1>1, <1>3 DEF IInv, NewestCached
<1>9. Fits /\ Evicts
  BY <1>1, <1>3 DEF Fits, Evicts, Hit
<1> QED
  BY <1>4, <1>5, <1>6, <1>7, <1>8, <1>9 DEF IInv

LEMMA EngineAnswersKeeps ==
    ASSUME IInv, NEW r \in Requests, NEW i \in DOMAIN answers[r], EngineAnswers(r, i)
    PROVE  IInv' /\ Fits /\ Evicts
<1> DEFINE s == ServiceOf(r)
           k == items[r][i]
           v == [of |-> k, at |-> now]
<1>1. /\ UNCHANGED <<now, items>> /\ now \in Times /\ now \in Nat /\ TTL \in Nat \ {0}
      /\ answers' = [answers EXCEPT ![r][i] = Given(v)]
      /\ Uses(s, {k})
      /\ cache = [x \in Services |-> cache[x]]
  BY ChatAssumption DEF IInv, TypeOK, EngineAnswers, Times
<1>2. s \in Services /\ k \in Keys /\ v \in Value
  BY <1>1, ServiceIsOne, ItemsAreKeys DEF IInv, Value
<1>3. \A x \in Services : IsCache(cache[x], now)
  BY DEF IInv
<1>4. /\ answers' = [x \in Requests |-> answers'[x]]
      /\ \A x \in Requests : DOMAIN answers'[x] = DOMAIN answers[x]
      /\ \A x \in Requests : \A j \in DOMAIN answers[x] :
            answers'[x][j] = IF x = r /\ j = i THEN Given(v) ELSE answers[x][j]
  BY <1>1 DEF IInv, TypeOK
<1>5. Given(v) \in Answers /\ Given(v).state = "ok" /\ Given(v).value = v
      /\ v.of = k /\ v.at = now
  BY <1>2 DEF Answers, Given
<1> HIDE DEF s, k, v
\* What the caches are afterwards, whether the answer was stored or not.
<1>6. /\ cache' = [x \in Services |-> cache'[x]]
      /\ \A x \in Services \ {s} : cache'[x] = cache[x]
      /\ \A x \in Services : IsCache(cache'[x], now)
      /\ k \in DOMAIN cache'[s] => cache'[s][k].value = v /\ cache'[s][k].last = now
      /\ \A x \in DOMAIN cache'[s] \ {k} : x \in DOMAIN cache[s] /\ cache'[s][x] = cache[s][x]
      /\ \A x \in DOMAIN cache[s] \ DOMAIN cache'[s] :
            \A y \in DOMAIN cache'[s] \ {k} : cache[s][x].last <= cache[s][y].last
  <2>1. CASE k \in Streaming
    <3>1. cache' = cache
      BY <2>1 DEF EngineAnswers, k
    <3>2. k \notin DOMAIN cache[s]
      BY <1>2, <1>3, <2>1 DEF IsCache
    <3> QED
      BY <1>1, <1>2, <1>3, <3>1, <3>2
  <2>2. CASE k \notin Streaming
    <3>1. PICK d \in AfterSet(cache[s], k, v, now, TTL) : cache' = [cache EXCEPT ![s] = d]
      BY <2>2 DEF EngineAnswers, s, k, v
    <3>2. k \in Keys \ Streaming /\ IsCache(cache[s], now)
      BY <1>2, <1>3, <2>2
    <3>3. d \in AfterSet(cache[s], k, [of |-> k, at |-> now], now, TTL)
      BY <3>1 DEF v
    <3>4. /\ IsCache(d, now)
          /\ k \in DOMAIN d /\ d[k].value = v /\ d[k].last = now
          /\ \A x \in DOMAIN d \ {k} : x \in DOMAIN cache[s] /\ d[x] = cache[s][x]
          /\ \A x \in DOMAIN cache[s] \ DOMAIN d :
                \A y \in DOMAIN d \ {k} : cache[s][x].last <= cache[s][y].last
      BY <1>1, <3>2, <3>3, SetKeeps DEF v
    <3>5. /\ cache' = [x \in Services |-> cache'[x]] /\ cache'[s] = d
          /\ \A x \in Services \ {s} : cache'[x] = cache[x]
      BY <1>1, <1>2, <3>1
    <3> QED
      BY <1>3, <3>4, <3>5
  <2> QED
    BY <2>1, <2>2
<1>7. /\ Remembered'
      /\ used' \in [Services -> [Keys -> {Never} \cup Times]]
  <2>1. \A x \in Services : \A y \in DOMAIN cache'[x] :
           IF x = s /\ y \in {k}
           THEN cache'[x][y].last = now
           ELSE y \in DOMAIN cache[x] /\ cache'[x][y].last = cache[x][y].last
    BY <1>6
  <2>2. TypeOK /\ Remembered /\ now' = now
    BY <1>1 DEF IInv
  <2> QED
    BY <1>1, <1>2, <2>1, <2>2, UsesRemember
<1>8. \A x \in Services : IsCache(cache[x], now)'
  BY <1>1, <1>6
<1>9. TypeOK'
  <2>1. \A x \in Requests : answers'[x] \in [DOMAIN items[x] -> Answers]
    BY <1>1, <1>4, <1>5 DEF IInv, TypeOK
  <2>2. \A x \in Services : /\ DOMAIN cache'[x] \subseteq Keys \ Streaming
                           /\ cache'[x] \in [DOMAIN cache'[x] -> Entries]
    BY <1>6, <1>8, CachesAreTyped
  <2>3. /\ now \in Times
        /\ items \in [Requests -> {Empty} \cup Batches]
    BY DEF IInv, TypeOK
  <2> QED
    BY <1>1, <1>4, <1>6, <1>7, <2>1, <2>2, <2>3 DEF TypeOK
<1>10. NoneOfTheFuture'
  BY <1>1, <1>4, <1>5 DEF IInv, NoneOfTheFuture
<1>11. NewestCached'
  <2> SUFFICES ASSUME Shared, NEW q \in Requests, NEW j \in DOMAIN answers'[q],
                      answers'[q][j].state = "ok", items[q][j] \in DOMAIN cache'["shared"]
               PROVE  cache'["shared"][items[q][j]].value.at >= answers'[q][j].value.at
    BY <1>1 DEF NewestCached
  <2>1. s = "shared" /\ j \in DOMAIN answers[q]
    BY <1>4 DEF s, ServiceOf
  <2>2. CASE items[q][j] = k
    <3>1. cache'["shared"][items[q][j]].value.at = now
      BY <1>5, <1>6, <2>1, <2>2
    <3>2. answers'[q][j].value.at <= now
      BY <1>1, <1>4, <1>10 DEF NoneOfTheFuture
    <3>3. answers'[q][j] \in Answers
      BY <1>4, <1>9 DEF TypeOK
    <3>4. answers'[q][j].value.at \in Nat
      BY <3>3 DEF Answers, Pending, Failed, Given, Value, Times
    <3> QED
      BY <1>1, <3>1, <3>2, <3>4
  <2>3. CASE items[q][j] # k
    <3>1. ~(q = r /\ j = i)
      BY <2>3 DEF k
    <3>2. /\ answers'[q][j] = answers[q][j]
          /\ items[q][j] \in DOMAIN cache["shared"]
          /\ cache'["shared"][items[q][j]] = cache["shared"][items[q][j]]
      BY <1>4, <1>6, <2>1, <2>3, <3>1
    <3> QED
      BY <2>1, <3>2 DEF IInv, NewestCached
  <2> QED
    BY <2>2, <2>3
<1>12. Fits
  <2> SUFFICES ASSUME NEW q \in Requests, NEW j \in DOMAIN answers'[q],
                      j \in DOMAIN answers[q] => answers[q][j] # answers'[q][j]
               PROVE  answers'[q][j].value.of = items'[q][j] /\ now < answers'[q][j].value.at + TTL
    BY DEF Fits
  <2>1. q = r /\ j = i
    BY <1>4
  <2>2. answers'[q][j] = Given(v) /\ items'[q][j] = k
    BY <1>1, <1>4, <2>1 DEF k
  <2> QED
    BY <1>1, <1>5, <2>2
<1>13. Evicts
  <2> SUFFICES ASSUME NEW x \in Services, NEW o \in Keys, Hit(cache[x], o, now), o \notin DOMAIN cache'[x],
                      NEW y \in DOMAIN cache'[x]
               PROVE  used[x][o] <= used'[x][y]
    BY DEF Evicts
  <2>1. x = s /\ o \in DOMAIN cache[s]
    BY <1>6 DEF Hit
  <2>2. used[x][o] = cache[s][o].last /\ y \in Keys
    BY <1>6, <2>1 DEF IInv, Remembered, IsCache
  <2>3. used'[x][y] = cache'[s][y].last
    BY <1>7, <2>1, <2>2 DEF Remembered
  <2>4. CASE y = k
    <3>1. cache'[s][y].last = now /\ cache[s][o].last <= now
      BY <1>3, <1>6, <2>1, <2>4 DEF IsCache, Sound
    <3> QED
      BY <2>2, <2>3, <3>1
  <2>5. CASE y # k
    BY <1>6, <2>1, <2>2, <2>3, <2>5
  <2> QED
    BY <2>4, <2>5
<1> QED
  BY <1>7, <1>8, <1>9, <1>10, <1>11, <1>12, <1>13 DEF IInv

LEMMA ArriveKeeps ==
    ASSUME IInv, NEW r \in Requests, NEW ks \in Batches, Arrive(r, ks)
    PROVE  IInv' /\ Fits /\ Evicts
<1> DEFINE s == ServiceOf(r)
           c == IF Shared THEN cache[s] ELSE Empty
           K == Asked(ks) \ Streaming
           d == AfterGets(c, K, now)
           reply == [i \in DOMAIN ks |-> IF Found(c, ks[i]) THEN Given(c[ks[i]].value) ELSE Pending]
<1>1. /\ now' = now /\ now \in Times /\ now \in Nat
      /\ items[r] = Empty
      /\ items' = [items EXCEPT ![r] = ks]
      /\ answers' = [answers EXCEPT ![r] = reply]
      /\ cache' = [cache EXCEPT ![s] = d]
      /\ Uses(s, {k \in Asked(ks) : Found(c, k)})
  BY DEF IInv, TypeOK, Arrive, Times
<1>2. s \in Services
  BY ServiceIsOne
<1>3. IsCache(c, now) /\ \A x \in Services : IsCache(cache[x], now)
  BY <1>2, EmptyIsCache DEF IInv
<1>4. \A k : k \in K /\ Hit(c, k, now) <=> k \in Asked(ks) /\ Found(c, k)
  BY DEF Found
<1>5. ~Shared => DOMAIN c = {}
  BY DEF Empty
<1>6. /\ IsCache(d, now)
      /\ \A k : k \in DOMAIN d <=> k \in DOMAIN c /\ (k \in K => Hit(c, k, now))
      /\ \A k \in DOMAIN d : /\ d[k].value = c[k].value
                             /\ d[k].last = IF k \in K THEN now ELSE c[k].last
  <2> HIDE DEF c, K
  <2> QED
    BY <1>1, <1>3, GetsKeep
<1>7. \A i \in DOMAIN ks : ks[i] \in Keys /\ ks[i] \in Asked(ks)
  BY DEF Batches, Asked
<1>8. \A k : Found(c, k) => /\ k \in DOMAIN c /\ c[k].value \in Value
                           /\ c[k].value.of = k /\ c[k].exp = c[k].value.at + TTL
                           /\ c[k].value.at <= now /\ now < c[k].exp
  <2> SUFFICES ASSUME NEW k, Found(c, k)
               PROVE  /\ k \in DOMAIN c /\ c[k].value \in Value
                      /\ c[k].value.of = k /\ c[k].exp = c[k].value.at + TTL
                      /\ c[k].value.at <= now /\ now < c[k].exp
    OBVIOUS
  <2>1. k \in DOMAIN c /\ now < c[k].exp
    BY DEF Found, Hit
  <2>2. c[k] \in Entries /\ Sound(c, now)
    BY <1>3, <2>1 DEF IsCache
  <2>3. /\ c[k].value \in Value /\ c[k].value.of = k /\ c[k].exp = c[k].value.at + TTL
        /\ c[k].value.at <= c[k].last /\ c[k].last <= now
    BY <2>1, <2>2 DEF Entries, Sound
  <2>4. c[k].value.at \in Nat /\ c[k].last \in Nat
    BY <2>2 DEF Entries, Value, Times
  <2> HIDE DEF c
  <2> QED
    BY <1>1, <2>1, <2>3, <2>4
<1>9. /\ DOMAIN reply = DOMAIN ks
      /\ reply \in [DOMAIN ks -> Answers]
      /\ \A i \in DOMAIN ks : reply[i].state = "ok" =>
            /\ Found(c, ks[i]) /\ reply[i].value = c[ks[i]].value
  <2> HIDE DEF c
  <2> QED
    BY <1>8 DEF Answers, Given, Pending
<1>10. /\ cache' = [x \in Services |-> cache'[x]] /\ cache'[s] = d
       /\ \A x \in Services \ {s} : cache'[x] = cache[x]
       /\ \A x \in Services : IsCache(cache[x], now)'
  <2> HIDE DEF d
  <2> QED
    BY <1>1, <1>2, <1>3, <1>6 DEF IInv, TypeOK
<1>11. /\ answers' = [x \in Requests |-> answers'[x]] /\ answers'[r] = reply
       /\ items' \in [Requests -> {Empty} \cup Batches] /\ items'[r] = ks
       /\ \A x \in Requests \ {r} : answers'[x] = answers[x] /\ items'[x] = items[x]
  <2> HIDE DEF reply
  <2> QED
    BY <1>1 DEF IInv, TypeOK
<1> HIDE DEF s, d, K, reply
<1>12. /\ Remembered'
       /\ used' \in [Services -> [Keys -> {Never} \cup Times]]
  <2> DEFINE F == {k \in Asked(ks) : Found(c, k)}
  <2>1. \A x \in Services : \A k \in DOMAIN cache'[x] :
           IF x = s /\ k \in F
           THEN cache'[x][k].last = now
           ELSE k \in DOMAIN cache[x] /\ cache'[x][k].last = cache[x][k].last
    <3> SUFFICES ASSUME NEW k \in DOMAIN d
                 PROVE  IF k \in F THEN d[k].last = now
                        ELSE k \in DOMAIN cache[s] /\ d[k].last = cache[s][k].last
      BY <1>10
    <3>1. k \in DOMAIN c /\ (k \in K => Hit(c, k, now)) /\ d[k].last = IF k \in K THEN now ELSE c[k].last
      BY <1>6
    <3>2. k \in F <=> k \in K
      BY <1>4, <3>1
    <3>3. c = cache[s]
      BY <1>5, <3>1
    <3> HIDE DEF c, F
    <3> QED
      BY <3>1, <3>2, <3>3
  <2>2. TypeOK /\ Remembered /\ now' = now
    BY <1>1 DEF IInv
  <2>3. Uses(s, F)
    BY <1>1
  <2> HIDE DEF F
  <2> QED
    BY <1>2, <2>1, <2>2, <2>3, UsesRemember
<1>13. TypeOK'
  <2>1. \A x \in Requests : answers'[x] \in [DOMAIN items'[x] -> Answers]
    BY <1>9, <1>11 DEF IInv, TypeOK
  <2>2. \A x \in Services : /\ DOMAIN cache'[x] \subseteq Keys \ Streaming
                           /\ cache'[x] \in [DOMAIN cache'[x] -> Entries]
    BY <1>10, CachesAreTyped
  <2> QED
    BY <1>1, <1>10, <1>11, <1>12, <2>1, <2>2 DEF TypeOK
<1>14. NoneOfTheFuture'
  <2>1. \A i \in DOMAIN reply : reply[i].state = "ok" => reply[i].value.at <= now
    BY <1>8, <1>9
  <2> QED
    BY <1>1, <1>11, <2>1 DEF IInv, NoneOfTheFuture
<1>15. NewestCached'
  <2> SUFFICES ASSUME Shared, NEW q \in Requests, NEW j \in DOMAIN answers'[q],
                      answers'[q][j].state = "ok", items'[q][j] \in DOMAIN cache'["shared"]
               PROVE  cache'["shared"][items'[q][j]].value.at >= answers'[q][j].value.at
    BY DEF NewestCached
  <2>1. s = "shared" /\ c = cache["shared"] /\ cache'["shared"] = d
    BY <1>10 DEF s, ServiceOf
  <2>2. \A k \in DOMAIN d : k \in DOMAIN cache["shared"] /\ d[k].value = cache["shared"][k].value
    BY <1>6, <2>1
  <2>3. CASE q = r
    <3>1. items'[q][j] = ks[j] /\ answers'[q][j] = reply[j] /\ j \in DOMAIN ks
      BY <1>9, <1>11, <2>3
    <3>2. Found(c, ks[j]) /\ reply[j].value = c[ks[j]].value
      BY <1>9, <3>1
    <3>3. d[ks[j]].value = c[ks[j]].value /\ c[ks[j]].value.at \in Nat
      BY <1>6, <1>8, <2>1, <3>1, <3>2 DEF Value, Times
    <3> QED
      BY <2>1, <3>1, <3>2, <3>3
  <2>4. CASE q # r
    <3>1. items'[q] = items[q] /\ answers'[q] = answers[q]
      BY <1>11, <2>4
    <3> QED
      BY <2>1, <2>2, <3>1 DEF IInv, NewestCached
  <2> QED
    BY <2>3, <2>4
<1>16. Fits
  <2> SUFFICES ASSUME NEW q \in Requests, NEW j \in DOMAIN answers'[q], answers'[q][j].state = "ok",
                      j \in DOMAIN answers[q] => answers[q][j] # answers'[q][j]
               PROVE  answers'[q][j].value.of = items'[q][j] /\ now < answers'[q][j].value.at + TTL
    BY DEF Fits
  <2>1. q = r
    BY <1>11
  <2>2. j \in DOMAIN ks /\ items'[q][j] = ks[j] /\ answers'[q][j] = reply[j]
    BY <1>9, <1>11, <2>1
  <2>3. Found(c, ks[j]) /\ reply[j].value = c[ks[j]].value
    BY <1>9, <2>2
  <2> HIDE DEF c
  <2> QED
    BY <1>8, <2>2, <2>3
<1>17. Evicts
  <2> SUFFICES ASSUME Shared, NEW x \in Services, NEW o \in Keys,
                      Hit(cache[x], o, now), o \notin DOMAIN cache'[x]
               PROVE  FALSE
    BY DEF Evicts
  <2>1. x = s /\ c = cache[x] /\ o \in DOMAIN c /\ Hit(c, o, now)
    BY <1>10 DEF Hit
  <2> QED
    BY <1>6, <1>10, <2>1
<1> QED
  BY <1>10, <1>12, <1>13, <1>14, <1>15, <1>16, <1>17 DEF IInv
-----------------------------------------------------------------------------
LEMMA NextKeeps ==
    ASSUME IInv, [Next]_vars
    PROVE  IInv' /\ [Fits]_vars /\ [Evicts]_vars
<1>1. CASE Tick
  BY <1>1, TickKeeps
<1>2. CASE Cleanup
  BY <1>2, CleanupKeepsIInv
<1>3. ASSUME NEW r \in Requests, NEW ks \in Batches, Arrive(r, ks)
      PROVE  IInv' /\ Fits /\ Evicts
  BY <1>3, ArriveKeeps
<1>4. ASSUME NEW r \in Requests, NEW i \in DOMAIN answers[r], EngineAnswers(r, i) \/ EngineFails(r, i)
      PROVE  IInv' /\ Fits /\ Evicts
  BY <1>4, EngineAnswersKeeps, EngineFailsKeeps
<1>5. ASSUME NEW r \in Requests, Return(r)
      PROVE  IInv' /\ Fits /\ Evicts
  BY <1>5, ReturnKeeps
<1>6. CASE UNCHANGED vars
  BY <1>6 DEF vars, IInv, TypeOK, Remembered, NoneOfTheFuture, NewestCached
<1> QED
  BY <1>1, <1>2, <1>3, <1>4, <1>5, <1>6 DEF Next

(* IInv is inductive.                                                      *)
THEOREM Invariance == Spec => []IInv
<1>1. IInv /\ [Next]_vars => IInv'
  BY NextKeeps
<1> QED
  BY InitIInv, <1>1, PTL DEF Spec

(* The clock, every cache, every item and every answer keep their types;   *)
(* streamed requests leave nothing in a cache.                             *)
THEOREM TypesKept == Spec => []TypeOK
<1>1. IInv => TypeOK
  BY DEF IInv
<1> QED
  BY <1>1, Invariance, PTL

(* However many requests store their answers, and whatever they overwrite, *)
(* no cache has more than MAX_CACHE_ENTRIES entries.                       *)
THEOREM CachesStayBounded == Spec => []CacheBounded
<1>1. IInv => CacheBounded
  BY DEF IInv, IsCache, CacheBounded
<1> QED
  BY <1>1, Invariance, PTL

(* No cached answer is older than one that was given for its key to a      *)
(* request still in hand, in whatever order two requests that both missed  *)
(* were answered.                                                          *)
THEOREM CacheKeepsUp == Spec => []NewestCached
<1>1. IInv => NewestCached
  BY DEF IInv
<1> QED
  BY <1>1, Invariance, PTL

(* Every answer, cached or new, is the model's answer to the key that was  *)
(* asked for, and not TTL old.                                             *)
THEOREM AnswersAreFit == Spec => AnswersFit
<1>1. IInv /\ [Next]_vars => [Fits]_vars
  BY NextKeeps
<1>2. [][Fits]_vars <=> AnswersFit
  BY DEF Fits, AnswersFit
<1> QED
  BY <1>1, <1>2, Invariance, PTL DEF Spec

(* Of the entries that are still good only one used longest ago is given   *)
(* up for a new one; a hit and a store are uses.                           *)
THEOREM LeastRecentGoes == Spec => EvictsLeastRecent
<1>1. IInv /\ [Next]_vars => [Evicts]_vars
  BY NextKeeps
<1>2. [][Evicts]_vars <=> EvictsLeastRecent
  BY DEF Evicts, EvictsLeastRecent
<1> QED
  BY <1>1, <1>2, Invariance, PTL DEF Spec
=============================================================================
