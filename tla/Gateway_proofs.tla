--------------------------- MODULE Gateway_proofs ---------------------------
(***************************************************************************)
(* The idle watcher of Gateway against the clock, for every idle time,     *)
(* every period of the watcher and any number of callers and requests: it  *)
(* comes in time.  It looks rarely and sleeps longer after an unload, so   *)
(* IInv says where the sleep it is in ends: as long as a model is loaded,  *)
(* within an idle time and a look of the last arrival or the latest load,  *)
(* and in any case within that of now.                                     *)
(*                                                                         *)
(* The second half is the limiter, for any callers, paths, limits, any     *)
(* window and any resolution of the clock.  Its properties speak of what a *)
(* caller was let do, a step looks at the log.  LimiterInv says that the   *)
(* log is the end of that history and what it has forgotten left the       *)
(* window (Faithful), which is enough only because both are in order of    *)
(* time (InOrder); and that Retry-After, which drops the part of a second, *)
(* comes after the oldest entry has left it (Promised).                    *)
(***************************************************************************)
EXTENDS Gateway, FiniteSetTheorems, SequenceTheorems, WellFoundedInduction, TLAPS

Clocks == /\ now \in Nat /\ last \in 0 .. now /\ lastLoad \in 0 .. now
          /\ wake \in Nat /\ now <= wake /\ wake <= now + Idle + Check

Objects == /\ engines \subseteq Kinds /\ loaded \subseteq engines
           /\ need \in [Requests -> Kinds \cup {"none"}]
           /\ use \in [Requests -> engines \cup {"none"}]

SleepEnds == loaded # {} => \/ wake <= last + Idle + Check
                            \/ wake <= lastLoad + Idle + Check

IInv == Clocks /\ Objects /\ SleepEnds
-----------------------------------------------------------------------------
LEMMA InitIInv == GatewayInit => IInv
BY GatewayAssumption
   DEF GatewayInit, Init, IInv, Clocks, Objects, SleepEnds, Kinds

(* Whatever the limiter decides, the clock stands and the timer is set     *)
(* back, which brings the end of the watcher's sleep nearer to it.         *)
LEMMA TouchKeeps ==
    ASSUME IInv, now' = now, Touch, UNCHANGED <<loaded, lastLoad>>
    PROVE  Clocks' /\ SleepEnds'
BY GatewayAssumption DEF IInv, Clocks, SleepEnds, Touch

LEMMA DecidedKeeps ==
    ASSUME IInv, now' = now, Touch, UNCHANGED routerVars
    PROVE  IInv'
BY TouchKeeps DEF IInv, Objects, routerVars

LEMMA ArriveKeeps ==
    ASSUME IInv, NEW r \in Requests, NEW h \in Hosts, NEW c \in Credentials, NEW p \in Paths,
           Arrive(r, h, c, p)
    PROVE  IInv'
<1>1. now' = now /\ Touch /\ UNCHANGED <<engines, loaded, use, lastLoad>>
  BY DEF Arrive, Admit
<1>2. PICK e \in Kinds : need' = [need EXCEPT ![r] = e]
  BY GatewayAssumption DEF Arrive
<1>3. Objects'
  BY <1>1, <1>2 DEF IInv, Objects
<1>4. QED
  BY <1>1, <1>3, TouchKeeps DEF IInv

(* A load may come long after the arrival, but starts the count anew.      *)
LEMMA InHandKeeps ==
    ASSUME IInv, NEW r \in Requests, GetEngine(r) \/ Load(r) \/ Answer(r)
    PROVE  IInv'
<1> USE DEF limiterVars, vars
<1>1. CASE GetEngine(r)
  <2>1. need[r] \in Kinds
    BY <1>1 DEF GetEngine, IInv, Objects
  <2>2. Objects'
    BY <1>1, <2>1 DEF GetEngine, IInv, Objects
  <2>3. QED
    BY <1>1, <2>2 DEF GetEngine, IInv, Clocks, SleepEnds
<1>2. CASE Load(r)
  <2>1. use[r] \in engines
    BY <1>2 DEF Load, IInv, Objects
  <2>2. Objects'
    BY <1>2, <2>1 DEF Load, IInv, Objects
  <2>3. QED
    BY <1>2, <2>2, GatewayAssumption DEF Load, IInv, Clocks, SleepEnds
<1>3. CASE Answer(r)
  BY <1>3 DEF Answer, IInv, Clocks, Objects, SleepEnds
<1>4. QED
  BY <1>1, <1>2, <1>3

(* The watcher's turn, and the clock's. *)
LEMMA WatcherKeeps ==
    ASSUME IInv, Look \/ Unload \/ Time
    PROVE  IInv'
<1> USE GatewayAssumption DEF limiterVars, vars, routerVars
<1>1. CASE Look
  BY <1>1 DEF IInv, Clocks, Objects, SleepEnds, Look, Due
<1>2. CASE Unload
  <2>1. loaded' = {}
    BY <1>2 DEF Unload, Dropped
  <2>2. Objects'
    BY <1>2, <2>1 DEF IInv, Objects, Unload
  <2>3. QED
    BY <1>2, <2>1, <2>2 DEF IInv, Clocks, SleepEnds, Unload
<1>3. CASE Time
  BY <1>3 DEF IInv, Clocks, Objects, SleepEnds, Time, Tick
<1>4. QED
  BY <1>1, <1>2, <1>3
-----------------------------------------------------------------------------
(* IInv is inductive. *)
THEOREM Invariance == GatewaySpec => []IInv
<1>1. ASSUME IInv, [GatewayNext]_gatewayVars PROVE IInv'
  <2>1. CASE Time \/ Look \/ Unload
    BY <1>1, <2>1, WatcherKeeps
  <2>2. CASE Public \/ \E c \in Credentials : Unauthorized(c)
    BY <1>1, <2>2, DecidedKeeps DEF Public, Unauthorized, limiterVars, vars
  <2>3. ASSUME NEW h \in Hosts, NEW c \in Credentials, NEW p \in Paths,
               TooMany(h, c, p) \/ WithoutEngine(h, c, p)
        PROVE  IInv'
    BY <1>1, <2>3, DecidedKeeps DEF TooMany, WithoutEngine, Refuse, Admit
  <2>4. ASSUME NEW h \in Hosts, NEW c \in Credentials, NEW p \in Paths,
               NEW r \in Requests, Arrive(r, h, c, p)
        PROVE  IInv'
    BY <1>1, <2>4, ArriveKeeps
  <2>5. CASE \E r \in Requests : GetEngine(r) \/ Load(r) \/ Answer(r)
    BY <1>1, <2>5, InHandKeeps
  <2>6. CASE UNCHANGED gatewayVars
    BY <1>1, <2>6 DEF IInv, Clocks, Objects, SleepEnds, gatewayVars, limiterVars,
                      vars, routerVars
  <2>7. QED
    BY <1>1, <2>1, <2>2, <2>3, <2>4, <2>5, <2>6 DEF GatewayNext
<1>2. QED
  BY <1>1, InitIInv, PTL DEF GatewaySpec

(* The models of an idle service are gone after the idle time and one      *)
(* look, whenever in the watcher's sleeps the last request came or loaded. *)
THEOREM IdleModelsAreFreed == GatewaySpec => []FreedInTime
<1>1. IInv => FreedInTime
  BY GatewayAssumption DEF IInv, Clocks, SleepEnds, FreedInTime
<1>2. QED
  BY <1>1, Invariance, PTL
-----------------------------------------------------------------------------
(* The limiter. *)

LimiterTypes == /\ now \in 0 .. MaxTime
                /\ log \in [Callers -> Seq(Nat)]
                /\ admitted \in [Callers -> Seq([at : Nat, path : Paths])]
                /\ promise \in [Callers -> [Paths -> Nat]]

\* Requests the log of a caller does not hold any more.
Forgotten(k) == Len(admitted[k]) - Len(log[k])

InOrder(k) == /\ \A i \in 1 .. Len(admitted[k]) : admitted[k][i].at <= now
              /\ \A i, j \in 1 .. Len(admitted[k]) :
                    i <= j => admitted[k][i].at <= admitted[k][j].at

Faithful(k) == /\ Len(log[k]) <= Len(admitted[k])
               /\ \A i \in 1 .. Len(log[k]) : log[k][i] = admitted[k][Forgotten(k) + i].at
               /\ \A i \in 1 .. Forgotten(k) : admitted[k][i].at + Window <= now

Promised(k) == \A p \in Paths :
                  Limit[p] = MaxLimit /\ promise[k][p] # 0 /\ Len(log[k]) = MaxLimit
                     => log[k][1] + Window < promise[k][p]

Within(k) == \A i \in 1 .. Len(admitted[k]) :
                Cardinality({j \in 1 .. i : admitted[k][j].at + Window > admitted[k][i].at})
                   <= Limit[admitted[k][i].path]

Fair(k) == InOrder(k) /\ Faithful(k) /\ Len(log[k]) <= MaxLimit /\ Promised(k) /\ Within(k)

LimiterInv == LimiterTypes /\ \A k \in Callers : Fair(k)
-----------------------------------------------------------------------------
(* A set of numbers has a least one. *)
LEMMA Least == ASSUME NEW S \in SUBSET Nat, S # {}
               PROVE  \E m \in S : \A k \in S : m <= k
<1> DEFINE R == OpToRel(<, Nat)
<1>1. IsWellFoundedOn(R, Nat)
  BY NatLessThanWellFounded
<1>2. \A x, y \in Nat : x < y => <<x, y>> \in R
  BY DEF OpToRel
<1> HIDE DEF R
<1>3. PICK m \in S : \A k \in S : ~(<<k, m>> \in R)
  BY <1>1, WFMin
<1>4. ASSUME NEW k \in S PROVE m <= k
  <2>1. ~(<<k, m>> \in R)
    BY <1>3
  <2>2. ~(k < m)
    BY <1>2, <2>1
  <2>3. QED
    BY <2>2
<1>5. QED
  BY <1>4

(* One of the paths has the largest limit: the one that fewest exceed. *)
LEMMA WidestPath == MaxLimit \in Nat /\ \A p \in Paths : Limit[p] <= MaxLimit
<1> DEFINE Wider(p) == {q \in Paths : Limit[q] > Limit[p]}
           counts == {Cardinality(Wider(p)) : p \in Paths}
<1>0. \A p \in Paths : Limit[p] \in Nat
  BY LimiterAssumption
<1>1. \A p \in Paths : /\ IsFiniteSet(Wider(p)) /\ Cardinality(Wider(p)) \in Nat
                       /\ Limit[p] \in Nat
  <2> SUFFICES ASSUME NEW p \in Paths
               PROVE  IsFiniteSet(Wider(p)) /\ Cardinality(Wider(p)) \in Nat
    BY LimiterAssumption
  <2>1. Wider(p) \in SUBSET Paths /\ IsFiniteSet(Paths)
    BY LimiterAssumption
  <2> HIDE DEF Wider
  <2>2. QED
    BY <2>1, FS_Subset, FS_CardinalityType
<1>2. counts \in SUBSET Nat /\ counts # {}
  <2> HIDE DEF Wider
  <2>1. QED
    BY <1>1, LimiterAssumption
<1>3. PICK p \in Paths : \A q \in Paths : Cardinality(Wider(p)) <= Cardinality(Wider(q))
  <2>1. PICK m \in counts : \A n \in counts : m <= n
    BY <1>2, Least
  <2> HIDE DEF Wider
  <2>2. QED
    BY <2>1
<1>4. ASSUME NEW q \in Paths PROVE Limit[q] <= Limit[p]
  <2> SUFFICES ASSUME Limit[q] > Limit[p] PROVE FALSE
    BY <1>0
  <2>1. Wider(q) \in SUBSET Wider(p)
    BY <1>0
  <2>2. q \in Wider(p) /\ q \notin Wider(q)
    BY <1>0
  <2> HIDE DEF Wider
  <2>3. /\ Cardinality(Wider(q)) <= Cardinality(Wider(p))
        /\ Cardinality(Wider(q)) # Cardinality(Wider(p))
    BY <1>1, <2>1, <2>2, FS_Subset
  <2>4. QED
    BY <1>1, <1>3, <2>3
<1>5. \E n \in {Limit[q] : q \in Paths} : \A q \in Paths : Limit[q] <= n
  BY <1>4
<1>6. MaxLimit \in {Limit[q] : q \in Paths} /\ \A q \in Paths : Limit[q] <= MaxLimit
  BY <1>5 DEF MaxLimit
<1>7. QED
  BY <1>1, <1>6

LEMMA InitLimiter == Init => LimiterInv
<1> SUFFICES ASSUME Init PROVE LimiterInv
  OBVIOUS
<1>1. LimiterTypes
  BY LimiterAssumption DEF Init, LimiterTypes, NoPromise
<1>2. ASSUME NEW k \in Callers PROVE Fair(k)
  <2>1. log[k] = <<>> /\ admitted[k] = <<>> /\ promise[k] = NoPromise
    BY <1>2 DEF Init
  <2>2. Promised(k)
    BY <2>1 DEF Promised, NoPromise
  <2>3. QED
    BY <2>1, <2>2, WidestPath DEF Fair, InOrder, Faithful, Forgotten, Within
<1>3. QED
  BY <1>1, <1>2 DEF LimiterInv
-----------------------------------------------------------------------------
(* A caller's log and history, entry by entry. *)
LEMMA LogFacts ==
    ASSUME LimiterInv, NEW k \in Callers
    PROVE  /\ now \in Nat /\ Window \in Nat \ {0}
           /\ log[k] \in Seq(Nat) /\ Len(log[k]) \in Nat /\ DOMAIN log[k] = 1 .. Len(log[k])
           /\ admitted[k] \in Seq([at : Nat, path : Paths])
           /\ Len(admitted[k]) \in Nat /\ DOMAIN admitted[k] = 1 .. Len(admitted[k])
           /\ Forgotten(k) \in Nat /\ Forgotten(k) + Len(log[k]) = Len(admitted[k])
           /\ \A i \in 1 .. Len(log[k]) :
                 log[k][i] \in Nat /\ log[k][i] = admitted[k][Forgotten(k) + i].at
           /\ \A i \in 1 .. Forgotten(k) : admitted[k][i].at + Window <= now
           /\ \A i \in 1 .. Len(admitted[k]) :
                 /\ admitted[k][i].at \in Nat /\ admitted[k][i].at <= now
                 /\ admitted[k][i].path \in Paths
           /\ \A i, j \in 1 .. Len(admitted[k]) :
                 i <= j => admitted[k][i].at <= admitted[k][j].at
<1> DEFINE m == Len(log[k])
           a == Len(admitted[k])
           f == Forgotten(k)
<1>1. now \in Nat /\ Window \in Nat \ {0} /\ InOrder(k) /\ Faithful(k)
  BY LimiterAssumption DEF LimiterInv, LimiterTypes, Fair
<1>2. log[k] \in Seq(Nat) /\ admitted[k] \in Seq([at : Nat, path : Paths])
  BY DEF LimiterInv, LimiterTypes
<1>3. m \in Nat /\ DOMAIN log[k] = 1 .. m /\ a \in Nat /\ DOMAIN admitted[k] = 1 .. a
  BY <1>2
<1>4. m <= a /\ f = a - m
  BY <1>1 DEF Faithful, Forgotten
<1>5. /\ \A i \in 1 .. m : log[k][i] = admitted[k][f + i].at
      /\ \A i \in 1 .. f : admitted[k][i].at + Window <= now
      /\ \A i \in 1 .. a : admitted[k][i].at <= now
      /\ \A i, j \in 1 .. a : i <= j => admitted[k][i].at <= admitted[k][j].at
  BY <1>1 DEF Faithful, InOrder
<1>6. \A i \in 1 .. m : log[k][i] \in Nat
  BY <1>2, ElementOfSeq
<1>7. ASSUME NEW i \in 1 .. a PROVE admitted[k][i].at \in Nat /\ admitted[k][i].path \in Paths
  <2>1. admitted[k][i] \in [at : Nat, path : Paths]
    BY <1>2, ElementOfSeq
  <2>2. QED
    BY <2>1
<1> HIDE DEF m, a, f
<1>8. f \in Nat /\ f + m = a
  BY <1>3, <1>4
<1>9. QED
  BY <1>1, <1>2, <1>3, <1>5, <1>6, <1>7, <1>8 DEF m, a, f

(* What is left of a log is its end: the entries that have left the window *)
(* come before those that have not.                                        *)
LEMMA ExpiredHead ==
    ASSUME LimiterInv, NEW k \in Callers
    PROVE  /\ Cardinality(Expired(k)) \in 0 .. Len(log[k])
           /\ Expired(k) = 1 .. Cardinality(Expired(k))
<1> DEFINE m == Len(log[k])
           a == Len(admitted[k])
           f == Forgotten(k)
           kept == {i \in 1 .. m + 1 : i = m + 1 \/ log[k][i] + Window > now}
<1>1. /\ now \in Nat /\ Window \in Nat
      /\ m \in Nat /\ DOMAIN log[k] = 1 .. m
      /\ a \in Nat /\ f \in Nat /\ f + m = a
      /\ \A i \in 1 .. m : log[k][i] \in Nat /\ log[k][i] = admitted[k][f + i].at
      /\ \A i, j \in 1 .. a : i <= j => admitted[k][i].at <= admitted[k][j].at
  BY LogFacts
<1>2. Expired(k) = {i \in 1 .. m : log[k][i] + Window <= now}
  BY <1>1 DEF Expired
<1> HIDE DEF m, a, f
<1>3. ASSUME NEW i \in 1 .. m, NEW j \in 1 .. m, i <= j
      PROVE  log[k][i] <= log[k][j]
  <2>1. f + i \in 1 .. a /\ f + j \in 1 .. a /\ f + i <= f + j
    BY <1>1, <1>3
  <2>2. admitted[k][f + i].at <= admitted[k][f + j].at
    BY <1>1, <2>1
  <2>3. QED
    BY <1>1, <2>2
<1>4. kept \in SUBSET Nat /\ m + 1 \in kept
  BY <1>1
<1>5. PICK e \in kept : \A i \in kept : e <= i
  BY <1>4, Least
<1>6. e \in 1 .. m + 1 /\ e - 1 \in 0 .. m /\ e \in Nat
  BY <1>1
<1>7. ASSUME NEW i \in 1 .. m PROVE log[k][i] + Window <= now <=> i \in 1 .. e - 1
  <2>1. CASE i < e
    <3>1. i \notin kept
      BY <1>1, <1>5, <1>6, <2>1
    <3>2. ~(log[k][i] + Window > now)
      BY <1>1, <3>1
    <3>3. QED
      BY <1>1, <1>6, <2>1, <3>2
  <2>2. CASE ~(i < e)
    <3>1. e \in 1 .. m /\ e <= i
      BY <1>1, <1>6, <2>2
    <3>2. log[k][e] + Window > now
      BY <1>1, <3>1
    <3>3. log[k][e] <= log[k][i]
      BY <1>3, <3>1
    <3>4. QED
      BY <1>1, <1>6, <2>2, <3>1, <3>2, <3>3
  <2>3. QED
    BY <2>1, <2>2
<1>8. Expired(k) = 1 .. e - 1
  <2>1. 1 .. e - 1 \subseteq 1 .. m
    BY <1>1, <1>6
  <2>2. QED
    BY <1>2, <1>7, <2>1
<1>9. Cardinality(1 .. e - 1) = e - 1
  <2>1. 1 \in Int /\ e - 1 \in Int
    BY <1>1, <1>6
  <2>2. Cardinality(1 .. e - 1) = IF 1 > e - 1 THEN 0 ELSE (e - 1) - 1 + 1
    BY <2>1, FS_Interval
  <2>3. QED
    BY <1>1, <1>6, <2>2
<1>10. QED
  BY <1>6, <1>8, <1>9 DEF m

\* The requests of a caller that have left the window.
Left(k) == Len(admitted[k]) - Len(Recent(k))

(* And it holds the requests that were let through within the window.      *)
LEMMA RecentFaithful ==
    ASSUME LimiterInv, NEW k \in Callers
    PROVE  /\ Recent(k) \in Seq(Nat) /\ Len(Recent(k)) \in 0 .. Len(log[k])
           /\ Left(k) \in Nat /\ Left(k) + Len(Recent(k)) = Len(admitted[k])
           /\ Len(Recent(k)) = Len(log[k]) => Recent(k) = log[k]
           /\ \A i \in 1 .. Len(Recent(k)) :
                 Recent(k)[i] \in Nat /\ Recent(k)[i] = admitted[k][Left(k) + i].at
           /\ \A i \in 1 .. Left(k) : admitted[k][i].at + Window <= now
           /\ \A i \in Left(k) + 1 .. Len(admitted[k]) : admitted[k][i].at + Window > now
<1> DEFINE r == Len(Recent(k))
           a == Len(admitted[k])
           d == Left(k)
           m == Len(log[k])
           n == Cardinality(Expired(k))
           f == Forgotten(k)
<1>1. /\ now \in Nat /\ Window \in Nat
      /\ log[k] \in Seq(Nat) /\ m \in Nat /\ DOMAIN log[k] = 1 .. m
      /\ a \in Nat /\ f \in Nat /\ f + m = a
      /\ \A i \in 1 .. m : log[k][i] \in Nat /\ log[k][i] = admitted[k][f + i].at
      /\ \A i \in 1 .. f : admitted[k][i].at + Window <= now
      /\ \A i \in 1 .. a : admitted[k][i].at \in Nat
  BY LogFacts
<1>2. n \in 0 .. m /\ Expired(k) = 1 .. n
  BY ExpiredHead
<1>3. Recent(k) = SubSeq(log[k], n + 1, m)
  BY DEF Recent
<1>4. \A i \in 1 .. m : i \in Expired(k) <=> log[k][i] + Window <= now
  BY <1>1 DEF Expired
<1>5. /\ Recent(k) \in Seq(Nat) /\ Len(Recent(k)) = m - n
      /\ \A i \in 1 .. m - n : Recent(k)[i] = log[k][n + i]
  <2> HIDE DEF m, n
  <2>1. n + 1 \in Int /\ m \in Int /\ \A i \in n + 1 .. m : log[k][i] \in Nat
    BY <1>1, <1>2
  <2> DEFINE s == SubSeq(log[k], n + 1, m)
  <2>2. /\ s \in Seq(Nat) /\ Len(s) = IF n + 1 <= m THEN m - (n + 1) + 1 ELSE 0
        /\ \A i \in 1 .. m - (n + 1) + 1 : s[i] = log[k][(n + 1) + i - 1]
    BY <2>1, SubSeqProperties
  <2> HIDE DEF s
  <2>3. Len(s) = m - n
    <3>1. m \in Nat /\ n \in 0 .. m
      BY <1>1, <1>2
    <3>2. m - n = IF n + 1 <= m THEN m - (n + 1) + 1 ELSE 0
      BY <3>1
    <3>3. QED
      BY <2>2, <3>2
  <2>4. ASSUME NEW i \in 1 .. m - n PROVE s[i] = log[k][n + i]
    <3>1. i \in 1 .. m - (n + 1) + 1 /\ (n + 1) + i - 1 = n + i
      BY <1>1, <1>2
    <3>2. QED
      BY <2>2, <3>1
  <2>5. QED
    BY <1>3, <2>2, <2>3, <2>4 DEF s
<1>6. r = m - n /\ d = a - r
  BY <1>5 DEF Left
<1> HIDE DEF m, n, f, r, a, d
<1>7. r \in 0 .. m
  BY <1>1, <1>2, <1>6
<1>8. d = f + n /\ d \in Nat /\ d + r = a
  BY <1>1, <1>2, <1>6, <1>7
<1>9. ASSUME NEW i \in 1 .. r
      PROVE  Recent(k)[i] \in Nat /\ Recent(k)[i] = admitted[k][d + i].at
  <2>1. n + i \in 1 .. m /\ f + (n + i) = d + i
    BY <1>1, <1>2, <1>6, <1>7, <1>8
  <2>2. Recent(k)[i] = log[k][n + i]
    BY <1>5, <1>6, <1>7
  <2>3. log[k][n + i] \in Nat /\ log[k][n + i] = admitted[k][f + (n + i)].at
    BY <1>1, <2>1
  <2>4. QED
    BY <2>1, <2>2, <2>3
<1>10. ASSUME NEW i \in 1 .. a
      PROVE  admitted[k][i].at + Window <= now <=> i <= d
  <2>1. CASE i <= f
    BY <1>1, <1>2, <1>8, <2>1
  <2>2. CASE i > f
    <3>1. i - f \in 1 .. m /\ i = f + (i - f)
      BY <1>1, <2>2
    <3>2. PICK j \in 1 .. m : i = f + j
      BY <3>1
    <3>3. log[k][j] = admitted[k][i].at
      BY <1>1, <3>2
    <3>4. log[k][j] + Window <= now <=> j \in 1 .. n
      BY <1>2, <1>4
    <3>5. j \in 1 .. n <=> i <= d
      BY <1>1, <1>2, <1>8, <3>2
    <3>6. QED
      BY <3>3, <3>4, <3>5
  <2>3. QED
    BY <1>1, <2>1, <2>2
<1>11. \A i \in 1 .. d : i \in 1 .. a /\ i <= d
  BY <1>1, <1>6, <1>7, <1>8
<1>12. \A i \in d + 1 .. a : i \in 1 .. a /\ ~(i <= d)
  BY <1>1, <1>8
<1>13. r = m => Recent(k) = log[k]
  <2> SUFFICES ASSUME r = m PROVE Recent(k) = log[k]
    OBVIOUS
  <2>1. n = 0
    BY <1>1, <1>2, <1>6, <1>7
  <2>2. ASSUME NEW i \in 1 .. m PROVE Recent(k)[i] = log[k][i]
    <3>1. i \in 1 .. m - n /\ n + i = i
      BY <1>1, <2>1
    <3>2. QED
      BY <1>5, <3>1
  <2>3. QED
    BY <1>1, <1>5, <2>1, <2>2, SeqEqual DEF m
<1>14. \A i \in 1 .. d : admitted[k][i].at + Window <= now
  BY <1>10, <1>11
<1>15. ASSUME NEW i \in d + 1 .. a PROVE admitted[k][i].at + Window > now
  <2>1. i \in 1 .. a /\ ~(i <= d)
    BY <1>12
  <2>2. ~(admitted[k][i].at + Window <= now) /\ admitted[k][i].at \in Nat
    BY <1>1, <1>10, <2>1
  <2>3. QED
    BY <1>1, <2>2
<1>16. QED
  BY <1>5, <1>7, <1>8, <1>9, <1>13, <1>14, <1>15 DEF m, a, r, d

(* What the window holds for a caller. *)
LEMMA WindowCounted ==
    ASSUME LimiterInv, NEW k \in Callers
    PROVE  Count(k, now) = Len(Recent(k))
<1> DEFINE a == Len(admitted[k])
           r == Len(Recent(k))
           d == Left(k)
<1>1. /\ now \in Nat /\ Window \in Nat /\ a \in Nat /\ DOMAIN admitted[k] = 1 .. a
      /\ \A i \in 1 .. a : admitted[k][i].at \in Nat /\ admitted[k][i].at <= now
  BY LogFacts
<1>2. /\ r \in 0 .. Len(log[k]) /\ d \in Nat /\ d + r = a
      /\ \A i \in 1 .. d : admitted[k][i].at + Window <= now
      /\ \A i \in d + 1 .. a : admitted[k][i].at + Window > now
  BY RecentFaithful
<1>3. Count(k, now) = Cardinality({i \in 1 .. a : admitted[k][i].at <= now
                                                  /\ admitted[k][i].at + Window > now})
  BY <1>1 DEF Count
<1>4. r \in Nat
  BY <1>2, LogFacts
<1> HIDE DEF a, d, r
<1>5. {i \in 1 .. a : admitted[k][i].at <= now /\ admitted[k][i].at + Window > now} = d + 1 .. a
  <2>1. \A i \in 1 .. a : i \in 1 .. d \/ i \in d + 1 .. a
    BY <1>1, <1>2
  <2>2. \A i \in d + 1 .. a : i \in 1 .. a
    BY <1>1, <1>2
  <2>3. \A i \in 1 .. d : ~(admitted[k][i].at + Window > now)
    <3> TAKE i \in 1 .. d
    <3>1. i \in 1 .. a
      BY <1>1, <1>2, <1>4
    <3>2. QED
      BY <1>1, <1>2, <3>1
  <2>4. QED
    BY <1>1, <1>2, <2>1, <2>2, <2>3
<1>6. d + 1 \in Int /\ a \in Int
  BY <1>1, <1>2
<1>7. Cardinality(d + 1 .. a) = IF d + 1 > a THEN 0 ELSE a - (d + 1) + 1
  BY <1>6, FS_Interval
<1>8. Cardinality(d + 1 .. a) = r
  BY <1>1, <1>2, <1>4, <1>7
<1>9. QED
  BY <1>3, <1>5, <1>8 DEF r
-----------------------------------------------------------------------------
(* Time passes, or another caller is served. *)
LEMMA OthersStayFair ==
    ASSUME LimiterInv, NEW k \in Callers, now' \in Nat, now <= now',
           log'[k] = log[k], admitted'[k] = admitted[k], promise'[k] = promise[k]
    PROVE  Fair(k)'
<1>1. Fair(k) /\ now \in Nat /\ Window \in Nat
  BY LogFacts DEF LimiterInv
<1>2. Forgotten(k)' = Forgotten(k)
  BY DEF Forgotten
<1>3. /\ \A i \in 1 .. Len(admitted[k]) : admitted[k][i].at \in Nat /\ admitted[k][i].at <= now
      /\ \A i \in 1 .. Forgotten(k) : i \in 1 .. Len(admitted[k])
  <2>1. /\ \A i \in 1 .. Len(admitted[k]) : admitted[k][i].at \in Nat /\ admitted[k][i].at <= now
        /\ Forgotten(k) \in Nat /\ Forgotten(k) + Len(log[k]) = Len(admitted[k])
        /\ Len(log[k]) \in Nat
    BY LogFacts
  <2>2. QED
    BY <2>1
<1>4. InOrder(k)'
  BY <1>1, <1>3 DEF Fair, InOrder
<1>5. Faithful(k)'
  <2>1. \A i \in 1 .. Forgotten(k) : admitted[k][i].at + Window <= now'
    BY <1>1, <1>3 DEF Fair, Faithful
  <2>2. QED
    BY <1>1, <1>2, <2>1 DEF Fair, Faithful
<1>6. Len(log[k])' <= MaxLimit /\ Promised(k)' /\ Within(k)'
  BY <1>1 DEF Fair, Promised, Within
<1>7. QED
  BY <1>4, <1>5, <1>6 DEF Fair

LEMMA CallersCount ==
    ASSUME NEW h \in Hosts, NEW c \in Credentials, Authorized(c)
    PROVE  CallerOf(h, c) \in Callers
BY DEF Authorized, CallerOf, Callers

(* A whole number of seconds and one more is longer than what the part of  *)
(* a second was dropped from: the '+ 1' is needed, and it is enough.       *)
LEMMA SecondsCover ==
    ASSUME NEW S \in Nat \ {0}, NEW x \in Nat
    PROVE  x \div S \in Nat /\ S * ((x \div S) + 1) \in Nat /\ x < S * ((x \div S) + 1)
<1>1. x \div S \in Nat /\ x % S \in 0 .. S - 1 /\ x = (S * (x \div S)) + (x % S)
  BY Z3
<1> DEFINE q == x \div S
           m == x % S
<1> HIDE DEF q, m
<1>2. q \in Nat /\ m \in 0 .. S - 1 /\ x = (S * q) + m
  BY <1>1 DEF q, m
<1>3. S * (q + 1) = (S * q) + S /\ S * q \in Nat
  BY <1>2
<1>4. q \in Nat /\ S * (q + 1) \in Nat /\ x < S * (q + 1)
  BY <1>2, <1>3
<1>5. QED
  BY <1>4 DEF q

(* A refusal forgets what has left the window, and its promise comes after *)
(* the moment the oldest entry has.                                        *)
LEMMA RefuseKeeps ==
    ASSUME LimiterInv, NEW h \in Hosts, NEW c \in Credentials, NEW p \in Paths, Refuse(h, c, p)
    PROVE  LimiterInv'
<1> DEFINE k == CallerOf(h, c)
           r == Len(Recent(k))
           d == Left(k)
           wait == now + Second * RetryAfter(k)
<1>1. k \in Callers
  BY CallersCount DEF Refuse
<1>2. /\ r >= Limit[p] /\ log' = [log EXCEPT ![k] = Recent(k)]
      /\ promise' = [promise EXCEPT ![k][p] = wait] /\ UNCHANGED <<now, admitted>>
  BY DEF Refuse
<1> HIDE DEF k
<1>3. /\ now \in Nat /\ Window \in Nat /\ Len(log[k]) \in Nat /\ Len(admitted[k]) \in Nat
  BY <1>1, LogFacts
<1>4. /\ Recent(k) \in Seq(Nat) /\ r \in 0 .. Len(log[k])
      /\ d \in Nat /\ d + r = Len(admitted[k])
      /\ r = Len(log[k]) => Recent(k) = log[k]
      /\ \A i \in 1 .. r : Recent(k)[i] \in Nat /\ Recent(k)[i] = admitted[k][d + i].at
      /\ \A i \in 1 .. d : admitted[k][i].at + Window <= now
      /\ \A i \in d + 1 .. Len(admitted[k]) : admitted[k][i].at + Window > now
  BY <1>1, RecentFaithful
<1>5. wait \in Nat /\ wait > Recent(k)[1] + Window /\ Recent(k)[1] \in Nat
  <2>1. Limit[p] \in Nat \ {0} /\ r \in Nat
    BY <1>3, <1>4, LimiterAssumption
  <2>2. 1 \in 1 .. r
    BY <1>2, <2>1
  <2>3. d + 1 \in d + 1 .. Len(admitted[k])
    BY <1>3, <1>4, <2>1, <2>2
  <2>4. Recent(k)[1] \in Nat /\ Recent(k)[1] + Window > now
    BY <1>4, <2>2, <2>3
  <2>5. Head(Recent(k)) = Recent(k)[1]
    BY <1>4, <2>2
  <2> DEFINE left == Window - (now - Recent(k)[1])
  <2>6. wait = now + Second * ((left \div Second) + 1)
    BY <2>5 DEF RetryAfter
  <2>7. left \in Nat /\ now + left = Recent(k)[1] + Window
    BY <1>3, <2>4
  <2> HIDE DEF left, wait
  <2>8. /\ Second * ((left \div Second) + 1) \in Nat
        /\ left < Second * ((left \div Second) + 1)
    BY <2>7, SecondsCover, LimiterAssumption
  <2> DEFINE told == Second * ((left \div Second) + 1)
  <2>9. told \in Nat /\ left < told /\ wait = now + told
    BY <2>6, <2>8
  <2> HIDE DEF told
  <2>10. QED
    BY <1>3, <2>4, <2>7, <2>9
<1> HIDE DEF wait
<1>6. LimiterTypes'
  BY <1>1, <1>2, <1>4, <1>5 DEF LimiterInv, LimiterTypes
<1>7. Fair(k)'
  <2>1. Fair(k) /\ log'[k] = Recent(k) /\ admitted'[k] = admitted[k]
    BY <1>1, <1>2 DEF LimiterInv, LimiterTypes
  <2>2. /\ promise'[k][p] = wait
        /\ \A q \in Paths \ {p} : promise'[k][q] = promise[k][q]
    BY <1>1, <1>2 DEF LimiterInv, LimiterTypes
  <2>3. InOrder(k)' /\ Within(k)'
    BY <1>2, <2>1 DEF Fair, InOrder, Within
  <2>4. Faithful(k)'
    <3>1. Forgotten(k)' = d
      BY <2>1 DEF Forgotten, Left
    <3>2. r <= Len(admitted[k])
      BY <1>3, <1>4
    <3>3. QED
      BY <1>2, <1>4, <2>1, <3>1, <3>2 DEF Faithful
  <2>5. Len(log[k])' <= MaxLimit
    <3>1. r <= Len(log[k]) /\ r \in Nat
      BY <1>3, <1>4
    <3>2. QED
      BY <1>3, <2>1, <3>1, WidestPath DEF Fair
  <2>6. Promised(k)'
    <3> SUFFICES ASSUME NEW q \in Paths, Limit[q] = MaxLimit, promise'[k][q] # 0, r = MaxLimit
                 PROVE  Recent(k)[1] + Window < promise'[k][q]
      BY <2>1 DEF Promised
    <3>1. CASE q = p
      BY <1>3, <1>5, <2>2, <3>1
    <3>2. CASE q # p
      <4>1. r = Len(log[k]) /\ Recent(k) = log[k]
        BY <1>3, <1>4, <2>1, WidestPath DEF Fair
      <4>2. QED
        BY <2>1, <2>2, <3>2, <4>1 DEF Fair, Promised
    <3>3. QED
      BY <3>1, <3>2
  <2>7. QED
    BY <2>3, <2>4, <2>5, <2>6 DEF Fair
<1>8. ASSUME NEW other \in Callers, other # k PROVE Fair(other)'
  <2>1. /\ log'[other] = log[other] /\ admitted'[other] = admitted[other]
        /\ promise'[other] = promise[other]
    BY <1>1, <1>2, <1>8 DEF LimiterInv, LimiterTypes
  <2>2. now' \in Nat /\ now <= now'
    BY <1>2, <1>3
  <2>3. QED
    BY <2>1, <2>2, OthersStayFair
<1>9. QED
  BY <1>6, <1>7, <1>8 DEF LimiterInv

LEMMA AdmitKeeps ==
    ASSUME LimiterInv, NEW h \in Hosts, NEW c \in Credentials, NEW p \in Paths, Admit(h, c, p)
    PROVE  LimiterInv'
<1> DEFINE k == CallerOf(h, c)
           r == Len(Recent(k))
           d == Left(k)
           a == Len(admitted[k])
           entry == [at |-> now, path |-> p]
<1>1. k \in Callers
  BY CallersCount DEF Admit
<1>2. /\ r < Limit[p] /\ log' = [log EXCEPT ![k] = Append(Recent(k), now)]
      /\ admitted' = [admitted EXCEPT ![k] = Append(admitted[k], entry)]
      /\ promise' = [promise EXCEPT ![k] = NoPromise] /\ UNCHANGED now
  BY DEF Admit
<1> HIDE DEF k
<1>3. /\ now \in Nat /\ Window \in Nat \ {0} /\ Len(log[k]) \in Nat /\ a \in Nat
      /\ admitted[k] \in Seq([at : Nat, path : Paths])
      /\ \A i \in 1 .. a : admitted[k][i].at \in Nat /\ admitted[k][i].at <= now
      /\ \A i, j \in 1 .. a : i <= j => admitted[k][i].at <= admitted[k][j].at
  BY <1>1, LogFacts
<1>4. /\ Recent(k) \in Seq(Nat) /\ r \in 0 .. Len(log[k])
      /\ d \in Nat /\ d + r = a
      /\ \A i \in 1 .. r : Recent(k)[i] \in Nat /\ Recent(k)[i] = admitted[k][d + i].at
      /\ \A i \in 1 .. d : admitted[k][i].at + Window <= now
      /\ \A i \in d + 1 .. a : admitted[k][i].at + Window > now
  BY <1>1, RecentFaithful
<1>5. entry \in [at : Nat, path : Paths] /\ entry.at = now /\ entry.path = p
  BY <1>3
<1> HIDE DEF entry
<1>6. LimiterTypes'
  <2>1. Append(Recent(k), now) \in Seq(Nat)
    BY <1>3, <1>4
  <2>2. Append(admitted[k], entry) \in Seq([at : Nat, path : Paths])
    BY <1>3, <1>5
  <2>3. NoPromise \in [Paths -> Nat]
    BY DEF NoPromise
  <2>4. QED
    BY <1>1, <1>2, <2>1, <2>2, <2>3 DEF LimiterInv, LimiterTypes
<1>7. /\ log'[k] = Append(Recent(k), now) /\ admitted'[k] = Append(admitted[k], entry)
      /\ promise'[k] = NoPromise
  BY <1>1, <1>2 DEF LimiterInv, LimiterTypes
<1>8. /\ Len(log'[k]) = r + 1 /\ log'[k][r + 1] = now
      /\ \A i \in 1 .. r : log'[k][i] = Recent(k)[i]
      /\ Len(admitted'[k]) = a + 1 /\ admitted'[k][a + 1] = entry
      /\ \A i \in 1 .. a : admitted'[k][i] = admitted[k][i]
  BY <1>3, <1>4, <1>7, AppendProperties
<1> HIDE DEF r, d, a
<1>9. r \in Nat /\ Limit[p] \in Nat /\ r + 1 <= Limit[p] /\ r + 1 <= MaxLimit
  <2>1. r \in Nat /\ Limit[p] \in Nat /\ Limit[p] <= MaxLimit /\ MaxLimit \in Nat
    BY <1>3, <1>4, LimiterAssumption, WidestPath
  <2>2. QED
    BY <1>2, <2>1 DEF r
<1>10. Forgotten(k)' = d
  <2>1. Forgotten(k)' = (a + 1) - (r + 1)
    BY <1>8 DEF Forgotten
  <2>2. QED
    BY <1>3, <1>4, <1>9, <2>1
<1>11. InOrder(k)'
  <2>1. \A i \in 1 .. a + 1 : i \in 1 .. a \/ i = a + 1
    BY <1>3
  <2>2. \A i \in 1 .. a + 1 : admitted'[k][i].at \in Nat /\ admitted'[k][i].at <= now
    <3> TAKE i \in 1 .. a + 1
    <3>1. CASE i \in 1 .. a
      <4>1. admitted'[k][i] = admitted[k][i]
        BY <1>8, <3>1
      <4>2. admitted[k][i].at \in Nat /\ admitted[k][i].at <= now
        BY <1>3, <3>1
      <4>3. QED
        BY <4>1, <4>2
    <3>2. CASE i = a + 1
      <4>1. admitted'[k][i] = entry
        BY <1>8, <3>2
      <4>2. QED
        BY <1>3, <1>5, <4>1
    <3>3. QED
      BY <2>1, <3>1, <3>2
  <2>3. ASSUME NEW i \in 1 .. a + 1, NEW j \in 1 .. a + 1, i <= j
        PROVE  admitted'[k][i].at <= admitted'[k][j].at
    <3>1. CASE j = a + 1
      BY <1>5, <1>8, <2>2, <3>1
    <3>2. CASE j \in 1 .. a
      <4>1. i \in 1 .. a
        BY <1>3, <2>3, <3>2
      <4>2. QED
        BY <1>3, <1>8, <2>3, <3>2, <4>1
    <3>3. QED
      BY <2>1, <3>1, <3>2
  <2>4. QED
    BY <1>2, <1>8, <2>2, <2>3 DEF InOrder
<1>12. Faithful(k)'
  <2>1. r + 1 <= a + 1
    BY <1>3, <1>4, <1>9
  <2>2. ASSUME NEW i \in 1 .. r + 1 PROVE log'[k][i] = admitted'[k][d + i].at
    <3>1. CASE i \in 1 .. r
      <4>1. d + i \in 1 .. a
        BY <1>3, <1>4, <1>9, <3>1
      <4>2. QED
        BY <1>4, <1>8, <3>1, <4>1
    <3>2. CASE i = r + 1
      <4>1. d + i = a + 1
        BY <1>3, <1>4, <1>9, <3>2
      <4>2. QED
        BY <1>5, <1>8, <3>2, <4>1
    <3>3. QED
      BY <1>9, <3>1, <3>2
  <2>3. ASSUME NEW i \in 1 .. d PROVE admitted'[k][i].at + Window <= now
    <3>1. i \in 1 .. a
      BY <1>3, <1>4, <1>9
    <3>2. QED
      BY <1>4, <1>8, <3>1
  <2>4. QED
    BY <1>2, <1>8, <1>10, <2>1, <2>2, <2>3 DEF Faithful
<1>13. Promised(k)'
  BY <1>7 DEF Promised, NoPromise
<1>14. Within(k)'
  <2> SUFFICES ASSUME NEW i \in 1 .. a + 1
               PROVE  Cardinality({j \in 1 .. i : admitted'[k][j].at + Window > admitted'[k][i].at})
                         <= Limit[admitted'[k][i].path]
    BY <1>8 DEF Within
  <2>1. CASE i \in 1 .. a
    <3>1. \A j \in 1 .. i : j \in 1 .. a
      BY <1>3, <2>1
    <3>2. {j \in 1 .. i : admitted'[k][j].at + Window > admitted'[k][i].at}
             = {j \in 1 .. i : admitted[k][j].at + Window > admitted[k][i].at}
      BY <1>8, <2>1, <3>1
    <3>3. Within(k) /\ admitted'[k][i] = admitted[k][i]
      BY <1>1, <1>8, <2>1 DEF LimiterInv, Fair
    <3>4. QED
      BY <2>1, <3>2, <3>3 DEF Within, a
  <2>2. CASE i = a + 1
    <3>1. {j \in 1 .. a + 1 : admitted'[k][j].at + Window > now} = d + 1 .. a + 1
      <4>1. \A j \in 1 .. d : j \in 1 .. a /\ ~(admitted'[k][j].at + Window > now)
        <5> TAKE j \in 1 .. d
        <5>1. j \in 1 .. a
          BY <1>3, <1>4, <1>9
        <5>2. /\ admitted'[k][j] = admitted[k][j] /\ admitted[k][j].at \in Nat
              /\ admitted[k][j].at + Window <= now
          BY <1>3, <1>4, <1>8, <5>1
        <5>3. QED
          BY <1>3, <5>1, <5>2
      <4>2. \A j \in d + 1 .. a + 1 : j \in 1 .. a + 1 /\ admitted'[k][j].at + Window > now
        <5> TAKE j \in d + 1 .. a + 1
        <5>1. CASE j = a + 1
          BY <1>3, <1>5, <1>8, <5>1
        <5>2. CASE j \in d + 1 .. a
          <6>1. j \in 1 .. a
            BY <1>3, <1>4, <5>2
          <6>2. admitted'[k][j] = admitted[k][j] /\ admitted[k][j].at + Window > now
            BY <1>4, <1>8, <5>2, <6>1
          <6>3. QED
            BY <1>3, <6>1, <6>2
        <5>3. j = a + 1 \/ j \in d + 1 .. a
          BY <1>3, <1>4
        <5>4. QED
          BY <5>1, <5>2, <5>3
      <4>3. \A j \in 1 .. a + 1 : j \in 1 .. d \/ j \in d + 1 .. a + 1
        BY <1>3, <1>4
      <4>4. QED
        BY <4>1, <4>2, <4>3
    <3>2. Cardinality(d + 1 .. a + 1) = r + 1
      <4>1. d + 1 \in Int /\ a + 1 \in Int
        BY <1>3, <1>4
      <4>2. Cardinality(d + 1 .. a + 1) = IF d + 1 > a + 1 THEN 0 ELSE (a + 1) - (d + 1) + 1
        BY <4>1, FS_Interval
      <4>3. QED
        BY <1>3, <1>4, <1>9, <4>2
    <3>3. admitted'[k][i].at = now /\ admitted'[k][i].path = p
      BY <1>5, <1>8, <2>2
    <3>4. QED
      BY <1>9, <2>2, <3>1, <3>2, <3>3
  <2>3. QED
    BY <1>3, <2>1, <2>2
<1>15. Fair(k)'
  BY <1>8, <1>9, <1>11, <1>12, <1>13, <1>14 DEF Fair
<1>16. ASSUME NEW other \in Callers, other # k PROVE Fair(other)'
  <2>1. /\ log'[other] = log[other] /\ admitted'[other] = admitted[other]
        /\ promise'[other] = promise[other]
    BY <1>1, <1>2, <1>16 DEF LimiterInv, LimiterTypes
  <2>2. now' \in Nat /\ now <= now'
    BY <1>2, <1>3
  <2>3. QED
    BY <2>1, <2>2, OthersStayFair
<1>17. QED
  BY <1>6, <1>15, <1>16 DEF LimiterInv
-----------------------------------------------------------------------------
(* LimiterInv is inductive. *)
THEOREM LimiterInvariance == Spec => []LimiterInv
<1>1. ASSUME LimiterInv, [Next]_vars PROVE LimiterInv'
  <2>1. CASE Tick
    <3>1. /\ now' \in 0 .. MaxTime /\ now <= now' /\ now' \in Nat
          /\ UNCHANGED <<log, admitted, promise>>
      BY <1>1, <2>1, LimiterAssumption DEF Tick, LimiterInv, LimiterTypes
    <3>2. LimiterTypes'
      BY <1>1, <3>1 DEF LimiterInv, LimiterTypes
    <3>3. QED
      BY <1>1, <3>1, <3>2, OthersStayFair DEF LimiterInv
  <2>2. CASE UNCHANGED vars
    <3>1. /\ now' \in 0 .. MaxTime /\ now <= now' /\ now' \in Nat
          /\ UNCHANGED <<log, admitted, promise>>
      BY <1>1, <2>2, LimiterAssumption DEF vars, LimiterInv, LimiterTypes
    <3>2. LimiterTypes'
      BY <1>1, <3>1 DEF LimiterInv, LimiterTypes
    <3>3. QED
      BY <1>1, <3>1, <3>2, OthersStayFair DEF LimiterInv
  <2>3. QED
    BY <1>1, <2>1, <2>2, RefuseKeeps, AdmitKeeps DEF Next
<1>2. QED
  BY <1>1, InitLimiter, PTL DEF Spec

(* A sequence of what its entries are. *)
LEMMA SequenceOf ==
    ASSUME NEW S, NEW T, NEW s \in Seq(S), \A i \in 1 .. Len(s) : s[i] \in T
    PROVE  s \in Seq(T)
<1> DEFINE n == Len(s)
<1>1. n \in Nat /\ s \in [1 .. n -> T]
  OBVIOUS
<1> HIDE DEF n
<1>2. QED
  BY <1>1

(* Every variable of the limiter keeps its type, and a log is not longer   *)
(* than the largest limit.                                                 *)
THEOREM LimiterTypesKept == Spec => []TypeOK
<1>1. ASSUME LimiterInv PROVE TypeOK
  <2>1. ASSUME NEW k \in Callers
        PROVE  log[k] \in Seq(0 .. now) /\ admitted[k] \in Seq([at : 0 .. now, path : Paths])
    <3>1. /\ now \in Nat
          /\ log[k] \in Seq(Nat) /\ Len(log[k]) \in Nat
          /\ admitted[k] \in Seq([at : Nat, path : Paths]) /\ Len(admitted[k]) \in Nat
          /\ Forgotten(k) \in Nat /\ Forgotten(k) + Len(log[k]) = Len(admitted[k])
          /\ \A i \in 1 .. Len(log[k]) :
                log[k][i] \in Nat /\ log[k][i] = admitted[k][Forgotten(k) + i].at
          /\ \A i \in 1 .. Len(admitted[k]) :
                admitted[k][i].at \in Nat /\ admitted[k][i].at <= now
      BY <1>1, LogFacts
    <3>2. ASSUME NEW i \in 1 .. Len(log[k]) PROVE log[k][i] \in 0 .. now
      <4>1. Forgotten(k) + i \in 1 .. Len(admitted[k])
        BY <3>1
      <4>2. log[k][i] \in Nat /\ log[k][i] <= now
        BY <3>1, <4>1
      <4>3. QED
        BY <3>1, <4>2
    <3>3. ASSUME NEW i \in 1 .. Len(admitted[k])
          PROVE  admitted[k][i] \in [at : 0 .. now, path : Paths]
      <4>1. admitted[k][i] \in [at : Nat, path : Paths]
        BY <3>1, ElementOfSeq
      <4>2. admitted[k][i].at \in 0 .. now
        BY <3>1
      <4>3. QED
        BY <4>1, <4>2
    <3>4. log[k] \in Seq(0 .. now)
      BY <3>1, <3>2, SequenceOf
    <3>5. admitted[k] \in Seq([at : 0 .. now, path : Paths])
      <4> DEFINE S == [at : Nat, path : Paths]
                 T == [at : 0 .. now, path : Paths]
      <4>1. admitted[k] \in Seq(S) /\ \A i \in 1 .. Len(admitted[k]) : admitted[k][i] \in T
        BY <3>1, <3>3
      <4> HIDE DEF S, T
      <4>2. admitted[k] \in Seq(T)
        BY <4>1, SequenceOf
      <4>3. QED
        BY <4>2 DEF T
    <3>6. QED
      BY <3>4, <3>5
  <2>2. log \in [Callers -> Seq(0 .. now)]
    BY <1>1, <2>1 DEF LimiterInv, LimiterTypes
  <2>3. admitted \in [Callers -> Seq([at : 0 .. now, path : Paths])]
    BY <1>1, <2>1 DEF LimiterInv, LimiterTypes
  <2>4. QED
    BY <1>1, <2>2, <2>3 DEF LimiterInv, LimiterTypes, Fair, TypeOK
<1>2. QED
  BY <1>1, LimiterInvariance, PTL

(* No mix of paths gets a caller more than the limit of any of them in a   *)
(* window.                                                                 *)
THEOREM CallersStayWithinLimit == Spec => []WithinLimit
<1>1. ASSUME LimiterInv PROVE WithinLimit
  BY <1>1, LogFacts DEF LimiterInv, Fair, Within, WithinLimit
<1>2. QED
  BY <1>1, LimiterInvariance, PTL

(* Who is refused has used up the limit within the window. *)
THEOREM RefusalsAreDeserved == Spec => RefusedForCause
<1> DEFINE Deserved == \A h \in Hosts, c \in Credentials, p \in Paths :
                          Refuse(h, c, p) => Count(CallerOf(h, c), now) >= Limit[p]
<1>1. ASSUME LimiterInv PROVE Deserved
  <2> SUFFICES ASSUME NEW h \in Hosts, NEW c \in Credentials, NEW p \in Paths, Refuse(h, c, p)
               PROVE  Count(CallerOf(h, c), now) >= Limit[p]
    OBVIOUS
  <2>1. CallerOf(h, c) \in Callers /\ Len(Recent(CallerOf(h, c))) >= Limit[p]
    BY CallersCount DEF Refuse
  <2>2. QED
    BY <1>1, <2>1, WindowCounted
<1>2. QED
  BY <1>1, LimiterInvariance, PTL DEF RefusedForCause

(* Who waits as long as it was told is let through on the widest path. *)
THEOREM WidestPromiseIsKept == Spec => []RetryAfterKeptOnWidest
<1>1. ASSUME LimiterInv PROVE RetryAfterKeptOnWidest
  <2> SUFFICES ASSUME NEW p \in Paths, Limit[p] = MaxLimit, NEW k \in Callers,
                      promise[k][p] # 0, ~(Len(Recent(k)) < Limit[p])
               PROVE  now < promise[k][p]
    BY DEF RetryAfterKeptOnWidest, Kept
  <2>1. k \in Callers /\ ~(Len(Recent(k)) < MaxLimit)
    OBVIOUS
  <2>2. /\ now \in Nat /\ Window \in Nat /\ Len(log[k]) \in Nat /\ Len(admitted[k]) \in Nat
    BY <1>1, <2>1, LogFacts
  <2>3. /\ Recent(k) \in Seq(Nat) /\ Len(Recent(k)) \in 0 .. Len(log[k])
        /\ Left(k) \in Nat /\ Left(k) + Len(Recent(k)) = Len(admitted[k])
        /\ Len(Recent(k)) = Len(log[k]) => Recent(k) = log[k]
        /\ \A i \in 1 .. Len(Recent(k)) :
              Recent(k)[i] \in Nat /\ Recent(k)[i] = admitted[k][Left(k) + i].at
        /\ \A i \in Left(k) + 1 .. Len(admitted[k]) : admitted[k][i].at + Window > now
    BY <1>1, <2>1, RecentFaithful
  <2>4. Len(log[k]) <= MaxLimit /\ MaxLimit \in Nat /\ MaxLimit > 0
    BY <1>1, <2>1, WidestPath, LimiterAssumption DEF LimiterInv, Fair
  <2>5. Len(Recent(k)) = MaxLimit /\ Len(log[k]) = MaxLimit
    BY <2>1, <2>2, <2>3, <2>4
  <2>6. log[k][1] + Window < promise[k][p]
    BY <1>1, <2>1, <2>5 DEF LimiterInv, Fair, Promised
  <2>7. log[k][1] \in Nat /\ log[k][1] + Window > now
    <3>1. 1 \in 1 .. Len(Recent(k)) /\ Left(k) + 1 \in Left(k) + 1 .. Len(admitted[k])
      BY <2>2, <2>3, <2>4, <2>5
    <3>2. QED
      BY <2>3, <2>5, <3>1
  <2>8. promise[k][p] \in Nat
    BY <1>1, <2>1 DEF LimiterInv, LimiterTypes
  <2>9. QED
    BY <2>2, <2>6, <2>7, <2>8
<1>2. QED
  BY <1>1, LimiterInvariance, PTL
-----------------------------------------------------------------------------
(* The limiter behind the other middlewares is the limiter: whatever else  *)
(* happens to a request, its log changes by the limiter's own steps.       *)
THEOREM GatewayLimits == GatewaySpec => Spec
<1>1. GatewayInit => Init
  BY DEF GatewayInit
<1>2. ASSUME [GatewayNext]_gatewayVars PROVE [Next]_vars
  <2>1. CASE Time
    BY <2>1 DEF Time, Next
  <2>2. CASE Look \/ Unload \/ Public \/ UNCHANGED gatewayVars
    BY <2>2 DEF Look, Unload, Public, gatewayVars, limiterVars
  <2>3. CASE \/ \E c \in Credentials : Unauthorized(c)
             \/ \E r \in Requests : GetEngine(r) \/ Load(r) \/ Answer(r)
    BY <2>3 DEF Unauthorized, GetEngine, Load, Answer, limiterVars
  <2>4. ASSUME NEW h \in Hosts, NEW c \in Credentials, NEW p \in Paths,
               \/ TooMany(h, c, p) \/ WithoutEngine(h, c, p)
               \/ \E r \in Requests : Arrive(r, h, c, p)
        PROVE  Next
    <3>1. Admit(h, c, p) \/ Refuse(h, c, p)
      BY <2>4 DEF TooMany, WithoutEngine, Arrive
    <3>2. QED
      BY <3>1 DEF Next
  <2>5. QED
    BY <1>2, <2>1, <2>2, <2>3, <2>4 DEF GatewayNext
<1>3. QED
  BY <1>1, <1>2, PTL DEF GatewaySpec, Spec

(* So the gateway keeps the limits, refuses for cause and keeps what       *)
(* Retry-After says on the widest path.                                    *)
THEOREM GatewayKeepsLimits ==
    GatewaySpec => []WithinLimit /\ RefusedForCause /\ []RetryAfterKeptOnWidest
BY GatewayLimits, CallersStayWithinLimit, RefusalsAreDeserved, WidestPromiseIsKept

(* Every variable keeps its type: the watcher's sleep ends within an idle  *)
(* time and a look, no engine is loaded that the router has not got, and   *)
(* no request goes on with one that the watcher dropped.                   *)
THEOREM GatewayTypesKept == GatewaySpec => []GatewayTypeOK
<1>1. ASSUME IInv, TypeOK PROVE GatewayTypeOK
  BY <1>1, GatewayAssumption DEF IInv, Clocks, Objects, GatewayTypeOK
<1>2. GatewaySpec => []TypeOK
  BY GatewayLimits, LimiterTypesKept
<1>3. QED
  BY <1>1, <1>2, Invariance, PTL
=============================================================================
