----------------------- MODULE BatchProcessor_proofs -----------------------
(***************************************************************************)
(* Batches on the HuggingFace engine, for any number of callers, any       *)
(* length of a batch, any slice and any number of permits.                 *)
(*                                                                         *)
(* BatchComplete and Throttled speak of all items of a batch at once; a    *)
(* step looks at one item or one slice.  IInv says what a batch looks like *)
(* at any moment: the items up to `from` have ended and their entries are  *)
(* collected, those of the current slice are under way, and behind it      *)
(* nothing has been created (Layout, Collected).  Every slice but the last *)
(* has BatchSize items, so that `from` is a whole number of slices         *)
(* (WholeSlices), and a permit that is not free belongs to an item at work *)
(* (Permits).                                                              *)
(***************************************************************************)
EXTENDS BatchProcessor, FiniteSetTheorems, SequenceTheorems, TLAPS

Types == /\ loaded  \in BOOLEAN
         /\ bpc     \in [Batches -> BatchStates]
         /\ mode    \in [Batches -> Modes]
         /\ size    \in [Batches -> 0 .. MaxLen]
         /\ partial \in [Batches -> BOOLEAN]
         /\ from    \in [Batches -> 0 .. MaxLen]
         /\ item    \in [Items -> ItemStates]
         /\ free    \in [Batches -> Nat]
         /\ results \in [Batches -> Seq(Entries)]

\* How an item of a slice that was left can have ended.
Accepted(b) == IF Forgiving(b) THEN Ended ELSE {"ok"}

Layout(b) == /\ from[b] <= size[b]
             /\ \A i \in 1 .. from[b] : item[<<b, i>>] \in Accepted(b)
             /\ \A i \in 1 .. MaxLen : i > from[b] /\ item[<<b, i>>] # "none"
                                        => i \in Slice(b, from[b])

Collected(b) == results[b] = [i \in 1 .. from[b] |-> Entry(b, item[<<b, i>>])]

WholeSlices(b) == mode[b] = "items" /\ from[b] < size[b]
                     => \E q \in Nat : from[b] = q * BatchSize

Permits(b) == free[b] + (IF Limited(b) THEN Cardinality(Working(b)) ELSE 0) = MaxConcurrent

Phases(b) == /\ bpc[b] = "idle" => /\ mode[b] = "items"
                                   /\ \A i \in 1 .. MaxLen : item[<<b, i>>] = "none"
             /\ bpc[b] = "returned" => from[b] = size[b]

Good(b) == Layout(b) /\ Collected(b) /\ WholeSlices(b) /\ Permits(b) /\ Phases(b)

IInv == Types /\ \A b \in Batches : Good(b)
-----------------------------------------------------------------------------
(* Two stretches of a function, one after the other. *)
LEMMA Appended ==
    ASSUME NEW S, NEW m \in Nat, NEW n \in Nat, NEW f \in [1 .. m + n -> S]
    PROVE  [i \in 1 .. m |-> f[i]] \o [i \in 1 .. n |-> f[m + i]] = f
<1> DEFINE s == [i \in 1 .. m |-> f[i]]
           t == [i \in 1 .. n |-> f[m + i]]
<1>1. s \in Seq(S) /\ Len(s) = m /\ t \in Seq(S) /\ Len(t) = n
  OBVIOUS
<1>2. f \in Seq(S) /\ Len(f) = m + n
  OBVIOUS
<1>3. (\A i \in 1 .. m : s[i] = f[i]) /\ (\A i \in 1 .. n : t[i] = f[m + i])
  OBVIOUS
<1> HIDE DEF s, t
<1>4. /\ s \o t \in Seq(S) /\ Len(s \o t) = m + n
      /\ \A i \in 1 .. m + n : (s \o t)[i] = IF i <= m THEN s[i] ELSE t[i - m]
  BY <1>1, ConcatProperties
<1>5. \A i \in 1 .. m + n : (s \o t)[i] = f[i]
  <2> TAKE i \in 1 .. m + n
  <2>1. CASE i <= m
    BY <1>3, <1>4, <2>1
  <2>2. CASE i > m
    <3>1. PICK k \in 1 .. n : i - m = k /\ i = m + k
      BY <2>2
    <3>2. (s \o t)[i] = t[k]
      BY <1>4, <2>2, <3>1
    <3>3. t[k] = f[m + k]
      BY <1>3
    <3>4. QED
      BY <3>1, <3>2, <3>3
  <2>3. i <= m \/ i > m
    OBVIOUS
  <2>4. QED
    BY <2>1, <2>2, <2>3
<1>6. s \o t = f
  BY <1>2, <1>4, <1>5, SeqEqual
<1>7. QED
  BY <1>6 DEF s, t

(* A slice is a stretch of the batch that begins behind the items already  *)
(* taken, and it is empty only when all are.                               *)
LEMMA SliceSpan ==
    ASSUME Types, NEW b \in Batches, NEW k \in 0 .. size[b],
           NEW last, last = IF mode[b] = "engine" \/ size[b] <= k + BatchSize
                            THEN size[b] ELSE k + BatchSize
    PROVE  /\ last \in k .. size[b]
           /\ Slice(b, k) = k + 1 .. last
           /\ Cardinality(Slice(b, k)) = last - k
           /\ Slice(b, k) = {} <=> k = size[b]
<1>1. size[b] \in 0 .. MaxLen /\ k \in Nat /\ BatchSize \in Nat \ {0} /\ MaxLen \in Nat
  BY BatchAssumption DEF Types
<1>2. last \in k .. size[b] /\ last \in Nat /\ (last = k <=> k = size[b])
  BY <1>1
<1>3. Slice(b, k) = k + 1 .. last
  BY <1>1 DEF Slice
<1>4. Cardinality(k + 1 .. last) = last - k
  <2>1. k + 1 \in Int /\ last \in Int
    BY <1>1, <1>2
  <2>2. Cardinality(k + 1 .. last) = IF k + 1 > last THEN 0 ELSE last - (k + 1) + 1
    BY <2>1, FS_Interval
  <2>3. QED
    BY <1>1, <1>2, <2>2
<1>5. Slice(b, k) = {} <=> k = size[b]
  BY <1>1, <1>2, <1>3
<1>6. QED
  BY <1>2, <1>3, <1>4, <1>5

LEMMA WorkingSet == \A b : IsFiniteSet(Working(b)) /\ Cardinality(Working(b)) \in Nat
<1> TAKE b
<1>1. IsFiniteSet(1 .. MaxLen)
  BY BatchAssumption, FS_Interval
<1>2. Working(b) \in SUBSET (1 .. MaxLen)
  BY DEF Working
<1>3. QED
  BY <1>1, <1>2, FS_Subset, FS_CardinalityType

(* A step of one batch leaves the others as they are. *)
LEMMA OthersKeep ==
    ASSUME NEW c \in Batches, Good(c),
           bpc'[c] = bpc[c], mode'[c] = mode[c], size'[c] = size[c], partial'[c] = partial[c],
           from'[c] = from[c], free'[c] = free[c], results'[c] = results[c],
           \A i \in 1 .. MaxLen : item'[<<c, i>>] = item[<<c, i>>],
           from[c] <= MaxLen, from[c] \in Nat
    PROVE  Good(c)'
<1>1. Working(c)' = Working(c)
  BY DEF Working
<1>2. \A i \in 1 .. from[c] : i \in 1 .. MaxLen
  BY BatchAssumption
<1>3. Layout(c)'
  BY <1>2 DEF Good, Layout, Accepted, Forgiving, Slice
<1>4. Collected(c)'
  BY <1>2 DEF Good, Collected, Entry
<1>5. WholeSlices(c)' /\ Permits(c)' /\ Phases(c)'
  BY <1>1 DEF Good, WholeSlices, Permits, Phases, Limited
<1>6. QED
  BY <1>3, <1>4, <1>5 DEF Good

(* A batch with no item has not got past its beginning. *)
LEMMA NotBegun ==
    ASSUME Types, NEW b \in Batches, Good(b), \A i \in 1 .. MaxLen : item[<<b, i>>] = "none"
    PROVE  from[b] = 0
<1>1. from[b] \in 0 .. MaxLen /\ MaxLen \in Nat
  BY BatchAssumption DEF Types
<1>2. ASSUME from[b] # 0 PROVE FALSE
  <2>1. 1 \in 1 .. from[b] /\ 1 \in 1 .. MaxLen
    BY <1>1, <1>2
  <2>2. item[<<b, 1>>] \in Ended /\ item[<<b, 1>>] = "none"
    BY <2>1 DEF Good, Layout, Accepted, Ended
  <2>3. QED
    BY <2>2 DEF Ended
<1>3. QED
  BY <1>2

LEMMA InitIInv == Init => IInv
<1> SUFFICES ASSUME Init PROVE IInv
  OBVIOUS
<1>1. Types
  <2>1. /\ loaded \in BOOLEAN /\ bpc \in [Batches -> BatchStates]
        /\ mode \in [Batches -> Modes] /\ partial \in [Batches -> BOOLEAN]
    BY DEF Init, BatchStates, Modes
  <2>2. size \in [Batches -> 0 .. MaxLen] /\ from \in [Batches -> 0 .. MaxLen]
    BY BatchAssumption DEF Init
  <2>3. item \in [Items -> ItemStates] /\ free \in [Batches -> Nat]
    BY BatchAssumption DEF Init, ItemStates
  <2>4. results \in [Batches -> Seq(Entries)]
    BY DEF Init
  <2>5. QED
    BY <2>1, <2>2, <2>3, <2>4 DEF Types
<1>2. ASSUME NEW b \in Batches PROVE Good(b)
  <2>1. \A i \in 1 .. MaxLen : item[<<b, i>>] = "none"
    BY DEF Init, Items
  <2>2. Working(b) = {}
    BY <2>1 DEF Working
  <2>3. Permits(b)
    BY <2>2, FS_EmptySet, BatchAssumption DEF Init, Permits
  <2>4. from[b] = 0 /\ size[b] = 0 /\ mode[b] = "items" /\ results[b] = <<>>
    BY DEF Init
  <2>5. QED
    BY <2>1, <2>3, <2>4 DEF Good, Layout, Collected, WholeSlices, Phases
<1>3. QED
  BY <1>1, <1>2 DEF IInv
-----------------------------------------------------------------------------
(* The items of the next slice are created when all before it have ended   *)
(* as they should; or the batch returns.                                   *)
LEMMA NextSliceKeeps ==
    ASSUME IInv, NEW b \in Batches, NEW k \in 0 .. size[b],
           NextSlice(b, k), loaded' \in BOOLEAN, UNCHANGED <<argVars, free>>,
           \A i \in 1 .. MaxLen : i <= k => item[<<b, i>>] \in Accepted(b),
           \A i \in 1 .. MaxLen : i > k => item[<<b, i>>] = "none",
           results' = [results EXCEPT ![b] = [i \in 1 .. k |-> Entry(b, item[<<b, i>>])]],
           mode[b] = "items" /\ k < size[b] => \E q \in Nat : k = q * BatchSize
    PROVE  IInv'
<1> USE DEF IInv, argVars
<1>1. /\ Types /\ Good(b) /\ size[b] \in 0 .. MaxLen /\ k \in Nat /\ MaxLen \in Nat
      /\ mode[b] \in Modes /\ k \in 0 .. MaxLen
  BY BatchAssumption DEF Types
<1>2. \A c \in Batches, i \in 1 .. MaxLen :
         item'[<<c, i>>] = IF c = b /\ i \in Slice(b, k) THEN "created" ELSE item[<<c, i>>]
  BY DEF NextSlice, Items
<1>3. from' = [from EXCEPT ![b] = k]
  BY DEF NextSlice
<1>4. bpc' = [bpc EXCEPT ![b] = IF Slice(b, k) = {} THEN "returned" ELSE "waiting"]
  BY DEF NextSlice
<1>5. \A i \in Slice(b, k) : i > k
  BY DEF Slice
<1>6. \A i \in 1 .. k : Entry(b, item[<<b, i>>]) \in Entries
  BY DEF Entry, Entries
<1>7. Types'
  <2>1. item' \in [Items -> ItemStates]
    BY <1>1 DEF NextSlice, Types, ItemStates
  <2>2. from' \in [Batches -> 0 .. MaxLen] /\ bpc' \in [Batches -> BatchStates]
    BY <1>1, <1>3, <1>4 DEF Types, BatchStates
  <2> DEFINE entries == [i \in 1 .. k |-> Entry(b, item[<<b, i>>])]
  <2>3. entries \in [1 .. k -> Entries] /\ results' = [results EXCEPT ![b] = entries]
    BY <1>6
  <2> HIDE DEF entries
  <2>4. results' \in [Batches -> Seq(Entries)]
    <3>1. entries \in Seq(Entries)
      BY <1>1, <2>3
    <3>2. QED
      BY <1>1, <2>3, <3>1 DEF Types
  <2>5. QED
    BY <1>1, <2>1, <2>2, <2>4 DEF Types
<1>8. Good(b)'
  <2>1. from'[b] = k /\ size'[b] = size[b] /\ mode'[b] = mode[b] /\ partial'[b] = partial[b]
    BY <1>1, <1>3 DEF Types
  <2>2. \A i \in 1 .. k : i \in 1 .. MaxLen /\ item'[<<b, i>>] = item[<<b, i>>]
    BY <1>1, <1>2, <1>5
  <2>3. Layout(b)'
    <3>1. \A i \in 1 .. k : item'[<<b, i>>] \in Accepted(b)'
      BY <2>1, <2>2 DEF Accepted, Forgiving
    <3>2. \A i \in 1 .. MaxLen : i > k /\ item'[<<b, i>>] # "none" => i \in Slice(b, k)
      BY <1>2
    <3>3. Slice(b, k)' = Slice(b, k)
      BY <2>1 DEF Slice
    <3>4. QED
      BY <1>1, <2>1, <3>1, <3>2, <3>3 DEF Layout, Slice
  <2>4. Collected(b)'
    <3>1. results'[b] = [i \in 1 .. k |-> Entry(b, item[<<b, i>>])]
      BY <1>1 DEF Types
    <3>2. QED
      BY <2>1, <2>2, <3>1 DEF Collected, Entry
  <2>5. WholeSlices(b)'
    BY <2>1 DEF WholeSlices
  <2>6. Permits(b)'
    <3>1. Working(b)' = Working(b)
      BY <1>2, <1>5 DEF Working
    <3>2. QED
      BY <1>1, <2>1, <3>1 DEF Good, Permits, Limited
  <2>7. Phases(b)'
    <3> DEFINE last == IF mode[b] = "engine" \/ size[b] <= k + BatchSize
                       THEN size[b] ELSE k + BatchSize
    <3>1. Slice(b, k) = {} <=> k = size[b]
      BY <1>1, SliceSpan
    <3>2. bpc'[b] = IF Slice(b, k) = {} THEN "returned" ELSE "waiting"
      BY <1>1, <1>4 DEF Types
    <3>3. QED
      BY <2>1, <3>1, <3>2 DEF Phases
  <2>8. QED
    BY <2>3, <2>4, <2>5, <2>6, <2>7 DEF Good
<1>9. ASSUME NEW c \in Batches, c # b PROVE Good(c)'
  <2>1. \A i \in 1 .. MaxLen : item'[<<c, i>>] = item[<<c, i>>]
    BY <1>2, <1>9
  <2>2. bpc'[c] = bpc[c] /\ from'[c] = from[c] /\ results'[c] = results[c]
    BY <1>1, <1>3, <1>4, <1>9 DEF Types
  <2>3. from[c] <= MaxLen /\ from[c] \in Nat
    BY <1>1 DEF Types
  <2>4. QED
    BY <1>9, <2>1, <2>2, <2>3, OthersKeep
<1>10. QED
  BY <1>7, <1>8, <1>9

(* A step of one item: it is one of the current slice. *)
LEMMA ItemKeeps ==
    ASSUME IInv, NEW b \in Batches, NEW i \in 1 .. MaxLen,
           Start(b, i) \/ StartFails(b, i) \/ Finish(b, i)
    PROVE  IInv'
<1> USE DEF IInv, argVars
<1>1. Types /\ Good(b) /\ MaxConcurrent \in Nat /\ MaxLen \in Nat
  BY BatchAssumption
<1>2. UNCHANGED <<bpc, argVars, from, results>>
  BY DEF Start, StartFails, Finish
<1>3. /\ item[<<b, i>>] \in {"created", "working"}
      /\ \E o \in {"working"} \cup Ended : item' = [item EXCEPT ![<<b, i>>] = o]
      /\ loaded' \in BOOLEAN
  <2>1. CASE Start(b, i)
    BY <2>1 DEF Start, MayStart, Load
  <2>2. CASE StartFails(b, i)
    BY <1>1, <2>2 DEF StartFails, MayStart, Load, LoadFails, Ended, Types
  <2>3. CASE Finish(b, i)
    BY <1>1, <2>3 DEF Finish, Types
  <2>4. QED
    BY <2>1, <2>2, <2>3
<1>4. <<b, i>> \in Items
  BY DEF Items
<1>5. PICK o \in {"working"} \cup Ended : item' = [item EXCEPT ![<<b, i>>] = o]
  BY <1>3
<1>6. \A c \in Batches, k \in 1 .. MaxLen :
         item'[<<c, k>>] = IF c = b /\ k = i THEN o ELSE item[<<c, k>>]
  BY <1>1, <1>5 DEF Types, Items
<1>7. i > from[b] /\ from[b] \in 0 .. MaxLen
  <2>1. from[b] \in 0 .. MaxLen
    BY <1>1 DEF Types
  <2>2. i \notin 1 .. from[b]
    BY <1>1, <1>3 DEF Good, Layout, Accepted, Ended
  <2>3. QED
    BY <2>1, <2>2
<1>8. Layout(b)'
  <2>1. i \in Slice(b, from[b])
    BY <1>1, <1>3, <1>7 DEF Good, Layout
  <2>2. \A k \in 1 .. from[b] : item'[<<b, k>>] = item[<<b, k>>]
    BY <1>1, <1>6, <1>7
  <2>3. Slice(b, from[b])' = Slice(b, from[b]) /\ Accepted(b)' = Accepted(b)
    BY <1>2 DEF Slice, Accepted, Forgiving
  <2>4. \A k \in 1 .. MaxLen : k > from[b] /\ item'[<<b, k>>] # "none" => k \in Slice(b, from[b])
    BY <1>1, <1>6, <2>1 DEF Good, Layout
  <2>5. QED
    BY <1>1, <1>2, <2>2, <2>3, <2>4 DEF Good, Layout
<1>9. Collected(b)'
  <2>1. \A k \in 1 .. from[b] : item'[<<b, k>>] = item[<<b, k>>]
    BY <1>1, <1>6, <1>7
  <2>2. QED
    BY <1>1, <1>2, <2>1 DEF Good, Collected, Entry
<1>10. Permits(b)' /\ free' \in [Batches -> Nat] /\ \A c \in Batches \ {b} : free'[c] = free[c]
  <2>1. IsFiniteSet(Working(b)) /\ Cardinality(Working(b)) \in Nat
    BY WorkingSet
  <2>2. Limited(b)' <=> Limited(b)
    BY <1>2 DEF Limited
  <2>3. free[b] \in Nat /\ free[b] + (IF Limited(b) THEN Cardinality(Working(b)) ELSE 0) = MaxConcurrent
    BY <1>1 DEF Types, Good, Permits
  <2>4. CASE Start(b, i)
    <3>1. Working(b)' = Working(b) \cup {i} /\ i \notin Working(b)
      BY <1>4, <2>4, <1>1 DEF Working, Start, MayStart, Types, Items
    <3>2. Cardinality(Working(b)') = Cardinality(Working(b)) + 1
      BY <2>1, <3>1, FS_AddElement
    <3>3. /\ free' = [free EXCEPT ![b] = IF Limited(b) THEN @ - 1 ELSE @]
          /\ Limited(b) => free[b] > 0
      BY <2>4 DEF Start, MayStart
    <3>4. free' \in [Batches -> Nat] /\ \A c \in Batches \ {b} : free'[c] = free[c]
      BY <1>1, <3>3 DEF Types
    <3>5. free'[b] = IF Limited(b) THEN free[b] - 1 ELSE free[b]
      BY <1>1, <3>3 DEF Types
    <3>6. free'[b] + (IF Limited(b) THEN Cardinality(Working(b)') ELSE 0) = MaxConcurrent
      BY <1>1, <2>1, <2>3, <3>2, <3>5
    <3>7. Permits(b)'
      BY <2>2, <3>6 DEF Permits
    <3>8. QED
      BY <3>4, <3>7
  <2>5. CASE StartFails(b, i)
    <3>1. Working(b)' = Working(b)
      BY <1>4, <2>5, <1>1 DEF Working, StartFails, MayStart, Types, Items
    <3>2. QED
      BY <1>1, <2>2, <2>5, <3>1 DEF Good, Permits, StartFails, Types
  <2>6. CASE Finish(b, i)
    <3>1. Working(b)' = Working(b) \ {i} /\ i \in Working(b)
      BY <1>4, <2>6, <1>1 DEF Working, Finish, Types, Items, Ended
    <3>2. Cardinality(Working(b)') = Cardinality(Working(b)) - 1
      BY <2>1, <3>1, FS_RemoveElement
    <3>3. free' = [free EXCEPT ![b] = IF Limited(b) THEN @ + 1 ELSE @]
      BY <2>6 DEF Finish
    <3>4. free' \in [Batches -> Nat] /\ \A c \in Batches \ {b} : free'[c] = free[c]
      BY <1>1, <3>3 DEF Types
    <3>5. free'[b] = IF Limited(b) THEN free[b] + 1 ELSE free[b]
      BY <1>1, <3>3 DEF Types
    <3>6. free'[b] + (IF Limited(b) THEN Cardinality(Working(b)') ELSE 0) = MaxConcurrent
      BY <1>1, <2>1, <2>3, <3>2, <3>5
    <3>7. Permits(b)'
      BY <2>2, <3>6 DEF Permits
    <3>8. QED
      BY <3>4, <3>7
  <2>7. QED
    BY <2>4, <2>5, <2>6
<1>11. WholeSlices(b)' /\ Phases(b)'
  <2>1. bpc[b] # "idle"
    BY <1>1, <1>3 DEF Good, Phases
  <2>2. QED
    BY <1>1, <1>2, <2>1 DEF Good, WholeSlices, Phases
<1>12. ASSUME NEW c \in Batches, c # b PROVE Good(c)'
  <2>1. \A k \in 1 .. MaxLen : item'[<<c, k>>] = item[<<c, k>>]
    BY <1>6, <1>12
  <2>2. from[c] <= MaxLen /\ from[c] \in Nat
    BY <1>1 DEF Types
  <2>3. QED
    BY <1>2, <1>10, <1>12, <2>1, <2>2, OthersKeep
<1>13. Types'
  BY <1>1, <1>2, <1>3, <1>10, <1>5 DEF Types, ItemStates
<1>14. QED
  BY <1>8, <1>9, <1>10, <1>11, <1>12, <1>13 DEF Good

(* The steps of a batch that take no item. *)
LEMMA CallKeeps ==
    ASSUME IInv, NEW b \in Batches,
           \/ \E m \in Modes, n \in 0 .. MaxLen, p \in BOOLEAN : Call(b, m, n, p)
           \/ SliceRaises(b)
    PROVE  IInv'
<1> USE DEF IInv, argVars
<1>1. Types /\ Good(b) /\ MaxConcurrent \in Nat /\ MaxLen \in Nat
  BY BatchAssumption
<1> DEFINE Moves == /\ UNCHANGED <<loaded, from, item, free, results>>
                    /\ bpc' \in [Batches -> BatchStates] /\ mode' \in [Batches -> Modes]
                    /\ size' \in [Batches -> 0 .. MaxLen] /\ partial' \in [Batches -> BOOLEAN]
                    /\ bpc'[b] \in {"waiting", "raised"}
                    /\ \A c \in Batches \ {b} : /\ bpc'[c] = bpc[c] /\ mode'[c] = mode[c]
                                                /\ size'[c] = size[c] /\ partial'[c] = partial[c]
<1>2. Moves
  <2>1. CASE SliceRaises(b)
    BY <1>1, <2>1 DEF SliceRaises, Types, BatchStates
  <2>2. ASSUME NEW m \in Modes, NEW n \in 0 .. MaxLen, NEW p \in BOOLEAN, Call(b, m, n, p)
        PROVE  Moves
    BY <1>1, <2>2 DEF Call, Types, BatchStates
  <2>3. QED
    BY <2>1, <2>2
<1>3. Good(b)'
  <2>1. CASE SliceRaises(b)
    <3>1. UNCHANGED <<mode, size, partial>>
      BY <2>1 DEF SliceRaises
    <3>2. Working(b)' = Working(b)
      BY <1>2 DEF Working
    <3>3. Layout(b)' /\ Collected(b)'
      BY <1>1, <1>2, <3>1 DEF Good, Layout, Accepted, Forgiving, Slice, Collected, Entry
    <3>4. WholeSlices(b)' /\ Permits(b)' /\ Phases(b)'
      BY <1>1, <1>2, <3>1, <3>2 DEF Good, WholeSlices, Permits, Limited, Phases
    <3>5. QED
      BY <3>3, <3>4 DEF Good
  <2>2. CASE \E m \in Modes, n \in 0 .. MaxLen, p \in BOOLEAN : Call(b, m, n, p)
    <3>1. bpc[b] = "idle" /\ \A i \in 1 .. MaxLen : item[<<b, i>>] = "none"
      BY <1>1, <2>2 DEF Call, Good, Phases
    <3>2. from[b] = 0
      BY <1>1, <3>1, NotBegun
    <3>3. Working(b) = {} /\ Working(b)' = {} /\ Cardinality({}) = 0
      BY <1>2, <3>1, FS_EmptySet DEF Working
    <3>4. Permits(b)' /\ size'[b] \in 0 .. MaxLen
      BY <1>1, <1>2, <3>3 DEF Good, Permits
    <3>5. from'[b] = 0 /\ results'[b] = <<>>
      BY <1>1, <1>2, <3>2 DEF Good, Collected
    <3>6. Layout(b)' /\ Collected(b)'
      BY <1>2, <3>1, <3>4, <3>5 DEF Layout, Collected
    <3>7. WholeSlices(b)' /\ Phases(b)'
      <4>1. 0 = 0 * BatchSize
        BY BatchAssumption
      <4>2. \E q \in Nat : from'[b] = q * BatchSize
        BY <3>5, <4>1
      <4>3. QED
        BY <1>2, <4>2 DEF WholeSlices, Phases
    <3>8. QED
      BY <3>4, <3>6, <3>7 DEF Good
  <2>3. QED
    BY <2>1, <2>2
<1>4. ASSUME NEW c \in Batches, c # b PROVE Good(c)'
  <2>1. from[c] <= MaxLen /\ from[c] \in Nat
    BY <1>1 DEF Types
  <2>2. QED
    BY <1>2, <1>4, <2>1, OthersKeep
<1>5. QED
  BY <1>1, <1>2, <1>3, <1>4 DEF Types

LEMMA BeginKeeps == ASSUME IInv, NEW b \in Batches, Begin(b) PROVE IInv'
<1> USE DEF IInv
<1>1. Types /\ Good(b) /\ MaxLen \in Nat /\ size[b] \in 0 .. MaxLen /\ 0 \in 0 .. size[b]
  BY BatchAssumption DEF Types
<1>2. \A i \in 1 .. MaxLen : item[<<b, i>>] = "none"
  BY DEF Begin, Fresh, Items
<1>3. from[b] = 0 /\ results[b] = <<>>
  <2>1. from[b] = 0
    BY <1>1, <1>2, NotBegun
  <2>2. QED
    BY <1>1, <2>1 DEF Good, Collected
<1>4. UNCHANGED <<argVars, free, results>> /\ loaded' \in BOOLEAN
  BY <1>1 DEF Begin, Load, LoadFails, Types
<1>5. CASE NextSlice(b, 0)
  <2>1. results' = [results EXCEPT ![b] = [i \in 1 .. 0 |-> Entry(b, item[<<b, i>>])]]
    BY <1>1, <1>3, <1>4 DEF Types
  <2>2. \E q \in Nat : 0 = q * BatchSize
    <3>1. 0 = 0 * BatchSize
      BY BatchAssumption
    <3>2. QED
      BY <3>1
  <2>3. \A i \in 1 .. MaxLen : i <= 0 => item[<<b, i>>] \in Accepted(b)
    OBVIOUS
  <2>4. QED
    BY <1>1, <1>2, <1>4, <1>5, <2>1, <2>2, <2>3, NextSliceKeeps
<1>6. CASE bpc' = [bpc EXCEPT ![b] = "raised"] /\ UNCHANGED <<from, item>>
  <2>1. bpc' \in [Batches -> BatchStates] /\ bpc'[b] = "raised"
    BY <1>1, <1>6 DEF Types, BatchStates
  <2>2. Working(b)' = Working(b)
    BY <1>6 DEF Working
  <2>3. Good(b)'
    BY <1>1, <1>4, <1>6, <2>1, <2>2 DEF Good, Layout, Accepted, Forgiving, Slice, Collected, Entry,
                                        WholeSlices, Permits, Limited, Phases, argVars
  <2>4. ASSUME NEW c \in Batches, c # b PROVE Good(c)'
    <3>1. from[c] <= MaxLen /\ from[c] \in Nat /\ bpc'[c] = bpc[c]
      BY <1>1, <1>6, <2>4 DEF Types
    <3>2. QED
      BY <1>4, <1>6, <3>1, OthersKeep DEF argVars
  <2>5. QED
    BY <1>1, <1>4, <1>6, <2>1, <2>3, <2>4 DEF Types, argVars
<1>7. QED
  BY <1>5, <1>6 DEF Begin

(* The entries of a slice come behind those of the slices before. *)
LEMMA SliceDoneKeeps == ASSUME IInv, NEW b \in Batches, SliceDone(b) PROVE IInv'
<1> USE DEF IInv
<1> DEFINE k == from[b]
           last == IF mode[b] = "engine" \/ size[b] <= k + BatchSize
                   THEN size[b] ELSE k + BatchSize
           n == Cardinality(Slice(b, k))
           f == [i \in 1 .. last |-> Entry(b, item[<<b, i>>])]
<1>1. /\ Types /\ Good(b) /\ MaxLen \in Nat /\ size[b] \in 0 .. MaxLen /\ k \in 0 .. size[b]
      /\ BatchSize \in Nat \ {0} /\ mode[b] \in Modes
  BY BatchAssumption DEF Types, Good, Layout
<1>2. /\ last \in k .. size[b] /\ Slice(b, k) = k + 1 .. last /\ n = last - k
      /\ Slice(b, k) = {} <=> k = size[b]
  BY <1>1, SliceSpan
<1>3. /\ n \in Nat /\ last \in Nat /\ k \in Nat /\ k + n = last /\ last <= MaxLen
      /\ last \in 0 .. size[b]
  BY <1>1, <1>2
<1>4. NextSlice(b, last) /\ loaded' \in BOOLEAN /\ UNCHANGED <<argVars, free>>
  BY <1>1, <1>3 DEF SliceDone, Types
<1>5. ASSUME NEW i \in 1 .. MaxLen, i <= last PROVE item[<<b, i>>] \in Accepted(b)
  <2>1. CASE i <= k
    BY <1>1, <1>3, <2>1 DEF Good, Layout
  <2>2. CASE i > k
    <3>1. i \in Slice(b, k)
      BY <1>2, <1>3, <1>5, <2>2
    <3>2. QED
      BY <3>1 DEF SliceDone, Gathered, Accepted
  <2>3. QED
    BY <1>3, <2>1, <2>2
<1>6. ASSUME NEW i \in 1 .. MaxLen, i > last PROVE item[<<b, i>>] = "none"
  <2>1. i > k /\ i \notin Slice(b, k)
    BY <1>2, <1>3, <1>6
  <2>2. QED
    BY <1>1, <2>1 DEF Good, Layout
<1>7. results' = [results EXCEPT ![b] = f]
  <2>1. f \in [1 .. last -> Entries]
    BY DEF Entry, Entries
  <2>2. results[b] = [i \in 1 .. k |-> f[i]]
    BY <1>1, <1>3 DEF Good, Collected
  <2>3. [i \in 1 .. n |-> Entry(b, item[<<b, k + i>>])] = [i \in 1 .. n |-> f[k + i]]
    BY <1>3
  <2> HIDE DEF n, f, last
  <2>4. f \in [1 .. k + n -> Entries]
    BY <1>3, <2>1
  <2>5. [i \in 1 .. k |-> f[i]] \o [i \in 1 .. n |-> f[k + i]] = f
    BY <1>3, <2>4, Appended
  <2>6. results' = [results EXCEPT ![b] = @ \o [i \in 1 .. n |-> Entry(b, item[<<b, k + i>>])]]
    BY DEF SliceDone, n
  <2>7. QED
    BY <2>2, <2>3, <2>5, <2>6
<1>8. ASSUME mode[b] = "items", last < size[b] PROVE \E q \in Nat : last = q * BatchSize
  <2>1. k < size[b] /\ last = k + BatchSize
    BY <1>1, <1>8 DEF Modes
  <2>2. PICK q \in Nat : k = q * BatchSize
    BY <1>1, <1>8, <2>1 DEF Good, WholeSlices
  <2>3. last = (q + 1) * BatchSize /\ q + 1 \in Nat
    BY <1>1, <2>1, <2>2
  <2>4. QED
    BY <2>3
<1> HIDE DEF last
<1>9. QED
  BY <1>3, <1>4, <1>5, <1>6, <1>7, <1>8, NextSliceKeeps

LEMMA NextBatchKeeps == ASSUME IInv, NEW b \in Batches, NextBatch(b) PROVE IInv'
<1> USE DEF IInv
<1>1. Types /\ MaxConcurrent \in Nat /\ MaxLen \in Nat
  BY BatchAssumption
<1>2. \A c \in Batches, i \in 1 .. MaxLen :
         item'[<<c, i>>] = IF c = b THEN "none" ELSE item[<<c, i>>]
  BY DEF NextBatch, Items
<1>3. Types'
  <2>1. item' \in [Items -> ItemStates]
    BY <1>1 DEF NextBatch, Types, ItemStates
  <2>2. bpc' \in [Batches -> BatchStates] /\ mode' \in [Batches -> Modes]
    BY <1>1 DEF NextBatch, Types, BatchStates, Modes
  <2>3. size' \in [Batches -> 0 .. MaxLen] /\ from' \in [Batches -> 0 .. MaxLen]
    BY <1>1 DEF NextBatch, Types
  <2>4. partial' \in [Batches -> BOOLEAN] /\ free' \in [Batches -> Nat]
    BY <1>1 DEF NextBatch, Types
  <2>5. results' \in [Batches -> Seq(Entries)] /\ loaded' \in BOOLEAN
    BY <1>1 DEF NextBatch, Types
  <2>6. QED
    BY <2>1, <2>2, <2>3, <2>4, <2>5 DEF Types
<1>4. Good(b)'
  <2>1. Working(b)' = {}
    BY <1>2 DEF Working
  <2>2. from'[b] = 0 /\ size'[b] = 0 /\ mode'[b] = "items" /\ results'[b] = <<>>
    BY <1>1 DEF NextBatch, Types
  <2>3. free'[b] = MaxConcurrent
    BY <1>1 DEF NextBatch, Types
  <2>4. Permits(b)'
    BY <1>1, <2>1, <2>3, FS_EmptySet DEF Permits
  <2>5. QED
    BY <1>2, <2>2, <2>4 DEF Good, Layout, Collected, WholeSlices, Phases
<1>5. ASSUME NEW c \in Batches, c # b PROVE Good(c)'
  <2>1. \A i \in 1 .. MaxLen : item'[<<c, i>>] = item[<<c, i>>]
    BY <1>2, <1>5
  <2>2. /\ bpc'[c] = bpc[c] /\ mode'[c] = mode[c] /\ size'[c] = size[c]
        /\ partial'[c] = partial[c] /\ from'[c] = from[c] /\ free'[c] = free[c]
        /\ results'[c] = results[c]
    BY <1>1, <1>5 DEF NextBatch, Types
  <2>3. from[c] <= MaxLen /\ from[c] \in Nat
    BY <1>1 DEF Types
  <2>4. QED
    BY <2>1, <2>2, <2>3, OthersKeep
<1>6. QED
  BY <1>3, <1>4, <1>5
-----------------------------------------------------------------------------
(* IInv is inductive. *)
THEOREM Invariance == Spec => []IInv
<1>1. ASSUME IInv, [Next]_vars PROVE IInv'
  <2>1. CASE UNCHANGED vars
    <3>1. \A b \in Batches : Good(b)'
      <4> SUFFICES ASSUME NEW b \in Batches PROVE Good(b)'
        OBVIOUS
      <4>1. Good(b) /\ from[b] <= MaxLen /\ from[b] \in Nat
        BY <1>1, BatchAssumption DEF IInv, Types
      <4>2. QED
        BY <2>1, <4>1, OthersKeep DEF vars, argVars
    <3>2. QED
      BY <1>1, <2>1, <3>1 DEF IInv, Types, vars, argVars
  <2>2. QED
    BY <1>1, <2>1, CallKeeps, BeginKeeps, SliceDoneKeeps, ItemKeeps, NextBatchKeeps DEF Next
<1>2. QED
  BY <1>1, InitIInv, PTL DEF Spec

(* Every variable keeps its type; no semaphore has more permits than it    *)
(* was made with.                                                          *)
THEOREM TypesKept == Spec => []TypeOK
<1>1. ASSUME IInv PROVE TypeOK
  <2>1. ASSUME NEW b \in Batches PROVE free[b] \in 0 .. MaxConcurrent
    <3>1. free[b] \in Nat /\ MaxConcurrent \in Nat /\ Permits(b)
      BY <1>1, BatchAssumption DEF IInv, Types, Good
    <3>2. Cardinality(Working(b)) \in Nat
      BY WorkingSet
    <3>3. QED
      BY <3>1, <3>2 DEF Permits
  <2>2. free \in [Batches -> 0 .. MaxConcurrent]
    BY <1>1, <2>1 DEF IInv, Types
  <2>3. QED
    BY <1>1, <2>2 DEF IInv, Types, TypeOK
<1>2. QED
  BY <1>1, Invariance, PTL

(* A batch that returns has the entry of every item at its place. *)
THEOREM EveryItemIsAnswered == Spec => []BatchComplete
<1>1. ASSUME IInv PROVE BatchComplete
  <2> SUFFICES ASSUME NEW b \in Batches, bpc[b] = "returned"
               PROVE  /\ results[b] = [i \in 1 .. size[b] |-> Entry(b, item[<<b, i>>])]
                      /\ ~Forgiving(b) => \A i \in 1 .. size[b] : results[b][i] = "ok"
    BY DEF BatchComplete, Forgiving
  <2>1. from[b] = size[b] /\ Layout(b) /\ Collected(b)
    BY <1>1 DEF IInv, Good, Phases
  <2>2. QED
    BY <2>1 DEF Layout, Collected, Accepted, Entry
<1>2. QED
  BY <1>1, Invariance, PTL

(* Items work within their permits and within one slice. *)
THEOREM ItemsAreThrottled == Spec => []Throttled
<1>1. ASSUME IInv PROVE Throttled
  <2> SUFFICES ASSUME NEW b \in Batches, mode[b] = "items"
               PROVE  /\ MaxConcurrent > 0 => Cardinality(Working(b)) <= MaxConcurrent
                      /\ \A i, k \in 1 .. MaxLen :
                            /\ (k - 1) \div BatchSize < (i - 1) \div BatchSize
                            /\ item[<<b, i>>] # "none"
                            => item[<<b, k>>] \in (IF partial[b] THEN Ended ELSE {"ok"})
    BY DEF Throttled
  <2>1. /\ Good(b) /\ MaxLen \in Nat /\ size[b] \in 0 .. MaxLen /\ from[b] \in 0 .. MaxLen
        /\ free[b] \in Nat /\ MaxConcurrent \in Nat /\ BatchSize \in Nat \ {0}
    BY <1>1, BatchAssumption DEF IInv, Types
  <2>2. MaxConcurrent > 0 => Cardinality(Working(b)) <= MaxConcurrent
    BY <2>1, WorkingSet DEF Good, Permits, Limited
  <2>3. ASSUME NEW i \in 1 .. MaxLen, NEW k \in 1 .. MaxLen,
               (k - 1) \div BatchSize < (i - 1) \div BatchSize, item[<<b, i>>] # "none"
        PROVE  item[<<b, k>>] \in (IF partial[b] THEN Ended ELSE {"ok"})
    <3>1. k <= from[b]
      <4>1. CASE i <= from[b]
        <5>1. i - 1 \in Nat /\ k - 1 \in Nat
          BY <2>1
        <5>2. k - 1 < i - 1
          BY <2>1, <2>3, <5>1
        <5>3. QED
          BY <2>1, <4>1, <5>2
      <4>2. CASE i > from[b]
        <5>1. i \in Slice(b, from[b])
          BY <2>1, <2>3, <4>2 DEF Good, Layout
        <5>2. i <= size[b] /\ i <= from[b] + BatchSize
          BY <5>1 DEF Slice
        <5>3. PICK q \in Nat : from[b] = q * BatchSize
          BY <2>1, <4>2, <5>2 DEF Good, WholeSlices
        <5>4. i <= q * BatchSize + BatchSize
          BY <5>2, <5>3
        <5>5. k <= q * BatchSize
          BY <2>1, <2>3, <5>4
        <5>6. QED
          BY <5>3, <5>5
      <4>3. QED
        BY <2>1, <4>1, <4>2
    <3>2. QED
      BY <2>1, <3>1 DEF Good, Layout, Accepted, Forgiving
  <2>4. QED
    BY <2>2, <2>3
<1>2. QED
  BY <1>1, Invariance, PTL
=============================================================================
