----------------------- MODULE SurroundingsAnswersProofs -----------------------
(***************************************************************************)
(* What the parts around the write path answer, and the types of all their *)
(* variables, for every value of the constants.                            *)
(*                                                                         *)
(* The viewer.  ViewerShowsTheWindow: PagesInv says of the page cache that *)
(* it holds each page once and the current page for the user, and that     *)
(* only the current page and its neighbours are loading (LoadsNear): there *)
(* are three of these at most, so evicting always makes room (EvictOK).    *)
(* That pages tile the dataset and that a seek lands on the bar asked for  *)
(* (PagesAddUp) is arithmetic on offsets (PageCountIs, PageIs, PageForIs,  *)
(* PlaceIs).                                                               *)
(*                                                                         *)
(* The status of a dataset.  TimeOnlyWorsens: what is walked, expected and *)
(* owed only grows with time (WalkedGrows, ExpectedGrows, OwedGrows), the  *)
(* first period not stored does not get later, and so neither does its     *)
(* deadline (DailyWorsens).                                                *)
(*                                                                         *)
(* The usage figures.  UsageOutlivesTheRollup: UsageInv says of each day's *)
(* row that it is the summary of the reads of its day that were folded     *)
(* (FoldedIs); the sum over days is then the count of those reads          *)
(* (CountsAddUp), and each figure counts every read once (SinceIs, LastIs, *)
(* ReadersIs).                                                             *)
(*                                                                         *)
(* The catalog's grid.  WalkIsConsistent: GridInv says of the current walk *)
(* that its pages rise in the list's order (PagesRise), that of the rows   *)
(* that did not change they show what the list has (AreRows) and leave     *)
(* none out as far as they go (NoneLeftOut), the page on its way included, *)
(* and that a block on screen is one of them (ShownFits).  A page is the   *)
(* next rows behind its cursor (InOrderIs, PageAfterIs), so one more page  *)
(* keeps this (AppendFits).                                                *)
(*                                                                         *)
(* The types.  TypesInv adds to the parts' invariants what the shapes need *)
(* besides: which ways the screen may miss a change (MissedTyped), what    *)
(* is opened and how often (PagesTyped), that the newest bar was written   *)
(* no later than now (HealthTyped), that a pass is on only while the       *)
(* runner runs it (PassFits), which failures carry a reset (ResetFits).    *)
(* A batch is within the cap because the turns of a class number it        *)
(* (TurnIs, FirstFew).                                                     *)
(*                                                                         *)
(* The refresh.  DueIsAsked: WaitInv counts the others that were asked for *)
(* behind the last run of a dataset that waits.  A pass that leaves it out *)
(* takes half a cap that go before it (TakenBefore); none of these was     *)
(* counted yet, since who was asked for since goes behind (WentIsLater),   *)
(* and each is when its request ends (RequestWent).  NoFireMissed is the   *)
(* same for the runner and its timer.                                      *)
(***************************************************************************)
EXTENDS SurroundingsProofs, FiniteSetTheorems

---------------------------------------------------------------------------
(* Places in a sequence, counted. *)

Rank(S, i) == Cardinality({j \in S : j < i})

\* The ranks of a finite set of numbers are those from 0 on, each once.
LEMMA RankIs ==
  ASSUME NEW S \in SUBSET Int, IsFiniteSet(S)
  PROVE  /\ Cardinality(S) \in Nat
         /\ \A i \in S : Rank(S, i) \in 0 .. Cardinality(S) - 1
         /\ \A i, j \in S : i < j => Rank(S, i) < Rank(S, j)
         /\ \A m \in 0 .. Cardinality(S) - 1 : \E i \in S : Rank(S, i) = m
<1>1. Cardinality(S) \in Nat
  BY FS_CardinalityType
<1>2. ASSUME NEW i \in S
      PROVE  Rank(S, i) \in 0 .. Cardinality(S) - 1
  <2>1. PICK T \in SUBSET S : T = {j \in S : j < i}
    OBVIOUS
  <2>2. IsFiniteSet(T) /\ Cardinality(T) <= Cardinality(S) /\ (Cardinality(S) = Cardinality(T) => S = T)
    BY FS_Subset
  <2>3. i \notin T
    BY <2>1
  <2>4. Cardinality(T) \in Nat /\ Cardinality(T) # Cardinality(S)
    BY <2>2, <2>3, FS_CardinalityType
  <2> QED
    BY <1>1, <2>1, <2>2, <2>4 DEF Rank
<1>3. ASSUME NEW i \in S, NEW j \in S, i < j
      PROVE  Rank(S, i) < Rank(S, j)
  <2>1. PICK U \in SUBSET S : U = {k \in S : k < i}
    OBVIOUS
  <2>2. PICK W \in SUBSET S : W = {k \in S : k < j}
    OBVIOUS
  <2>3. IsFiniteSet(W) /\ U \in SUBSET W /\ i \in W /\ i \notin U
    <3>1. ASSUME NEW k \in S, k < i
          PROVE  k < j
      <4>1. k \in Int /\ i \in Int /\ j \in Int
        OBVIOUS
      <4> QED
        BY <1>3, <3>1, <4>1
    <3>2. U \in SUBSET W /\ i \in W
      BY <1>3, <2>1, <2>2, <3>1
    <3>3. i \notin U
      BY <2>1
    <3> QED
      BY <3>2, <3>3, FS_Subset
  <2>4. IsFiniteSet(U) /\ Cardinality(U) <= Cardinality(W) /\ (Cardinality(W) = Cardinality(U) => W = U)
    BY <2>3, FS_Subset
  <2>5. Cardinality(U) \in Nat /\ Cardinality(W) \in Nat /\ Cardinality(U) # Cardinality(W)
    BY <2>3, <2>4, FS_CardinalityType
  <2> QED
    BY <2>1, <2>2, <2>4, <2>5 DEF Rank
<1>4. ASSUME NEW m \in 0 .. Cardinality(S) - 1
      PROVE  \E i \in S : Rank(S, i) = m
  <2> DEFINE f == [i \in S |-> Rank(S, i)]
             T == 0 .. Cardinality(S) - 1
  <2>1. f \in [S -> T]
    BY <1>2
  <2>2. \A i, j \in S : f[i] = f[j] => i = j
    <3>1. ASSUME NEW i \in S, NEW j \in S, f[i] = f[j], i # j
          PROVE  FALSE
      <4>1. Rank(S, i) = Rank(S, j) /\ Rank(S, i) \in Int
        BY <1>2, <3>1
      <4>2. i < j \/ j < i
        BY <3>1
      <4> QED
        BY <1>3, <4>1, <4>2
    <3> QED
      BY <3>1
  <2>4. IsFiniteSet(T) /\ Cardinality(T) = Cardinality(S)
    <3>1. Cardinality(S) - 1 \in Int /\ 0 \in Int
      BY <1>1
    <3>2. IsFiniteSet(T) /\ Cardinality(T) = IF 0 > Cardinality(S) - 1 THEN 0 ELSE (Cardinality(S) - 1) - 0 + 1
      BY <3>1, FS_Interval
    <3> QED
      BY <1>1, <3>2
  <2> HIDE DEF f, T
  <2>3. f \in Injection(S, T)
    BY <2>1, <2>2 DEF Injection, IsInjective
  <2>5. f \in Surjection(S, T)
    BY <2>3, <2>4, FS_Injection
  <2>6. m \in T
    BY DEF T
  <2>7. PICK i \in S : f[i] = m
    BY <2>5, <2>6 DEF Surjection
  <2> QED
    BY <2>7 DEF f
<1> QED
  BY <1>1, <1>2, <1>3, <1>4

\* The entries at some places: as many, each once, and no others.
LEMMA OnlyIs ==
  ASSUME NEW S, NEW es \in Seq(S), NEW places \in SUBSET (1 .. Len(es))
  PROVE  /\ Only(es, places) \in Seq(S) /\ Len(Only(es, places)) = Cardinality(places)
         /\ \E f \in [1 .. Cardinality(places) -> places] :
              /\ \A i \in 1 .. Cardinality(places) : Only(es, places)[i] = es[f[i]]
              /\ \A i, j \in 1 .. Cardinality(places) : f[i] = f[j] => i = j
              /\ \A p \in places : \E i \in 1 .. Cardinality(places) : f[i] = p
<1>1. Len(es) \in Nat /\ places \in SUBSET Int /\ IsFiniteSet(places)
  <2>1. IsFiniteSet(1 .. Len(es))
    <3>1. PICK a \in Int, b \in Int : a = 1 /\ b = Len(es)
      OBVIOUS
    <3> QED
      BY <3>1, FS_Interval
  <2>2. Len(es) \in Nat /\ places \in SUBSET Int
    OBVIOUS
  <2> QED
    BY <2>1, <2>2, FS_Subset
<1>2. PICK c \in Nat : c = Cardinality(places)
  BY <1>1, FS_CardinalityType
<1>3. /\ \A i \in places : Rank(places, i) \in 0 .. c - 1
      /\ \A i, j \in places : i < j => Rank(places, i) < Rank(places, j)
      /\ \A m \in 0 .. c - 1 : \E i \in places : Rank(places, i) = m
  BY <1>1, <1>2, RankIs
<1> DEFINE f == [n \in 1 .. c |-> CHOOSE i \in places : Rank(places, i) = n - 1]
<1>4. ASSUME NEW n \in 1 .. c
      PROVE  f[n] \in places /\ Rank(places, f[n]) = n - 1
  <2>1. PICK m \in 0 .. c - 1 : m = n - 1
    OBVIOUS
  <2>2. \E i \in places : Rank(places, i) = m
    BY <1>3
  <2>3. f[n] = CHOOSE i \in places : Rank(places, i) = m
    BY <2>1
  <2> QED
    BY <2>1, <2>2, <2>3
<1>5. f \in [1 .. c -> places]
  BY <1>4
<1>6. ASSUME NEW i \in 1 .. c, NEW j \in 1 .. c, f[i] = f[j]
      PROVE  i = j
  BY <1>4, <1>6
<1>7. ASSUME NEW p \in places
      PROVE  \E i \in 1 .. c : f[i] = p
  <2>1. PICK m \in 0 .. c - 1 : m = Rank(places, p)
    BY <1>3
  <2>2. m + 1 \in 1 .. c /\ (m + 1) - 1 = m
    OBVIOUS
  <2>3. f[m + 1] \in places /\ Rank(places, f[m + 1]) = m
    BY <1>4, <2>2
  <2>4. f[m + 1] = p
    <3>1. f[m + 1] \in Int /\ p \in Int
      BY <1>1, <2>3
    <3>2. f[m + 1] < p \/ p < f[m + 1] \/ f[m + 1] = p
      BY <3>1
    <3>3. m \in Int
      OBVIOUS
    <3> QED
      BY <1>3, <2>1, <2>3, <3>2, <3>3
  <2> QED
    BY <2>2, <2>4
<1>8. Only(es, places) = [n \in 1 .. c |-> es[f[n]]]
  BY <1>2 DEF Only, Rank
<1> HIDE DEF f
<1>9. PICK r : r = [n \in 1 .. c |-> es[f[n]]]
  OBVIOUS
<1>10. r \in Seq(S) /\ Len(r) = c /\ \A n \in 1 .. c : r[n] = es[f[n]]
  <2>1. ASSUME NEW n \in 1 .. c
        PROVE  es[f[n]] \in S
    <3>1. f[n] \in 1 .. Len(es)
      BY <1>5
    <3> QED
      BY <3>1
  <2> QED
    BY <1>9, <2>1
<1>11. \A i, j \in 1 .. c : f[i] = f[j] => i = j
  BY <1>6
<1>12. \A p \in places : \E i \in 1 .. c : f[i] = p
  BY <1>7
<1>13. \E g \in [1 .. c -> places] :
         /\ \A i \in 1 .. c : r[i] = es[g[i]]
         /\ \A i, j \in 1 .. c : g[i] = g[j] => i = j
         /\ \A p \in places : \E i \in 1 .. c : g[i] = p
  BY <1>5, <1>10, <1>11, <1>12, Zenon
<1>14. Only(es, places) = r
  BY <1>8, <1>9
<1>15. Only(es, places) \in Seq(S) /\ Len(Only(es, places)) = Cardinality(places)
  BY <1>2, <1>10, <1>14, Zenon
<1>16. PICK g \in [1 .. c -> places] :
         /\ \A i \in 1 .. c : Only(es, places)[i] = es[g[i]]
         /\ \A i, j \in 1 .. c : g[i] = g[j] => i = j
         /\ \A p \in places : \E i \in 1 .. c : g[i] = p
  BY <1>13, <1>14, Zenon
<1>17. /\ g \in [1 .. Cardinality(places) -> places]
       /\ \A i \in 1 .. Cardinality(places) : Only(es, places)[i] = es[g[i]]
       /\ \A i, j \in 1 .. Cardinality(places) : g[i] = g[j] => i = j
       /\ \A p \in places : \E i \in 1 .. Cardinality(places) : g[i] = p
  BY <1>2, <1>16, Zenon
<1> QED
  BY <1>15, <1>17, Zenon

---------------------------------------------------------------------------
(* The viewer's cache. *)

EntriesOf(n) == [k : Pages(n), st : {"loading", "ready", "error"}, user : BOOLEAN]

\* A page is listed once.
ListOK(es, n) == es \in Seq(EntriesOf(n)) /\ \A i, j \in 1 .. Len(es) : es[i].k = es[j].k => i = j

LoadsNear(es, now) == \A i \in 1 .. Len(es) : es[i].st = "loading" => es[i].k \in Protected(now)

\* The cache keeps within its bound, and loads nothing but the page on screen and its neighbours: so
\* there is always something to evict.
CacheOK(es, now, n) == ListOK(es, n) /\ Len(es) <= Capacity /\ LoadsNear(es, now)

\* The page is held for the user, who hears of its failure.
HeldFor(es, k) == \E i \in 1 .. Len(es) : es[i].k = k /\ es[i].user

\* What was held of some pages is held still.
Keeps(r, es, ks) == \A p \in 1 .. Len(es) : es[p].k \in ks => \E i \in 1 .. Len(r) : r[i] = es[p]

Renewed(es, e) == Append(Forget(es, {e.k}), e)

\* One page's entry is new, the others are as they were.
Swapped(r, es, e) ==
    /\ \A i \in 1 .. Len(r) : r[i] = e \/ (r[i].k # e.k /\ \E p \in 1 .. Len(es) : r[i] = es[p])
    /\ \E i \in 1 .. Len(r) : r[i] = e
    /\ \A p \in 1 .. Len(es) : es[p].k # e.k => \E i \in 1 .. Len(r) : r[i] = es[p]

PagesInv ==
    /\ opening \in Nat /\ indexing \subseteq 1 .. opening
    /\ index.n \in Nat
    /\ indexSt = "ready" => index.open = opening /\ opening > 0
    /\ indexSt # "ready" => index = NoIndex /\ cur = Nowhere
    /\ opening \in indexing => indexSt = "loading"
    /\ cur = Nowhere => entries = <<>> /\ ~resting
    /\ cur # Nowhere => cur \in Pages(index.n) /\ CacheOK(entries, cur, index.n) /\ HeldFor(entries, cur)

LEMMA EntryTyped ==
  ASSUME NEW n, NEW es, ListOK(es, n), NEW i \in 1 .. Len(es)
  PROVE  /\ es[i] \in EntriesOf(n) /\ es[i].k \in Pages(n) /\ es[i].user \in BOOLEAN
         /\ es[i].st \in {"loading", "ready", "error"}
<1>1. es[i] \in EntriesOf(n)
  BY DEF ListOK
<1> QED
  BY <1>1 DEF EntriesOf

LEMMA PartIs ==
  ASSUME NEW n, NEW es, ListOK(es, n), NEW places \in SUBSET (1 .. Len(es))
  PROVE  /\ ListOK(Only(es, places), n) /\ Len(Only(es, places)) = Cardinality(places)
         /\ \A i \in 1 .. Len(Only(es, places)) : \E p \in places : Only(es, places)[i] = es[p]
         /\ \A p \in places : \E i \in 1 .. Len(Only(es, places)) : Only(es, places)[i] = es[p]
<1>0. PICK r : r = Only(es, places)
  OBVIOUS
<1>1. es \in Seq(EntriesOf(n)) /\ \A i, j \in 1 .. Len(es) : es[i].k = es[j].k => i = j
  BY DEF ListOK
<1>2. r \in Seq(EntriesOf(n)) /\ Len(r) = Cardinality(places)
  BY <1>0, <1>1, OnlyIs
<1>3. PICK f \in [1 .. Cardinality(places) -> places] :
         /\ \A i \in 1 .. Cardinality(places) : r[i] = es[f[i]]
         /\ \A i, j \in 1 .. Cardinality(places) : f[i] = f[j] => i = j
         /\ \A p \in places : \E i \in 1 .. Cardinality(places) : f[i] = p
  BY <1>0, <1>1, OnlyIs
<1>4. /\ \A i \in 1 .. Len(r) : f[i] \in places /\ r[i] = es[f[i]]
      /\ \A i, j \in 1 .. Len(r) : f[i] = f[j] => i = j
      /\ \A p \in places : \E i \in 1 .. Len(r) : f[i] = p
  BY <1>2, <1>3, Zenon
<1>5. ASSUME NEW i \in 1 .. Len(r), NEW j \in 1 .. Len(r), r[i].k = r[j].k
      PROVE  i = j
  <2>1. f[i] \in 1 .. Len(es) /\ f[j] \in 1 .. Len(es) /\ es[f[i]].k = es[f[j]].k
    BY <1>4, <1>5
  <2>2. f[i] = f[j]
    BY <1>1, <2>1
  <2> QED
    BY <1>4, <2>2
<1>6. \A i \in 1 .. Len(r) : \E p \in places : r[i] = es[p]
  BY <1>4
<1>7. \A p \in places : \E i \in 1 .. Len(r) : r[i] = es[p]
  BY <1>4
<1>8. ListOK(r, n) /\ Len(r) = Cardinality(places)
  BY <1>2, <1>5 DEF ListOK
<1> QED
  BY <1>0, <1>6, <1>7, <1>8, Zenon

\* The places of a sequence are as many as it is long.
LEMMA PlacesAre ==
  ASSUME NEW S, NEW es \in Seq(S)
  PROVE  Len(es) \in Nat /\ IsFiniteSet(1 .. Len(es)) /\ Cardinality(1 .. Len(es)) = Len(es)
<1>1. PICK a \in Int, b \in Int : a = 1 /\ b = Len(es)
  OBVIOUS
<1>2. IsFiniteSet(a .. b) /\ Cardinality(a .. b) = IF a > b THEN 0 ELSE b - a + 1
  BY FS_Interval
<1>3. Len(es) \in Nat
  OBVIOUS
<1> QED
  BY <1>1, <1>2, <1>3

LEMMA NearIsThree ==
  ASSUME NEW now \in Int
  PROVE  IsFiniteSet(Protected(now)) /\ Cardinality(Protected(now)) = 3
<1>1. PICK a \in Int, b \in Int : a = now - 1 /\ b = now + 1
  OBVIOUS
<1>2. IsFiniteSet(a .. b) /\ Cardinality(a .. b) = IF a > b THEN 0 ELSE b - a + 1
  BY FS_Interval
<1>3. Protected(now) = a .. b
  BY <1>1 DEF Protected
<1>4. Cardinality(a .. b) = 3
  BY <1>1, <1>2
<1> QED
  BY <1>2, <1>3, <1>4


\* Whatever there is too much of is evicted, and nothing that is on screen or next to it.
LEMMA EvictOK ==
  ASSUME NEW n, NEW now \in Int, NEW es, ListOK(es, n), LoadsNear(es, now)
  PROVE  CacheOK(Evict(es, now), now, n) /\ Keeps(Evict(es, now), es, Protected(now))
<1> DEFINE all    == 1 .. Len(es)
           idle   == {i \in all : es[i].st # "loading" /\ es[i].k \notin Protected(now)}
           busy   == all \ idle
           excess == Len(es) - Capacity
           goes   == {i \in idle : Rank(idle, i) < excess}
<1>0. PICK r : r = Evict(es, now)
  OBVIOUS
<1>1. r = Only(es, all \ goes)
  BY <1>0 DEF Evict, Rank
<1>2. Len(es) \in Nat /\ IsFiniteSet(all) /\ Cardinality(all) = Len(es)
  BY PlacesAre DEF ListOK
<1>3. Capacity \in Nat /\ Capacity >= 3
  BY PagesAssumption
<1>4. /\ idle \in SUBSET all /\ busy \in SUBSET all /\ goes \in SUBSET idle /\ goes \in SUBSET all
      /\ idle \in SUBSET Int /\ all \cap goes = goes /\ all \cap busy = busy /\ all \ busy = idle
  OBVIOUS
<1>5. \A i \in busy : es[i].k \in Protected(now)
  BY DEF LoadsNear
<1>6. \A i \in goes : es[i].k \notin Protected(now)
  OBVIOUS
<1>7. \A i \in goes : Rank(idle, i) < excess
  OBVIOUS
<1>8. \A i \in idle : Rank(idle, i) < excess => i \in goes
  OBVIOUS
<1> HIDE DEF all, idle, busy, goes
<1>9. IsFiniteSet(idle) /\ IsFiniteSet(busy) /\ IsFiniteSet(goes)
  BY <1>2, <1>4, FS_Subset
<1>10. /\ Cardinality(idle) \in Nat /\ Cardinality(busy) \in Nat /\ Cardinality(goes) \in Nat
       /\ Cardinality(all \ goes) = Len(es) - Cardinality(goes)
       /\ Cardinality(idle) = Len(es) - Cardinality(busy)
  <2>1. Cardinality(idle) \in Nat /\ Cardinality(busy) \in Nat /\ Cardinality(goes) \in Nat
    BY <1>9, FS_CardinalityType
  <2>2. /\ Cardinality(all \ goes) = Cardinality(all) - Cardinality(all \cap goes)
        /\ Cardinality(all \ busy) = Cardinality(all) - Cardinality(all \cap busy)
    BY <1>2, FS_Difference
  <2> QED
    BY <1>2, <1>4, <2>1, <2>2
<1>11. Cardinality(busy) <= 3
  <2> DEFINE f == [i \in busy |-> es[i].k]
  <2>1. f \in [busy -> Protected(now)]
    BY <1>5
  <2>2. \A i, j \in busy : f[i] = f[j] => i = j
    BY <1>4 DEF ListOK, all
  <2> HIDE DEF f
  <2>3. f \in Injection(busy, Protected(now))
    BY <2>1, <2>2 DEF Injection, IsInjective
  <2>4. IsFiniteSet(Protected(now)) /\ Cardinality(Protected(now)) = 3
    BY NearIsThree
  <2> QED
    BY <2>3, <2>4, FS_Injection
<1>12. excess > 0 => Cardinality(goes) >= excess
  <2> SUFFICES ASSUME excess > 0 PROVE Cardinality(goes) >= excess
    OBVIOUS
  <2>1. PICK x \in Nat : x = excess /\ x > 0 /\ x <= Cardinality(idle)
    BY <1>2, <1>3, <1>10, <1>11
  <2>2. /\ \A i \in idle : Rank(idle, i) \in 0 .. Cardinality(idle) - 1
        /\ \A m \in 0 .. Cardinality(idle) - 1 : \E i \in idle : Rank(idle, i) = m
    BY <1>4, <1>9, RankIs
  <2> DEFINE f == [i \in goes |-> Rank(idle, i)]
             T == 0 .. x - 1
  <2>3. f \in [goes -> T]
    <3>1. ASSUME NEW i \in goes
          PROVE  Rank(idle, i) \in T
      <4>1. Rank(idle, i) \in 0 .. Cardinality(idle) - 1 /\ Rank(idle, i) < x
        BY <1>4, <1>7, <2>1, <2>2
      <4> QED
        BY <1>10, <4>1
    <3> QED
      BY <3>1
  <2>4. \A m \in T : \E i \in goes : f[i] = m
    <3>1. ASSUME NEW m \in T
          PROVE  \E i \in goes : f[i] = m
      <4>1. m \in 0 .. Cardinality(idle) - 1 /\ m < x
        BY <1>10, <2>1
      <4>2. PICK i \in idle : Rank(idle, i) = m
        BY <2>2, <4>1
      <4>3. i \in goes
        BY <1>8, <2>1, <4>1, <4>2
      <4> QED
        BY <4>2, <4>3
    <3> QED
      BY <3>1
  <2>5. IsFiniteSet(T) /\ Cardinality(T) = x
    <3>1. PICK a \in Int, b \in Int : a = 0 /\ b = x - 1
      OBVIOUS
    <3>2. IsFiniteSet(a .. b) /\ Cardinality(a .. b) = IF a > b THEN 0 ELSE b - a + 1
      BY FS_Interval
    <3> QED
      BY <2>1, <3>1, <3>2
  <2> HIDE DEF f, T
  <2>6. f \in Surjection(goes, T)
    BY <2>3, <2>4 DEF Surjection
  <2>7. Cardinality(T) <= Cardinality(goes)
    BY <1>9, <2>6, FS_Surjection
  <2> QED
    BY <1>10, <2>1, <2>5, <2>7
<1>13. PICK places \in SUBSET (1 .. Len(es)) : places = all \ goes
  BY DEF all
<1>14. /\ ListOK(r, n) /\ Len(r) = Cardinality(places)
       /\ \A i \in 1 .. Len(r) : \E p \in places : r[i] = es[p]
       /\ \A p \in places : \E i \in 1 .. Len(r) : r[i] = es[p]
  <2>1. r = Only(es, places)
    BY <1>1, <1>13
  <2>2. ListOK(es, n) /\ places \in SUBSET (1 .. Len(es))
    OBVIOUS
  <2> HIDE DEF excess
  <2>3. ListOK(Only(es, places), n)
    BY <2>2, PartIs
  <2>4. Len(Only(es, places)) = Cardinality(places)
    BY <2>2, PartIs
  <2>5. \A i \in 1 .. Len(Only(es, places)) : \E p \in places : Only(es, places)[i] = es[p]
    BY <2>2, PartIs
  <2>6. \A p \in places : \E i \in 1 .. Len(Only(es, places)) : Only(es, places)[i] = es[p]
    BY <2>2, PartIs
  <2> QED
    BY <2>1, <2>3, <2>4, <2>5, <2>6, Zenon
<1>15. Len(r) <= Capacity
  BY <1>2, <1>3, <1>10, <1>12, <1>13, <1>14
<1>16. LoadsNear(r, now)
  <2>1. ASSUME NEW i \in 1 .. Len(r), r[i].st = "loading"
        PROVE  r[i].k \in Protected(now)
    <3>1. PICK p \in places : r[i] = es[p]
      BY <1>14
    <3>2. p \in 1 .. Len(es) /\ es[p].st = "loading"
      BY <2>1, <3>1
    <3> QED
      BY <3>1, <3>2 DEF LoadsNear
  <2> QED
    BY <2>1 DEF LoadsNear
<1>17. ASSUME NEW i \in 1 .. Len(es), es[i].k \in Protected(now)
       PROVE  \E j \in 1 .. Len(r) : r[j] = es[i]
  <2>1. i \in places
    BY <1>6, <1>13, <1>17 DEF all
  <2> QED
    BY <1>14, <2>1
<1>18. CacheOK(r, now, n) /\ Keeps(r, es, Protected(now))
  BY <1>14, <1>15, <1>16, <1>17 DEF CacheOK, Keeps
<1> QED
  BY <1>0, <1>18, Zenon

\* What is said of a page is said of its one entry.
LEMMA EntryIs ==
  ASSUME NEW n, NEW es, ListOK(es, n), NEW i \in 1 .. Len(es)
  PROVE  EntryOf(es, es[i].k) = es[i] /\ StatusOf(es, es[i].k) = es[i].st /\ es[i].k \in Cached(es)
<1>1. \A j \in 1 .. Len(es) : es[j].k = es[i].k => j = i
  BY DEF ListOK
<1>2. (CHOOSE j \in 1 .. Len(es) : es[j].k = es[i].k) = i
  BY <1>1
<1>3. es[i].k \in Cached(es)
  BY DEF Cached
<1> QED
  BY <1>2, <1>3 DEF EntryOf, StatusOf

LEMMA EntryThere ==
  ASSUME NEW es, NEW k, StatusOf(es, k) # "absent"
  PROVE  \E i \in 1 .. Len(es) : es[i].k = k
BY DEF StatusOf, Cached

LEMMA AppendIs ==
  ASSUME NEW S, NEW f \in Seq(S), NEW e \in S
  PROVE  /\ Len(f) \in Nat /\ Append(f, e) \in Seq(S) /\ Len(Append(f, e)) = Len(f) + 1 /\ Append(f, e)[Len(f) + 1] = e
         /\ \A i \in 1 .. Len(f) : i \in 1 .. Len(Append(f, e)) /\ Append(f, e)[i] = f[i]
         /\ \A i \in 1 .. Len(Append(f, e)) : (i \in 1 .. Len(f) /\ Append(f, e)[i] = f[i]) \/ (i = Len(f) + 1 /\ Append(f, e)[i] = e)
<1>1. Len(f) \in Nat /\ Append(f, e) \in Seq(S) /\ Len(Append(f, e)) = Len(f) + 1
  OBVIOUS
<1>2. Append(f, e)[Len(f) + 1] = e
  OBVIOUS
<1>3. \A i \in 1 .. Len(f) : i \in 1 .. Len(Append(f, e)) /\ Append(f, e)[i] = f[i]
  OBVIOUS
<1>4. ASSUME NEW i \in 1 .. Len(Append(f, e))
      PROVE  i \in 1 .. Len(f) \/ i = Len(f) + 1
  BY <1>1
<1> QED
  BY <1>1, <1>2, <1>3, <1>4

LEMMA ForgetOK ==
  ASSUME NEW n, NEW es, ListOK(es, n), NEW ks
  PROVE  /\ ListOK(Forget(es, ks), n) /\ Len(Forget(es, ks)) \in Nat /\ Len(Forget(es, ks)) <= Len(es)
         /\ \A p \in 1 .. Len(es) : es[p].k \in ks => Len(Forget(es, ks)) < Len(es)
         /\ \A i \in 1 .. Len(Forget(es, ks)) :
              Forget(es, ks)[i].k \notin ks /\ \E p \in 1 .. Len(es) : Forget(es, ks)[i] = es[p]
         /\ \A p \in 1 .. Len(es) : es[p].k \notin ks => \E i \in 1 .. Len(Forget(es, ks)) : Forget(es, ks)[i] = es[p]
<1>1. PICK places \in SUBSET (1 .. Len(es)) : places = {i \in 1 .. Len(es) : es[i].k \notin ks}
  OBVIOUS
<1>2. PICK r : r = Only(es, places)
  OBVIOUS
<1>3. r = Forget(es, ks)
  BY <1>1, <1>2 DEF Forget
<1>4. /\ ListOK(Only(es, places), n) /\ Len(Only(es, places)) = Cardinality(places)
      /\ \A i \in 1 .. Len(Only(es, places)) : \E p \in places : Only(es, places)[i] = es[p]
      /\ \A p \in places : \E i \in 1 .. Len(Only(es, places)) : Only(es, places)[i] = es[p]
  BY PartIs
<1>5. /\ ListOK(r, n) /\ Len(r) = Cardinality(places)
      /\ \A i \in 1 .. Len(r) : \E p \in places : r[i] = es[p]
      /\ \A p \in places : \E i \in 1 .. Len(r) : r[i] = es[p]
  BY <1>2, <1>4, Zenon
<1>6. Len(es) \in Nat /\ IsFiniteSet(1 .. Len(es)) /\ Cardinality(1 .. Len(es)) = Len(es)
  BY PlacesAre DEF ListOK
<1>7. /\ IsFiniteSet(places) /\ Cardinality(places) <= Len(es) /\ Cardinality(places) \in Nat
      /\ Cardinality(places) = Len(es) => places = 1 .. Len(es)
  BY <1>6, FS_Subset, FS_CardinalityType
<1>8. ASSUME NEW p \in 1 .. Len(es), es[p].k \in ks
      PROVE  Len(r) < Len(es)
  <2>1. p \notin places
    BY <1>1, <1>8
  <2>2. Cardinality(places) # Len(es)
    BY <1>7, <2>1
  <2> QED
    BY <1>5, <1>6, <1>7, <2>2
<1>9. \A i \in 1 .. Len(r) : r[i].k \notin ks /\ \E p \in 1 .. Len(es) : r[i] = es[p]
  BY <1>1, <1>5
<1>10. \A p \in 1 .. Len(es) : es[p].k \notin ks => \E i \in 1 .. Len(r) : r[i] = es[p]
  BY <1>1, <1>5
<1>11. Len(r) \in Nat /\ Len(r) <= Len(es) /\ ListOK(r, n)
  BY <1>5, <1>7
<1> QED
  BY <1>3, <1>8, <1>9, <1>10, <1>11, Zenon

\* A page put last in place of what was held of it.
LEMMA RenewOK ==
  ASSUME NEW n, NEW es, ListOK(es, n), NEW e \in EntriesOf(n)
  PROVE  /\ ListOK(Renewed(es, e), n) /\ Len(Renewed(es, e)) \in Nat
         /\ e.k \in Cached(es) => Len(Renewed(es, e)) <= Len(es)
         /\ Swapped(Renewed(es, e), es, e)
<1>0. PICK k, ks, r : k = e.k /\ ks = {k} /\ r = Renewed(es, e)
  OBVIOUS
<1>1. PICK f : f = Forget(es, ks)
  OBVIOUS
<1>2. /\ ListOK(f, n) /\ Len(f) \in Nat /\ (k \in Cached(es) => Len(f) < Len(es))
      /\ \A i \in 1 .. Len(f) : f[i].k # k /\ \E p \in 1 .. Len(es) : f[i] = es[p]
      /\ \A p \in 1 .. Len(es) : es[p].k # k => \E i \in 1 .. Len(f) : f[i] = es[p]
  <2>1. ListOK(f, n) /\ Len(f) \in Nat
    BY <1>1, ForgetOK
  <2>2. ASSUME k \in Cached(es)
        PROVE  Len(f) < Len(es)
    <3>1. PICK p \in 1 .. Len(es) : es[p].k = k
      BY <2>2 DEF Cached
    <3>2. es[p].k \in ks
      BY <1>0, <3>1
    <3> QED
      BY <1>1, <3>2, ForgetOK
  <2>3. ASSUME NEW i \in 1 .. Len(f)
        PROVE  f[i].k # k /\ \E p \in 1 .. Len(es) : f[i] = es[p]
    <3>1. f[i].k \notin ks /\ \E p \in 1 .. Len(es) : f[i] = es[p]
      BY <1>1, ForgetOK
    <3> QED
      BY <1>0, <3>1
  <2>4. ASSUME NEW p \in 1 .. Len(es), es[p].k # k
        PROVE  \E i \in 1 .. Len(f) : f[i] = es[p]
    <3>1. es[p].k \notin ks
      BY <1>0, <2>4
    <3> QED
      BY <1>1, <3>1, ForgetOK
  <2> QED
    BY <2>1, <2>2, <2>3, <2>4
<1>3. f \in Seq(EntriesOf(n)) /\ r = Append(f, e)
  BY <1>0, <1>1, <1>2 DEF ListOK, Renewed
<1>4. PICK S : S = EntriesOf(n) /\ f \in Seq(S) /\ e \in S
  BY <1>3
<1>5. /\ Len(f) \in Nat /\ r \in Seq(S) /\ Len(r) = Len(f) + 1 /\ r[Len(f) + 1] = e
      /\ \A i \in 1 .. Len(f) : i \in 1 .. Len(r) /\ r[i] = f[i]
      /\ \A i \in 1 .. Len(r) : (i \in 1 .. Len(f) /\ r[i] = f[i]) \/ (i = Len(f) + 1 /\ r[i] = e)
  <2>1. /\ Len(f) \in Nat /\ Append(f, e) \in Seq(S) /\ Len(Append(f, e)) = Len(f) + 1 /\ Append(f, e)[Len(f) + 1] = e
        /\ \A i \in 1 .. Len(f) : i \in 1 .. Len(Append(f, e)) /\ Append(f, e)[i] = f[i]
        /\ \A i \in 1 .. Len(Append(f, e)) : (i \in 1 .. Len(f) /\ Append(f, e)[i] = f[i]) \/ (i = Len(f) + 1 /\ Append(f, e)[i] = e)
    BY <1>4, AppendIs
  <2> QED
    BY <1>3, <2>1, Zenon
<1>6. r \in Seq(EntriesOf(n))
  BY <1>4, <1>5
<1>7. Len(f) + 1 \in 1 .. Len(r)
  BY <1>5
<1>8. ASSUME NEW i \in 1 .. Len(r), NEW j \in 1 .. Len(r), r[i].k = r[j].k
      PROVE  i = j
  <2>1. CASE i = Len(f) + 1
    BY <1>0, <1>2, <1>5, <1>8, <2>1
  <2>2. CASE j = Len(f) + 1
    BY <1>0, <1>2, <1>5, <1>8, <2>2
  <2>3. CASE i # Len(f) + 1 /\ j # Len(f) + 1
    <3>1. i \in 1 .. Len(f) /\ j \in 1 .. Len(f) /\ f[i].k = f[j].k
      BY <1>5, <1>8, <2>3
    <3> QED
      BY <1>2, <3>1 DEF ListOK
  <2> QED
    BY <2>1, <2>2, <2>3
<1>9. ListOK(r, n)
  BY <1>6, <1>8 DEF ListOK
<1>10. Len(r) \in Nat /\ (k \in Cached(es) => Len(r) <= Len(es))
  <2>1. Len(es) \in Nat
    BY PlacesAre DEF ListOK
  <2> QED
    BY <1>2, <1>5, <2>1
<1>11. ASSUME NEW i \in 1 .. Len(r), r[i] # e
       PROVE  r[i].k # k /\ \E p \in 1 .. Len(es) : r[i] = es[p]
  <2>1. i \in 1 .. Len(f) /\ r[i] = f[i]
    BY <1>5, <1>11
  <2> QED
    BY <1>2, <2>1
<1>12. ASSUME NEW p \in 1 .. Len(es), es[p].k # k
       PROVE  \E i \in 1 .. Len(r) : r[i] = es[p]
  <2>1. PICK i \in 1 .. Len(f) : f[i] = es[p]
    BY <1>2, <1>12
  <2> QED
    BY <1>5, <2>1
<1>13. \E i \in 1 .. Len(r) : r[i] = e
  BY <1>5, <1>7
<1>14. Swapped(r, es, e)
  BY <1>0, <1>11, <1>12, <1>13 DEF Swapped
<1> QED
  BY <1>0, <1>9, <1>10, <1>14, Zenon

LEMMA PutOK ==
  ASSUME NEW n, NEW es, ListOK(es, n), NEW e \in EntriesOf(n), e.k \in Cached(es)
  PROVE  ListOK(Put(es, e), n) /\ Len(Put(es, e)) = Len(es) /\ Swapped(Put(es, e), es, e)
<1>0. PICK r : r = Put(es, e)
  OBVIOUS
<1>1. es \in Seq(EntriesOf(n)) /\ Len(es) \in Nat
  BY PlacesAre DEF ListOK
<1>2. \A i \in 1 .. Len(es) : es[i] \in EntriesOf(n)
  BY <1>1
<1>3. r = [i \in 1 .. Len(es) |-> IF es[i].k = e.k THEN e ELSE es[i]]
  BY <1>0 DEF Put
<1>4. \A i \in 1 .. Len(es) : (IF es[i].k = e.k THEN e ELSE es[i]) \in EntriesOf(n)
  BY <1>2
<1>5. r \in Seq(EntriesOf(n)) /\ Len(r) = Len(es)
  BY <1>1, <1>3, <1>4
<1>6. \A i \in 1 .. Len(es) : r[i] = (IF es[i].k = e.k THEN e ELSE es[i]) /\ r[i].k = es[i].k
  BY <1>3
<1>7. \A i, j \in 1 .. Len(r) : r[i].k = r[j].k => i = j
  BY <1>5, <1>6 DEF ListOK
<1>8. PICK q \in 1 .. Len(es) : es[q].k = e.k
  BY DEF Cached
<1>9. \A i \in 1 .. Len(r) : r[i] = e \/ (r[i].k # e.k /\ \E p \in 1 .. Len(es) : r[i] = es[p])
  BY <1>5, <1>6
<1>10. r[q] = e /\ q \in 1 .. Len(r)
  BY <1>5, <1>6, <1>8
<1>11. \A p \in 1 .. Len(es) : es[p].k # e.k => r[p] = es[p] /\ p \in 1 .. Len(r)
  BY <1>5, <1>6
<1>12. Swapped(r, es, e)
  BY <1>9, <1>10, <1>11 DEF Swapped
<1>13. ListOK(r, n) /\ Len(r) = Len(es)
  BY <1>5, <1>7 DEF ListOK
<1> QED
  BY <1>0, <1>12, <1>13, Zenon

LEMMA EntryMade ==
  ASSUME NEW n, NEW k \in Pages(n), NEW st \in {"loading", "ready", "error"}, NEW user \in BOOLEAN
  PROVE  /\ Entry(k, st, user) \in EntriesOf(n) /\ Entry(k, st, user).k = k
         /\ Entry(k, st, user).st = st /\ Entry(k, st, user).user = user
BY DEF Entry, EntriesOf

\* Reading a page into the cache: it is there, the user hears of it if they asked, and what is on
\* screen or next to it stays.
LEMMA LoadIntoOK ==
  ASSUME NEW n, NEW now \in Int, NEW es, CacheOK(es, now, n), NEW k \in Pages(n), k \in Protected(now),
         NEW user \in BOOLEAN
  PROVE  /\ CacheOK(LoadInto(es, k, user, now), now, n)
         /\ user => HeldFor(LoadInto(es, k, user, now), k)
         /\ \A q \in Protected(now) \ {k} : HeldFor(es, q) => HeldFor(LoadInto(es, k, user, now), q)
<1>1. PICK r : r = LoadInto(es, k, user, now)
  OBVIOUS
<1>2. ListOK(es, n) /\ Len(es) <= Capacity /\ LoadsNear(es, now) /\ Len(es) \in Nat /\ Capacity \in Nat
  BY PlacesAre, PagesAssumption DEF CacheOK, ListOK
<1>3. ASSUME NEW x, NEW e \in EntriesOf(n), e.k = k, Swapped(x, es, e)
      PROVE  /\ LoadsNear(x, now)
             /\ e.user => HeldFor(x, k)
             /\ \A q \in Protected(now) \ {k} : HeldFor(es, q) => HeldFor(x, q)
  <2>1. LoadsNear(x, now)
    BY <1>2, <1>3 DEF LoadsNear, Swapped
  <2>2. e.user => HeldFor(x, k)
    BY <1>3 DEF HeldFor, Swapped
  <2>3. \A q \in Protected(now) \ {k} : HeldFor(es, q) => HeldFor(x, q)
    BY <1>3 DEF HeldFor, Swapped
  <2> QED
    BY <2>1, <2>2, <2>3
<1>4. ASSUME StatusOf(es, k) \in {"ready", "loading"}
      PROVE  k \in Cached(es) /\ EntryOf(es, k).user \in BOOLEAN
  <2>1. PICK i \in 1 .. Len(es) : es[i].k = k
    BY <1>4, EntryThere
  <2> QED
    BY <1>2, <2>1, EntryIs, EntryTyped
<1>5. /\ CacheOK(r, now, n) /\ (user => HeldFor(r, k))
      /\ \A q \in Protected(now) \ {k} : HeldFor(es, q) => HeldFor(r, q)
  <2>1. CASE StatusOf(es, k) = "ready"
    <3>1. PICK u \in BOOLEAN : u = (EntryOf(es, k).user \/ user)
      BY <1>4, <2>1
    <3>2. PICK e \in EntriesOf(n) : e = Entry(k, "ready", u) /\ e.k = k /\ e.st = "ready" /\ e.user = u
      BY EntryMade
    <3>3. r = Renewed(es, e)
      BY <1>1, <2>1, <3>1, <3>2 DEF LoadInto, Renewed
    <3>4. ListOK(r, n) /\ Len(r) \in Nat /\ Len(r) <= Len(es) /\ Swapped(r, es, e)
      BY <1>2, <1>4, <2>1, <3>2, <3>3, RenewOK
    <3>5. CacheOK(r, now, n)
      BY <1>2, <1>3, <3>2, <3>4 DEF CacheOK
    <3>6. (user => HeldFor(r, k)) /\ \A q \in Protected(now) \ {k} : HeldFor(es, q) => HeldFor(r, q)
      BY <1>3, <3>1, <3>2, <3>4
    <3> QED
      BY <3>5, <3>6
  <2>2. CASE StatusOf(es, k) = "loading"
    <3>1. PICK u \in BOOLEAN : u = (EntryOf(es, k).user \/ user)
      BY <1>4, <2>2
    <3>2. PICK e \in EntriesOf(n) : e = Entry(k, "loading", u) /\ e.k = k /\ e.st = "loading" /\ e.user = u
      BY EntryMade
    <3>3. r = Put(es, e)
      BY <1>1, <2>2, <3>1, <3>2 DEF LoadInto
    <3>4. ListOK(r, n) /\ Len(r) = Len(es) /\ Swapped(r, es, e)
      BY <1>2, <1>4, <2>2, <3>2, <3>3, PutOK
    <3>5. CacheOK(r, now, n)
      BY <1>2, <1>3, <3>2, <3>4 DEF CacheOK
    <3>6. (user => HeldFor(r, k)) /\ \A q \in Protected(now) \ {k} : HeldFor(es, q) => HeldFor(r, q)
      BY <1>3, <3>1, <3>2, <3>4
    <3> QED
      BY <3>5, <3>6
  <2>3. CASE StatusOf(es, k) \notin {"ready", "loading"}
    <3>1. PICK e \in EntriesOf(n) : e = Entry(k, "loading", user) /\ e.k = k /\ e.st = "loading" /\ e.user = user
      BY EntryMade
    <3>2. PICK x : x = Renewed(es, e)
      OBVIOUS
    <3>3. r = Evict(x, now)
      BY <1>1, <2>3, <3>1, <3>2 DEF LoadInto, Renewed
    <3>4. ListOK(x, n) /\ Swapped(x, es, e)
      BY <1>2, <3>1, <3>2, RenewOK
    <3>5. /\ LoadsNear(x, now) /\ (user => HeldFor(x, k))
          /\ \A q \in Protected(now) \ {k} : HeldFor(es, q) => HeldFor(x, q)
      BY <1>3, <3>1, <3>4
    <3>6. CacheOK(r, now, n) /\ Keeps(r, x, Protected(now))
      BY <3>3, <3>4, <3>5, EvictOK
    <3>7. \A q \in Protected(now) : HeldFor(x, q) => HeldFor(r, q)
      BY <3>6 DEF HeldFor, Keeps
    <3>8. (user => HeldFor(r, k)) /\ \A q \in Protected(now) \ {k} : HeldFor(es, q) => HeldFor(r, q)
      BY <3>5, <3>7
    <3> QED
      BY <3>6, <3>8
  <2> QED
    BY <2>1, <2>2, <2>3
<1> QED
  BY <1>1, <1>5, Zenon

LEMMA ModIs ==
  ASSUME NEW a \in Nat, NEW b \in Nat \ {0}
  PROVE  \E q, m \in Nat : q = a \div b /\ m = a % b /\ m < b /\ a = b * q + m
<1>1. a % b \in Nat /\ a % b < b /\ a \div b \in Nat
  BY DivIs
<1>2. PICK q \in Nat, m \in Nat : q = a \div b /\ m = a % b
  BY <1>1
<1>3. a % b = a - b * (a \div b)
  BY Z3T(20)
<1>4. PICK p \in Nat : p = b * q
  OBVIOUS
<1>5. m = a - p
  BY <1>2, <1>3, <1>4
<1>6. a = p + m
  BY <1>5
<1>7. m < b /\ a = b * q + m
  BY <1>1, <1>2, <1>4, <1>6
<1> QED
  BY <1>2, <1>7

LEMMA PageCountIs ==
  ASSUME NEW n \in Nat
  PROVE  /\ PageCount(n) \in Nat /\ (n = 0 => PageCount(n) = 0) /\ (n > 0 => PageCount(n) >= 1)
         /\ \A k \in Pages(n) : k \in Nat /\ \A j \in 0 .. k : j \in Pages(n)
<1>1. PICK b \in Nat \ {0} : b = PageBars
  BY PagesAssumption
<1>2. PICK q \in Nat, m \in Nat : q = n \div b /\ m = n % b /\ m < b /\ n = b * q + m
  BY ModIs
<1>3. q \in Nat /\ m \in Nat /\ m < b /\ n = b * q + m
  BY <1>2
<1>4. PICK c : c = PageCount(n)
  OBVIOUS
<1>5. c = q + (IF m > 0 THEN 1 ELSE 0)
  BY <1>1, <1>2, <1>4 DEF PageCount
<1>6. c \in Nat
  BY <1>3, <1>5
<1>7. CASE n = 0
  <2>1. m = 0
    BY <1>1, <1>3, <1>7
  <2>2. q = 0
    <3>1. b * q = 0
      BY <1>3, <1>7, <2>1
    <3> QED
      BY <1>1, <1>3, <3>1
  <2> QED
    BY <1>4, <1>5, <1>6, <1>7, <2>1, <2>2 DEF Pages
<1>8. CASE n > 0
  <2>1. q > 0 \/ m > 0
    BY <1>1, <1>3, <1>8
  <2>2. c >= 1
    BY <1>3, <1>5, <2>1
  <2> QED
    BY <1>4, <1>6, <1>8, <2>2 DEF Pages
<1> QED
  BY <1>7, <1>8

\* A move to a page: it is held for the user, whatever reads the move gives up.
LEMMA ShowOK ==
  ASSUME NEW n \in Nat, NEW es, ListOK(es, n), Len(es) <= Capacity, NEW k \in Pages(n), ShowPageIn(es, k)
  PROVE  cur' = k /\ CacheOK(entries', k, n) /\ HeldFor(entries', k)
<1>1. k \in Nat
  BY PageCountIs
<1> DEFINE places == {i \in 1 .. Len(es) : es[i].st = "loading" => es[i].k \in {k, k - 1}}
<1>2. PICK here \in SUBSET (1 .. Len(es)) : here = places
  OBVIOUS
<1>3. PICK rest : rest = Only(es, here)
  OBVIOUS
<1>4. PICK shown : shown = LoadInto(rest, k, TRUE, k)
  OBVIOUS
<1>5. cur' = k /\ entries' = (IF k > 0 THEN LoadInto(shown, k - 1, FALSE, k) ELSE shown)
  BY <1>2, <1>3, <1>4 DEF ShowPageIn
<1>6. k \in Protected(k) /\ k - 1 \in Protected(k)
  BY DEF Protected
<1>7. \A i \in here : es[i].st = "loading" => es[i].k \in Protected(k)
  BY <1>2 DEF Protected
<1> HIDE DEF places
<1>8. CacheOK(rest, k, n)
  <2>1. ListOK(Only(es, here), n) /\ Len(Only(es, here)) = Cardinality(here)
    BY PartIs
  <2>2. ASSUME NEW i \in 1 .. Len(Only(es, here))
        PROVE  \E p \in here : Only(es, here)[i] = es[p]
    BY PartIs
  <2>3. LoadsNear(Only(es, here), k)
    BY <1>7, <2>2 DEF LoadsNear
  <2>4. Len(es) \in Nat /\ Cardinality(here) \in Nat /\ Cardinality(here) <= Len(es)
    <3>1. Len(es) \in Nat /\ IsFiniteSet(1 .. Len(es)) /\ Cardinality(1 .. Len(es)) = Len(es)
      BY PlacesAre DEF ListOK
    <3> QED
      BY <3>1, FS_Subset, FS_CardinalityType
  <2>5. Len(Only(es, here)) <= Capacity
    BY <2>1, <2>4, PagesAssumption
  <2> QED
    BY <1>3, <2>1, <2>3, <2>5, Zenon DEF CacheOK
<1>9. CacheOK(shown, k, n) /\ HeldFor(shown, k)
  <2>1. PICK u \in BOOLEAN : u = TRUE
    OBVIOUS
  <2>2. shown = LoadInto(rest, k, u, k)
    BY <1>4, <2>1
  <2>3. CacheOK(shown, k, n) /\ (u => HeldFor(shown, k))
    BY <1>1, <1>6, <1>8, <2>2, LoadIntoOK
  <2> QED
    BY <2>1, <2>3
<1>10. CASE k > 0
  <2>1. k - 1 \in Pages(n) /\ k # k - 1
    BY <1>1, <1>10, PageCountIs
  <2>2. PICK u \in BOOLEAN, j \in Pages(n) : u = FALSE /\ j = k - 1
    BY <2>1
  <2>3. PICK r : r = LoadInto(shown, j, u, k)
    OBVIOUS
  <2>4. entries' = r
    BY <1>5, <1>10, <2>2, <2>3
  <2>5. CacheOK(r, k, n) /\ \A q \in Protected(k) \ {j} : HeldFor(shown, q) => HeldFor(r, q)
    BY <1>1, <1>6, <1>9, <2>2, <2>3, LoadIntoOK
  <2>6. HeldFor(r, k)
    BY <1>6, <1>9, <2>1, <2>2, <2>5
  <2> QED
    BY <1>5, <2>4, <2>5, <2>6
<1>11. CASE ~(k > 0)
  BY <1>5, <1>9, <1>11
<1> QED
  BY <1>10, <1>11

---------------------------------------------------------------------------
(* Where the pages lie. *)

LEMMA TimesGrows ==
  ASSUME NEW i \in Nat, NEW j \in Nat, i <= j, NEW b \in Nat
  PROVE  i * b \in Nat /\ j * b \in Nat /\ i * b <= j * b
<1>1. PICK d \in Nat : j = i + d
  <2>1. j - i \in Nat /\ j = i + (j - i)
    OBVIOUS
  <2> QED
    BY <2>1
<1>2. PICK x \in Nat, y \in Nat : x = i * b /\ y = d * b
  OBVIOUS
<1>3. j * b = (i + d) * b
  BY <1>1
<1>4. (i + d) * b = i * b + d * b
  OBVIOUS
<1> QED
  BY <1>2, <1>3, <1>4

\* Full blocks but for the oldest page, which has the rest, and the newest ends with the window.
LEMMA OffsetIs ==
  ASSUME NEW n \in Nat
  PROVE  /\ Offset(n, 0) = 0 /\ Offset(n, 1) \in 1 .. PageBars /\ Offset(n, PageCount(n)) = n
         /\ \A k \in Nat : Offset(n, k) \in Nat
         /\ \A k \in Nat : k >= 1 => Offset(n, k + 1) = Offset(n, k) + PageBars
         /\ \A j, k \in Nat : j <= k => Offset(n, j) <= Offset(n, k)
<1>1. PICK b \in Nat \ {0} : b = PageBars
  BY PagesAssumption
<1>2. PICK q \in Nat, m \in Nat : q = n \div b /\ m = n % b /\ m < b /\ n = b * q + m
  BY ModIs
<1>3. PageCount(n) = q + (IF m > 0 THEN 1 ELSE 0)
  BY <1>1, <1>2 DEF PageCount
<1>4. \A k : Offset(n, k) = IF k = 0 THEN 0 ELSE IF m > 0 THEN m + (k - 1) * b ELSE k * b
  BY <1>1, <1>2 DEF Offset
<1>5. PICK o : o = [k \in Nat |-> Offset(n, k)]
  OBVIOUS
<1>6. \A k \in Nat : o[k] = IF k = 0 THEN 0 ELSE IF m > 0 THEN m + (k - 1) * b ELSE k * b
  BY <1>4, <1>5
<1>7. o[0] = 0 /\ o[1] \in 1 .. b
  <2>1. o[0] = 0
    BY <1>6
  <2>2. (1 - 1) * b = 0 /\ 1 * b = b
    OBVIOUS
  <2>3. o[1] = IF m > 0 THEN m ELSE b
    BY <1>6, <2>2
  <2> QED
    BY <1>2, <2>1, <2>3
<1>8. ASSUME NEW k \in Nat
      PROVE  o[k] \in Nat
  <2>1. CASE k = 0
    BY <1>6, <2>1
  <2>2. CASE k # 0
    <3>1. k - 1 \in Nat /\ (k - 1) * b \in Nat /\ k * b \in Nat
      BY <2>2
    <3> QED
      BY <1>6, <2>2, <3>1
  <2> QED
    BY <2>1, <2>2
<1>9. ASSUME NEW k \in Nat, k >= 1
      PROVE  o[k + 1] = o[k] + b
  <2>1. PICK x \in Nat, y \in Nat : x = (k - 1) * b /\ y = k * b
    <3>1. k - 1 \in Nat
      BY <1>9
    <3> QED
      BY <3>1
  <2>2. y = x + b /\ (k + 1) * b = y + b /\ ((k + 1) - 1) * b = y
    BY <2>1
  <2>3. o[k] = IF m > 0 THEN m + x ELSE y
    BY <1>6, <1>9, <2>1
  <2>4. o[k + 1] = IF m > 0 THEN m + y ELSE y + b
    <3>1. k + 1 \in Nat /\ k + 1 # 0
      OBVIOUS
    <3>2. o[k + 1] = IF m > 0 THEN m + ((k + 1) - 1) * b ELSE (k + 1) * b
      BY <1>6, <3>1
    <3> QED
      BY <2>2, <3>2
  <2> QED
    BY <2>2, <2>3, <2>4
<1>10. ASSUME NEW j \in Nat, NEW k \in Nat, j <= k
       PROVE  o[j] <= o[k]
  <2>1. CASE j = 0
    BY <1>7, <1>8, <2>1
  <2>2. CASE j # 0
    <3>1. j - 1 \in Nat /\ k - 1 \in Nat /\ j - 1 <= k - 1 /\ k # 0
      BY <1>10, <2>2
    <3>2. (j - 1) * b \in Nat /\ (k - 1) * b \in Nat /\ (j - 1) * b <= (k - 1) * b
      BY <3>1, TimesGrows
    <3>3. j * b \in Nat /\ k * b \in Nat /\ j * b <= k * b
      BY <1>10, TimesGrows
    <3> QED
      BY <1>6, <2>2, <3>1, <3>2, <3>3
  <2> QED
    BY <2>1, <2>2
<1>11. PageCount(n) \in Nat /\ o[PageCount(n)] = n
  <2>1. PICK c \in Nat : c = PageCount(n)
    BY <1>3
  <2>2. PICK x \in Nat : x = b * q /\ x = q * b
    OBVIOUS
  <2>3. CASE m > 0
    <3>1. c # 0 /\ c - 1 = q
      BY <1>3, <2>1, <2>3
    <3>2. o[c] = m + q * b
      BY <1>6, <2>3, <3>1
    <3> QED
      BY <1>2, <2>1, <2>2, <3>2
  <2>4. CASE m = 0
    <3>1. c = q
      BY <1>3, <2>1, <2>4
    <3>2. q = 0 => x = 0
      BY <2>2
    <3>3. o[c] = x
      BY <1>6, <2>2, <2>4, <3>1, <3>2
    <3> QED
      BY <1>2, <2>1, <2>2, <2>4, <3>3
  <2> QED
    BY <2>3, <2>4
<1>12. \A k \in Nat : Offset(n, k) = o[k]
  BY <1>5
<1>13. Offset(n, 0) = 0 /\ Offset(n, 1) \in 1 .. PageBars /\ Offset(n, PageCount(n)) = n
  BY <1>1, <1>7, <1>11, <1>12
<1>14. \A k \in Nat : k >= 1 => Offset(n, k + 1) = Offset(n, k) + PageBars
  BY <1>1, <1>9, <1>12
<1>15. \A j, k \in Nat : j <= k => Offset(n, j) <= Offset(n, k)
  BY <1>10, <1>12
<1> QED
  BY <1>8, <1>12, <1>13, <1>14, <1>15

\* A page begins where its block does, and shows its block and the look-ahead, or what there is of them.
LEMMA PageIs ==
  ASSUME NEW n \in Nat, NEW k \in Pages(n)
  PROVE  /\ k \in Nat /\ k + 1 <= PageCount(n)
         /\ Offset(n, k) \in Nat /\ Offset(n, k + 1) \in Nat
         /\ Offset(n, k) < Offset(n, k + 1) /\ Offset(n, k + 1) <= Offset(n, k) + PageBars /\ Offset(n, k + 1) <= n
         /\ LastBar(n, k) \in Nat /\ PageLength(n, k) = LastBar(n, k) - Offset(n, k) + 1
         /\ Offset(n, k + 1) - 1 <= LastBar(n, k) /\ LastBar(n, k) <= n - 1
         /\ LastBar(n, k) = Offset(n, k) + PageBars + Overlap - 1 \/ LastBar(n, k) = n - 1
         /\ LastBar(n, k) <= Offset(n, k) + PageBars + Overlap - 1
<1>1. PICK c \in Nat : c = PageCount(n)
  BY PageCountIs
<1>2. k \in Nat /\ k + 1 \in Nat /\ k + 1 <= c
  BY <1>1, PageCountIs DEF Pages
<1>3. PICK b \in Nat \ {0} : b = PageBars
  BY PagesAssumption
<1>4. PICK v \in Nat : v = Overlap /\ v < b
  BY <1>3, PagesAssumption
<1>5. PICK x \in Nat, y \in Nat : x = Offset(n, k) /\ y = Offset(n, k + 1)
  BY <1>2, OffsetIs
<1>6. x < y /\ y <= x + b
  <2>1. CASE k = 0
    <3>1. Offset(n, 0) = 0 /\ Offset(n, 1) \in 1 .. PageBars /\ k + 1 = 1
      BY <2>1, OffsetIs
    <3>2. x = 0 /\ y = Offset(n, 1)
      BY <1>5, <2>1, <3>1
    <3> QED
      BY <1>3, <3>1, <3>2
  <2>2. CASE k >= 1
    BY <1>2, <1>3, <1>5, <2>2, OffsetIs
  <2> QED
    BY <1>2, <2>1, <2>2
<1>7. y <= n
  BY <1>1, <1>2, <1>5, OffsetIs
<1>8. PICK g \in Int : g = PageLength(n, k) /\ g = Greater(0, Smaller(b + v, n - x))
  BY <1>3, <1>4, <1>5 DEF PageLength, Greater, Smaller
<1>9. (g = b + v /\ b + v <= n - x) \/ (g = n - x /\ n - x <= b + v)
  BY <1>6, <1>7, <1>8 DEF Greater, Smaller
<1>10. LastBar(n, k) = x + g - 1
  BY <1>5, <1>8 DEF LastBar
<1> QED
  BY <1>1, <1>2, <1>3, <1>4, <1>5, <1>6, <1>7, <1>8, <1>9, <1>10

\* Every bar is on the last page that begins at it or before.
LEMMA PageAt ==
  ASSUME NEW n \in Nat, NEW bar \in 0 .. n - 1
  PROVE  /\ LastPageAtOrBefore(n, bar) \in Pages(n)
         /\ Offset(n, LastPageAtOrBefore(n, bar)) <= bar /\ bar <= LastBar(n, LastPageAtOrBefore(n, bar))
<1> DEFINE started == {k \in Pages(n) : Offset(n, k) <= bar}
<1>1. PICK c \in Nat : c = PageCount(n) /\ c >= 1
  BY PageCountIs
<1>2. started \in SUBSET Nat /\ \A k \in started : k <= c
  BY <1>1, PageCountIs DEF Pages
<1>3. 0 \in started
  <2>1. Offset(n, 0) <= bar
    <3>1. Offset(n, 0) = 0
      BY OffsetIs
    <3> QED
      BY <3>1
  <2>2. 0 \in Pages(n)
    BY <1>1 DEF Pages
  <2> QED
    BY <2>1, <2>2
<1>4. PICK k \in started : \A j \in started : j <= k
  BY <1>1, <1>2, <1>3, LargestOf
<1>5. \A j \in started : (\A i \in started : i <= j) => j = k
  BY <1>2, <1>4
<1>6. LastPageAtOrBefore(n, bar) = CHOOSE j \in started : \A i \in started : i <= j
  BY <1>3 DEF LastPageAtOrBefore
<1>7. LastPageAtOrBefore(n, bar) = k
  BY <1>4, <1>5, <1>6
<1>8. k \in Pages(n) /\ Offset(n, k) <= bar
  OBVIOUS
<1>9. bar < Offset(n, k + 1)
  <2>1. k \in Nat /\ k + 1 \in Nat /\ k + 1 <= c /\ Offset(n, k + 1) \in Nat
    BY <1>1, <1>8, PageIs
  <2>2. CASE k + 1 = c
    BY <1>1, <2>2, OffsetIs
  <2>3. CASE k + 1 # c
    <3>1. k + 1 \in Pages(n)
      BY <1>1, <2>1, <2>3 DEF Pages
    <3>2. k + 1 \notin started
      BY <1>4, <2>1
    <3>3. ~(Offset(n, k + 1) <= bar)
      BY <3>1, <3>2
    <3> QED
      BY <2>1, <3>3
  <2> QED
    BY <2>2, <2>3
<1>10. Offset(n, k + 1) - 1 <= LastBar(n, k) /\ LastBar(n, k) \in Nat /\ Offset(n, k + 1) \in Nat
  BY <1>8, PageIs
<1>11. bar <= LastBar(n, k)
  BY <1>9, <1>10
<1> QED
  BY <1>7, <1>8, <1>11, Zenon

Edge(n, a, b, direction) == Smaller(IF direction = "right" THEN Greater(a, b) ELSE Smaller(a, b), n - 1)

\* The page a window is shown on has its leading edge.
LEMMA PageForIs ==
  ASSUME NEW n \in Nat, NEW now \in Pages(n), NEW a \in 0 .. n, NEW b \in 0 .. n, NEW direction
  PROVE  /\ PageForWindow(n, now, a, b, direction) \in Pages(n)
         /\ Offset(n, PageForWindow(n, now, a, b, direction)) <= Edge(n, a, b, direction)
         /\ Edge(n, a, b, direction) <= LastBar(n, PageForWindow(n, now, a, b, direction))
<1>1. PICK c \in Nat : c = PageCount(n) /\ c >= 1
  BY PageCountIs DEF Pages
<1>2. n >= 1
  BY <1>1, PageCountIs
<1>3. PICK from \in 0 .. n - 1, to \in 0 .. n - 1 :
        /\ from = Clamp(Smaller(a, b), 0, Greater(n - 1, 0)) /\ to = Clamp(Greater(a, b), 0, Greater(n - 1, 0))
        /\ from <= to
  BY <1>2 DEF Clamp, Smaller, Greater
<1>4. PICK lead \in 0 .. n - 1 : lead = IF direction = "right" THEN to ELSE from
  OBVIOUS
<1>5. Edge(n, a, b, direction) = lead
  BY <1>2, <1>3, <1>4 DEF Clamp, Smaller, Greater, Edge
<1>6. PICK k : k = PageForWindow(n, now, a, b, direction)
  OBVIOUS
<1>7. \/ c <= 1 /\ k = 0
      \/ k = now /\ Offset(n, now) <= from /\ to <= LastBar(n, now)
      \/ k = Greater(LastPageAtOrBefore(n, lead), 0)
  BY <1>1, <1>3, <1>4, <1>6 DEF PageForWindow
<1>8. k \in Pages(n) /\ Offset(n, k) <= lead /\ lead <= LastBar(n, k)
  <2>1. CASE c <= 1 /\ k = 0
    <3>1. c = 1 /\ 0 \in Pages(n)
      BY <1>1, <2>1 DEF Pages
    <3>2. Offset(n, 0) = 0 /\ Offset(n, 1) = n
      BY <1>1, <3>1, OffsetIs
    <3>3. Offset(n, 0 + 1) - 1 <= LastBar(n, 0) /\ LastBar(n, 0) \in Nat
      BY <3>1, PageIs
    <3> QED
      BY <2>1, <3>1, <3>2, <3>3
  <2>2. CASE k = now /\ Offset(n, now) <= from /\ to <= LastBar(n, now)
    <3>1. Offset(n, now) \in Nat /\ LastBar(n, now) \in Nat
      BY PageIs
    <3> QED
      BY <1>3, <1>4, <2>2, <3>1
  <2>3. CASE k = Greater(LastPageAtOrBefore(n, lead), 0)
    <3>1. PICK j : j = LastPageAtOrBefore(n, lead)
      OBVIOUS
    <3>2. j \in Pages(n) /\ Offset(n, j) <= lead /\ lead <= LastBar(n, j)
      BY <3>1, PageAt
    <3>3. j \in Nat
      BY <3>2, PageIs
    <3>4. k = j
      BY <2>3, <3>1, <3>3 DEF Greater
    <3> QED
      BY <3>2, <3>4
  <2> QED
    BY <1>7, <2>1, <2>2, <2>3
<1> QED
  BY <1>5, <1>6, <1>8, Zenon

\* The window stays inside the page, keeps its leading edge, and its width as far as the page goes.
LEMMA PlaceIs ==
  ASSUME NEW n \in Nat, NEW k \in Pages(n), NEW a \in 0 .. n, NEW b \in 0 .. n, NEW direction,
         Offset(n, k) <= Edge(n, a, b, direction), Edge(n, a, b, direction) <= LastBar(n, k),
         NEW view, view = PlaceWindow(n, k, a, b, direction)
  PROVE  /\ view.from .. view.to \subseteq BarsOf(n, k) /\ BarsOf(n, k) \subseteq 0 .. n - 1
         /\ Edge(n, a, b, direction) \in view.from .. view.to
         /\ direction # "page" => view.to - view.from = Smaller(Greater(a, b) - Smaller(a, b), PageLength(n, k) - 1)
<1>1. PICK first \in Nat, last \in Nat : first = Offset(n, k) /\ last = LastBar(n, k)
  BY PageIs
<1>2. first <= last /\ last <= n - 1 /\ PageLength(n, k) - 1 = last - first
  <2>1. /\ PageLength(n, k) = LastBar(n, k) - Offset(n, k) + 1 /\ LastBar(n, k) <= n - 1
        /\ Offset(n, k) < Offset(n, k + 1) /\ Offset(n, k + 1) \in Nat /\ Offset(n, k + 1) - 1 <= LastBar(n, k)
    BY PageIs
  <2> QED
    BY <1>1, <2>1
<1>3. PICK x \in 0 .. n, y \in 0 .. n : x = Smaller(a, b) /\ y = Greater(a, b) /\ x <= y
  BY DEF Smaller, Greater
<1>4. PICK edge \in Int : edge = Edge(n, a, b, direction) /\ edge = Smaller(IF direction = "right" THEN y ELSE x, n - 1)
  BY <1>3 DEF Edge, Smaller
<1>5. first <= edge /\ edge <= last
  BY <1>1, <1>4
<1>6. CASE direction = "page"
  <2>1. view.from = first /\ view.to = last
    BY <1>1, <1>6 DEF PlaceWindow
  <2>2. BarsOf(n, k) = first .. last
    BY <1>1 DEF BarsOf
  <2> QED
    BY <1>2, <1>4, <1>5, <1>6, <2>1, <2>2
<1>7. CASE direction # "page"
  <2>1. PICK width \in Nat : width = Smaller(y - x, last - first) /\ width = Smaller(y - x, Greater(last - first, 0))
    BY <1>2, <1>3 DEF Smaller, Greater
  <2>2. PICK start \in Int : start = IF direction = "right" THEN y - width ELSE x
    BY <1>3, <2>1
  <2>3. PICK from \in Int : from = Clamp(start, first, last - width)
    BY <1>2, <2>1, <2>2 DEF Clamp, Smaller, Greater
  <2>4. view.from = from /\ view.to = from + width
    BY <1>1, <1>3, <1>7, <2>1, <2>2, <2>3 DEF PlaceWindow
  <2>5. first <= from /\ from + width <= last
    BY <1>2, <2>1, <2>2, <2>3 DEF Clamp, Smaller, Greater
  <2>6. from <= edge /\ edge <= from + width
    BY <1>2, <1>3, <1>4, <1>5, <2>1, <2>2, <2>3 DEF Clamp, Smaller, Greater
  <2>7. BarsOf(n, k) = first .. last
    BY <1>1 DEF BarsOf
  <2>8. width = Smaller(Greater(a, b) - Smaller(a, b), PageLength(n, k) - 1)
    BY <1>2, <1>3, <2>1
  <2>9. view.from .. view.to \subseteq BarsOf(n, k) /\ BarsOf(n, k) \subseteq 0 .. n - 1
    BY <1>2, <2>1, <2>4, <2>5, <2>7
  <2>10. Edge(n, a, b, direction) \in view.from .. view.to
    BY <1>4, <2>1, <2>4, <2>6
  <2>11. view.to - view.from = width
    BY <2>1, <2>4
  <2> QED
    BY <2>8, <2>9, <2>10, <2>11
<1> QED
  BY <1>6, <1>7

LEMMA Shifted ==
  ASSUME NEW by \in Int, NEW lo \in Int, NEW hi \in Int
  PROVE  {by + x : x \in lo .. hi} = (by + lo) .. (by + hi)
<1>1. ASSUME NEW y \in {by + x : x \in lo .. hi}
      PROVE  y \in (by + lo) .. (by + hi)
  <2>1. PICK x \in lo .. hi : y = by + x
    OBVIOUS
  <2> QED
    BY <2>1
<1>2. ASSUME NEW y \in (by + lo) .. (by + hi)
      PROVE  y \in {by + x : x \in lo .. hi}
  <2>1. y - by \in lo .. hi /\ y = by + (y - by)
    OBVIOUS
  <2> QED
    BY <2>1
<1> QED
  BY <1>1, <1>2

\* The pages make up the window.
LEMMA BarsAddUp ==
  ASSUME NEW n \in Nat
  PROVE  UNION {BarsOf(n, k) : k \in Pages(n)} = 0 .. n - 1
<1>1. ASSUME NEW k \in Pages(n), NEW x \in BarsOf(n, k)
      PROVE  x \in 0 .. n - 1
  <2>1. Offset(n, k) \in Nat /\ LastBar(n, k) \in Nat /\ LastBar(n, k) <= n - 1
    BY PageIs
  <2> QED
    BY <2>1 DEF BarsOf
<1>2. ASSUME NEW x \in 0 .. n - 1
      PROVE  \E k \in Pages(n) : x \in BarsOf(n, k)
  <2>1. PICK k : k = LastPageAtOrBefore(n, x)
    OBVIOUS
  <2>2. k \in Pages(n) /\ Offset(n, k) <= x /\ x <= LastBar(n, k)
    BY <2>1, PageAt
  <2>3. Offset(n, k) \in Nat /\ LastBar(n, k) \in Nat
    BY <2>2, PageIs
  <2> QED
    BY <2>2, <2>3 DEF BarsOf
<1> QED
  BY <1>1, <1>2

\* What two neighbours both show is what the one is told it shares and what the other is.
LEMMA NeighboursAgree ==
  ASSUME NEW n \in Nat, NEW k \in Pages(n), k # 0,
         NEW r, r = OverlapRange(n, k - 1), NEW s, s = OverlapBeforeRange(n, k)
  PROVE  /\ {Offset(n, k - 1) + x : x \in r.from .. r.to} = BarsOf(n, k - 1) \cap BarsOf(n, k)
         /\ {Offset(n, k) + x : x \in s.from .. s.to} = BarsOf(n, k - 1) \cap BarsOf(n, k)
<1>1. k \in Nat /\ k - 1 \in Nat /\ k - 1 \in Pages(n) /\ (k - 1) + 1 = k
  <2>1. k \in Nat /\ k - 1 \in 0 .. k
    BY PageCountIs
  <2> QED
    BY <2>1, PageCountIs
<1>2. PICK j \in Pages(n) : j = k - 1 /\ j + 1 = k
  BY <1>1
<1>3. PICK a \in Nat, b \in Nat, p \in Nat, q \in Nat :
        a = Offset(n, j) /\ b = Offset(n, k) /\ p = LastBar(n, j) /\ q = LastBar(n, k)
  BY PageIs
<1>4. /\ a < b /\ PageLength(n, j) = p - a + 1 /\ PageLength(n, k) = q - b + 1 /\ b - 1 <= q /\ b - 1 <= p
      /\ p <= n - 1 /\ q <= n - 1
  <2>1. PageLength(n, j) = p - a + 1 /\ PageLength(n, k) = q - b + 1
    BY <1>3, PageIs
  <2>2. a < b /\ b - 1 <= p /\ p <= n - 1
    BY <1>2, <1>3, PageIs
  <2>3. q <= n - 1 /\ b - 1 <= q
    <3>1. PICK d \in Nat : d = Offset(n, k + 1) /\ b < d /\ d - 1 <= q /\ q <= n - 1
      BY <1>3, PageIs
    <3> QED
      BY <3>1
  <2> QED
    BY <2>1, <2>2, <2>3
<1>5. p <= q
  <2>1. q = n - 1 \/ q = b + PageBars + Overlap - 1
    BY <1>3, PageIs
  <2>2. p <= a + PageBars + Overlap - 1
    BY <1>3, PageIs
  <2>3. PageBars \in Nat /\ Overlap \in Nat
    BY PagesAssumption
  <2> QED
    BY <1>4, <2>1, <2>2, <2>3
<1>6. BarsOf(n, k - 1) = a .. p /\ BarsOf(n, k) = b .. q
  BY <1>2, <1>3 DEF BarsOf
<1>7. (a .. p) \cap (b .. q) = b .. p
  BY <1>4, <1>5
<1>8. r.from = b - a /\ r.to = p - a
  <2>1. r = OverlapRange(n, j)
    BY <1>2
  <2>2. r.from = Offset(n, j + 1) - Offset(n, j) /\ r.to = PageLength(n, j) - 1
    BY <2>1 DEF OverlapRange
  <2> QED
    BY <1>2, <1>3, <1>4, <2>2
<1>9. s.from = 0 /\ s.to = p - b
  <2>1. s.from = 0 /\ s.to = Smaller(Offset(n, k - 1) + PageLength(n, k - 1) - 1 - Offset(n, k), PageLength(n, k) - 1)
    BY DEF OverlapBeforeRange
  <2>2. s.to = Smaller(a + (p - a + 1) - 1 - b, (q - b + 1) - 1)
    BY <1>2, <1>3, <1>4, <2>1
  <2> QED
    BY <1>5, <2>1, <2>2 DEF Smaller
<1>10. {a + x : x \in r.from .. r.to} = b .. p
  <2>1. PICK lo \in Int, hi \in Int : lo = r.from /\ hi = r.to /\ a + lo = b /\ a + hi = p
    BY <1>8
  <2>2. {a + x : x \in lo .. hi} = (a + lo) .. (a + hi)
    BY Shifted
  <2> QED
    BY <2>1, <2>2
<1>11. {b + x : x \in s.from .. s.to} = b .. p
  <2>1. PICK lo \in Int, hi \in Int : lo = s.from /\ hi = s.to /\ b + lo = b /\ b + hi = p
    BY <1>9
  <2>2. {b + x : x \in lo .. hi} = (b + lo) .. (b + hi)
    BY Shifted
  <2> QED
    BY <2>1, <2>2
<1>12. Offset(n, k - 1) = a
  BY <1>2, <1>3
<1>13. {Offset(n, k - 1) + x : x \in r.from .. r.to} = b .. p
  BY <1>10, <1>12, Zenon
<1>14. {Offset(n, k) + x : x \in s.from .. s.to} = b .. p
  BY <1>3, <1>11, Zenon
<1>15. BarsOf(n, k - 1) \cap BarsOf(n, k) = b .. p
  BY <1>6, <1>7
<1> QED
  BY <1>13, <1>14, <1>15, Zenon

\* Whatever page is on screen, and none.
LEMMA AddUp ==
  ASSUME index.n \in Nat, cur # Nowhere => cur \in Pages(index.n)
  PROVE  PagesAddUp
<1> DEFINE n == index.n
<1>1. n \in Nat
  OBVIOUS
<1>2. ASSUME cur # Nowhere, NEW w \in Windows(n), NEW direction \in Directions,
             NEW k, k = PageForWindow(n, cur, w[1], w[2], direction),
             NEW view, view = PlaceWindow(n, k, w[1], w[2], direction)
      PROVE  /\ view.from .. view.to \subseteq BarsOf(n, k) /\ BarsOf(n, k) \subseteq 0 .. n - 1
             /\ Edge(n, w[1], w[2], direction) \in view.from .. view.to
             /\ direction # "page" => view.to - view.from
                  = Smaller(Greater(w[1], w[2]) - Smaller(w[1], w[2]), PageLength(n, k) - 1)
  <2>1. PICK a \in 0 .. n, b \in 0 .. n : a = w[1] /\ b = w[2]
    BY DEF Windows
  <2>2. cur \in Pages(n)
    BY <1>1, <1>2
  <2>3. k = PageForWindow(n, cur, a, b, direction)
    BY <1>2, <2>1
  <2>4. /\ k \in Pages(n) /\ Offset(n, k) <= Edge(n, a, b, direction) /\ Edge(n, a, b, direction) <= LastBar(n, k)
    BY <2>2, <2>3, PageForIs
  <2>5. view = PlaceWindow(n, k, a, b, direction)
    BY <1>2, <2>1
  <2>6. /\ view.from .. view.to \subseteq BarsOf(n, k) /\ BarsOf(n, k) \subseteq 0 .. n - 1
        /\ Edge(n, a, b, direction) \in view.from .. view.to
        /\ direction # "page" => view.to - view.from = Smaller(Greater(a, b) - Smaller(a, b), PageLength(n, k) - 1)
    BY <2>4, <2>5, PlaceIs
  <2> QED
    BY <2>1, <2>6, Zenon
<1>3. cur # Nowhere =>
        \A w \in Windows(n), direction \in Directions :
          LET a     == w[1]
              b     == w[2]
              k     == PageForWindow(n, cur, a, b, direction)
              view == PlaceWindow(n, k, a, b, direction)
              edge  == Smaller(IF direction = "right" THEN Greater(a, b) ELSE Smaller(a, b), n - 1)
              wide  == Smaller(Greater(a, b) - Smaller(a, b), PageLength(n, k) - 1)
          IN  /\ view.from .. view.to \subseteq BarsOf(n, k)
              /\ BarsOf(n, k) \subseteq 0 .. n - 1
              /\ edge \in view.from .. view.to
              /\ direction # "page" => view.to - view.from = wide
  BY <1>2, ZenonT(60) DEF Edge
<1>4. UNION {BarsOf(n, k) : k \in Pages(n)} = 0 .. n - 1
  BY BarsAddUp
<1>5. \A k \in Pages(n) \ {0} :
        LET both == BarsOf(n, k - 1) \cap BarsOf(n, k)
            shift(r, j) == {Offset(n, j) + x : x \in r.from .. r.to}
        IN  shift(OverlapRange(n, k - 1), k - 1) = both /\ shift(OverlapBeforeRange(n, k), k) = both
  <2>1. \A k \in Pages(n) : k # 0 => \A r, s : r = OverlapRange(n, k - 1) /\ s = OverlapBeforeRange(n, k) =>
          /\ {Offset(n, k - 1) + x : x \in r.from .. r.to} = BarsOf(n, k - 1) \cap BarsOf(n, k)
          /\ {Offset(n, k) + x : x \in s.from .. s.to} = BarsOf(n, k - 1) \cap BarsOf(n, k)
    BY NeighboursAgree, Zenon
  <2> QED
    BY <2>1, Zenon
<1> QED
  BY <1>3, <1>4, <1>5, Zenon DEF PagesAddUp

---------------------------------------------------------------------------
(* The viewer's steps. *)

LEMMA ShowKeeps ==
  ASSUME NEW n \in Nat, NEW k \in Pages(n), entries = <<>> \/ CacheOK(entries, cur, n), ShowPageIn(entries, k)
  PROVE  cur' # Nowhere /\ cur' \in Pages(n) /\ CacheOK(entries', cur', n) /\ HeldFor(entries', cur')
<1>1. k \in Nat /\ k # Nowhere
  BY PageCountIs, PagesAssumption
<1>2. ListOK(entries, n) /\ Len(entries) <= Capacity
  <2>1. CASE entries = <<>>
    <3>1. entries \in Seq(EntriesOf(n)) /\ Len(entries) = 0
      BY <2>1
    <3>2. \A i, j \in 1 .. Len(entries) : FALSE
      BY <3>1
    <3> QED
      BY <3>1, <3>2, PagesAssumption DEF ListOK
  <2>2. CASE CacheOK(entries, cur, n)
    BY <2>2 DEF CacheOK
  <2> QED
    BY <2>1, <2>2
<1>3. cur' = k /\ CacheOK(entries', k, n) /\ HeldFor(entries', k)
  BY <1>2, ShowOK
<1> QED
  BY <1>1, <1>3, Zenon

\* What the moves that keep the window and show a page have in common.
LEMMA Moves ==
  ASSUME PagesInv, UNCHANGED <<opening, indexing, index, indexSt>>, cur # Nowhere,
         cur' # Nowhere, cur' \in Pages(index.n), CacheOK(entries', cur', index.n), HeldFor(entries', cur')
  PROVE  PagesInv'
<1>1. /\ opening' = opening /\ indexing' = indexing /\ index' = index /\ indexSt' = indexSt
      /\ index.n' = index.n
  OBVIOUS
<1>2. indexSt = "ready"
  BY DEF PagesInv
<1>3. opening' \in Nat /\ indexing' \subseteq 1 .. opening' /\ index'.n \in Nat
  BY <1>1 DEF PagesInv
<1>4. /\ indexSt' = "ready" => index'.open = opening' /\ opening' > 0
      /\ indexSt' # "ready" => index' = NoIndex /\ cur' = Nowhere
      /\ opening' \in indexing' => indexSt' = "loading"
  BY <1>1, <1>2 DEF PagesInv
<1>5. cur' # Nowhere => cur' \in Pages(index'.n) /\ CacheOK(entries', cur', index'.n) /\ HeldFor(entries', cur')
  BY <1>1
<1> QED
  BY <1>3, <1>4, <1>5 DEF PagesInv

LEMMA OpenKeeps == PagesInv /\ Open => PagesInv'
<1> SUFFICES ASSUME PagesInv, Open
             PROVE  PagesInv'
  OBVIOUS
<1>1. opening \in Nat /\ indexing \subseteq 1 .. opening
  BY DEF PagesInv
<1>2. /\ opening' = opening + 1 /\ indexing' = indexing \cup {opening + 1} /\ index' = NoIndex
      /\ indexSt' = "loading" /\ cur' = Nowhere /\ entries' = <<>> /\ resting' = FALSE
  BY DEF Open
<1>3. opening' \in Nat /\ indexing' \subseteq 1 .. opening'
  BY <1>1, <1>2
<1>4. index'.n \in Nat
  BY <1>2 DEF NoIndex
<1> QED
  BY <1>2, <1>3, <1>4 DEF PagesInv

LEMMA SeekKeeps == PagesInv /\ SeekWindow => PagesInv'
<1> SUFFICES ASSUME PagesInv, SeekWindow
             PROVE  PagesInv'
  OBVIOUS
<1>1. PICK n \in Nat : n = index.n
  BY DEF PagesInv
<1>2. cur # Nowhere /\ cur \in Pages(n) /\ CacheOK(entries, cur, n) /\ HeldFor(entries, cur)
  BY <1>1 DEF PagesInv, SeekWindow
<1>3. PICK w \in Windows(index.n), direction \in Directions :
        Seek(PageForWindow(index.n, cur, w[1], w[2], direction))
  BY DEF SeekWindow
<1>4. PICK k : k = PageForWindow(index.n, cur, w[1], w[2], direction)
  OBVIOUS
<1>5. k \in Pages(n)
  <2>1. PICK a \in 0 .. n, b \in 0 .. n : a = w[1] /\ b = w[2]
    BY <1>1 DEF Windows
  <2>2. k = PageForWindow(n, cur, a, b, direction)
    BY <1>1, <1>4, <2>1
  <2> QED
    BY <1>2, <2>2, PageForIs
<1>6. Seek(k)
  BY <1>3, <1>4, Zenon
<1>7. UNCHANGED <<opening, indexing, index, indexSt>>
  BY <1>6 DEF Seek
<1>8. CASE k = cur
  <2>1. cur' = cur /\ entries' = entries
    BY <1>6, <1>8 DEF Seek
  <2> QED
    BY <1>1, <1>2, <1>7, <2>1, Moves
<1>9. CASE k # cur
  <2>1. ShowPageIn(entries, k)
    BY <1>6, <1>9 DEF Seek
  <2>2. cur' # Nowhere /\ cur' \in Pages(n) /\ CacheOK(entries', cur', n) /\ HeldFor(entries', cur')
    BY <1>2, <1>5, <2>1, ShowKeeps
  <2> QED
    BY <1>1, <1>2, <1>7, <2>2, Moves
<1> QED
  BY <1>8, <1>9

LEMMA LoadKeepsPages ==
  ASSUME PagesInv, NEW k \in Pages(index.n), LoadPage(k)
  PROVE  PagesInv'
<1>1. PICK n \in Nat : n = index.n
  BY DEF PagesInv
<1>2. cur # Nowhere /\ CacheOK(entries, cur, n) /\ ShowPageIn(entries, k) /\ UNCHANGED <<opening, indexing, index, indexSt>>
  BY <1>1 DEF PagesInv, LoadPage
<1>3. cur' # Nowhere /\ cur' \in Pages(n) /\ CacheOK(entries', cur', n) /\ HeldFor(entries', cur')
  BY <1>1, <1>2, ShowKeeps
<1> QED
  BY <1>1, <1>2, <1>3, Moves

Wanted(es, k) ==
    IF k \in Pages(index.n) /\ StatusOf(es, k) \in {"absent", "error"} THEN LoadInto(es, k, FALSE, cur) ELSE es

LEMMA WantedOK ==
  ASSUME NEW n \in Nat, n = index.n, cur \in Int, NEW es, CacheOK(es, cur, n), HeldFor(es, cur),
         NEW k, k \in Protected(cur), k # cur
  PROVE  CacheOK(Wanted(es, k), cur, n) /\ HeldFor(Wanted(es, k), cur)
<1>1. CASE k \in Pages(n) /\ StatusOf(es, k) \in {"absent", "error"}
  <2>1. PICK u \in BOOLEAN : u = FALSE
    OBVIOUS
  <2>2. PICK now \in Int : now = cur
    OBVIOUS
  <2>3. PICK r : r = LoadInto(es, k, u, now)
    OBVIOUS
  <2>4. CacheOK(r, now, n) /\ \A q \in Protected(now) \ {k} : HeldFor(es, q) => HeldFor(r, q)
    BY <1>1, <2>2, <2>3, LoadIntoOK
  <2>5. now \in Protected(now) \ {k}
    BY <2>2 DEF Protected
  <2>6. Wanted(es, k) = r
    BY <1>1, <2>1, <2>2, <2>3 DEF Wanted
  <2> QED
    BY <2>2, <2>4, <2>5, <2>6, Zenon
<1>2. CASE ~(k \in Pages(n) /\ StatusOf(es, k) \in {"absent", "error"})
  <2>1. Wanted(es, k) = es
    BY <1>2 DEF Wanted
  <2> QED
    BY <2>1, Zenon
<1> QED
  BY <1>1, <1>2

LEMMA SettleKeeps == PagesInv /\ Settle => PagesInv'
<1> SUFFICES ASSUME PagesInv, Settle
             PROVE  PagesInv'
  OBVIOUS
<1>1. PICK n \in Nat : n = index.n
  BY DEF PagesInv
<1>2. cur # Nowhere /\ cur \in Pages(n) /\ CacheOK(entries, cur, n) /\ HeldFor(entries, cur)
  BY <1>1 DEF PagesInv, Settle
<1>3. cur \in Nat
  BY <1>2, PageCountIs
<1>4. PICK x, y, j, k : j = cur - 1 /\ k = cur + 1 /\ x = Wanted(entries, j) /\ y = Wanted(x, k)
  OBVIOUS
<1>5. j \in Protected(cur) /\ k \in Protected(cur) /\ j # cur /\ k # cur
  BY <1>3, <1>4 DEF Protected
<1>6. CacheOK(x, cur, n) /\ HeldFor(x, cur)
  BY <1>1, <1>2, <1>3, <1>4, <1>5, WantedOK
<1>7. CacheOK(y, cur, n) /\ HeldFor(y, cur)
  BY <1>1, <1>3, <1>4, <1>5, <1>6, WantedOK
<1>8. /\ UNCHANGED <<opening, indexing, index, indexSt>> /\ cur' = cur
      /\ entries' = IF StatusOf(entries, cur) = "ready" THEN y ELSE entries
  BY <1>4, Zenon DEF Settle, Wanted
<1>9. CacheOK(entries', cur, n) /\ HeldFor(entries', cur)
  <2>1. entries' = y \/ entries' = entries
    BY <1>8
  <2> QED
    BY <1>2, <1>7, <2>1, Zenon
<1> QED
  BY <1>1, <1>2, <1>8, <1>9, Moves

LEMMA IndexLandsKeeps ==
  ASSUME PagesInv, NEW open \in indexing, NEW n \in BarCounts, IndexLands(open, n)
  PROVE  PagesInv'
<1>1. /\ opening' = opening /\ indexing' = indexing \ {open} /\ opening \in Nat /\ indexing \subseteq 1 .. opening
      /\ n \in Nat
  BY PagesAssumption DEF PagesInv, IndexLands
<1>2. opening' \in Nat /\ indexing' \subseteq 1 .. opening'
  BY <1>1
<1>3. CASE open # opening
  <2>1. UNCHANGED <<index, indexSt, cur, entries, resting>>
    BY <1>3 DEF IndexLands
  <2>2. opening' \in indexing' => opening \in indexing
    BY <1>1
  <2>3. /\ index'.n \in Nat
        /\ indexSt' = "ready" => index'.open = opening' /\ opening' > 0
        /\ indexSt' # "ready" => index' = NoIndex /\ cur' = Nowhere
        /\ opening' \in indexing' => indexSt' = "loading"
        /\ cur' = Nowhere => entries' = <<>> /\ ~resting'
    BY <1>1, <2>1, <2>2 DEF PagesInv
  <2>4. cur # Nowhere => cur \in Pages(index.n) /\ CacheOK(entries, cur, index.n) /\ HeldFor(entries, cur)
    BY DEF PagesInv
  <2>5. cur' # Nowhere => cur' \in Pages(index'.n) /\ CacheOK(entries', cur', index'.n) /\ HeldFor(entries', cur')
    BY <2>1, <2>4
  <2> QED
    BY <1>2, <2>3, <2>5 DEF PagesInv
<1>4. CASE open = opening
  <2>1. index' = [n |-> n, open |-> open] /\ indexSt' = "ready" /\ opening' \notin indexing'
    BY <1>1, <1>4 DEF IndexLands
  <2>2. indexSt = "loading" /\ cur = Nowhere /\ entries = <<>> /\ ~resting
    BY <1>4 DEF PagesInv
  <2>3. index'.n = n /\ index'.open = opening' /\ opening' > 0
    BY <1>1, <1>4, <2>1
  <2>4. CASE n = 0
    <3>1. UNCHANGED <<cur, entries, resting>>
      BY <1>4, <2>4 DEF IndexLands
    <3> QED
      BY <1>1, <1>2, <2>1, <2>2, <2>3, <3>1 DEF PagesInv
  <2>5. CASE n # 0
    <3>1. PICK k : k = PageCount(n) - 1
      OBVIOUS
    <3>2. ShowPageIn(entries, k)
      BY <1>4, <2>5, <3>1 DEF IndexLands
    <3>3. k \in Pages(n)
      BY <1>1, <2>5, <3>1, PageCountIs DEF Pages
    <3>4. cur' # Nowhere /\ cur' \in Pages(n) /\ CacheOK(entries', cur', n) /\ HeldFor(entries', cur')
      BY <1>1, <2>2, <3>2, <3>3, ShowKeeps
    <3>5. /\ index'.n \in Nat
          /\ indexSt' = "ready" => index'.open = opening' /\ opening' > 0
          /\ indexSt' # "ready" => index' = NoIndex /\ cur' = Nowhere
          /\ opening' \in indexing' => indexSt' = "loading"
          /\ cur' = Nowhere => entries' = <<>> /\ ~resting'
      BY <1>1, <2>1, <2>3, <3>4
    <3>6. cur' \in Pages(index'.n) /\ CacheOK(entries', cur', index'.n) /\ HeldFor(entries', cur')
      BY <2>3, <3>4
    <3> QED
      BY <1>2, <3>5, <3>6 DEF PagesInv
  <2> QED
    BY <2>4, <2>5
<1> QED
  BY <1>3, <1>4

LEMMA IndexFailsKeeps ==
  ASSUME PagesInv, NEW open \in indexing, IndexFails(open)
  PROVE  PagesInv'
<1>1. /\ UNCHANGED <<opening, index, cur, entries, resting>> /\ indexing' = indexing \ {open}
      /\ indexSt' = IF open = opening THEN "error" ELSE indexSt
      /\ opening \in Nat /\ indexing \subseteq 1 .. opening /\ index.n \in Nat
  BY DEF PagesInv, IndexFails
<1>2. /\ indexSt = "ready" => index.open = opening /\ opening > 0
      /\ indexSt # "ready" => index = NoIndex /\ cur = Nowhere
      /\ opening \in indexing => indexSt = "loading"
      /\ cur = Nowhere => entries = <<>> /\ ~resting
  BY DEF PagesInv
<1>3. /\ opening' \in Nat /\ indexing' \subseteq 1 .. opening' /\ index'.n \in Nat
      /\ indexSt' = "ready" => index'.open = opening' /\ opening' > 0
      /\ indexSt' # "ready" => index' = NoIndex /\ cur' = Nowhere
      /\ opening' \in indexing' => indexSt' = "loading"
      /\ cur' = Nowhere => entries' = <<>> /\ ~resting'
  BY <1>1, <1>2
<1>4. cur # Nowhere => cur \in Pages(index.n) /\ CacheOK(entries, cur, index.n) /\ HeldFor(entries, cur)
  BY DEF PagesInv
<1>5. cur' # Nowhere => cur' \in Pages(index'.n) /\ CacheOK(entries', cur', index'.n) /\ HeldFor(entries', cur')
  BY <1>1, <1>4
<1> QED
  BY <1>3, <1>5 DEF PagesInv

\* A page that is being read is one of those shown, and whether the user waits for it is known.
LEMMA LoadingIs ==
  ASSUME NEW n \in Nat, NEW now, CacheOK(entries, now, n), HeldFor(entries, now), NEW k,
         StatusOf(entries, k) = "loading"
  PROVE  /\ k \in Cached(entries) /\ k \in Pages(n) /\ EntryOf(entries, k).user \in BOOLEAN
         /\ k = now => EntryOf(entries, k).user
<1>1. PICK i \in 1 .. Len(entries) : entries[i].k = k
  BY EntryThere
<1>2. ListOK(entries, n)
  BY DEF CacheOK
<1>3. EntryOf(entries, k) = entries[i] /\ k \in Cached(entries)
  BY <1>1, <1>2, EntryIs
<1>4. entries[i].k \in Pages(n) /\ entries[i].user \in BOOLEAN
  BY <1>2, EntryTyped
<1>5. ASSUME k = now
      PROVE  entries[i].user
  <2>1. PICK j \in 1 .. Len(entries) : entries[j].k = now /\ entries[j].user
    BY DEF HeldFor
  <2>2. i = j
    BY <1>1, <1>2, <1>5, <2>1 DEF ListOK
  <2> QED
    BY <2>1, <2>2
<1> QED
  BY <1>1, <1>3, <1>4, <1>5

LEMMA PageLandsKeeps ==
  ASSUME PagesInv, NEW k, PageLands(k)
  PROVE  PagesInv'
<1>1. PICK n \in Nat : n = index.n
  BY DEF PagesInv
<1>2. StatusOf(entries, k) = "loading" /\ UNCHANGED <<opening, indexing, index, indexSt>> /\ cur' = cur
  BY DEF PageLands
<1>3. cur # Nowhere /\ cur \in Pages(n) /\ CacheOK(entries, cur, n) /\ HeldFor(entries, cur)
  <2>1. PICK i \in 1 .. Len(entries) : entries[i].k = k
    BY <1>2, EntryThere
  <2>2. entries # <<>>
    BY <2>1
  <2> QED
    BY <1>1, <2>2 DEF PagesInv
<1>4. cur \in Nat
  BY <1>3, PageCountIs
<1>5. PICK u \in BOOLEAN : u = EntryOf(entries, k).user
  BY <1>2, <1>3, LoadingIs
<1>6. k \in Cached(entries) /\ k \in Pages(n) /\ (k = cur => u)
  BY <1>2, <1>3, <1>5, LoadingIs
<1>7. PICK e \in EntriesOf(n) : e = Entry(k, "ready", u) /\ e.k = k /\ e.st = "ready" /\ e.user = u
  BY <1>6, EntryMade
<1>8. PICK x : x = Put(entries, e)
  OBVIOUS
<1>9. ListOK(x, n) /\ Swapped(x, entries, e)
  BY <1>3, <1>6, <1>7, <1>8, PutOK DEF CacheOK
<1>10. LoadsNear(x, cur)
  BY <1>3, <1>7, <1>9 DEF LoadsNear, Swapped, CacheOK
<1>11. HeldFor(x, cur)
  <2>1. CASE k = cur
    BY <1>6, <1>7, <1>9, <2>1 DEF HeldFor, Swapped
  <2>2. CASE k # cur
    BY <1>3, <1>7, <1>9, <2>2 DEF HeldFor, Swapped
  <2> QED
    BY <2>1, <2>2
<1>12. PICK now, r : now = cur /\ r = Evict(x, now) /\ now \in Int
  BY <1>4
<1>13. CacheOK(r, now, n) /\ Keeps(r, x, Protected(now))
  BY <1>9, <1>10, <1>12, EvictOK
<1>14. HeldFor(r, now)
  <2>1. now \in Protected(now)
    BY DEF Protected
  <2> QED
    BY <1>11, <1>12, <1>13, <2>1 DEF HeldFor, Keeps
<1>15. entries' = r
  BY <1>5, <1>7, <1>8, <1>12 DEF PageLands
<1>16. CacheOK(entries', cur, n) /\ HeldFor(entries', cur)
  BY <1>12, <1>13, <1>14, <1>15, Zenon
<1> QED
  BY <1>1, <1>2, <1>3, <1>16, Moves

LEMMA PageFailsKeeps ==
  ASSUME PagesInv, NEW k, PageFails(k)
  PROVE  PagesInv'
<1>1. PICK n \in Nat : n = index.n
  BY DEF PagesInv
<1>2. StatusOf(entries, k) = "loading" /\ UNCHANGED <<opening, indexing, index, indexSt>> /\ cur' = cur
  BY DEF PageFails
<1>3. cur # Nowhere /\ cur \in Pages(n) /\ CacheOK(entries, cur, n) /\ HeldFor(entries, cur)
  <2>1. PICK i \in 1 .. Len(entries) : entries[i].k = k
    BY <1>2, EntryThere
  <2>2. entries # <<>>
    BY <2>1
  <2> QED
    BY <1>1, <2>2 DEF PagesInv
<1>4. /\ k \in Cached(entries) /\ k \in Pages(n) /\ EntryOf(entries, k).user \in BOOLEAN
      /\ k = cur => EntryOf(entries, k).user
  BY <1>2, <1>3, LoadingIs
<1>5. ListOK(entries, n) /\ Len(entries) <= Capacity /\ LoadsNear(entries, cur) /\ Len(entries) \in Nat /\ Capacity \in Nat
  BY <1>3, PlacesAre, PagesAssumption DEF CacheOK, ListOK
<1>6. CASE EntryOf(entries, k).user
  <2>1. PICK u \in BOOLEAN : u = TRUE
    OBVIOUS
  <2>2. PICK e \in EntriesOf(n) : e = Entry(k, "error", u) /\ e.k = k /\ e.st = "error" /\ e.user = u
    BY <1>4, EntryMade
  <2>3. PICK r : r = Put(entries, e)
    OBVIOUS
  <2>4. ListOK(r, n) /\ Len(r) = Len(entries) /\ Swapped(r, entries, e)
    BY <1>4, <1>5, <2>2, <2>3, PutOK
  <2>5. LoadsNear(r, cur)
    BY <1>5, <2>2, <2>4 DEF LoadsNear, Swapped
  <2>6. HeldFor(r, cur)
    <3>1. CASE k = cur
      BY <2>1, <2>2, <2>4, <3>1 DEF HeldFor, Swapped
    <3>2. CASE k # cur
      BY <1>3, <2>2, <2>4, <3>2 DEF HeldFor, Swapped
    <3> QED
      BY <3>1, <3>2
  <2>7. entries' = r
    BY <1>6, <2>1, <2>2, <2>3 DEF PageFails
  <2>8. CacheOK(entries', cur, n) /\ HeldFor(entries', cur)
    BY <1>5, <2>4, <2>5, <2>6, <2>7 DEF CacheOK
  <2> QED
    BY <1>1, <1>2, <1>3, <2>8, Moves
<1>7. CASE ~EntryOf(entries, k).user
  <2>0. PICK ks : ks = {k}
    OBVIOUS
  <2>1. PICK r : r = Forget(entries, ks)
    OBVIOUS
  <2>2. /\ ListOK(r, n) /\ Len(r) \in Nat /\ Len(r) <= Len(entries)
        /\ \A i \in 1 .. Len(r) : r[i].k \notin ks /\ \E p \in 1 .. Len(entries) : r[i] = entries[p]
        /\ \A p \in 1 .. Len(entries) : entries[p].k \notin ks => \E i \in 1 .. Len(r) : r[i] = entries[p]
    <3>1. ListOK(r, n) /\ Len(r) \in Nat /\ Len(r) <= Len(entries)
      BY <1>5, <2>1, ForgetOK
    <3>2. ASSUME NEW i \in 1 .. Len(r)
          PROVE  r[i].k \notin ks /\ \E p \in 1 .. Len(entries) : r[i] = entries[p]
      BY <1>5, <2>1, ForgetOK
    <3>3. ASSUME NEW p \in 1 .. Len(entries), entries[p].k \notin ks
          PROVE  \E i \in 1 .. Len(r) : r[i] = entries[p]
      BY <1>5, <2>1, <3>3, ForgetOK
    <3> QED
      BY <3>1, <3>2, <3>3
  <2>3. LoadsNear(r, cur)
    BY <1>5, <2>2 DEF LoadsNear
  <2>4. cur \notin ks
    BY <1>4, <1>7, <2>0
  <2>5. HeldFor(r, cur)
    BY <1>3, <2>2, <2>4 DEF HeldFor
  <2>6. entries' = r
    BY <1>7, <2>0, <2>1 DEF PageFails
  <2>7. CacheOK(entries', cur, n) /\ HeldFor(entries', cur)
    BY <1>5, <2>2, <2>3, <2>5, <2>6 DEF CacheOK
  <2> QED
    BY <1>1, <1>2, <1>3, <2>7, Moves
<1> QED
  BY <1>6, <1>7

LEMMA InitPages == PagesInit => PagesInv
<1> SUFFICES ASSUME PagesInit PROVE PagesInv
  OBVIOUS
<1>1. index.n = 0 /\ index = NoIndex
  BY DEF PagesInit, NoIndex
<1> QED
  BY <1>1 DEF PagesInit, PagesInv

LEMMA StepPages ==
  ASSUME PagesInv, [Next]_vars
  PROVE  PagesInv'
<1>1. CASE PagesNext
  <2>1. CASE Open
    BY <2>1, OpenKeeps
  <2>2. CASE SeekWindow
    BY <2>2, SeekKeeps
  <2>3. CASE Settle
    BY <2>3, SettleKeeps
  <2>4. CASE \E k \in Pages(index.n) : LoadPage(k) \/ PageLands(k) \/ PageFails(k)
    BY <2>4, LoadKeepsPages, PageLandsKeeps, PageFailsKeeps
  <2>5. CASE \E open \in indexing : IndexFails(open) \/ \E n \in BarCounts : IndexLands(open, n)
    BY <2>5, IndexFailsKeeps, IndexLandsKeeps
  <2> QED
    BY <1>1, <2>1, <2>2, <2>3, <2>4, <2>5 DEF PagesNext
<1>2. CASE UNCHANGED pagesVars
  <2>1. UNCHANGED <<opening, indexing, index, indexSt, cur, entries, resting>>
    BY <1>2 DEF pagesVars
  <2>2. /\ opening \in Nat /\ indexing \subseteq 1 .. opening
        /\ index.n \in Nat
        /\ indexSt = "ready" => index.open = opening /\ opening > 0
        /\ indexSt # "ready" => index = NoIndex /\ cur = Nowhere
        /\ opening \in indexing => indexSt = "loading"
        /\ cur = Nowhere => entries = <<>> /\ ~resting
    BY DEF PagesInv
  <2>3. cur # Nowhere => cur \in Pages(index.n) /\ CacheOK(entries, cur, index.n) /\ HeldFor(entries, cur)
    BY DEF PagesInv
  <2>4. cur' # Nowhere => cur' \in Pages(index'.n) /\ CacheOK(entries', cur', index'.n) /\ HeldFor(entries', cur')
    BY <2>1, <2>3
  <2>5. /\ opening' \in Nat /\ indexing' \subseteq 1 .. opening'
        /\ index'.n \in Nat
        /\ indexSt' = "ready" => index'.open = opening' /\ opening' > 0
        /\ indexSt' # "ready" => index' = NoIndex /\ cur' = Nowhere
        /\ opening' \in indexing' => indexSt' = "loading"
        /\ cur' = Nowhere => entries' = <<>> /\ ~resting'
    BY <2>1, <2>2
  <2> QED
    BY <2>4, <2>5 DEF PagesInv
<1> QED
  BY <1>1, <1>2 DEF Next, vars, Detail, Viewer, Grid, Coverage, Usage, Sidebar, Refresh, Failure

LEMMA PagesServe == PagesInv => PagesServeTheWindow
<1> SUFFICES ASSUME PagesInv PROVE PagesServeTheWindow
  OBVIOUS
<1>1. PICK n \in Nat : n = index.n
  BY DEF PagesInv
<1>2. index # NoIndex => index.open = opening
  BY DEF PagesInv
<1>3. indexSt = "ready" <=> index # NoIndex
  <2>1. NoIndex.open = 0
    BY DEF NoIndex
  <2> QED
    BY <2>1 DEF PagesInv
<1>4. CASE cur = Nowhere
  <2>1. entries = <<>> /\ Len(entries) = 0 /\ Cached(entries) = {}
    BY <1>4 DEF PagesInv, Cached
  <2>2. Cardinality({}) = 0
    BY FS_EmptySet
  <2>3. Len(entries) <= Capacity /\ Cardinality(Cached(entries)) = Len(entries) /\ Cached(entries) \subseteq Pages(index.n)
    <3>1. Capacity \in Nat
      BY PagesAssumption
    <3>2. Len(entries) <= Capacity
      BY <2>1, <3>1
    <3>3. Cardinality(Cached(entries)) = Len(entries)
      BY <2>1, <2>2, Zenon
    <3>4. Cached(entries) \subseteq Pages(index.n)
      BY <2>1
    <3> QED
      BY <3>2, <3>3, <3>4
  <2> QED
    BY <1>2, <1>3, <1>4, <2>3 DEF PagesServeTheWindow
<1>5. CASE cur # Nowhere
  <2>1. CacheOK(entries, cur, n) /\ HeldFor(entries, cur)
    BY <1>1, <1>5 DEF PagesInv
  <2>2. ListOK(entries, n) /\ Len(entries) <= Capacity
    BY <2>1 DEF CacheOK
  <2>3. StatusOf(entries, cur) # "absent"
    <3>1. PICK i \in 1 .. Len(entries) : entries[i].k = cur
      BY <2>1 DEF HeldFor
    <3>2. StatusOf(entries, cur) = entries[i].st /\ entries[i].st \in {"loading", "ready", "error"}
      BY <2>2, <3>1, EntryIs, EntryTyped
    <3> QED
      BY <3>2
  <2>4. Cached(entries) \subseteq Pages(n)
    BY <2>2, EntryTyped DEF Cached
  <2>5. Cardinality(Cached(entries)) = Len(entries)
    <3> DEFINE f == [i \in 1 .. Len(entries) |-> entries[i].k]
               all == 1 .. Len(entries)
    <3>1. f \in [all -> Cached(entries)]
      BY DEF Cached
    <3>2. \A i, j \in all : f[i] = f[j] => i = j
      BY <2>2 DEF ListOK
    <3>3. \A k \in Cached(entries) : \E i \in all : f[i] = k
      BY DEF Cached
    <3>4. Len(entries) \in Nat /\ IsFiniteSet(all) /\ Cardinality(all) = Len(entries)
      BY <2>2, PlacesAre DEF ListOK
    <3> HIDE DEF f, all
    <3>5. f \in Injection(all, Cached(entries)) /\ f \in Surjection(all, Cached(entries))
      BY <3>1, <3>2, <3>3 DEF Injection, IsInjective, Surjection
    <3>6. IsFiniteSet(Cached(entries)) /\ Cardinality(Cached(entries)) <= Cardinality(all)
      BY <3>4, <3>5, FS_Surjection
    <3>7. Cardinality(all) <= Cardinality(Cached(entries))
      BY <3>5, <3>6, FS_Injection
    <3>8. Cardinality(Cached(entries)) \in Nat
      BY <3>6, FS_CardinalityType
    <3> QED
      BY <3>4, <3>6, <3>7, <3>8
  <2> QED
    BY <1>1, <1>2, <1>3, <2>2, <2>3, <2>4, <2>5 DEF PagesServeTheWindow
<1> QED
  BY <1>4, <1>5

\* The viewer always has the page it shows, on its way at the least or with its error, within the
\* cache's bound and of the window opened last, and its pages make up the window, wherever the
\* operator seeks to and in whatever order the reads come back or fail (chartPages.ts).
THEOREM ViewerShowsTheWindowAlways == Spec => []ViewerShowsTheWindow
<1>1. Init => PagesInv
  BY InitPages DEF Init
<1>2. PagesInv => ViewerShowsTheWindow
  <2> SUFFICES ASSUME PagesInv PROVE ViewerShowsTheWindow
    OBVIOUS
  <2>1. index.n \in Nat /\ (cur # Nowhere => cur \in Pages(index.n))
    BY DEF PagesInv
  <2>2. PagesAddUp
    BY <2>1, AddUp
  <2>3. PagesServeTheWindow
    BY PagesServe
  <2> QED
    BY <2>2, <2>3 DEF ViewerShowsTheWindow
<1> QED
  BY <1>1, <1>2, StepPages, PTL DEF Spec

---------------------------------------------------------------------------
(* How a dataset is judged as time passes: the same rules, of a dataset, what it holds, and an instant. *)

PeriodOf(w, d) == IF w = "week" THEN d - (d % WeekDays) ELSE d
AfterPeriod(w, d) == PeriodOf(w, d) + (IF w = "week" THEN WeekDays ELSE 1)

WalkedAt(w, now, from, to) ==
    IF w = "day" THEN Overlapping(from, to)
    ELSE LET bound == Min({to, now})
         IN  IF bound <= from THEN {} ELSE Overlapping(from, Midnight(AfterPeriod(w, DayOf(bound))))

ExpectedAt(w, now, from, to) ==
    {s \in WalkedAt(w, now, from, to) :
        IF w = "day" THEN SessionClose(s) <= now
        ELSE LET members == {x \in WalkedAt(w, now, from, to) : PeriodOf(w, x) = PeriodOf(w, s)}
             IN  /\ from <= Midnight(PeriodOf(w, s)) /\ Midnight(PeriodOf(w, s)) < to
                 /\ SessionClose(Max(members)) <= now}

EndAt(k, now) == IF k.end = Forever THEN Max({now, k.start + 1}) ELSE k.end

MissingAt(k, cov, now) ==
    {s \in (IF k.width = "day" THEN ExpectedAt(k.width, now, k.start, EndAt(k, now))
            ELSE ExpectedAt(k.width, now, k.start, EndAt(k, now)) \cap Overlapping(k.start, EndAt(k, now))) :
        PeriodOf(k.width, s) \notin {PeriodOf(k.width, d) : d \in cov}}

OwedAt(k, now) == {PeriodOf(k.width, d) : d \in ExpectedAt(k.width, now, k.start, Min({EndAt(k, now), now}))}

FirstMissedAt(k, cov, now, early) ==
    IF early THEN Max(OwedAt(k, now))
    ELSE IF cov = {} THEN Min(OwedAt(k, now))
    ELSE Min({Max(OwedAt(k, now)), PeriodOf(k.width, NextSession(AfterPeriod(k.width, Max(cov)) - 1))})

DailyAt(k, cov, now, prov) ==
    LET early    == cov # {} /\ PeriodOf(k.width, Max(cov)) = Max(OwedAt(k, now)) /\ prov
        stored   == cov # {} /\ PeriodOf(k.width, Max(cov)) >= Max(OwedAt(k, now)) /\ ~early
        deadline == SessionOpen(NextSession(AfterPeriod(k.width, FirstMissedAt(k, cov, now, early)) - 1))
    IN  CASE OwedAt(k, now) = {} -> "FRESH"
          [] OwedAt(k, now) # {} /\ stored -> "FRESH"
          [] OTHER -> IF now < deadline THEN "LATE" ELSE "OVERDUE"

LEMMA MissingHere == MissingSessions = MissingAt(kept, covered, clock)
BY Zenon DEF MissingSessions, MissingAt, InRange, Expected, ExpectedAt, Walked, WalkedAt, Holds, Periods,
   PeriodStart, PeriodOf, NextPeriod, AfterPeriod, RangeEnd, EndAt

LEMMA MissingThere == MissingSessions' = MissingAt(kept', covered', clock')
BY Zenon DEF MissingSessions, MissingAt, InRange, Expected, ExpectedAt, Walked, WalkedAt, Holds, Periods,
   PeriodStart, PeriodOf, NextPeriod, AfterPeriod, RangeEnd, EndAt

LEMMA DailyHere == DailyStatus = DailyAt(kept, covered, clock, Provisional)
BY Zenon DEF DailyStatus, DailyAt, FirstMissed, FirstMissedAt, Owed, OwedAt, Expected, ExpectedAt, Walked, WalkedAt, Periods,
   PeriodStart, PeriodOf, NextPeriod, AfterPeriod, RangeEnd, EndAt

LEMMA DailyThere == DailyStatus' = DailyAt(kept', covered', clock', Provisional')
BY Zenon DEF DailyStatus, DailyAt, FirstMissed, FirstMissedAt, Owed, OwedAt, Expected, ExpectedAt, Walked, WalkedAt, Periods,
   PeriodStart, PeriodOf, NextPeriod, AfterPeriod, RangeEnd, EndAt

\* Two periods are the same or one after the other.
LEMMA PeriodIs ==
  ASSUME NEW w, NEW d \in Nat
  PROVE  /\ PeriodOf(w, d) \in Nat /\ AfterPeriod(w, d) \in Nat /\ PeriodOf(w, d) <= d /\ d < AfterPeriod(w, d)
         /\ AfterPeriod(w, d) <= d + WeekDays
         /\ \A e \in Nat : PeriodOf(w, d) = PeriodOf(w, e) \/ AfterPeriod(w, d) <= PeriodOf(w, e)
                             \/ AfterPeriod(w, e) <= PeriodOf(w, d)
<1>1. PICK b \in Nat \ {0} : b = WeekDays
  BY CalendarAssumption
<1>2. CASE w = "week"
  <2>1. \A e \in Nat : \E q \in Nat : PeriodOf(w, e) = b * q /\ AfterPeriod(w, e) = b * q + b
                                        /\ b * q <= e /\ e < b * q + b
    <3>1. SUFFICES ASSUME NEW e \in Nat
                   PROVE  \E q \in Nat : PeriodOf(w, e) = b * q /\ AfterPeriod(w, e) = b * q + b
                                           /\ b * q <= e /\ e < b * q + b
      OBVIOUS
    <3>2. PICK q \in Nat, m \in Nat : q = e \div b /\ m = e % b /\ m < b /\ e = b * q + m
      BY ModIs
    <3>3. PICK p \in Nat : p = b * q
      OBVIOUS
    <3>4. PeriodOf(w, e) = p /\ AfterPeriod(w, e) = p + b
      BY <1>1, <1>2, <3>2, <3>3 DEF PeriodOf, AfterPeriod
    <3>5. e = p + m /\ p <= e /\ e < p + b
      BY <3>2, <3>3
    <3> QED
      BY <3>3, <3>4, <3>5
  <2>2. PICK q \in Nat : PeriodOf(w, d) = b * q /\ AfterPeriod(w, d) = b * q + b /\ b * q <= d /\ d < b * q + b
    BY <2>1
  <2>3. PICK p \in Nat : p = b * q
    OBVIOUS
  <2>4. ASSUME NEW e \in Nat
        PROVE  PeriodOf(w, d) = PeriodOf(w, e) \/ AfterPeriod(w, d) <= PeriodOf(w, e) \/ AfterPeriod(w, e) <= PeriodOf(w, d)
    <3>1. PICK r \in Nat : PeriodOf(w, e) = b * r /\ AfterPeriod(w, e) = b * r + b
      BY <2>1
    <3>2. CASE q = r
      BY <2>2, <3>1, <3>2
    <3>3. CASE q < r
      <4>1. q + 1 \in Nat /\ q + 1 <= r
        BY <3>3
      <4>2. (q + 1) * b <= r * b
        BY <4>1, TimesGrows
      <4>3. b * q + b <= b * r
        BY <4>2
      <4> QED
        BY <2>2, <3>1, <4>3
    <3>4. CASE r < q
      <4>1. r + 1 \in Nat /\ r + 1 <= q
        BY <3>4
      <4>2. (r + 1) * b <= q * b
        BY <4>1, TimesGrows
      <4>3. b * r + b <= b * q
        BY <4>2
      <4> QED
        BY <2>2, <3>1, <4>3
    <3> QED
      BY <3>2, <3>3, <3>4
  <2> QED
    BY <1>1, <2>2, <2>3, <2>4
<1>3. CASE w # "week"
  <2>1. \A e : PeriodOf(w, e) = e /\ AfterPeriod(w, e) = e + 1
    BY <1>3 DEF PeriodOf, AfterPeriod
  <2> QED
    BY <1>1, <2>1
<1> QED
  BY <1>2, <1>3

LEMMA PeriodsRise ==
  ASSUME NEW w, NEW d \in Nat, NEW e \in Nat, d <= e
  PROVE  PeriodOf(w, d) <= PeriodOf(w, e) /\ AfterPeriod(w, d) <= AfterPeriod(w, e)
<1>1. /\ PeriodOf(w, d) \in Nat /\ AfterPeriod(w, d) \in Nat /\ PeriodOf(w, d) <= d /\ d < AfterPeriod(w, d)
      /\ PeriodOf(w, e) \in Nat /\ AfterPeriod(w, e) \in Nat /\ PeriodOf(w, e) <= e /\ e < AfterPeriod(w, e)
  BY PeriodIs
<1>2. PeriodOf(w, d) = PeriodOf(w, e) \/ AfterPeriod(w, d) <= PeriodOf(w, e) \/ AfterPeriod(w, e) <= PeriodOf(w, d)
  BY PeriodIs
<1>3. PeriodOf(w, d) = PeriodOf(w, e) => AfterPeriod(w, d) = AfterPeriod(w, e)
  BY DEF AfterPeriod
<1> QED
  BY <1>1, <1>2, <1>3

LEMMA LastOf ==
  ASSUME NEW S \in SUBSET Nat, S # {}, NEW n \in Nat, \A x \in S : x <= n
  PROVE  Max(S) \in S /\ \A y \in S : y <= Max(S)
<1>1. PICK m \in S : \A y \in S : y <= m
  BY LargestOf
<1>2. m \in Int /\ \A y \in S : y \in Int
  OBVIOUS
<1>3. Max(S) = m
  BY <1>1, <1>2, MaxIs
<1> QED
  BY <1>1, <1>3

LEMMA FirstOf ==
  ASSUME NEW S \in SUBSET Nat, S # {}
  PROVE  Min(S) \in S /\ \A y \in S : Min(S) <= y
<1>1. \E m \in S : \A y \in S : m <= y
  BY LeastOf
<1>2. \E m \in S : \A y \in S : m =< y
  BY <1>1
<1> QED
  BY <1>2 DEF Min

LEMMA FirstOfTwo ==
  ASSUME NEW a \in Nat, NEW b \in Nat, NEW S, S = {a, b}
  PROVE  Min(S) = IF a <= b THEN a ELSE b
<1>1. S \in SUBSET Nat /\ S # {} /\ a \in S /\ b \in S
  OBVIOUS
<1>2. Min(S) \in S /\ Min(S) <= a /\ Min(S) <= b
  BY <1>1, FirstOf
<1> QED
  BY <1>1, <1>2

LEMMA LastOfTwo ==
  ASSUME NEW a \in Nat, NEW b \in Nat, NEW S, S = {a, b}
  PROVE  Max(S) = IF a <= b THEN b ELSE a
<1>1. PICK m \in Nat : m = IF a <= b THEN b ELSE a
  OBVIOUS
<1>2. m \in S /\ \A y \in S : y \in Int /\ y <= m
  BY <1>1
<1>3. Max(S) = m
  BY <1>2, MaxIs
<1> QED
  BY <1>1, <1>3

\* The next session there is, within the bound on time.
LEMMA NextSessionIs ==
  ASSUME NEW d \in Int, d <= LastDay + WeekDays
  PROVE  NextSession(d) \in Sessions /\ NextSession(d) \in Nat /\ d < NextSession(d)
         /\ \A s \in Sessions : d < s => NextSession(d) <= s
<1>1. PICK S : S = {s \in Sessions : s > d}
  OBVIOUS
<1>2. Sessions \in SUBSET Nat /\ LastDay \in Nat /\ WeekDays \in Nat
  BY CalendarAssumption
<1>3. PICK x \in Sessions : x > LastDay + WeekDays
  BY CalendarAssumption
<1>4. x \in S
  BY <1>1, <1>2, <1>3
<1>5. S \in SUBSET Nat /\ S # {}
  BY <1>1, <1>2, <1>4
<1>6. Min(S) \in S /\ \A y \in S : Min(S) <= y
  BY <1>5, FirstOf
<1>7. NextSession(d) = Min(S)
  BY <1>1 DEF NextSession
<1> QED
  BY <1>1, <1>2, <1>6, <1>7

LEMMA NextSessionRises ==
  ASSUME NEW d \in Int, NEW e \in Int, d <= e, e <= LastDay + WeekDays
  PROVE  NextSession(d) <= NextSession(e)
<1>1. LastDay \in Nat /\ WeekDays \in Nat
  BY CalendarAssumption
<1>2. NextSession(e) \in Sessions /\ e < NextSession(e) /\ NextSession(e) \in Nat
  BY NextSessionIs
<1>3. d <= LastDay + WeekDays
  BY <1>1
<1>4. d < NextSession(e)
  BY <1>2
<1> QED
  BY <1>2, <1>3, <1>4, NextSessionIs
LEMMA OverlappingGrows ==
  ASSUME NEW a \in Nat, NEW b \in Nat, NEW c \in Nat, b <= c
  PROVE  /\ Overlapping(a, b) \subseteq Overlapping(a, c)
         /\ Overlapping(a, b) \in SUBSET Nat /\ Overlapping(a, b) \subseteq Sessions
<1>1. Sessions \in SUBSET Nat
  BY CalendarAssumption
<1>2. ASSUME NEW s \in Overlapping(a, b)
      PROVE  s \in Overlapping(a, c) /\ s \in Sessions
  <2>1. s \in Sessions /\ s \in Nat /\ 4 * s + 1 < b /\ 4 * s + 2 > a
    BY <1>1 DEF Overlapping, SessionOpen, SessionClose
  <2>2. 4 * s + 1 < c
    BY <2>1
  <2> QED
    BY <2>1, <2>2 DEF Overlapping, SessionOpen, SessionClose
<1> QED
  BY <1>1, <1>2


\* What is walked grows with time, a whole period at once.
LEMMA WalkedGrows ==
  ASSUME NEW w, NEW now \in Nat, NEW later \in Nat, now <= later, NEW from \in Nat,
         NEW to \in Nat, NEW upto \in Nat, to <= upto
  PROVE  /\ WalkedAt(w, now, from, to) \in SUBSET Nat /\ WalkedAt(w, now, from, to) \subseteq Sessions
         /\ WalkedAt(w, now, from, to) \subseteq WalkedAt(w, later, from, upto)
         /\ w # "day" => \A s \in WalkedAt(w, now, from, to), x \in WalkedAt(w, later, from, upto) :
                           PeriodOf(w, x) = PeriodOf(w, s) => x \in WalkedAt(w, now, from, to)
<1>1. Sessions \in SUBSET Nat
  BY CalendarAssumption
<1>2. \A a, b : Overlapping(a, b) = {s \in Sessions : 4 * s + 1 < b /\ 4 * s + 2 > a}
  BY DEF Overlapping, SessionOpen, SessionClose
<1>3. CASE w = "day"
  <2>1. WalkedAt(w, now, from, to) = Overlapping(from, to) /\ WalkedAt(w, later, from, upto) = Overlapping(from, upto)
    BY <1>3 DEF WalkedAt
  <2>2. Overlapping(from, to) \subseteq Overlapping(from, upto)
    BY OverlappingGrows
  <2>3. Overlapping(from, to) \in SUBSET Nat /\ Overlapping(from, to) \subseteq Sessions
    BY OverlappingGrows
  <2> QED
    BY <1>3, <2>1, <2>2, <2>3
<1>4. CASE w # "day"
  <2>1. PICK A, B : A = {to, now} /\ B = {upto, later}
    OBVIOUS
  <2>2. PICK a \in Nat, b \in Nat : a = Min(A) /\ b = Min(B) /\ a <= b
    <3>1. Min(A) = (IF to <= now THEN to ELSE now) /\ Min(B) = (IF upto <= later THEN upto ELSE later)
      BY <2>1, FirstOfTwo
    <3> QED
      BY <3>1
  <2>3. /\ WalkedAt(w, now, from, to) = IF a <= from THEN {} ELSE Overlapping(from, Midnight(AfterPeriod(w, DayOf(a))))
        /\ WalkedAt(w, later, from, upto) = IF b <= from THEN {} ELSE Overlapping(from, Midnight(AfterPeriod(w, DayOf(b))))
    BY <1>4, <2>1, <2>2 DEF WalkedAt
  <2>4. PICK d \in Nat, e \in Nat : d = DayOf(a) /\ e = DayOf(b) /\ d <= e
    <3>1. PICK four \in Nat \ {0} : four = 4
      OBVIOUS
    <3>2. PICK d \in Nat, e \in Nat : d = a \div four /\ e = b \div four
      BY DivIs
    <3>3. 4 * d <= a /\ b < 4 * e + 4
      BY <3>1, <3>2, DivIs
    <3> QED
      BY <2>2, <3>1, <3>2, <3>3 DEF DayOf
  <2>5. PICK m \in Nat, n \in Nat : m = AfterPeriod(w, d) /\ n = AfterPeriod(w, e) /\ m <= n
    BY <2>4, PeriodIs, PeriodsRise
  <2>6. /\ WalkedAt(w, now, from, to) = IF a <= from THEN {} ELSE Overlapping(from, 4 * m)
        /\ WalkedAt(w, later, from, upto) = IF b <= from THEN {} ELSE Overlapping(from, 4 * n)
    BY <2>3, <2>4, <2>5 DEF Midnight
  <2>7. WalkedAt(w, now, from, to) \in SUBSET Nat /\ WalkedAt(w, now, from, to) \subseteq Sessions
    BY <1>1, <1>2, <2>6
  <2>8. CASE a <= from
    BY <2>6, <2>7, <2>8
  <2>9. CASE ~(a <= from)
    <3>1. ~(b <= from)
      BY <2>2, <2>9
    <3>2. WalkedAt(w, now, from, to) = Overlapping(from, 4 * m) /\ WalkedAt(w, later, from, upto) = Overlapping(from, 4 * n)
      BY <2>6, <2>9, <3>1
    <3>3. Overlapping(from, 4 * m) \subseteq Overlapping(from, 4 * n)
      <4>1. 4 * m \in Nat /\ 4 * n \in Nat /\ 4 * m <= 4 * n
        BY <2>5
      <4> QED
        BY <4>1, OverlappingGrows
    <3>4. ASSUME NEW s \in Overlapping(from, 4 * m), NEW x \in Overlapping(from, 4 * n), PeriodOf(w, x) = PeriodOf(w, s)
          PROVE  x \in Overlapping(from, 4 * m)
      <4>1. s \in Nat /\ x \in Nat /\ x \in Sessions /\ 4 * s + 1 < 4 * m /\ 4 * x + 2 > from
        BY <1>1, <1>2
      <4>2. AfterPeriod(w, x) = AfterPeriod(w, s)
        BY <3>4 DEF AfterPeriod
      <4>3. /\ PeriodOf(w, s) \in Nat /\ PeriodOf(w, s) <= s /\ s < AfterPeriod(w, s) /\ AfterPeriod(w, s) \in Nat
            /\ x < AfterPeriod(w, x) /\ PeriodOf(w, d) <= d /\ d < m /\ PeriodOf(w, d) \in Nat
        BY <2>5, <4>1, PeriodIs
      <4>4. PeriodOf(w, s) = PeriodOf(w, d) \/ AfterPeriod(w, s) <= PeriodOf(w, d) \/ m <= PeriodOf(w, s)
        BY <2>5, <4>1, PeriodIs
      <4>5. PeriodOf(w, s) = PeriodOf(w, d) => AfterPeriod(w, s) = m
        BY <2>5 DEF AfterPeriod
      <4>6. x < m
        BY <4>1, <4>2, <4>3, <4>4, <4>5
      <4> QED
        BY <1>2, <4>1, <4>6
    <3> QED
      BY <2>7, <3>2, <3>3, <3>4
  <2> QED
    BY <2>8, <2>9
<1> QED
  BY <1>3, <1>4

\* What is expected has ended, and stays expected.
LEMMA ExpectedGrows ==
  ASSUME NEW w, NEW now \in Nat, NEW later \in Nat, now <= later, NEW from \in Nat,
         NEW to \in Nat, NEW upto \in Nat, to <= upto, NEW s \in ExpectedAt(w, now, from, to)
  PROVE  s \in Nat /\ s \in Sessions /\ 4 * s + 2 <= now /\ s \in ExpectedAt(w, later, from, upto)
<1> DEFINE W == WalkedAt(w, now, from, to)
           V == WalkedAt(w, later, from, upto)
<1>1. /\ W \in SUBSET Nat /\ W \subseteq Sessions /\ W \subseteq V
      /\ w # "day" => \A x \in W, y \in V : PeriodOf(w, y) = PeriodOf(w, x) => y \in W
  BY WalkedGrows
<1>2. s \in W /\ s \in Nat /\ s \in V /\ s \in Sessions
  BY <1>1 DEF ExpectedAt
<1>3. CASE w = "day"
  <2>1. SessionClose(s) <= now
    BY <1>3 DEF ExpectedAt
  <2>2. 4 * s + 2 <= now
    BY <2>1 DEF SessionClose
  <2>3. SessionClose(s) <= later
    BY <1>2, <2>2 DEF SessionClose
  <2> QED
    BY <1>2, <1>3, <2>2, <2>3 DEF ExpectedAt
<1>4. CASE w # "day"
  <2> DEFINE M == {x \in W : PeriodOf(w, x) = PeriodOf(w, s)}
             N == {x \in V : PeriodOf(w, x) = PeriodOf(w, s)}
  <2>1. M = N
    BY <1>1, <1>2, <1>4
  <2>2. from <= Midnight(PeriodOf(w, s)) /\ Midnight(PeriodOf(w, s)) < to /\ SessionClose(Max(M)) <= now
    BY <1>4 DEF ExpectedAt
  <2>3. M \in SUBSET Nat /\ s \in M
    BY <1>1, <1>2
  <2>4. AfterPeriod(w, s) \in Nat /\ \A x \in M : x <= AfterPeriod(w, s)
    <3>1. ASSUME NEW x \in M
          PROVE  x <= AfterPeriod(w, s)
      <4>1. x \in Nat /\ PeriodOf(w, x) = PeriodOf(w, s)
        BY <2>3
      <4>2. AfterPeriod(w, x) = AfterPeriod(w, s)
        BY <4>1 DEF AfterPeriod
      <4>3. x < AfterPeriod(w, x) /\ AfterPeriod(w, x) \in Nat
        BY <4>1, PeriodIs
      <4> QED
        BY <4>1, <4>2, <4>3
    <3> QED
      BY <1>2, <3>1, PeriodIs
  <2> HIDE DEF M, N
  <2>5. Max(M) \in M /\ \A y \in M : y <= Max(M)
    BY <2>3, <2>4, LastOf
  <2>6. PICK m \in Nat : m = Max(M) /\ s <= m
    BY <2>3, <2>5
  <2>7. 4 * m + 2 <= now
    BY <2>2, <2>6 DEF SessionClose
  <2>8. 4 * s + 2 <= now
    BY <1>2, <2>6, <2>7
  <2>9. SessionClose(Max(N)) <= later
    BY <2>1, <2>6, <2>7 DEF SessionClose
  <2>10. Midnight(PeriodOf(w, s)) < upto
    <3>1. PeriodOf(w, s) \in Nat
      BY <1>2, PeriodIs
    <3> QED
      BY <2>2, <3>1 DEF Midnight
  <2>11. s \in ExpectedAt(w, later, from, upto)
    BY <1>2, <1>4, <2>2, <2>9, <2>10 DEF ExpectedAt, N
  <2> QED
    BY <1>2, <2>8, <2>11
<1> QED
  BY <1>3, <1>4
SubscriptionSet == [update : {"STATIC", "DAILY", "STREAM"}, width : {"day", "week"},
         start : Nat, end : Nat \cup {Forever}, collect : BOOLEAN]

LEMMA EndGrows ==
  ASSUME NEW k \in SubscriptionSet, NEW now \in Nat, NEW later \in Nat, now <= later
  PROVE  EndAt(k, now) \in Nat /\ EndAt(k, later) \in Nat /\ EndAt(k, now) <= EndAt(k, later)
<1>1. CASE k.end = Forever
  <2>1. PICK n \in Nat : n = k.start + 1
    BY DEF SubscriptionSet
  <2>2. PICK A, B : A = {now, n} /\ B = {later, n}
    OBVIOUS
  <2>3. Max(A) = (IF now <= n THEN n ELSE now) /\ Max(B) = (IF later <= n THEN n ELSE later)
    BY <2>2, LastOfTwo
  <2>4. EndAt(k, now) = Max(A) /\ EndAt(k, later) = Max(B)
    BY <1>1, <2>1, <2>2 DEF EndAt
  <2> QED
    BY <2>3, <2>4
<1>2. CASE k.end # Forever
  <2>1. k.end \in Nat
    BY <1>2 DEF SubscriptionSet
  <2>2. EndAt(k, now) = k.end /\ EndAt(k, later) = k.end
    BY <1>2 DEF EndAt
  <2> QED
    BY <2>1, <2>2
<1> QED
  BY <1>1, <1>2

\* A missing session stays missing until a bar is stored.
LEMMA MissingGrows ==
  ASSUME NEW k \in SubscriptionSet, NEW cov, NEW now \in Nat, NEW later \in Nat, now <= later
  PROVE  MissingAt(k, cov, now) \subseteq MissingAt(k, cov, later)
<1>1. PICK a \in Nat, b \in Nat, f \in Nat : a = EndAt(k, now) /\ b = EndAt(k, later) /\ a <= b /\ f = k.start
  BY EndGrows DEF SubscriptionSet
<1>2. SUFFICES ASSUME NEW s \in MissingAt(k, cov, now)
               PROVE  s \in MissingAt(k, cov, later)
  OBVIOUS
<1>3. s \in ExpectedAt(k.width, now, f, a) /\ PeriodOf(k.width, s) \notin {PeriodOf(k.width, d) : d \in cov}
  BY <1>1 DEF MissingAt
<1>4. s \in ExpectedAt(k.width, later, f, b)
  BY <1>1, <1>3, ExpectedGrows
<1>5. CASE k.width = "day"
  BY <1>1, <1>3, <1>4, <1>5 DEF MissingAt
<1>6. CASE k.width # "day"
  <2>1. s \in Overlapping(f, a)
    BY <1>1, <1>6 DEF MissingAt
  <2>2. s \in Overlapping(f, b)
    BY <1>1, <2>1, OverlappingGrows
  <2> QED
    BY <1>1, <1>3, <1>4, <1>6, <2>2 DEF MissingAt
<1> QED
  BY <1>5, <1>6

\* What is owed is the period of a session that has closed, and stays owed.
LEMMA OwedGrows ==
  ASSUME NEW k \in SubscriptionSet, NEW now \in Nat, NEW later \in Nat, now <= later
  PROVE  /\ OwedAt(k, now) \subseteq OwedAt(k, later)
         /\ \A p \in OwedAt(k, now) : p \in Nat /\ \E s \in Sessions : s \in Nat /\ p = PeriodOf(k.width, s)
                                                                    /\ p <= s /\ 4 * s + 2 <= now
<1>1. PICK a \in Nat, b \in Nat, f \in Nat : a = EndAt(k, now) /\ b = EndAt(k, later) /\ a <= b /\ f = k.start
  BY EndGrows DEF SubscriptionSet
<1>2. PICK A, B : A = {a, now} /\ B = {b, later}
  OBVIOUS
<1>3. PICK m \in Nat, n \in Nat : m = Min(A) /\ n = Min(B) /\ m <= n
  <2>1. Min(A) = (IF a <= now THEN a ELSE now) /\ Min(B) = (IF b <= later THEN b ELSE later)
    BY <1>2, FirstOfTwo
  <2> QED
    BY <1>1, <2>1
<1>4. /\ OwedAt(k, now) = {PeriodOf(k.width, d) : d \in ExpectedAt(k.width, now, f, m)}
      /\ OwedAt(k, later) = {PeriodOf(k.width, d) : d \in ExpectedAt(k.width, later, f, n)}
  BY <1>1, <1>2, <1>3 DEF OwedAt
<1>5. ASSUME NEW p \in OwedAt(k, now)
      PROVE  /\ p \in OwedAt(k, later) /\ p \in Nat
             /\ \E s \in Sessions : s \in Nat /\ p = PeriodOf(k.width, s) /\ p <= s /\ 4 * s + 2 <= now
  <2>1. PICK s \in ExpectedAt(k.width, now, f, m) : p = PeriodOf(k.width, s)
    BY <1>4
  <2>2. s \in Nat /\ s \in Sessions /\ 4 * s + 2 <= now /\ s \in ExpectedAt(k.width, later, f, n)
    BY <1>3, <2>1, ExpectedGrows
  <2>3. p \in Nat /\ p <= s
    BY <2>1, <2>2, PeriodIs
  <2>4. p \in OwedAt(k, later)
    BY <1>4, <2>1, <2>2
  <2> QED
    BY <2>1, <2>2, <2>3, <2>4
<1> QED
  BY <1>5

DeadlineOf(w, x) == SessionOpen(NextSession(AfterPeriod(w, x) - 1))

LEMMA DeadlinesRise ==
  ASSUME NEW w, NEW x \in Nat, NEW y \in Nat, x <= y, y <= LastDay
  PROVE  DeadlineOf(w, x) \in Nat /\ DeadlineOf(w, x) <= DeadlineOf(w, y)
<1>1. LastDay \in Nat /\ WeekDays \in Nat \ {0}
  BY CalendarAssumption
<1>2. PICK a \in Nat, b \in Nat : a = AfterPeriod(w, x) /\ b = AfterPeriod(w, y) /\ a <= b /\ b <= y + WeekDays
  BY PeriodIs, PeriodsRise
<1>3. a - 1 \in Int /\ b - 1 \in Int /\ a - 1 <= b - 1 /\ b - 1 <= LastDay + WeekDays /\ a - 1 <= LastDay + WeekDays
  BY <1>1, <1>2
<1>4. PICK m \in Int, n \in Int : m = a - 1 /\ n = b - 1 /\ m <= n /\ n <= LastDay + WeekDays /\ m <= LastDay + WeekDays
  BY <1>3
<1>5. NextSession(m) \in Nat /\ NextSession(n) \in Nat /\ NextSession(m) <= NextSession(n)
  BY <1>4, NextSessionIs, NextSessionRises
<1>6. DeadlineOf(w, x) = 4 * NextSession(m) + 1 /\ DeadlineOf(w, y) = 4 * NextSession(n) + 1
  BY <1>2, <1>4 DEF DeadlineOf, SessionOpen
<1> QED
  BY <1>5, <1>6
\* A subscription behind its schedule stays behind, and a missed deadline stays missed.
LEMMA DailyWorsens ==
  ASSUME NEW k \in SubscriptionSet, NEW cov, cov \subseteq 0 .. LastDay, NEW now \in Nat, NEW later \in Nat,
         now <= later, later <= Midnight(LastDay), NEW prov \in BOOLEAN
  PROVE  /\ DailyAt(k, cov, now, prov) = "OVERDUE" /\ ~prov => DailyAt(k, cov, later, prov) = "OVERDUE"
         /\ DailyAt(k, cov, now, prov) = "LATE" => DailyAt(k, cov, later, prov) \in {"LATE", "OVERDUE"}
<1> DEFINE O == OwedAt(k, now)
           Q == OwedAt(k, later)
           w == k.width
           last == PeriodOf(w, Max(cov))
<1>1. LastDay \in Nat /\ WeekDays \in Nat \ {0} /\ Sessions \subseteq Nat
  BY CalendarAssumption
<1>2. /\ O \subseteq Q
      /\ \A p \in O : p \in Nat /\ \E s \in Sessions : s \in Nat /\ p = PeriodOf(w, s) /\ p <= s
      /\ \A p \in Q : p \in Nat /\ \E s \in Sessions : s \in Nat /\ p <= s /\ 4 * s + 2 <= later
  BY OwedGrows
<1>3. \A p \in Q : p \in Nat /\ p <= LastDay
  BY <1>1, <1>2 DEF Midnight
<1>4. O \in SUBSET Nat /\ Q \in SUBSET Nat /\ \A p \in O : p \in Nat /\ p <= LastDay
  BY <1>2, <1>3
<1>5. /\ DailyAt(k, cov, now, prov) =
           LET early    == cov # {} /\ last = Max(O) /\ prov
               stored   == cov # {} /\ last >= Max(O) /\ ~early
           IN  CASE O = {} -> "FRESH"
                 [] O # {} /\ stored -> "FRESH"
                 [] OTHER -> IF now < DeadlineOf(w, FirstMissedAt(k, cov, now, early)) THEN "LATE" ELSE "OVERDUE"
      /\ DailyAt(k, cov, later, prov) =
           LET early    == cov # {} /\ last = Max(Q) /\ prov
               stored   == cov # {} /\ last >= Max(Q) /\ ~early
           IN  CASE Q = {} -> "FRESH"
                 [] Q # {} /\ stored -> "FRESH"
                 [] OTHER -> IF later < DeadlineOf(w, FirstMissedAt(k, cov, later, early)) THEN "LATE" ELSE "OVERDUE"
  BY Zenon DEF DailyAt, DeadlineOf
<1>6. \A early : FirstMissedAt(k, cov, now, early) =
         IF early THEN Max(O) ELSE IF cov = {} THEN Min(O) ELSE Min({Max(O), PeriodOf(w, NextSession(AfterPeriod(w, Max(cov)) - 1))})
  BY Zenon DEF FirstMissedAt
<1>7. \A early : FirstMissedAt(k, cov, later, early) =
         IF early THEN Max(Q) ELSE IF cov = {} THEN Min(Q) ELSE Min({Max(Q), PeriodOf(w, NextSession(AfterPeriod(w, Max(cov)) - 1))})
  BY Zenon DEF FirstMissedAt
<1> HIDE DEF O, Q
<1>8. CASE O = {}
  BY <1>5, <1>8
<1>9. CASE O # {}
  <2>1. Q # {}
    BY <1>2, <1>9
  <2>2. PICK m \in Nat : m = Max(O) /\ m \in O /\ m <= LastDay
    BY <1>1, <1>4, <1>9, LastOf
  <2>3. PICK n \in Nat : n = Max(Q) /\ n \in Q /\ n <= LastDay /\ \A y \in Q : y <= n
    BY <1>1, <1>3, <1>4, <2>1, LastOf
  <2>4. m <= n
    BY <1>2, <2>2, <2>3
  <2>5. CASE cov = {}
    <3>1. Min(O) \in O /\ Min(Q) \in Q /\ \A y \in Q : Min(Q) <= y
      BY <1>4, <1>9, <2>1, FirstOf
    <3>2. PICK x \in Nat, y \in Nat : x = Min(O) /\ y = Min(Q) /\ y <= x /\ x <= LastDay
      BY <1>2, <1>4, <3>1
    <3>3. DeadlineOf(w, y) \in Nat /\ DeadlineOf(w, x) \in Nat /\ DeadlineOf(w, y) <= DeadlineOf(w, x)
      <4>1. y <= LastDay
        BY <1>1, <3>2
      <4> QED
        BY <3>2, <4>1, DeadlinesRise
    <3>4. /\ DailyAt(k, cov, now, prov) = IF now < DeadlineOf(w, x) THEN "LATE" ELSE "OVERDUE"
          /\ DailyAt(k, cov, later, prov) = IF later < DeadlineOf(w, y) THEN "LATE" ELSE "OVERDUE"
      BY <1>5, <1>6, <1>7, <1>9, <2>1, <2>5, <3>2
    <3> QED
      BY <3>3, <3>4
  <2>6. CASE cov # {}
    <3>1. PICK c \in Nat : c = Max(cov) /\ c <= LastDay
      <4>1. cov \in SUBSET Nat /\ \A x \in cov : x <= LastDay
        BY <1>1
      <4> QED
        BY <1>1, <2>6, <4>1, LastOf
    <3>2. PICK l \in Nat, a \in Nat : l = last /\ a = AfterPeriod(w, c) /\ a <= LastDay + WeekDays
      BY <1>1, <3>1, PeriodIs
    <3>3. ASSUME l < m
          PROVE  /\ DailyAt(k, cov, now, prov) = "OVERDUE" => DailyAt(k, cov, later, prov) = "OVERDUE"
                 /\ DailyAt(k, cov, later, prov) \in {"LATE", "OVERDUE"}
      <4>1. PICK s \in Sessions : s \in Nat /\ m = PeriodOf(w, s)
        BY <1>2, <2>2
      <4>2. l = PeriodOf(w, c) /\ m # l
        BY <3>1, <3>2, <3>3
      <4>3. AfterPeriod(w, c) <= PeriodOf(w, s) \/ AfterPeriod(w, s) <= PeriodOf(w, c)
        BY <4>1, <4>2, PeriodIs
      <4>4. s < AfterPeriod(w, s) /\ PeriodOf(w, s) <= s /\ AfterPeriod(w, s) \in Nat
        BY <4>1, PeriodIs
      <4>5. a <= m /\ m <= s
        BY <3>2, <3>3, <4>1, <4>2, <4>3, <4>4
      <4>6. PICK z \in Int : z = a - 1 /\ z <= LastDay + WeekDays /\ z < s
        BY <1>1, <3>2, <4>1, <4>5
      <4>7. NextSession(z) \in Nat /\ NextSession(z) <= s
        BY <4>1, <4>6, NextSessionIs
      <4>8. PICK p \in Nat : p = PeriodOf(w, NextSession(z)) /\ p <= m
        BY <4>1, <4>7, PeriodIs, PeriodsRise
      <4>9. Min({m, p}) = p /\ Min({n, p}) = p
        <5>1. PICK A, B : A = {m, p} /\ B = {n, p}
          OBVIOUS
        <5>2. Min(A) = (IF m <= p THEN m ELSE p) /\ Min(B) = (IF n <= p THEN n ELSE p)
          BY <5>1, FirstOfTwo
        <5>3. Min(A) = p /\ Min(B) = p
          BY <2>4, <4>8, <5>2
        <5> QED
          BY <5>1, <5>3
      <4>10. FirstMissedAt(k, cov, now, FALSE) = p /\ FirstMissedAt(k, cov, later, FALSE) = p
        <5>1. p = PeriodOf(w, NextSession(AfterPeriod(w, Max(cov)) - 1))
          BY <3>1, <3>2, <4>6, <4>8
        <5> HIDE DEF w
        <5> QED
          BY <1>6, <1>7, <2>2, <2>3, <2>6, <4>9, <5>1
      <4>11. /\ DailyAt(k, cov, now, prov) = IF now < DeadlineOf(w, FirstMissedAt(k, cov, now, FALSE)) THEN "LATE" ELSE "OVERDUE"
             /\ DailyAt(k, cov, later, prov) = IF later < DeadlineOf(w, FirstMissedAt(k, cov, later, FALSE)) THEN "LATE" ELSE "OVERDUE"
        <5>1. ~(last = Max(O)) /\ ~(last >= Max(O)) /\ ~(last = Max(Q)) /\ ~(last >= Max(Q))
          BY <2>2, <2>3, <2>4, <3>2, <3>3
        <5> HIDE DEF w, last
        <5> QED
          BY <1>5, <1>9, <2>1, <5>1
      <4>12. PICK e \in Nat : e = DeadlineOf(w, p)
        <5>1. p <= LastDay
          BY <1>1, <2>2, <4>8
        <5> QED
          BY <5>1, DeadlinesRise
      <4> HIDE DEF w, last
      <4>13. DailyAt(k, cov, now, prov) = "OVERDUE" => DailyAt(k, cov, later, prov) = "OVERDUE"
        <5>1. /\ DailyAt(k, cov, now, prov) = IF now < e THEN "LATE" ELSE "OVERDUE"
              /\ DailyAt(k, cov, later, prov) = IF later < e THEN "LATE" ELSE "OVERDUE"
          BY <4>10, <4>11, <4>12
        <5> QED
          BY <5>1
      <4>14. DailyAt(k, cov, later, prov) \in {"LATE", "OVERDUE"}
        BY <4>11
      <4> QED
        BY <4>13, <4>14
    <3>4. ASSUME ~(l < m), DailyAt(k, cov, now, prov) # "FRESH"
          PROVE  prov /\ DailyAt(k, cov, later, prov) \in {"LATE", "OVERDUE"}
      <4> HIDE DEF w, last
      <4>1. last = Max(O) /\ prov
        <5>1. last >= Max(O)
          BY <2>2, <3>2, <3>4
        <5> QED
          BY <1>5, <1>9, <2>6, <3>4, <5>1
      <4>2. last <= Max(Q) /\ last \in Nat /\ Max(Q) \in Nat
        BY <2>2, <2>3, <2>4, <3>2, <4>1
      <4>3. ~(last >= Max(Q) /\ ~(cov # {} /\ last = Max(Q) /\ prov))
        BY <2>6, <4>1, <4>2
      <4> QED
        BY <1>5, <2>1, <4>1, <4>3
    <3> QED
      BY <3>3, <3>4
  <2> QED
    BY <2>5, <2>6
<1> QED
  BY <1>8, <1>9
HealthInv ==
    /\ kept \in SubscriptionSet
    /\ clock \in Nat /\ clock <= Midnight(LastDay)
    /\ covered \subseteq 0 .. LastDay

LEMMA InitHealth ==
  ASSUME HealthInit
  PROVE  HealthInv
<1>1. kept \in Subscriptions /\ covered = {} /\ clock = 0
  BY DEF HealthInit
<1>2. kept \in SubscriptionSet /\ LastDay \in Nat
  BY <1>1, CalendarAssumption DEF SubscriptionSet
<1> QED
  BY <1>1, <1>2 DEF HealthInv, Midnight

\* No bar is stamped with a day that has not come.
LEMMA StampsAreDays ==
  ASSUME HealthInv
  PROVE  Stamps \subseteq 0 .. LastDay
<1>1. SUFFICES ASSUME NEW p \in Stamps
               PROVE  p \in 0 .. LastDay
  OBVIOUS
<1>2. LastDay \in Nat /\ Sessions \subseteq Nat
  BY CalendarAssumption
<1>3. \A d : PeriodStart(d) = PeriodOf(kept.width, d)
  BY DEF PeriodStart, PeriodOf
<1>4. PICK s \in Sessions : p = PeriodOf(kept.width, s) /\ SessionOpen(s) <= clock
  BY <1>3 DEF Stamps, Periods
<1>5. s \in Nat /\ 4 * s + 1 <= clock /\ clock \in Nat /\ clock <= 4 * LastDay
  BY <1>2, <1>4 DEF SessionOpen, HealthInv, Midnight
<1>6. p \in Nat /\ p <= s
  BY <1>4, <1>5, PeriodIs
<1> QED
  BY <1>2, <1>5, <1>6

LEMMA StepHealth ==
  ASSUME HealthInv, [Next]_vars
  PROVE  HealthInv'
<1>1. CASE TimePasses
  <2>1. clock < Midnight(LastDay) /\ clock' = clock + 1 /\ kept' = kept /\ covered' = covered
    BY <1>1 DEF TimePasses
  <2>2. LastDay \in Nat
    BY CalendarAssumption
  <2> QED
    BY <2>1, <2>2 DEF HealthInv, Midnight
<1>2. CASE StoreBars
  <2>1. PICK days \in SUBSET Stamps : covered' = covered \cup days /\ kept' = kept /\ clock' = clock
    BY <1>2 DEF StoreBars
  <2>2. days \subseteq 0 .. LastDay
    BY StampsAreDays
  <2> QED
    BY <2>1, <2>2 DEF HealthInv
<1>3. CASE SwitchCollecting
  <2>1. kept' = [kept EXCEPT !.collect = ~@] /\ covered' = covered /\ clock' = clock
    BY <1>3 DEF SwitchCollecting
  <2>2. kept' \in SubscriptionSet
    BY <2>1 DEF SubscriptionSet, HealthInv
  <2> QED
    BY <2>1, <2>2 DEF HealthInv
<1>4. CASE UNCHANGED healthVars
  BY <1>4 DEF healthVars, HealthInv
<1> QED
  BY <1>1, <1>2, <1>3, <1>4
  DEF Next, vars, Detail, Viewer, Grid, Coverage, Usage, Sidebar, Refresh, Failure, HealthNext

LEMMA ProvisionalIs == Provisional \in BOOLEAN
BY DEF Provisional

\* What a status says of the dataset, and when it is the daily one.
LEMMA StatusSays ==
  /\ Status = "OVERDUE" /\ kept.update = "DAILY" => kept.collect /\ ~Uncovered(kept.start) /\ DailyStatus = "OVERDUE"
  /\ Status = "LATE" => kept.update = "DAILY" /\ kept.collect /\ ~Uncovered(kept.start) /\ DailyStatus = "LATE"
  /\ Status = "GAPS" => /\ ~(kept.update # "STATIC" /\ ~kept.collect) /\ ~(kept.update = "STREAM" /\ kept.collect)
                        /\ ~Uncovered(kept.start) /\ kept.update # "DAILY" /\ MissingSessions # {}
<1>1. DailyStatus \in {"FRESH", "LATE", "OVERDUE"}
  <2>1. \A n \in BOOLEAN, a, b \in BOOLEAN :
           (CASE a -> "FRESH" [] ~a /\ b -> "FRESH" [] OTHER -> IF n THEN "LATE" ELSE "OVERDUE") \in {"FRESH", "LATE", "OVERDUE"}
    OBVIOUS
  <2> QED
    BY DEF DailyStatus
<1>2. StreamStatus \in {"FRESH", "OVERDUE"}
  BY DEF StreamStatus
<1> HIDE DEF DailyStatus, StreamStatus
<1> QED
  BY <1>1, <1>2 DEF Status

LEMMA DailyIsStatus ==
  ASSUME kept'.update = "DAILY", kept'.collect, ~Uncovered(kept'.start)
  PROVE  Status' = DailyStatus'
BY DEF Status

LEMMA GapsAreStatus ==
  ASSUME ~(kept'.update # "STATIC" /\ ~kept'.collect), ~(kept'.update = "STREAM" /\ kept'.collect),
         ~Uncovered(kept'.start), kept'.update # "DAILY", MissingSessions' # {}
  PROVE  Status' = "GAPS"
BY DEF Status

LEMMA StepWorsens ==
  ASSUME HealthInv, [Next]_vars, clock' # clock
  PROVE  /\ Status = "OVERDUE" /\ kept.update = "DAILY" /\ ~Provisional => Status' = "OVERDUE"
         /\ Status = "LATE" => Status' \in {"LATE", "OVERDUE"}
         /\ Status = "GAPS" => Status' = "GAPS" /\ MissingSessions \subseteq MissingSessions'
<1>1. TimePasses
  <2>1. CASE UNCHANGED healthVars
    BY <2>1 DEF healthVars
  <2>2. CASE HealthNext
    BY <2>2 DEF HealthNext, StoreBars, SwitchCollecting
  <2> QED
    BY <2>1, <2>2 DEF Next, vars, Detail, Viewer, Grid, Coverage, Usage, Sidebar, Refresh, Failure
<1>2. kept' = kept /\ covered' = covered /\ wrote' = wrote /\ clock' = clock + 1 /\ clock < Midnight(LastDay)
  BY <1>1 DEF TimePasses
<1>3. Provisional' = Provisional
  BY <1>2 DEF Provisional, PeriodStart, NextPeriod
<1>4. PICK now \in Nat, later \in Nat : now = clock /\ later = clock' /\ now <= later /\ later <= Midnight(LastDay)
  <2>1. clock \in Nat /\ LastDay \in Nat
    BY CalendarAssumption DEF HealthInv
  <2> QED
    BY <1>2, <2>1 DEF Midnight
<1>5. PICK k \in SubscriptionSet, cov \in SUBSET (0 .. LastDay), prov \in BOOLEAN : k = kept /\ cov = covered /\ prov = Provisional
  BY ProvisionalIs DEF HealthInv
<1>6. /\ DailyAt(k, cov, now, prov) = "OVERDUE" /\ ~prov => DailyAt(k, cov, later, prov) = "OVERDUE"
      /\ DailyAt(k, cov, now, prov) = "LATE" => DailyAt(k, cov, later, prov) \in {"LATE", "OVERDUE"}
  BY <1>4, DailyWorsens
<1>7. DailyStatus = DailyAt(k, cov, now, prov)
  BY <1>4, <1>5, DailyHere, Zenon
<1>8. DailyStatus' = DailyAt(k, cov, later, prov)
  BY <1>2, <1>3, <1>4, <1>5, DailyThere, Zenon
<1>9. MissingSessions \subseteq MissingSessions'
  <2>1. MissingAt(k, cov, now) \subseteq MissingAt(k, cov, later)
    BY <1>4, MissingGrows
  <2>2. MissingSessions = MissingAt(k, cov, now)
    BY <1>4, <1>5, MissingHere, Zenon
  <2>3. MissingSessions' = MissingAt(k, cov, later)
    BY <1>2, <1>4, <1>5, MissingThere, Zenon
  <2> QED
    BY <2>1, <2>2, <2>3
<1>10. ASSUME Status = "OVERDUE", kept.update = "DAILY", ~Provisional
       PROVE  Status' = "OVERDUE"
  <2>1. kept.collect /\ ~Uncovered(kept.start) /\ DailyStatus = "OVERDUE"
    BY <1>10, StatusSays, Zenon
  <2>2. Status' = DailyStatus'
    BY <1>2, <1>10, <2>1, DailyIsStatus, Zenon
  <2> QED
    BY <1>5, <1>6, <1>7, <1>8, <1>10, <2>1, <2>2
<1>11. ASSUME Status = "LATE"
       PROVE  Status' \in {"LATE", "OVERDUE"}
  <2>1. kept.update = "DAILY" /\ kept.collect /\ ~Uncovered(kept.start) /\ DailyStatus = "LATE"
    BY <1>11, StatusSays, Zenon
  <2>2. Status' = DailyStatus'
    BY <1>2, <2>1, DailyIsStatus, Zenon
  <2> QED
    BY <1>6, <1>7, <1>8, <2>1, <2>2
<1>12. ASSUME Status = "GAPS"
       PROVE  Status' = "GAPS"
  <2>1. /\ ~(kept.update # "STATIC" /\ ~kept.collect) /\ ~(kept.update = "STREAM" /\ kept.collect)
        /\ ~Uncovered(kept.start) /\ kept.update # "DAILY" /\ MissingSessions # {}
    BY <1>12, StatusSays, Zenon
  <2>2. MissingSessions' # {}
    BY <1>9, <2>1
  <2>3. ~(kept'.update # "STATIC" /\ ~kept'.collect) /\ ~(kept'.update = "STREAM" /\ kept'.collect)
    BY <1>2, <2>1, Zenon
  <2>4. ~Uncovered(kept'.start) /\ kept'.update # "DAILY"
    BY <1>2, <2>1, Zenon
  <2> QED
    BY <2>2, <2>3, <2>4, GapsAreStatus, Zenon
<1> QED
  BY <1>9, <1>10, <1>11, <1>12

\* Time alone never makes a missed deadline met or merely late again, nor closes a gap, whatever the
\* calendar and the subscription are (health.py, completeness.py): the deadline that counts is that of the
\* first period not stored, and what is owed only grows.
THEOREM TimeOnlyWorsensAlways == Spec => TimeOnlyWorsens
<1>1. Init => HealthInv
  BY InitHealth DEF Init
<1>2. HealthInv /\ [Next]_vars =>
        [ clock' # clock =>
          /\ Status = "OVERDUE" /\ kept.update = "DAILY" /\ ~Provisional => Status' = "OVERDUE"
          /\ Status = "LATE" => Status' \in {"LATE", "OVERDUE"}
          /\ Status = "GAPS" => Status' = "GAPS" /\ MissingSessions \subseteq MissingSessions' ]_healthVars
  BY StepWorsens
<1> QED
  BY <1>1, <1>2, StepHealth, PTL DEF Spec, TimeOnlyWorsens

---------------------------------------------------------------------------
(* Sums over finite sets. *)

\* A sum as its recursion has it, one member at a time.
AddsUp(h, w, K) == h = [s \in SUBSET K |-> IF s = {} THEN 0
                                           ELSE w[CHOOSE x \in s : TRUE] + h[s \ {CHOOSE x \in s : TRUE}]]

\* There is but one.
LEMMA OneSum ==
  ASSUME NEW K, IsFiniteSet(K), NEW w, NEW f, NEW h, AddsUp(f, w, K), AddsUp(h, w, K)
  PROVE  f[K] = h[K]
<1> DEFINE B == {n \in Nat : \E s \in SUBSET K : Cardinality(s) = n /\ f[s] # h[s]}
<1>1. SUFFICES ASSUME f[K] # h[K] PROVE FALSE
  OBVIOUS
<1>2. Cardinality(K) \in B
  BY <1>1, FS_CardinalityType
<1>3. PICK n \in B : \A m \in B : n <= m
  <2>1. B \in SUBSET Nat
    OBVIOUS
  <2> HIDE DEF B
  <2> QED
    BY <1>2, <2>1, LeastOf
<1>4. PICK s \in SUBSET K : Cardinality(s) = n /\ f[s] # h[s]
  OBVIOUS
<1>5. \A t \in SUBSET K :
         /\ f[t] = IF t = {} THEN 0 ELSE w[CHOOSE x \in t : TRUE] + f[t \ {CHOOSE x \in t : TRUE}]
         /\ h[t] = IF t = {} THEN 0 ELSE w[CHOOSE x \in t : TRUE] + h[t \ {CHOOSE x \in t : TRUE}]
  BY DEF AddsUp
<1>6. s # {}
  BY <1>4, <1>5
<1>7. PICK x : x = CHOOSE y \in s : TRUE
  OBVIOUS
<1>8. x \in s
  BY <1>6, <1>7, Zenon
<1>9. f[s] = w[x] + f[s \ {x}] /\ h[s] = w[x] + h[s \ {x}]
  BY <1>5, <1>6, <1>7, Zenon
<1>10. f[s \ {x}] # h[s \ {x}]
  BY <1>4, <1>9, Zenon
<1>11. IsFiniteSet(s) /\ Cardinality(s) \in Nat
  BY <1>4, FS_Subset, FS_CardinalityType
<1>12. Cardinality(s \ {x}) = n - 1 /\ Cardinality(s \ {x}) \in Nat
  BY <1>4, <1>8, <1>11, FS_RemoveElement, FS_CardinalityType
<1>13. n - 1 \in B
  <2>1. s \ {x} \in SUBSET K
    OBVIOUS
  <2>2. PICK t \in SUBSET K : t = s \ {x}
    BY <2>1
  <2> QED
    BY <1>10, <1>12, <2>2
<1> QED
  BY <1>3, <1>13

LEMMA SumReads ==
  ASSUME NEW daily, NEW K, NEW w, w = [k \in K |-> daily[k].reads], NEW f, AddsUp(f, w, K), IsFiniteSet(K)
  PROVE  MapThenSumSet(LAMBDA k : daily[k].reads, K) = f[K]
<1> DEFINE P(it) == it = [s \in SUBSET K |-> IF s = {} THEN 0
                             ELSE daily[CHOOSE x \in s : TRUE].reads + it[s \ {CHOOSE x \in s : TRUE}]]
<1>1. PICK h : h = CHOOSE it : P(it)
  OBVIOUS
<1>2. MapThenSumSet(LAMBDA k : daily[k].reads, K) = h[K]
  BY <1>1, Zenon DEF MapThenSumSet, MapThenFoldSet
<1>3. \A it : P(it) <=> AddsUp(it, w, K)
  <2>1. \A it : \A s \in SUBSET K :
          (IF s = {} THEN 0 ELSE daily[CHOOSE x \in s : TRUE].reads + it[s \ {CHOOSE x \in s : TRUE}])
            = (IF s = {} THEN 0 ELSE w[CHOOSE x \in s : TRUE] + it[s \ {CHOOSE x \in s : TRUE}])
    <3>1. ASSUME NEW s \in SUBSET K, s # {}
          PROVE  w[CHOOSE x \in s : TRUE] = daily[CHOOSE x \in s : TRUE].reads
      <4>1. PICK x : x = CHOOSE y \in s : TRUE
        OBVIOUS
      <4>2. x \in K
        BY <3>1, <4>1, Zenon
      <4> QED
        BY <4>1, <4>2
    <3>2. SUFFICES ASSUME NEW it, NEW s \in SUBSET K
                   PROVE  (IF s = {} THEN 0 ELSE daily[CHOOSE x \in s : TRUE].reads + it[s \ {CHOOSE x \in s : TRUE}])
                            = (IF s = {} THEN 0 ELSE w[CHOOSE x \in s : TRUE] + it[s \ {CHOOSE x \in s : TRUE}])
      BY Zenon
    <3>3. CASE s = {}
      BY <3>3, Zenon
    <3>4. CASE s # {}
      <4>1. PICK x : x = CHOOSE y \in s : TRUE
        OBVIOUS
      <4>2. w[x] = daily[x].reads
        BY <3>1, <3>4, <4>1, Zenon
      <4> QED
        BY <3>4, <4>1, <4>2
    <3> QED
      BY <3>3, <3>4
  <2>2. SUFFICES ASSUME NEW it PROVE P(it) <=> AddsUp(it, w, K)
    OBVIOUS
  <2>3. [s \in SUBSET K |-> IF s = {} THEN 0
                             ELSE daily[CHOOSE x \in s : TRUE].reads + it[s \ {CHOOSE x \in s : TRUE}]]
        = [s \in SUBSET K |-> IF s = {} THEN 0 ELSE w[CHOOSE x \in s : TRUE] + it[s \ {CHOOSE x \in s : TRUE}]]
    BY <2>1, Zenon
  <2> QED
    BY <2>3, Zenon DEF AddsUp
<1> HIDE DEF P
<1>4. P(f)
  BY <1>3
<1>5. P(h)
  BY <1>1, <1>4, Zenon
<1>6. AddsUp(h, w, K)
  BY <1>3, <1>5
<1> QED
  BY <1>2, <1>6, OneSum

CountsBy(w, K, T, g) == \A k \in K : w[k] = Cardinality({r \in T : g[r] = k})

\* Counting by a key adds up to counting all.
LEMMA CountsAddUp ==
  ASSUME NEW K, IsFiniteSet(K), NEW T, IsFiniteSet(T), NEW g, NEW w,
         CountsBy(w, K, T, g)
  PROVE  \E f : AddsUp(f, w, K) /\ f[K] = Cardinality({r \in T : g[r] \in K})
<1>1. PICK f : f = [s \in SUBSET K |-> Cardinality({r \in T : g[r] \in s})]
  OBVIOUS
<1>2. ASSUME NEW s \in SUBSET K, s # {}, NEW x \in s
      PROVE  f[s] = w[x] + f[s \ {x}]
  <2>1. PICK A, B : A = {r \in T : g[r] = x} /\ B = {r \in T : g[r] \in s \ {x}}
    OBVIOUS
  <2>2. A \in SUBSET T /\ B \in SUBSET T /\ A \cup B = {r \in T : g[r] \in s} /\ A \cap B = {}
    BY <1>2, <2>1
  <2>3. IsFiniteSet(A) /\ IsFiniteSet(B) /\ Cardinality(A) \in Nat /\ Cardinality(B) \in Nat
    BY <2>2, FS_Subset, FS_CardinalityType
  <2>4. Cardinality(A \cup B) = Cardinality(A) + Cardinality(B) - Cardinality(A \cap B)
    BY <2>3, FS_Union
  <2>5. Cardinality(A \cap B) = 0
    BY <2>2, FS_EmptySet
  <2>6. Cardinality(A \cup B) = Cardinality(A) + Cardinality(B)
    BY <2>3, <2>4, <2>5
  <2>7. s \ {x} \in SUBSET K
    OBVIOUS
  <2>8. f[s] = Cardinality(A \cup B)
    BY <1>1, <2>2
  <2>9. f[s \ {x}] = Cardinality(B)
    BY <1>1, <2>1, <2>7
  <2>10. w[x] = Cardinality(A)
    BY <2>1 DEF CountsBy
  <2> QED
    BY <2>6, <2>8, <2>9, <2>10
<1>3. f[{}] = 0
  <2>1. {r \in T : g[r] \in {}} = {}
    OBVIOUS
  <2>2. {} \in SUBSET K
    OBVIOUS
  <2>3. f[{}] = Cardinality({})
    BY <1>1, <2>1, <2>2, Zenon
  <2> QED
    BY <2>3, FS_EmptySet
<1>4. AddsUp(f, w, K)
  <2>1. ASSUME NEW s \in SUBSET K
        PROVE  f[s] = IF s = {} THEN 0 ELSE w[CHOOSE x \in s : TRUE] + f[s \ {CHOOSE x \in s : TRUE}]
    <3>1. CASE s = {}
      BY <1>3, <3>1, Zenon
    <3>2. CASE s # {}
      <4>1. PICK x : x = CHOOSE y \in s : TRUE
        OBVIOUS
      <4>2. x \in s
        BY <3>2, <4>1, Zenon
      <4>3. f[s] = w[x] + f[s \ {x}]
        BY <1>2, <3>2, <4>2
      <4> QED
        BY <3>2, <4>1, <4>3, Zenon
    <3> QED
      BY <3>1, <3>2
  <2>2. f = [s \in SUBSET K |-> f[s]]
    BY <1>1
  <2>3. [s \in SUBSET K |-> f[s]] = [s \in SUBSET K |-> IF s = {} THEN 0
                                           ELSE w[CHOOSE x \in s : TRUE] + f[s \ {CHOOSE x \in s : TRUE}]]
    BY <2>1, Zenon
  <2> QED
    BY <2>2, <2>3, Zenon DEF AddsUp
<1> QED
  BY <1>1, <1>4

---------------------------------------------------------------------------
(* What has been folded away is still counted. *)

FoldedAway == made \ rawReads

UsageInv ==
    /\ utc \in Nat
    /\ made \subseteq [d : Series, c : Clients, kind : {"READ", "STREAM_SESSION"}, at : 0 .. utc]
    /\ IsFiniteSet(made) /\ rawReads \subseteq made
    /\ DOMAIN dailyReads = {DayKey(r) : r \in FoldedAway}
    /\ \A k \in DOMAIN dailyReads : dailyReads[k] = Summary(FoldedAway, k)

OfDay(reads, k) == {r \in reads : DayKey(r) = k}

\* The reads a table holds, and the instants they are at.
Reads(S) == IsFiniteSet(S) /\ \A r \in S : r.at \in 0 .. utc

LEMMA InstantsOf ==
  ASSUME utc \in Nat, NEW S, Reads(S), S # {}
  PROVE  /\ {r.at : r \in S} \in SUBSET Nat /\ {r.at : r \in S} # {}
         /\ Max({r.at : r \in S}) \in {r.at : r \in S} /\ Max({r.at : r \in S}) \in Nat
         /\ \A x \in S : x.at <= Max({r.at : r \in S})
<1> DEFINE A == {r.at : r \in S}
<1>2. A \in SUBSET Nat /\ A # {} /\ \A x \in A : x <= utc
  BY DEF Reads
<1>4. \A r \in S : r.at \in A
  OBVIOUS
<1> HIDE DEF A
<1>3. Max(A) \in A /\ \A y \in A : y <= Max(A)
  BY <1>2, LastOf
<1>5. Max(A) \in Nat /\ \A r \in S : r.at <= Max(A)
  BY <1>2, <1>3, <1>4
<1> QED
  BY <1>2, <1>3, <1>5, Zenon DEF A

LEMMA SummaryIs ==
  ASSUME NEW S, NEW k
  PROVE  Summary(S, k) = [reads    |-> Cardinality(Proper(OfDay(S, k))),
                          sessions |-> Cardinality(OfDay(S, k) \ Proper(OfDay(S, k))),
                          last     |-> Max({r.at : r \in OfDay(S, k)})]
BY Zenon DEF Summary, OfDay

\* Counting two sets that have nothing in common.
LEMMA TwoParts ==
  ASSUME NEW A, NEW B, IsFiniteSet(A), IsFiniteSet(B), A \cap B = {}
  PROVE  IsFiniteSet(A \cup B) /\ Cardinality(A \cup B) = Cardinality(A) + Cardinality(B)
<1>1. Cardinality(A) \in Nat /\ Cardinality(B) \in Nat /\ Cardinality({}) = 0
  BY FS_CardinalityType, FS_EmptySet
<1>2. IsFiniteSet(A \cup B) /\ Cardinality(A \cup B) = Cardinality(A) + Cardinality(B) - Cardinality(A \cap B)
  BY FS_Union
<1>3. Cardinality(A \cap B) = 0
  BY <1>1, Zenon
<1> QED
  BY <1>1, <1>2, <1>3

LEMMA OfDayOfTwo ==
  ASSUME NEW A, NEW B, NEW k
  PROVE  /\ OfDay(A \cup B, k) = OfDay(A, k) \cup OfDay(B, k)
         /\ OfDay(A, k) \subseteq A /\ OfDay(B, k) \subseteq B
         /\ Proper(OfDay(A, k) \cup OfDay(B, k)) = Proper(OfDay(A, k)) \cup Proper(OfDay(B, k))
         /\ Proper(OfDay(A, k)) \subseteq OfDay(A, k) /\ Proper(OfDay(B, k)) \subseteq OfDay(B, k)
BY DEF OfDay, Proper

\* A day's row added to another is the row of both.
LEMMA PlusIs ==
  ASSUME utc \in Nat, NEW A, NEW B, NEW k, Reads(A), Reads(B), A \cap B = {}, OfDay(A, k) # {}, OfDay(B, k) # {}
  PROVE  Plus(Summary(A, k), Summary(B, k)) = Summary(A \cup B, k)
<1>1. PICK a, b : a = OfDay(A, k) /\ b = OfDay(B, k)
  OBVIOUS
<1>2. /\ OfDay(A \cup B, k) = a \cup b /\ a \subseteq A /\ b \subseteq B
      /\ Proper(a \cup b) = Proper(a) \cup Proper(b) /\ Proper(a) \subseteq a /\ Proper(b) \subseteq b
  <2>1. /\ OfDay(A \cup B, k) = OfDay(A, k) \cup OfDay(B, k)
        /\ OfDay(A, k) \subseteq A /\ OfDay(B, k) \subseteq B
        /\ Proper(OfDay(A, k) \cup OfDay(B, k)) = Proper(OfDay(A, k)) \cup Proper(OfDay(B, k))
        /\ Proper(OfDay(A, k)) \subseteq OfDay(A, k) /\ Proper(OfDay(B, k)) \subseteq OfDay(B, k)
    BY OfDayOfTwo
  <2> QED
    BY <1>1, <2>1
<1>3. IsFiniteSet(a) /\ IsFiniteSet(b) /\ a \cap b = {} /\ Reads(a) /\ Reads(b) /\ a # {} /\ b # {}
  <2>1. a \in SUBSET A /\ b \in SUBSET B /\ IsFiniteSet(A) /\ IsFiniteSet(B)
    BY <1>2 DEF Reads
  <2>2. IsFiniteSet(a) /\ IsFiniteSet(b)
    BY <2>1, FS_Subset
  <2> QED
    BY <1>1, <1>2, <2>1, <2>2 DEF Reads
<1>4. /\ IsFiniteSet(Proper(a)) /\ IsFiniteSet(Proper(b))
      /\ IsFiniteSet(a \ Proper(a)) /\ IsFiniteSet(b \ Proper(b))
  <2>1. /\ Proper(a) \in SUBSET a /\ Proper(b) \in SUBSET b
        /\ a \ Proper(a) \in SUBSET a /\ b \ Proper(b) \in SUBSET b
    BY <1>2
  <2> QED
    BY <1>3, <2>1, FS_Subset
<1>5. Cardinality(Proper(a \cup b)) = Cardinality(Proper(a)) + Cardinality(Proper(b))
  <2>1. Proper(a) \cap Proper(b) = {}
    BY <1>2, <1>3
  <2> QED
    BY <1>2, <1>4, <2>1, TwoParts
<1>6. Cardinality((a \cup b) \ Proper(a \cup b)) = Cardinality(a \ Proper(a)) + Cardinality(b \ Proper(b))
  <2>1. (a \ Proper(a)) \cap (b \ Proper(b)) = {}
    BY <1>3
  <2>2. (a \cup b) \ Proper(a \cup b) = (a \ Proper(a)) \cup (b \ Proper(b))
    BY <1>2, <1>3
  <2> QED
    BY <1>4, <2>1, <2>2, TwoParts
<1>7. Max({r.at : r \in a \cup b}) = Max({Max({r.at : r \in a}), Max({r.at : r \in b})})
  <2>1. PICK m \in Nat, n \in Nat : m = Max({r.at : r \in a}) /\ n = Max({r.at : r \in b})
    BY <1>3, InstantsOf
  <2>2. PICK T : T = {m, n}
    OBVIOUS
  <2>3. Max(T) = IF m <= n THEN n ELSE m
    BY <2>2, LastOfTwo
  <2>4. PICK U : U = {r.at : r \in a \cup b}
    OBVIOUS
  <2>5. m \in {r.at : r \in a} /\ n \in {r.at : r \in b}
    BY <1>3, <2>1, InstantsOf
  <2>6. (\A r \in a : r.at <= m) /\ (\A r \in b : r.at <= n)
    BY <1>3, <2>1, InstantsOf
  <2>7. m \in U /\ n \in U
    BY <2>4, <2>5
  <2>8. \A x \in U : x \in Nat /\ (x <= m \/ x <= n)
    BY <1>3, <2>4, <2>6 DEF Reads
  <2>9. PICK p \in Nat : p = IF m <= n THEN n ELSE m
    OBVIOUS
  <2>10. p \in U /\ \A x \in U : x \in Int /\ x <= p
    BY <2>7, <2>8, <2>9
  <2>11. Max(U) = p
    BY <2>10, MaxIs
  <2> QED
    BY <2>1, <2>2, <2>3, <2>4, <2>9, <2>11
<1>8. /\ Summary(A, k) = [reads |-> Cardinality(Proper(a)), sessions |-> Cardinality(a \ Proper(a)), last |-> Max({r.at : r \in a})]
      /\ Summary(B, k) = [reads |-> Cardinality(Proper(b)), sessions |-> Cardinality(b \ Proper(b)), last |-> Max({r.at : r \in b})]
      /\ Summary(A \cup B, k) = [reads |-> Cardinality(Proper(a \cup b)), sessions |-> Cardinality((a \cup b) \ Proper(a \cup b)),
                                last |-> Max({r.at : r \in a \cup b})]
  BY <1>1, <1>2, SummaryIs, Zenon
<1>9. PICK n1, n2, n3, n4, l1, l2 :
        /\ n1 = Cardinality(Proper(a)) /\ n2 = Cardinality(a \ Proper(a)) /\ l1 = Max({r.at : r \in a})
        /\ n3 = Cardinality(Proper(b)) /\ n4 = Cardinality(b \ Proper(b)) /\ l2 = Max({r.at : r \in b})
  OBVIOUS
<1>10. /\ Summary(A, k) = [reads |-> n1, sessions |-> n2, last |-> l1]
       /\ Summary(B, k) = [reads |-> n3, sessions |-> n4, last |-> l2]
       /\ Summary(A \cup B, k) = [reads |-> n1 + n3, sessions |-> n2 + n4, last |-> Max({l1, l2})]
  BY <1>5, <1>6, <1>7, <1>8, <1>9, Zenon
<1>11. PICK x, y : x = [reads |-> n1, sessions |-> n2, last |-> l1] /\ y = [reads |-> n3, sessions |-> n4, last |-> l2]
  OBVIOUS
<1>12. /\ x.reads = n1 /\ x.sessions = n2 /\ x.last = l1
       /\ y.reads = n3 /\ y.sessions = n4 /\ y.last = l2
  BY <1>11
<1>13. Plus(x, y) = [reads |-> n1 + n3, sessions |-> n2 + n4, last |-> Max({l1, l2})]
  BY <1>12, Zenon DEF Plus
<1> QED
  BY <1>10, <1>11, <1>13, Zenon

LEMMA NoneOfDay ==
  ASSUME NEW A, NEW B, NEW k, OfDay(B, k) = {}
  PROVE  Summary(A \cup B, k) = Summary(A, k) /\ Summary(B \cup A, k) = Summary(A, k)
<1>1. OfDay(A \cup B, k) = OfDay(A, k) /\ OfDay(B \cup A, k) = OfDay(A, k)
  BY DEF OfDay
<1> QED
  BY <1>1, SummaryIs, Zenon

---------------------------------------------------------------------------
(* The days' rows are the summaries of what has been folded. *)

LEMMA UsageReads ==
  ASSUME UsageInv, NEW S \in SUBSET made
  PROVE  Reads(S) /\ IsFiniteSet(S)
<1>1. IsFiniteSet(S)
  BY FS_Subset DEF UsageInv
<1>2. \A r \in made : r.at \in 0 .. utc
  BY DEF UsageInv
<1> QED
  BY <1>1, <1>2 DEF Reads

\* A key has reads of its day iff it is the key of one.
LEMMA KeyOfDay ==
  ASSUME NEW S, NEW k
  PROVE  k \in {DayKey(r) : r \in S} <=> OfDay(S, k) # {}
BY DEF OfDay

\* The upsert leaves the summaries of both.
LEMMA FoldedIs ==
  ASSUME UsageInv, NEW moved \in SUBSET rawReads
  PROVE  /\ DOMAIN Folded(moved) = {DayKey(r) : r \in FoldedAway \cup moved}
         /\ \A k \in DOMAIN Folded(moved) : Folded(moved)[k] = Summary(FoldedAway \cup moved, k)
<1>1. PICK D : D = DOMAIN dailyReads \cup {DayKey(r) : r \in moved}
  OBVIOUS
<1>2. D = {DayKey(r) : r \in FoldedAway \cup moved}
  BY <1>1 DEF UsageInv
<1>3. DOMAIN Folded(moved) = D
  BY <1>1, Zenon DEF Folded
<1>4. ASSUME NEW k \in D
      PROVE  Folded(moved)[k] = CASE k \notin DOMAIN dailyReads -> Summary(moved, k)
                                  [] k \notin {DayKey(r) : r \in moved} -> dailyReads[k]
                                  [] OTHER -> Plus(dailyReads[k], Summary(moved, k))
  BY <1>1, Zenon DEF Folded
<1>5. Reads(FoldedAway) /\ Reads(moved) /\ FoldedAway \cap moved = {} /\ utc \in Nat
  <2>1. FoldedAway \in SUBSET made /\ moved \in SUBSET made /\ FoldedAway \cap moved = {}
    BY DEF UsageInv, FoldedAway
  <2> QED
    BY <2>1, UsageReads DEF UsageInv
<1>6. ASSUME NEW k \in D
      PROVE  Folded(moved)[k] = Summary(FoldedAway \cup moved, k)
  <2>1. /\ k \in DOMAIN dailyReads <=> OfDay(FoldedAway, k) # {}
        /\ k \in {DayKey(r) : r \in moved} <=> OfDay(moved, k) # {}
    BY KeyOfDay DEF UsageInv
  <2>2. CASE k \notin DOMAIN dailyReads
    <3>1. Folded(moved)[k] = Summary(moved, k)
      BY <1>1, <1>4, <2>2
    <3>2. OfDay(FoldedAway, k) = {}
      BY <2>1, <2>2
    <3> QED
      BY <3>1, <3>2, NoneOfDay
  <2>3. CASE k \in DOMAIN dailyReads /\ k \notin {DayKey(r) : r \in moved}
    <3>1. Folded(moved)[k] = dailyReads[k]
      BY <1>4, <2>3
    <3>2. OfDay(moved, k) = {} /\ dailyReads[k] = Summary(FoldedAway, k)
      BY <2>1, <2>3 DEF UsageInv
    <3> QED
      BY <3>1, <3>2, NoneOfDay
  <2>4. CASE k \in DOMAIN dailyReads /\ k \in {DayKey(r) : r \in moved}
    <3>1. Folded(moved)[k] = Plus(dailyReads[k], Summary(moved, k))
      BY <1>4, <2>4
    <3>2. OfDay(FoldedAway, k) # {} /\ OfDay(moved, k) # {} /\ dailyReads[k] = Summary(FoldedAway, k)
      BY <2>1, <2>4 DEF UsageInv
    <3>3. Plus(Summary(FoldedAway, k), Summary(moved, k)) = Summary(FoldedAway \cup moved, k)
      BY <1>5, <3>2, PlusIs
    <3> QED
      BY <3>1, <3>2, <3>3
  <2> QED
    BY <2>2, <2>3, <2>4
<1> QED
  BY <1>2, <1>3, <1>6

LEMMA InitUsage == UsageInit => UsageInv
<1>1. SUFFICES ASSUME UsageInit PROVE UsageInv
  OBVIOUS
<1>2. rawReads = {} /\ dailyReads = NoDays /\ utc = 0 /\ made = {} /\ FoldedAway = {}
  BY <1>1 DEF UsageInit, FoldedAway
<1>3. DOMAIN dailyReads = {}
  BY <1>2 DEF NoDays
<1>4. IsFiniteSet(made)
  BY <1>2, FS_EmptySet
<1> QED
  BY <1>2, <1>3, <1>4 DEF UsageInv

LEMMA StepUsage ==
  ASSUME UsageInv, [Next]_vars
  PROVE  UsageInv'
<1>1. CASE ReadRecorded
  <2>1. PICK d \in Series, c \in Clients, kind \in {"READ", "STREAM_SESSION"}, i \in 0 .. utc :
               /\ [d |-> d, c |-> c, kind |-> kind, at |-> i] \notin made
               /\ rawReads' = rawReads \cup {[d |-> d, c |-> c, kind |-> kind, at |-> i]}
               /\ made' = made \cup {[d |-> d, c |-> c, kind |-> kind, at |-> i]}
               /\ dailyReads' = dailyReads /\ utc' = utc
    BY <1>1, Zenon DEF ReadRecorded
  <2>2. PICK r : r = [d |-> d, c |-> c, kind |-> kind, at |-> i]
    OBVIOUS
  <2>3. /\ r \notin made /\ rawReads' = rawReads \cup {r} /\ made' = made \cup {r}
        /\ r \in [d : Series, c : Clients, kind : {"READ", "STREAM_SESSION"}, at : 0 .. utc]
    BY <2>1, <2>2
  <2>4. FoldedAway' = FoldedAway
    BY <2>3 DEF FoldedAway, UsageInv
  <2>5. IsFiniteSet(made')
    BY <2>3, FS_AddElement DEF UsageInv
  <2>6. rawReads' \subseteq made' /\ utc' \in Nat
        /\ made' \subseteq [d : Series, c : Clients, kind : {"READ", "STREAM_SESSION"}, at : 0 .. utc']
    BY <2>1, <2>3 DEF UsageInv
  <2>7. /\ DOMAIN dailyReads' = {DayKey(x) : x \in FoldedAway'}
        /\ \A k \in DOMAIN dailyReads' : dailyReads'[k] = Summary(FoldedAway', k)
    BY <2>1, <2>4, Zenon DEF UsageInv
  <2> QED
    BY <2>5, <2>6, <2>7, Zenon DEF UsageInv
<1>2. CASE FoldOld
  <2>1. PICK moved : moved = {r \in rawReads : r.at < utc - 2 * RollupDays}
    OBVIOUS
  <2>2. rawReads' = rawReads \ moved /\ dailyReads' = Folded(moved) /\ utc' = utc /\ made' = made
    BY <1>2, <2>1, Zenon DEF FoldOld
  <2>3. moved \in SUBSET rawReads
    BY <2>1
  <2>4. FoldedAway' = FoldedAway \cup moved
    BY <2>2, <2>3 DEF FoldedAway, UsageInv
  <2>5. /\ DOMAIN dailyReads' = {DayKey(x) : x \in FoldedAway'}
        /\ \A k \in DOMAIN dailyReads' : dailyReads'[k] = Summary(FoldedAway', k)
    BY <2>2, <2>3, <2>4, FoldedIs, Zenon
  <2>6. /\ rawReads' \subseteq made' /\ utc' \in Nat /\ IsFiniteSet(made')
        /\ made' \subseteq [d : Series, c : Clients, kind : {"READ", "STREAM_SESSION"}, at : 0 .. utc']
    BY <2>2 DEF UsageInv
  <2> QED
    BY <2>5, <2>6, Zenon DEF UsageInv
<1>3. CASE UtcPasses
  <2>1. utc' = utc + 1 /\ rawReads' = rawReads /\ dailyReads' = dailyReads /\ made' = made
    BY <1>3 DEF UtcPasses
  <2>2. FoldedAway' = FoldedAway
    BY <2>1 DEF FoldedAway
  <2>3. /\ DOMAIN dailyReads' = {DayKey(x) : x \in FoldedAway'}
        /\ \A k \in DOMAIN dailyReads' : dailyReads'[k] = Summary(FoldedAway', k)
    BY <2>1, <2>2, Zenon DEF UsageInv
  <2>4. \A t \in 0 .. utc : t \in 0 .. utc + 1
    BY DEF UsageInv
  <2>5. [d : Series, c : Clients, kind : {"READ", "STREAM_SESSION"}, at : 0 .. utc]
          \subseteq [d : Series, c : Clients, kind : {"READ", "STREAM_SESSION"}, at : 0 .. utc']
    BY <2>1, <2>4
  <2>6. /\ rawReads' \subseteq made' /\ utc' \in Nat /\ IsFiniteSet(made')
        /\ made' \subseteq [d : Series, c : Clients, kind : {"READ", "STREAM_SESSION"}, at : 0 .. utc']
    BY <2>1, <2>5 DEF UsageInv
  <2> QED
    BY <2>3, <2>6, Zenon DEF UsageInv
<1>4. CASE UNCHANGED usageVars
  <2>1. utc' = utc /\ rawReads' = rawReads /\ dailyReads' = dailyReads /\ made' = made
    BY <1>4 DEF usageVars
  <2>2. FoldedAway' = FoldedAway
    BY <2>1 DEF FoldedAway
  <2> QED
    BY <2>1, <2>2, Zenon DEF UsageInv
<1>5. Detail \/ Viewer \/ Grid \/ Coverage \/ Refresh \/ Failure \/ UNCHANGED vars => UNCHANGED usageVars
  BY Zenon DEF vars, catalogVars, Detail, Viewer, Grid, Coverage, Refresh, Failure
<1>6. Usage => UsageNext
  BY DEF Usage
<1>7. Sidebar => UsageNext \/ UNCHANGED usageVars
  BY DEF Sidebar, CatalogNext, DatasetGone
<1> QED
  BY <1>1, <1>2, <1>3, <1>4, <1>5, <1>6, <1>7 DEF Next, UsageNext

---------------------------------------------------------------------------
(* The figures, over both tables and over what was made. *)

\* What a count of reads proper counts.
Counted(raw, ds, cs, since) == {r \in Proper(raw) : r.d \in ds /\ r.c \in cs /\ UtcDay(r.at) >= since}

\* The days it adds.
DaysOf(daily, ds, cs, since) == {k \in DOMAIN daily : k.d \in ds /\ k.c \in cs /\ k.day >= since}

LEMMA SinceHas ==
  ASSUME NEW raw, NEW daily, NEW ds, NEW cs, NEW since
  PROVE  ReadsSince(raw, daily, ds, cs, since)
           = Cardinality(Counted(raw, ds, cs, since))
             + MapThenSumSet(LAMBDA k : daily[k].reads, DaysOf(daily, ds, cs, since))
BY Zenon DEF ReadsSince, Counted, DaysOf

\* Where no day is kept, the reads are all there is to count.
LEMMA NoneSince ==
  ASSUME NEW raw, NEW daily, DOMAIN daily = {}, NEW ds, NEW cs, NEW since
  PROVE  ReadsSince(raw, daily, ds, cs, since) = Cardinality(Counted(raw, ds, cs, since)) + 0
<1>1. PICK E, u, v : E = {} /\ u = [k \in E |-> daily[k].reads] /\ v = [s \in SUBSET E |-> 0]
  OBVIOUS
<1>2. AddsUp(v, u, E)
  <2>1. ASSUME NEW s \in SUBSET E
        PROVE  0 = IF s = {} THEN 0 ELSE u[CHOOSE x \in s : TRUE] + v[s \ {CHOOSE x \in s : TRUE}]
    <3>1. s = {}
      BY <1>1
    <3> QED
      BY <3>1, Zenon
  <2>2. v = [s \in SUBSET E |-> IF s = {} THEN 0
                                ELSE u[CHOOSE x \in s : TRUE] + v[s \ {CHOOSE x \in s : TRUE}]]
    BY <1>1, <2>1, Zenon
  <2> QED
    BY <2>2, Zenon DEF AddsUp
<1>3. IsFiniteSet(E)
  BY <1>1, FS_EmptySet
<1>4. MapThenSumSet(LAMBDA k : daily[k].reads, E) = v[E]
  <2>1. u = [k \in E |-> daily[k].reads]
    BY <1>1
  <2> QED
    BY <1>2, <1>3, <2>1, SumReads
<1>5. E \in SUBSET E
  OBVIOUS
<1>6. v[E] = 0
  BY <1>1, <1>5, Zenon
<1>7. DaysOf(daily, ds, cs, since) = E
  BY <1>1 DEF DaysOf
<1> QED
  BY <1>4, <1>6, <1>7, SinceHas, Zenon

\* The reads proper of a day's row are those of its day.
LEMMA DayCounts ==
  ASSUME UsageInv, NEW k \in DOMAIN dailyReads
  PROVE  dailyReads[k].reads = Cardinality({r \in Proper(FoldedAway) : DayKey(r) = k})
<1>1. Summary(FoldedAway, k) = [reads    |-> Cardinality(Proper(OfDay(FoldedAway, k))),
                          sessions |-> Cardinality(OfDay(FoldedAway, k) \ Proper(OfDay(FoldedAway, k))),
                          last     |-> Max({r.at : r \in OfDay(FoldedAway, k)})]
  BY SummaryIs
<1>2. dailyReads[k].reads = Cardinality(Proper(OfDay(FoldedAway, k)))
  BY <1>1 DEF UsageInv
<1>3. Proper(OfDay(FoldedAway, k)) = {r \in Proper(FoldedAway) : DayKey(r) = k}
  BY DEF Proper, OfDay
<1> QED
  BY <1>2, <1>3

\* A count of the reads since some day comes out the same.
LEMMA SinceIs ==
  ASSUME UsageInv, NEW ds, NEW cs, NEW since
  PROVE  /\ ReadsSince(rawReads, dailyReads, ds, cs, since) = Cardinality(Counted(made, ds, cs, since))
         /\ ReadsSince(made, NoDays, ds, cs, since) = Cardinality(Counted(made, ds, cs, since))
<1>1. FoldedAway \in SUBSET made /\ rawReads \in SUBSET made /\ rawReads \cup FoldedAway = made
      /\ rawReads \cap FoldedAway = {}
  BY DEF UsageInv, FoldedAway
<1>2. PICK K : K = DaysOf(dailyReads, ds, cs, since)
  OBVIOUS
<1>3. PICK T : T = Proper(FoldedAway)
  OBVIOUS
<1>4. PICK g : g = [r \in T |-> DayKey(r)]
  OBVIOUS
<1>5. PICK w : w = [k \in K |-> dailyReads[k].reads]
  OBVIOUS
<1>6. IsFiniteSet(T)
  <2>1. T \in SUBSET made
    BY <1>1, <1>3 DEF Proper
  <2> QED
    BY <2>1, UsageReads
<1>7. IsFiniteSet(K)
  <2>1. IsFiniteSet(FoldedAway)
    BY <1>1, UsageReads
  <2>2. IsFiniteSet({DayKey(r) : r \in FoldedAway})
    <3>1. PICK h : h = [r \in FoldedAway |-> DayKey(r)]
      OBVIOUS
    <3>2. h \in Surjection(FoldedAway, {DayKey(r) : r \in FoldedAway})
      <4> DEFINE I == {DayKey(r) : r \in FoldedAway}
      <4>1. h \in [FoldedAway -> I] /\ \A y \in I : \E r \in FoldedAway : h[r] = y
        BY <3>1
      <4> HIDE DEF I
      <4>2. h \in Surjection(FoldedAway, I)
        BY <4>1 DEF Surjection
      <4> QED
        BY <4>2 DEF I
    <3> QED
      BY <2>1, <3>2, FS_Surjection
  <2>3. K \in SUBSET (DOMAIN dailyReads)
    BY <1>2 DEF DaysOf
  <2> QED
    BY <2>2, <2>3, FS_Subset DEF UsageInv
<1>8. CountsBy(w, K, T, g)
  <2>1. SUFFICES ASSUME NEW k \in K PROVE w[k] = Cardinality({r \in T : g[r] = k})
    BY DEF CountsBy
  <2>2. w[k] = Cardinality({r \in Proper(FoldedAway) : DayKey(r) = k})
    BY <1>2, <1>5, DayCounts DEF DaysOf
  <2>3. {r \in T : g[r] = k} = {r \in Proper(FoldedAway) : DayKey(r) = k}
    BY <1>3, <1>4
  <2> QED
    BY <2>2, <2>3
<1>9. PICK f : AddsUp(f, w, K) /\ f[K] = Cardinality({r \in T : g[r] \in K})
  BY <1>6, <1>7, <1>8, CountsAddUp
<1>10. MapThenSumSet(LAMBDA k : dailyReads[k].reads, K) = f[K]
  BY <1>5, <1>7, <1>9, SumReads, ZenonT(40)
<1>11. {r \in T : g[r] \in K} = Counted(FoldedAway, ds, cs, since)
  <2>1. ASSUME NEW r \in FoldedAway
        PROVE  DayKey(r) \in K <=> r.d \in ds /\ r.c \in cs /\ UtcDay(r.at) >= since
    <3>1. DayKey(r) \in DOMAIN dailyReads
      BY DEF UsageInv
    <3>2. DayKey(r).d = r.d /\ DayKey(r).c = r.c /\ DayKey(r).day = UtcDay(r.at)
      BY DEF DayKey
    <3> QED
      BY <1>2, <3>1, <3>2 DEF DaysOf
  <2>2. \A r \in T : r \in FoldedAway /\ g[r] = DayKey(r)
    BY <1>3, <1>4 DEF Proper
  <2> QED
    BY <1>3, <2>1, <2>2 DEF Counted
<1>12. Cardinality(Counted(made, ds, cs, since))
         = Cardinality(Counted(rawReads, ds, cs, since)) + Cardinality(Counted(FoldedAway, ds, cs, since))
  <2>1. PICK A, B : A = Counted(rawReads, ds, cs, since) /\ B = Counted(FoldedAway, ds, cs, since)
    OBVIOUS
  <2>2. A \in SUBSET made /\ B \in SUBSET made /\ A \cap B = {} /\ A \cup B = Counted(made, ds, cs, since)
    BY <1>1, <2>1 DEF Counted, Proper
  <2>3. IsFiniteSet(A) /\ IsFiniteSet(B)
    BY <2>2, UsageReads
  <2>4. Cardinality(A \cup B) = Cardinality(A) + Cardinality(B)
    BY <2>2, <2>3, TwoParts
  <2> QED
    BY <2>1, <2>2, <2>4
<1>13. ReadsSince(rawReads, dailyReads, ds, cs, since) = Cardinality(Counted(made, ds, cs, since))
  <2>1. ReadsSince(rawReads, dailyReads, ds, cs, since)
           = Cardinality(Counted(rawReads, ds, cs, since)) + f[K]
    BY <1>2, <1>10, SinceHas
  <2> QED
    BY <1>9, <1>11, <1>12, <2>1
<1>14. ReadsSince(made, NoDays, ds, cs, since) = Cardinality(Counted(made, ds, cs, since))
  <2>1. ReadsSince(made, NoDays, ds, cs, since) = Cardinality(Counted(made, ds, cs, since)) + 0
    BY NoneSince DEF NoDays
  <2>2. Counted(made, ds, cs, since) \in SUBSET made
    BY DEF Counted, Proper
  <2>3. Cardinality(Counted(made, ds, cs, since)) \in Nat
    BY <2>2, UsageReads, FS_CardinalityType
  <2> QED
    BY <2>1, <2>3
<1> QED
  BY <1>13, <1>14

---------------------------------------------------------------------------
(* When it was last read, who reads it, and all the figures. *)

LastsOf(raw, daily, d, cs) ==
    {Never} \cup {r.at : r \in {x \in raw : x.d = d /\ x.c \in cs}}
            \cup {daily[k].last : k \in {x \in DOMAIN daily : x.d = d /\ x.c \in cs}}

\* A day's row is of a dataset and a client that read it, and its last read is one of theirs, with none later.
LEMMA DayLast ==
  ASSUME UsageInv, NEW k \in DOMAIN dailyReads
  PROVE  /\ \E r \in made : r.d = k.d /\ r.c = k.c /\ r.at = dailyReads[k].last
         /\ \A r \in FoldedAway : DayKey(r) = k => r.at <= dailyReads[k].last
<1>1. PICK S : S = OfDay(FoldedAway, k)
  OBVIOUS
<1>2. dailyReads[k].last = Max({r.at : r \in S})
  <2>1. Summary(FoldedAway, k) = [reads    |-> Cardinality(Proper(S)),
                                  sessions |-> Cardinality(S \ Proper(S)),
                                  last     |-> Max({r.at : r \in S})]
    BY <1>1, SummaryIs, Zenon
  <2>2. dailyReads[k] = Summary(FoldedAway, k)
    BY DEF UsageInv
  <2> QED
    BY <2>1, <2>2
<1>3. S \in SUBSET made /\ S # {}
  <2>1. k \in {DayKey(r) : r \in FoldedAway}
    BY DEF UsageInv
  <2>2. S # {}
    BY <1>1, <2>1, KeyOfDay
  <2>3. S \in SUBSET made
    BY <1>1 DEF OfDay, FoldedAway
  <2> QED
    BY <2>2, <2>3
<1>4. Reads(S) /\ utc \in Nat
  BY <1>3, UsageReads DEF UsageInv
<1>5. /\ Max({r.at : r \in S}) \in {r.at : r \in S}
      /\ \A x \in S : x.at <= Max({r.at : r \in S})
  BY <1>3, <1>4, InstantsOf
<1>6. PICK r \in S : r.at = dailyReads[k].last
  BY <1>2, <1>5
<1>7. \A x \in S : DayKey(x) = k /\ x.d = k.d /\ x.c = k.c
  <2>1. \A x : DayKey(x).d = x.d /\ DayKey(x).c = x.c
    BY DEF DayKey
  <2> QED
    BY <1>1, <2>1 DEF OfDay
<1>8. \A x \in FoldedAway : DayKey(x) = k => x \in S
  BY <1>1 DEF OfDay
<1> QED
  BY <1>2, <1>3, <1>5, <1>6, <1>7, <1>8

LEMMA LastIs ==
  ASSUME UsageInv, NEW d, NEW cs
  PROVE  /\ LastReadAt(rawReads, dailyReads, d, cs) = LastReadAt(made, NoDays, d, cs)
         /\ LastReadAt(made, NoDays, d, cs) \in {Never} \cup (0 .. utc)
<1>1. PICK A : A = LastsOf(rawReads, dailyReads, d, cs)
  OBVIOUS
<1>2. PICK B : B = LastsOf(made, NoDays, d, cs)
  OBVIOUS
<1>3. LastReadAt(rawReads, dailyReads, d, cs) = Max(A) /\ LastReadAt(made, NoDays, d, cs) = Max(B)
  BY <1>1, <1>2, Zenon DEF LastReadAt, LastsOf
<1>4. PICK C : C = {r.at : r \in {x \in made : x.d = d /\ x.c \in cs}}
  OBVIOUS
<1>5. B = {Never} \cup C
  BY <1>2, <1>4 DEF LastsOf, NoDays
<1>6. C \in SUBSET Nat /\ utc \in Nat /\ \A x \in C : x <= utc
  BY <1>4 DEF UsageInv
<1>7. PICK m \in B : m \in Int /\ (\A y \in B : y \in Int /\ y <= m) /\ (m = Never \/ m \in 0 .. utc)
  <2>1. CASE C = {}
    BY <1>5, <2>1 DEF Never
  <2>2. CASE C # {}
    <3>1. PICK m \in C : \A y \in C : y <= m
      BY <1>6, <2>2, LastOf
    <3> QED
      BY <1>5, <1>6, <3>1 DEF Never
  <2> QED
    BY <2>1, <2>2
<1>8. A \subseteq B
  <2>1. ASSUME NEW r \in rawReads, r.d = d, r.c \in cs PROVE r.at \in C
    BY <1>4, <2>1 DEF UsageInv
  <2>2. ASSUME NEW k \in DOMAIN dailyReads, k.d = d, k.c \in cs PROVE dailyReads[k].last \in C
    <3>1. PICK r \in made : r.d = k.d /\ r.c = k.c /\ r.at = dailyReads[k].last
      BY DayLast
    <3> QED
      BY <1>4, <2>2, <3>1
  <2> QED
    BY <1>1, <1>5, <2>1, <2>2 DEF LastsOf
<1>9. m \in A
  <2>1. CASE m = Never
    BY <1>1, <2>1 DEF LastsOf
  <2>2. CASE m # Never
    <3>1. PICK r \in made : r.d = d /\ r.c \in cs /\ r.at = m
      BY <1>4, <1>5, <2>2
    <3>2. CASE r \in rawReads
      BY <1>1, <3>1, <3>2 DEF LastsOf
    <3>3. CASE r \in FoldedAway
      <4>1. PICK k : k = DayKey(r)
        OBVIOUS
      <4>2. k \in DOMAIN dailyReads /\ k.d = d /\ k.c \in cs
        BY <3>1, <3>3, <4>1 DEF UsageInv, DayKey
      <4>3. dailyReads[k].last \in A
        BY <1>1, <4>2 DEF LastsOf
      <4>4. m <= dailyReads[k].last
        BY <3>1, <3>3, <4>1, <4>2, DayLast
      <4>5. PICK l : l = dailyReads[k].last
        OBVIOUS
      <4>6. l \in Int /\ l <= m /\ m <= l /\ l \in A
        BY <1>7, <1>8, <4>3, <4>4, <4>5
      <4>7. l = m
        BY <1>7, <4>6
      <4> QED
        BY <4>6, <4>7
    <3> QED
      BY <3>1, <3>2, <3>3 DEF FoldedAway
  <2> QED
    BY <2>1, <2>2
<1>10. Max(A) = m /\ Max(B) = m
  <2>1. \A y \in A : y \in Int /\ y <= m
    BY <1>7, <1>8
  <2>2. Max(A) = m
    BY <1>7, <1>9, <2>1, MaxIs
  <2>3. Max(B) = m
    BY <1>7, MaxIs
  <2> QED
    BY <2>2, <2>3
<1> QED
  BY <1>3, <1>7, <1>10

LEMMA ReadersIs ==
  ASSUME UsageInv, NEW d
  PROVE  Readers(rawReads, dailyReads, d) = Readers(made, NoDays, d)
<1>1. PICK since : since = WindowStart(RecentDays)
  OBVIOUS
<1>2. Readers(rawReads, dailyReads, d)
        = {r.c : r \in {x \in Proper(rawReads) : x.d = d /\ UtcDay(x.at) >= since}}
          \cup {k.c : k \in {x \in DOMAIN dailyReads : x.d = d /\ dailyReads[x].reads > 0 /\ x.day >= since}}
  BY <1>1, Zenon DEF Readers
<1>3. Readers(made, NoDays, d) = {r.c : r \in {x \in Proper(made) : x.d = d /\ UtcDay(x.at) >= since}}
  <2>1. {k.c : k \in {x \in DOMAIN NoDays : x.d = d /\ NoDays[x].reads > 0 /\ x.day >= since}} = {}
    BY DEF NoDays
  <2>2. Readers(made, NoDays, d)
          = {r.c : r \in {x \in Proper(made) : x.d = d /\ UtcDay(x.at) >= since}}
            \cup {k.c : k \in {x \in DOMAIN NoDays : x.d = d /\ NoDays[x].reads > 0 /\ x.day >= since}}
    BY <1>1, Zenon DEF Readers
  <2> QED
    BY <2>1, <2>2
<1>4. \A r : DayKey(r).d = r.d /\ DayKey(r).c = r.c /\ DayKey(r).day = UtcDay(r.at)
  BY DEF DayKey
<1>5. ASSUME NEW k \in DOMAIN dailyReads
      PROVE  dailyReads[k].reads > 0 <=> \E r \in Proper(FoldedAway) : DayKey(r) = k
  <2>1. PICK S : S = {r \in Proper(FoldedAway) : DayKey(r) = k}
    OBVIOUS
  <2>2. S \in SUBSET made
    BY <2>1 DEF Proper, FoldedAway
  <2>3. IsFiniteSet(S)
    BY <2>2, UsageReads
  <2>4. Cardinality(S) \in Nat /\ (Cardinality(S) = 0 <=> S = {})
    BY <2>3, FS_CardinalityType, FS_EmptySet
  <2>5. dailyReads[k].reads = Cardinality(S)
    BY <2>1, DayCounts
  <2> QED
    BY <2>1, <2>4, <2>5
<1>6. \A r \in Proper(made) : r \in Proper(rawReads) \/ r \in Proper(FoldedAway)
  BY DEF Proper, FoldedAway
<1>7. \A r \in Proper(rawReads) \cup Proper(FoldedAway) : r \in Proper(made)
  BY DEF Proper, FoldedAway, UsageInv
<1>8. \A r \in Proper(FoldedAway) : DayKey(r) \in DOMAIN dailyReads
  BY DEF Proper, UsageInv
<1>9. ASSUME NEW c \in Readers(made, NoDays, d)
      PROVE  c \in Readers(rawReads, dailyReads, d)
  <2>1. PICK r \in Proper(made) : r.d = d /\ UtcDay(r.at) >= since /\ r.c = c
    BY <1>3
  <2>2. CASE r \in Proper(rawReads)
    BY <1>2, <2>1, <2>2
  <2>3. CASE r \in Proper(FoldedAway)
    <3>1. PICK k \in DOMAIN dailyReads : k = DayKey(r)
      BY <1>8, <2>3
    <3>2. k.d = d /\ dailyReads[k].reads > 0 /\ k.day >= since /\ k.c = c
      BY <1>4, <1>5, <2>1, <2>3, <3>1
    <3> QED
      BY <1>2, <3>2
  <2> QED
    BY <1>6, <2>2, <2>3
<1>10. ASSUME NEW c \in Readers(rawReads, dailyReads, d)
       PROVE  c \in Readers(made, NoDays, d)
  <2>1. CASE \E r \in Proper(rawReads) : r.d = d /\ UtcDay(r.at) >= since /\ r.c = c
    BY <1>3, <1>7, <2>1
  <2>2. CASE \E k \in DOMAIN dailyReads : k.d = d /\ dailyReads[k].reads > 0 /\ k.day >= since /\ k.c = c
    <3>1. PICK k \in DOMAIN dailyReads : k.d = d /\ dailyReads[k].reads > 0 /\ k.day >= since /\ k.c = c
      BY <2>2
    <3>2. PICK r \in Proper(FoldedAway) : DayKey(r) = k
      BY <1>5, <3>1
    <3>3. r \in Proper(made) /\ r.d = d /\ UtcDay(r.at) >= since /\ r.c = c
      BY <1>4, <1>7, <3>1, <3>2
    <3> QED
      BY <1>3, <3>3
  <2> QED
    BY <1>2, <2>1, <2>2
<1> QED
  BY <1>9, <1>10

\* How many of the datasets each client reads.
Tally(readers, ds) == [c \in UNION {readers[d] : d \in ds} |-> Cardinality({d \in ds : c \in readers[d]})]

LEMMA FiguresAre == UsageInv => FiguresAreTheReads
<1>1. SUFFICES ASSUME UsageInv PROVE FiguresAreTheReads
  OBVIOUS
<1>2. \A ds, cs, since : ReadsSince(rawReads, dailyReads, ds, cs, since) = ReadsSince(made, NoDays, ds, cs, since)
  BY <1>1, SinceIs
<1>3. \A d, cs : LastReadAt(rawReads, dailyReads, d, cs) = LastReadAt(made, NoDays, d, cs)
  BY <1>1, LastIs
<1>4. \A d, cs : ReadsInWindow(rawReads, dailyReads, d, cs) = ReadsInWindow(made, NoDays, d, cs)
  BY <1>2, Zenon DEF ReadsInWindow
<1>5. \A ds, cs, days : ClientDayReads(rawReads, dailyReads, ds, cs, days) = ClientDayReads(made, NoDays, ds, cs, days)
  <2>1. SUFFICES ASSUME NEW ds, NEW cs, NEW days
                 PROVE  ClientDayReads(rawReads, dailyReads, ds, cs, days) = ClientDayReads(made, NoDays, ds, cs, days)
    OBVIOUS
  <2>2. PICK X : X = [c : cs, day : WindowStart(days - 1) .. UtcDay(utc), reads : 1 .. MaxReads]
    OBVIOUS
  <2>3. ClientDayReads(rawReads, dailyReads, ds, cs, days)
          = {e \in X : e.reads = ReadsSince(rawReads, dailyReads, ds, {e.c}, e.day)
                                 - ReadsSince(rawReads, dailyReads, ds, {e.c}, e.day + 1)}
    BY <2>2, Zenon DEF ClientDayReads
  <2>4. ClientDayReads(made, NoDays, ds, cs, days)
          = {e \in X : e.reads = ReadsSince(made, NoDays, ds, {e.c}, e.day)
                                 - ReadsSince(made, NoDays, ds, {e.c}, e.day + 1)}
    BY <2>2, Zenon DEF ClientDayReads
  <2>5. \A e \in X : ReadsSince(rawReads, dailyReads, ds, {e.c}, e.day)
                                 - ReadsSince(rawReads, dailyReads, ds, {e.c}, e.day + 1)
                     = ReadsSince(made, NoDays, ds, {e.c}, e.day) - ReadsSince(made, NoDays, ds, {e.c}, e.day + 1)
    BY <1>2, Zenon
  <2> QED
    BY <2>3, <2>4, <2>5, Zenon
<1>6. ClientDatasets(rawReads, dailyReads, Series) = ClientDatasets(made, NoDays, Series)
  <2>1. ClientDatasets(rawReads, dailyReads, Series) = Tally([d \in Series |-> Readers(rawReads, dailyReads, d)], Series)
    BY Zenon DEF ClientDatasets, Tally
  <2>2. ClientDatasets(made, NoDays, Series) = Tally([d \in Series |-> Readers(made, NoDays, d)], Series)
    BY Zenon DEF ClientDatasets, Tally
  <2>3. [d \in Series |-> Readers(rawReads, dailyReads, d)] = [d \in Series |-> Readers(made, NoDays, d)]
    BY <1>1, ReadersIs, Zenon
  <2> QED
    BY <2>1, <2>2, <2>3, Zenon
<1>7. \A d : ClientLastReads(rawReads, dailyReads, d) = ClientLastReads(made, NoDays, d)
  BY <1>3, Zenon DEF ClientLastReads
<1> QED
  BY <1>3, <1>4, <1>5, <1>6, <1>7, Zenon DEF FiguresAreTheReads

\* However the fold and late flushes cut a day in two, every usage figure is what it would be had each read
\* been kept (dataset_read.py): a day's row is the summary of the reads of that day that were folded, and
\* a figure over both tables counts each read once.
THEOREM UsageOutlivesTheRollupAlways == Spec => []UsageOutlivesTheRollup
<1>1. Init => UsageInv
  BY InitUsage DEF Init, CatalogInit
<1>2. UsageInv => UsageOutlivesTheRollup
  BY FiguresAre DEF UsageOutlivesTheRollup
<1> QED
  BY <1>1, <1>2, StepUsage, PTL DEF Spec

---------------------------------------------------------------------------
(* The catalog's rows in their order. *)

Pairs == Nat \X Nat

LEMMA BeforeIs ==
  /\ \A p \in Pairs : ~Before(p, p)
  /\ \A p, q \in Pairs : p = q \/ Before(p, q) \/ Before(q, p)
  /\ \A p, q, r \in Pairs : Before(p, q) /\ Before(q, r) => Before(p, r)
  /\ \A p, q \in Pairs : Before(p, q) => ~Before(q, p)
<1>1. ASSUME NEW p \in Pairs, NEW q \in Pairs
      PROVE  p = q \/ Before(p, q) \/ Before(q, p)
  <2>1. PICK a \in Nat, b \in Nat, c \in Nat, d \in Nat : p = <<a, b>> /\ q = <<c, d>>
    BY DEF Pairs
  <2> QED
    BY <2>1 DEF Before
<1>2. ASSUME NEW p \in Pairs, NEW q \in Pairs, NEW r \in Pairs, Before(p, q), Before(q, r)
      PROVE  Before(p, r)
  <2>1. PICK a \in Nat, b \in Nat : p = <<a, b>>
    BY DEF Pairs
  <2>2. PICK c \in Nat, d \in Nat : q = <<c, d>>
    BY DEF Pairs
  <2>3. PICK e \in Nat, f \in Nat : r = <<e, f>>
    BY DEF Pairs
  <2>4. (a < c \/ (a = c /\ b < d)) /\ (c < e \/ (c = e /\ d < f))
    BY <1>2, <2>1, <2>2, <2>3 DEF Before
  <2>5. a < e \/ (a = e /\ b < f)
    BY <2>4
  <2> QED
    BY <2>1, <2>3, <2>5 DEF Before
<1>3. ASSUME NEW p \in Pairs, NEW q \in Pairs, Before(p, q)
      PROVE  ~Before(q, p)
  <2>1. PICK a \in Nat, b \in Nat, c \in Nat, d \in Nat : p = <<a, b>> /\ q = <<c, d>>
    BY DEF Pairs
  <2> QED
    BY <1>3, <2>1 DEF Before
<1>4. \A p \in Pairs : ~Before(p, p)
  BY <1>3
<1> QED
  BY <1>1, <1>2, <1>3, <1>4

\* How many rows come before one.
Ahead(S, p) == Cardinality({q \in S : Before(q, p)})

LEMMA AheadIs ==
  ASSUME NEW S \in SUBSET Pairs, IsFiniteSet(S)
  PROVE  /\ Cardinality(S) \in Nat
         /\ \A p \in S : Ahead(S, p) \in 0 .. Cardinality(S) - 1
         /\ \A p, q \in S : Before(p, q) => Ahead(S, p) < Ahead(S, q)
         /\ \A m \in 0 .. Cardinality(S) - 1 : \E p \in S : Ahead(S, p) = m
<1>1. Cardinality(S) \in Nat
  BY FS_CardinalityType
<1>2. ASSUME NEW p \in S
      PROVE  Ahead(S, p) \in 0 .. Cardinality(S) - 1
  <2>1. PICK T \in SUBSET S : T = {q \in S : Before(q, p)}
    OBVIOUS
  <2>2. IsFiniteSet(T) /\ Cardinality(T) <= Cardinality(S) /\ (Cardinality(S) = Cardinality(T) => S = T)
    BY FS_Subset
  <2>3. p \notin T
    BY <2>1, BeforeIs
  <2>4. Cardinality(T) \in Nat /\ Cardinality(T) # Cardinality(S)
    BY <2>2, <2>3, FS_CardinalityType
  <2> QED
    BY <1>1, <2>1, <2>2, <2>4 DEF Ahead
<1>3. ASSUME NEW p \in S, NEW q \in S, Before(p, q)
      PROVE  Ahead(S, p) < Ahead(S, q)
  <2>1. PICK U \in SUBSET S : U = {r \in S : Before(r, p)}
    OBVIOUS
  <2>2. PICK W \in SUBSET S : W = {r \in S : Before(r, q)}
    OBVIOUS
  <2>3. IsFiniteSet(W) /\ U \in SUBSET W /\ p \in W /\ p \notin U
    <3>1. \A r \in S : Before(r, p) => Before(r, q)
      BY <1>3, BeforeIs
    <3>2. U \in SUBSET W /\ p \in W
      BY <1>3, <2>1, <2>2, <3>1
    <3>3. p \notin U
      BY <2>1, BeforeIs
    <3> QED
      BY <3>2, <3>3, FS_Subset
  <2>4. IsFiniteSet(U) /\ Cardinality(U) <= Cardinality(W) /\ (Cardinality(W) = Cardinality(U) => W = U)
    BY <2>3, FS_Subset
  <2>5. Cardinality(U) \in Nat /\ Cardinality(W) \in Nat /\ Cardinality(U) # Cardinality(W)
    BY <2>3, <2>4, FS_CardinalityType
  <2> QED
    BY <2>1, <2>2, <2>4, <2>5 DEF Ahead
<1>4. ASSUME NEW m \in 0 .. Cardinality(S) - 1
      PROVE  \E p \in S : Ahead(S, p) = m
  <2> DEFINE f == [p \in S |-> Ahead(S, p)]
             T == 0 .. Cardinality(S) - 1
  <2>1. f \in [S -> T]
    BY <1>2
  <2>2. \A p, q \in S : f[p] = f[q] => p = q
    <3>1. ASSUME NEW p \in S, NEW q \in S, f[p] = f[q], p # q
          PROVE  FALSE
      <4>1. Ahead(S, p) = Ahead(S, q) /\ Ahead(S, p) \in Int
        BY <1>2, <3>1
      <4>2. Before(p, q) \/ Before(q, p)
        BY <3>1, BeforeIs
      <4> QED
        BY <1>3, <4>1, <4>2
    <3> QED
      BY <3>1
  <2>4. IsFiniteSet(T) /\ Cardinality(T) = Cardinality(S)
    <3>1. Cardinality(S) - 1 \in Int /\ 0 \in Int
      BY <1>1
    <3>2. IsFiniteSet(T) /\ Cardinality(T) = IF 0 > Cardinality(S) - 1 THEN 0 ELSE (Cardinality(S) - 1) - 0 + 1
      BY <3>1, FS_Interval
    <3> QED
      BY <1>1, <3>2
  <2> HIDE DEF f, T
  <2>3. f \in Injection(S, T)
    BY <2>1, <2>2 DEF Injection, IsInjective
  <2>5. f \in Surjection(S, T)
    BY <2>3, <2>4, FS_Injection
  <2>6. m \in T
    BY DEF T
  <2>7. PICK p \in S : f[p] = m
    BY <2>5, <2>6 DEF Surjection
  <2> QED
    BY <2>7 DEF f
<1> QED
  BY <1>1, <1>2, <1>3, <1>4

LEMMA InOrderIs ==
  ASSUME NEW S \in SUBSET Pairs, IsFiniteSet(S)
  PROVE  /\ InOrder(S) \in Seq(S) /\ Len(InOrder(S)) = Cardinality(S)
         /\ \A i, j \in 1 .. Len(InOrder(S)) : i < j => Before(InOrder(S)[i], InOrder(S)[j])
         /\ \A p \in S : \E i \in 1 .. Len(InOrder(S)) : InOrder(S)[i] = p
<1>1. PICK n \in Nat : n = Cardinality(S)
  BY FS_CardinalityType
<1>2. PICK s : s = InOrder(S)
  OBVIOUS
<1>3. s = [i \in 1 .. n |-> CHOOSE p \in S : Ahead(S, p) = i - 1]
  BY <1>1, <1>2, Zenon DEF InOrder, Ahead
<1>4. ASSUME NEW i \in 1 .. n
      PROVE  s[i] \in S /\ Ahead(S, s[i]) = i - 1
  <2>1. i - 1 \in 0 .. Cardinality(S) - 1
    BY <1>1
  <2>2. \E p \in S : Ahead(S, p) = i - 1
    BY <2>1, AheadIs
  <2>3. s[i] = CHOOSE p \in S : Ahead(S, p) = i - 1
    BY <1>3, Zenon
  <2> QED
    BY <2>2, <2>3, Zenon
<1>5. s \in Seq(S) /\ Len(s) = n
  BY <1>3, <1>4
<1>6. ASSUME NEW i \in 1 .. n, NEW j \in 1 .. n, i < j
      PROVE  Before(s[i], s[j])
  <2>1. s[i] \in S /\ s[j] \in S /\ Ahead(S, s[i]) = i - 1 /\ Ahead(S, s[j]) = j - 1
    BY <1>4
  <2>2. s[i] = s[j] \/ Before(s[i], s[j]) \/ Before(s[j], s[i])
    BY <2>1, BeforeIs
  <2>3. ~(s[i] = s[j])
    BY <1>6, <2>1
  <2>4. ~Before(s[j], s[i])
    <3>1. Before(s[j], s[i]) => j - 1 < i - 1
      BY <2>1, AheadIs
    <3> QED
      BY <1>6, <3>1
  <2> QED
    BY <2>2, <2>3, <2>4
<1>7. ASSUME NEW p \in S
      PROVE  \E i \in 1 .. n : s[i] = p
  <2>1. PICK a \in 0 .. n - 1 : a = Ahead(S, p)
    BY <1>1, AheadIs
  <2>2. PICK i \in 1 .. n : i = a + 1
    BY <2>1
  <2>3. s[i] \in S /\ Ahead(S, s[i]) = a
    BY <1>4, <2>2
  <2>4. s[i] = p \/ Before(s[i], p) \/ Before(p, s[i])
    BY <2>3, BeforeIs
  <2>5. ~Before(s[i], p) /\ ~Before(p, s[i])
    <3>1. (Before(s[i], p) => a < a) /\ (Before(p, s[i]) => a < a)
      BY <2>1, <2>3, AheadIs
    <3> QED
      BY <2>1, <3>1
  <2> QED
    BY <2>4, <2>5
<1> QED
  BY <1>1, <1>2, <1>5, <1>6, <1>7

---------------------------------------------------------------------------
(* A page. *)

Cursors  == Pairs \cup {End}
PageSet  == {p \in [items : Seq(Pairs), next : Cursors] : Len(p.items) <= PageSize}
ListOfRows == list \in [Ids -> Keys \cup {Gone}]

LEMMA ListedIs ==
  ASSUME ListOfRows
  PROVE  /\ Listed \in SUBSET Pairs /\ IsFiniteSet(Listed)
         /\ \A p \in Listed : Before(Start, p) /\ p[2] \in Ids /\ list[p[2]] # Gone /\ p = <<list[p[2]], p[2]>>
<1>1. PICK I : I = {j \in Ids : list[j] # Gone}
  OBVIOUS
<1>2. PICK f : f = [i \in I |-> <<list[i], i>>]
  OBVIOUS
<1>3. IsFiniteSet(I)
  <2>1. I \in SUBSET Ids /\ IsFiniteSet(Ids)
    BY <1>1, GridAssumption
  <2> QED
    BY <2>1, FS_Subset
<1>4. Listed = {<<list[i], i>> : i \in I}
  BY <1>1, Zenon DEF Listed
<1>5. \A i \in I : list[i] \in Nat \ {0} /\ i \in Nat
  BY <1>1, GridAssumption DEF ListOfRows
<1>6. Listed \in SUBSET Pairs
  BY <1>4, <1>5 DEF Pairs
<1>7. f \in Surjection(I, Listed)
  <2>1. f \in [I -> Listed] /\ \A y \in Listed : \E i \in I : f[i] = y
    BY <1>2, <1>4
  <2> QED
    BY <2>1 DEF Surjection
<1>8. IsFiniteSet(Listed)
  BY <1>3, <1>7, FS_Surjection
<1>9. ASSUME NEW p \in Listed
      PROVE  Before(Start, p) /\ p[2] \in Ids /\ list[p[2]] # Gone /\ p = <<list[p[2]], p[2]>>
  <2>1. PICK i \in I : p = <<list[i], i>>
    BY <1>4
  <2>2. PICK k \in Nat : k = list[i] /\ k > 0 /\ i \in Nat
    BY <1>5
  <2>3. Before(Start, p)
    BY <2>1, <2>2 DEF Before, Start
  <2> QED
    BY <1>1, <2>1, <2>3
<1> QED
  BY <1>6, <1>8, <1>9

\* What a page behind a cursor holds of the list.
PageFits(page, after) ==
    /\ page \in PageSet
    /\ \A m \in 1 .. Len(page.items) : page.items[m] \in Listed /\ Before(after, page.items[m])
    /\ \A m, n \in 1 .. Len(page.items) : m < n => Before(page.items[m], page.items[n])
    /\ page.next # End => Len(page.items) > 0 /\ page.next = page.items[Len(page.items)]
    /\ \A p \in Listed : Before(after, p) => \/ \E m \in 1 .. Len(page.items) : page.items[m] = p
                                             \/ page.next # End /\ Before(page.next, p)

LEMMA PageAfterIs ==
  ASSUME ListOfRows, NEW after
  PROVE  PageFits(PageAfter(after), after)
<1>1. PICK S : S = {p \in Listed : Before(after, p)}
  OBVIOUS
<1>2. S \in SUBSET Pairs /\ IsFiniteSet(S)
  <2>1. S \in SUBSET Listed
    BY <1>1
  <2> QED
    BY <2>1, ListedIs, FS_Subset
<1>3. PICK s : s = InOrder(S)
  OBVIOUS
<1>4. /\ s \in Seq(S) /\ \A i, j \in 1 .. Len(s) : i < j => Before(s[i], s[j])
      /\ \A p \in S : \E i \in 1 .. Len(s) : s[i] = p
  BY <1>2, <1>3, InOrderIs
<1>5. PICK n \in Nat : n = Len(s)
  BY <1>4
<1>6. PICK k \in Nat : k = PageSize /\ k > 0
  BY GridAssumption
<1>7. PICK w : w = SubSeq(s, 1, IF n <= k THEN n ELSE k + 1)
  OBVIOUS
<1>8. Len(w) = (IF n <= k THEN n ELSE k + 1) /\ \A i \in 1 .. Len(w) : w[i] = s[i]
  BY <1>4, <1>5, <1>7
<1>9. PICK items : items = SubSeq(w, 1, IF Len(w) <= k THEN Len(w) ELSE k)
  OBVIOUS
<1>10. PICK m \in Nat : m = IF n <= k THEN n ELSE k
  OBVIOUS
<1>11. items \in Seq(S) /\ Len(items) = m /\ \A i \in 1 .. m : items[i] = s[i]
  <2>1. w \in Seq(S)
    BY <1>4, <1>5, <1>7
  <2>2. Len(w) = (IF n <= k THEN n ELSE k + 1) /\ m <= Len(w)
    BY <1>6, <1>8, <1>10
  <2>3. items = SubSeq(w, 1, m)
    BY <1>6, <1>9, <1>10, <2>2
  <2>4. items \in Seq(S) /\ Len(items) = m /\ \A i \in 1 .. m : items[i] = w[i]
    BY <2>1, <2>2, <2>3
  <2> QED
    BY <1>8, <2>2, <2>4
<1>12. PICK page : page = [items |-> items, next |-> IF n > k THEN items[m] ELSE End]
  OBVIOUS
<1>13. PageAfter(after) = page
  <2>1. Len(w) > k <=> n > k
    BY <1>6, <1>8
  <2>2. Last(items) = items[m]
    BY <1>11 DEF Last
  <2>3. PageAfter(after) = [items |-> items, next |-> IF Len(w) > k THEN Last(items) ELSE End]
    BY <1>1, <1>3, <1>5, <1>6, <1>7, <1>9, Zenon DEF PageAfter
  <2> QED
    BY <1>12, <2>1, <2>2, <2>3, Zenon
<1>14. /\ page.items = items /\ Len(page.items) = m /\ page.next = IF n > k THEN items[m] ELSE End
  BY <1>11, <1>12
<1>15. \A i \in 1 .. m : i \in 1 .. n /\ items[i] \in S /\ items[i] = s[i]
  BY <1>10, <1>11
<1>16. End \notin Pairs
  BY DEF Pairs, End
<1>17. page.next # End => n > k /\ m = k /\ page.next = s[k]
  BY <1>6, <1>10, <1>14, <1>15
<1>18. n > k => page.next # End
  BY <1>2, <1>6, <1>10, <1>14, <1>15, <1>16
<1>19. page \in PageSet
  <2>1. items \in Seq(Pairs)
    BY <1>2, <1>11
  <2>2. page.next \in Cursors
    BY <1>2, <1>6, <1>10, <1>14, <1>15 DEF Cursors
  <2>3. page \in [items : Seq(Pairs), next : Cursors]
    BY <1>12, <1>14, <2>1, <2>2
  <2>4. Len(page.items) <= PageSize
    BY <1>6, <1>10, <1>14
  <2> QED
    BY <2>3, <2>4 DEF PageSet
<1>20. \A i \in 1 .. m : items[i] \in Listed /\ Before(after, items[i])
  BY <1>1, <1>15
<1>21. \A i, j \in 1 .. m : i < j => Before(items[i], items[j])
  BY <1>4, <1>5, <1>15
<1>22. page.next # End => m > 0 /\ page.next = items[m]
  BY <1>6, <1>14, <1>17
<1>23. ASSUME NEW p \in Listed, Before(after, p)
       PROVE  \/ \E i \in 1 .. m : items[i] = p
              \/ page.next # End /\ Before(page.next, p)
  <2>1. PICK i \in 1 .. n : s[i] = p
    BY <1>1, <1>4, <1>5, <1>23
  <2>2. CASE i <= m
    BY <1>15, <2>1, <2>2
  <2>3. CASE i > m
    <3>1. n > k /\ m = k /\ k \in 1 .. n /\ k < i
      BY <1>6, <1>10, <2>3
    <3>2. Before(s[k], s[i])
      BY <1>4, <1>5, <3>1
    <3> QED
      BY <1>17, <1>18, <2>1, <3>1, <3>2
  <2> QED
    BY <2>2, <2>3
<1> QED
  BY <1>13, <1>14, <1>19, <1>20, <1>21, <1>22, <1>23 DEF PageFits

---------------------------------------------------------------------------
(* The walk and what is on screen of it. *)

Readings ==
    {r \in Seq(Cursors \cup PageSet) : Len(r) <= 2 /\ (Len(r) > 0 => r[1] \in Cursors) /\ (Len(r) = 2 => r[2] \in PageSet)}
WalkSet  == [pages : Seq(PageSet), reading : Readings, wants : SUBSET Blocks]
ShownSet == [under : Nat, items : Seq(Pairs), done : BOOLEAN]

\* The pages the server has answered a walk with, the one still on its way included.
Got(w) == IF Len(w.reading) = 2 THEN Append(w.pages, w.reading[2]) ELSE w.pages

\* Where its next page starts.
EndOf(pages) == IF pages = <<>> THEN Start ELSE pages[Len(pages)].next

ReadingFits(w) == Len(w.reading) > 0 => w.reading[1] = EndOf(w.pages) /\ EndOf(w.pages) # End

\* Each page begins behind the one before it, and only the last may have nothing behind it.
PagesRise(g) ==
    /\ \A i \in 1 .. Len(g) :
         /\ \A m, n \in 1 .. Len(g[i].items) : m < n => Before(g[i].items[m], g[i].items[n])
         /\ g[i].next # End => Len(g[i].items) > 0 /\ g[i].next = g[i].items[Len(g[i].items)]
         /\ i < Len(g) => g[i].next # End
    /\ \A i, j \in 1 .. Len(g) : i < j =>
         \A m \in 1 .. Len(g[i].items), n \in 1 .. Len(g[j].items) : Before(g[i].items[m], g[j].items[n])

\* Of the rows that have not changed, a page shows what they are ...
AreRows(l, g, T) ==
    \A i \in 1 .. Len(g) : \A m \in 1 .. Len(g[i].items) :
      g[i].items[m][2] \in Ids \ T =>
        l[g[i].items[m][2]] # Gone /\ g[i].items[m] = <<l[g[i].items[m][2]], g[i].items[m][2]>>

Held(g, p) == \E i \in 1 .. Len(g) : \E m \in 1 .. Len(g[i].items) : g[i].items[m] = p

\* ... and leaves none out, as far as it goes.
NoneLeftOut(l, g, T) ==
    g # <<>> => \A i \in Ids \ T : l[i] # Gone =>
                  Held(g, <<l[i], i>>) \/ (EndOf(g) # End /\ Before(EndOf(g), <<l[i], i>>))

WalkFits(l, w, T) == ReadingFits(w) /\ PagesRise(Got(w)) /\ AreRows(l, Got(w), T) /\ NoneLeftOut(l, Got(w), T)

\* A block on screen is the walk's.
ShownFits(w, shown, k) ==
    \A b \in Blocks : shown[b].under = k =>
      /\ Resolved(w, b) /\ shown[b].items = BlockOf(w, b).items
      /\ shown[b].done <=> BlockOf(w, b).next = End

GridTyped ==
    /\ ListOfRows /\ walk \in 1 .. MaxWalks /\ walks \in [1 .. MaxWalks -> WalkSet]
    /\ touched \in SUBSET Ids
    /\ grid \in [Blocks -> ShownSet] /\ \A b \in Blocks : grid[b].under <= walk
    /\ \A w \in 1 .. MaxWalks : w > walk => walks[w] = Unread

GridInv == GridTyped /\ WalkFits(list, walks[walk], touched) /\ ShownFits(walks[walk], grid, walk)

LEMMA ReadingIs ==
  ASSUME NEW r \in Readings
  PROVE  /\ Len(r) > 0 => r[1] \in Cursors
         /\ Len(r) = 2 => r[2] \in PageSet
BY Zenon DEF Readings

LEMMA NoReading == <<>> \in Readings /\ Len(<<>>) = 0
BY DEF Readings

LEMMA UnreadIs ==
  /\ Unread \in WalkSet /\ Unread.pages = <<>> /\ Unread.reading = <<>> /\ Unread.wants = {} /\ Got(Unread) = <<>>
  /\ \A l, T : WalkFits(l, Unread, T)
<1>1. Unread \in WalkSet /\ Unread.pages = <<>> /\ Unread.reading = <<>> /\ Unread.wants = {}
  BY DEF Unread, WalkSet, Readings
<1>2. Len(Unread.reading) = 0
  BY <1>1
<1>3. Got(Unread) = <<>>
  BY <1>1, <1>2 DEF Got
<1>4. ReadingFits(Unread)
  BY <1>2 DEF ReadingFits
<1>5. PICK g : g = <<>>
  OBVIOUS
<1>6. PagesRise(g) /\ \A l, T : AreRows(l, g, T) /\ NoneLeftOut(l, g, T)
  BY <1>5 DEF PagesRise, AreRows, NoneLeftOut
<1> QED
  BY <1>1, <1>3, <1>4, <1>5, <1>6 DEF WalkFits

LEMMA PursueIs ==
  ASSUME NEW w \in WalkSet
  PROVE  /\ Pursue(w) \in WalkSet /\ Pursue(w).pages = w.pages /\ Pursue(w).wants = w.wants
         /\ \/ Pursue(w).reading = w.reading
            \/ w.reading = <<>> /\ EndOf(w.pages) # End /\ Pursue(w).reading = <<EndOf(w.pages)>>
<1>1. PICK r : r = <<EndOf(w.pages)>>
  OBVIOUS
<1>2. Pursue(w) = IF w.reading = <<>> /\ \E b \in w.wants : ~Resolved(w, b) THEN [w EXCEPT !.reading = r] ELSE w
  <2>1. EndOf(w.pages) = IF w.pages = <<>> THEN Start ELSE Last(w.pages).next
    BY DEF EndOf, Last
  <2> QED
    BY <1>1, <2>1, Zenon DEF Pursue
<1>3. EndOf(w.pages) \in Cursors
  <2>1. w.pages \in Seq(PageSet)
    BY DEF WalkSet
  <2>2. CASE w.pages = <<>>
    BY <2>2 DEF EndOf, Start, Cursors, Pairs
  <2>3. CASE w.pages # <<>>
    <3>1. w.pages[Len(w.pages)] \in PageSet
      BY <2>1, <2>3
    <3> QED
      BY <2>3, <3>1 DEF EndOf, PageSet
  <2> QED
    BY <2>2, <2>3
<1>4. r \in Readings
  BY <1>1, <1>3 DEF Readings
<1>5. CASE w.reading = <<>> /\ \E b \in w.wants : ~Resolved(w, b)
  <2>1. ~Ended(w)
    BY <1>5 DEF Resolved
  <2>2. EndOf(w.pages) # End
    BY <2>1 DEF Ended, EndOf, Last, Start, End
  <2>3. Pursue(w) = [w EXCEPT !.reading = r]
    BY <1>2, <1>5
  <2>4. Pursue(w) \in WalkSet /\ Pursue(w).pages = w.pages /\ Pursue(w).wants = w.wants /\ Pursue(w).reading = r
    BY <1>4, <2>3 DEF WalkSet
  <2> QED
    BY <1>1, <1>5, <2>2, <2>4
<1>6. CASE ~(w.reading = <<>> /\ \E b \in w.wants : ~Resolved(w, b))
  BY <1>2, <1>6
<1> QED
  BY <1>5, <1>6

\* What is asked for makes no difference to what was answered.
LEMMA SameSeen ==
  ASSUME NEW w, NEW x, NEW l, NEW T, NEW shown, NEW k,
         x.pages = w.pages, Got(x) = Got(w), ReadingFits(x),
         WalkFits(l, w, T), ShownFits(w, shown, k)
  PROVE  WalkFits(l, x, T) /\ ShownFits(x, shown, k)
<1>1. WalkFits(l, x, T)
  BY DEF WalkFits
<1>2. \A b : (Resolved(x, b) <=> Resolved(w, b)) /\ BlockOf(x, b) = BlockOf(w, b)
  BY DEF Resolved, BlockOf, Ended
<1> QED
  BY <1>1, <1>2, Zenon DEF ShownFits

LEMMA PursuedSeen ==
  ASSUME NEW w \in WalkSet, NEW l, NEW T, NEW shown, NEW k, WalkFits(l, w, T), ShownFits(w, shown, k)
  PROVE  WalkFits(l, Pursue(w), T) /\ ShownFits(Pursue(w), shown, k)
<1>1. PICK x : x = Pursue(w)
  OBVIOUS
<1>2. /\ x \in WalkSet /\ x.pages = w.pages
      /\ x.reading = w.reading \/ (w.reading = <<>> /\ EndOf(w.pages) # End /\ x.reading = <<EndOf(w.pages)>>)
  BY <1>1, PursueIs
<1>3. CASE x.reading = w.reading
  <2>1. Got(x) = Got(w) /\ ReadingFits(x)
    BY <1>2, <1>3 DEF Got, ReadingFits, WalkFits
  <2> QED
    BY <1>1, <1>2, <2>1, SameSeen
<1>4. CASE w.reading = <<>> /\ EndOf(w.pages) # End /\ x.reading = <<EndOf(w.pages)>>
  <2>1. Len(w.reading) = 0 /\ Len(x.reading) = 1 /\ x.reading[1] = EndOf(w.pages)
    BY <1>4
  <2>2. Got(x) = Got(w) /\ ReadingFits(x)
    BY <1>2, <1>4, <2>1 DEF Got, ReadingFits
  <2> QED
    BY <1>1, <1>2, <2>2, SameSeen
<1> QED
  BY <1>2, <1>3, <1>4

---------------------------------------------------------------------------
(* One page more. *)

LEMMA AppendFits ==
  ASSUME ListOfRows, NEW g \in Seq(PageSet), NEW page, PageFits(page, EndOf(g)), EndOf(g) # End,
         NEW T, NEW U, PagesRise(g), AreRows(list, g, U), NoneLeftOut(list, g, U), g # <<>> => T = U
  PROVE  /\ PagesRise(Append(g, page)) /\ AreRows(list, Append(g, page), T)
         /\ NoneLeftOut(list, Append(g, page), T)
<1>1. PICK h : h = Append(g, page)
  OBVIOUS
<1>2. PICK n \in Nat : n = Len(g)
  OBVIOUS
<1>3. Len(h) = n + 1 /\ h[n + 1] = page /\ \A i \in 1 .. n : h[i] = g[i]
  BY <1>1, <1>2
<1>4. PICK a : a = EndOf(g)
  OBVIOUS
<1>5. \A i \in 1 .. n : g[i] \in PageSet /\ g[i].items \in Seq(Pairs) /\ g[i].next \in Cursors
  BY <1>2 DEF PageSet
<1>6. /\ page \in PageSet /\ page.items \in Seq(Pairs) /\ page.next \in Cursors
      /\ \A m \in 1 .. Len(page.items) : page.items[m] \in Listed /\ Before(a, page.items[m])
      /\ \A x, y \in 1 .. Len(page.items) : x < y => Before(page.items[x], page.items[y])
      /\ page.next # End => Len(page.items) > 0 /\ page.next = page.items[Len(page.items)]
      /\ \A p \in Listed : Before(a, p) => \/ \E m \in 1 .. Len(page.items) : page.items[m] = p
                                           \/ page.next # End /\ Before(page.next, p)
  BY <1>4 DEF PageFits, PageSet
<1>7. n > 0 => a = g[n].next
  BY <1>2, <1>4 DEF EndOf
<1>8. a \in Pairs
  <2>1. CASE g = <<>>
    <3>1. a = <<0, 0>>
      BY <1>4, <2>1, Zenon DEF EndOf, Start
    <3> QED
      BY <3>1 DEF Pairs
  <2>2. CASE g # <<>>
    <3>1. n > 0
      BY <1>2, <2>2
    <3>2. a \in Cursors
      BY <1>5, <1>7, <3>1
    <3> QED
      BY <1>4, <3>2 DEF Cursors
  <2> QED
    BY <1>2, <2>1, <2>2
<1>9. \A i \in 1 .. n + 1 : i \in 1 .. n \/ i = n + 1
  BY <1>2
\* All that was read so far is behind the cursor.
<1>10. ASSUME NEW i \in 1 .. n, NEW m \in 1 .. Len(g[i].items)
       PROVE  g[i].items[m] \in Pairs /\ (g[i].items[m] = a \/ Before(g[i].items[m], a))
  <2>1. PICK last \in Nat : last = Len(g[n].items) /\ last > 0 /\ a = g[n].items[last]
    <3>1. g[n].next # End => Len(g[n].items) > 0 /\ g[n].next = g[n].items[Len(g[n].items)]
      BY <1>2 DEF PagesRise
    <3>2. g[n].next # End /\ a = g[n].next
      BY <1>4, <1>7
    <3>3. Len(g[n].items) \in Nat
      BY <1>5
    <3> QED
      BY <3>1, <3>2, <3>3, Zenon
  <2>2. g[i].items[m] \in Pairs
    BY <1>5
  <2>3. CASE i = n
    <3>1. m \in Nat /\ (m < last \/ m = last)
      BY <1>5, <2>1, <2>3
    <3>2. m < last => Before(g[n].items[m], g[n].items[last])
      BY <1>2, <2>1, <2>3 DEF PagesRise
    <3> QED
      BY <2>1, <2>2, <2>3, <3>1, <3>2
  <2>4. CASE i < n
    <3>1. n \in 1 .. Len(g) /\ i \in 1 .. Len(g) /\ last \in 1 .. Len(g[n].items)
      BY <1>2, <2>1, <2>4
    <3>2. Before(g[i].items[m], g[n].items[last])
      BY <2>4, <3>1 DEF PagesRise
    <3> QED
      BY <2>1, <2>2, <3>2
  <2> QED
    BY <2>3, <2>4
<1>11. \A m \in 1 .. Len(page.items) : page.items[m] \in Pairs
  BY <1>6
<1>12. ASSUME NEW i \in 1 .. n, NEW x \in 1 .. Len(g[i].items), NEW y \in 1 .. Len(page.items)
       PROVE  Before(g[i].items[x], page.items[y])
  <2>1. g[i].items[x] \in Pairs /\ (g[i].items[x] = a \/ Before(g[i].items[x], a))
    BY <1>10
  <2>2. page.items[y] \in Pairs /\ Before(a, page.items[y])
    BY <1>6, <1>11
  <2> QED
    BY <1>8, <2>1, <2>2, BeforeIs
<1>13. PagesRise(h)
  <2>1. ASSUME NEW i \in 1 .. Len(h)
        PROVE  /\ \A x, y \in 1 .. Len(h[i].items) : x < y => Before(h[i].items[x], h[i].items[y])
               /\ h[i].next # End => Len(h[i].items) > 0 /\ h[i].next = h[i].items[Len(h[i].items)]
               /\ i < Len(h) => h[i].next # End
    <3>1. CASE i = n + 1
      BY <1>3, <1>6, <3>1
    <3>2. CASE i \in 1 .. n
      <4>1. h[i] = g[i] /\ i \in 1 .. Len(g)
        BY <1>2, <1>3, <3>2
      <4>2. h[i].next # End
        <5>1. i < n => g[i].next # End
          BY <1>2, <4>1 DEF PagesRise
        <5>2. i = n => g[i].next # End
          BY <1>4, <1>7, <3>2
        <5> QED
          BY <3>2, <4>1, <5>1, <5>2
      <4> QED
        BY <4>1, <4>2 DEF PagesRise
    <3> QED
      BY <1>3, <1>9, <3>1, <3>2
  <2>2. ASSUME NEW i \in 1 .. Len(h), NEW j \in 1 .. Len(h), i < j,
               NEW x \in 1 .. Len(h[i].items), NEW y \in 1 .. Len(h[j].items)
        PROVE  Before(h[i].items[x], h[j].items[y])
    <3>1. i \in 1 .. n /\ h[i] = g[i]
      BY <1>3, <2>2
    <3>2. CASE j = n + 1
      BY <1>3, <1>12, <3>1, <3>2
    <3>3. CASE j \in 1 .. n
      <4>1. h[j] = g[j] /\ i \in 1 .. Len(g) /\ j \in 1 .. Len(g)
        BY <1>2, <1>3, <3>1, <3>3
      <4> QED
        BY <2>2, <3>1, <4>1 DEF PagesRise
    <3> QED
      BY <1>3, <1>9, <3>2, <3>3
  <2> QED
    BY <2>1, <2>2 DEF PagesRise
<1>14. AreRows(list, h, T)
  <2>1. SUFFICES ASSUME NEW i \in 1 .. Len(h), NEW m \in 1 .. Len(h[i].items), h[i].items[m][2] \in Ids \ T
                 PROVE  /\ list[h[i].items[m][2]] # Gone
                        /\ h[i].items[m] = <<list[h[i].items[m][2]], h[i].items[m][2]>>
    BY DEF AreRows
  <2>2. CASE i = n + 1
    <3>1. h[i].items[m] \in Listed
      BY <1>3, <1>6, <2>2
    <3> QED
      BY <3>1, ListedIs
  <2>3. CASE i \in 1 .. n
    <3>1. h[i] = g[i] /\ i \in 1 .. Len(g) /\ T = U
      BY <1>2, <1>3, <2>3
    <3> QED
      BY <2>1, <3>1 DEF AreRows
  <2> QED
    BY <1>3, <1>9, <2>2, <2>3
<1>15. NoneLeftOut(list, h, T)
  <2>1. EndOf(h) = page.next
    BY <1>2, <1>3 DEF EndOf
  <2>2. ASSUME NEW i \in Ids \ T, list[i] # Gone
        PROVE  Held(h, <<list[i], i>>) \/ (page.next # End /\ Before(page.next, <<list[i], i>>))
    <3>1. PICK p : p = <<list[i], i>>
      OBVIOUS
    <3>2. p \in Listed
      BY <2>2, <3>1 DEF Listed
    <3>3. Held(g, p) \/ Before(a, p)
      <4>1. CASE g = <<>>
        BY <1>4, <3>2, <4>1, ListedIs DEF EndOf
      <4>2. CASE g # <<>>
        BY <1>4, <2>2, <3>1, <4>2 DEF NoneLeftOut
      <4> QED
        BY <4>1, <4>2
    <3>4. CASE Held(g, p)
      <4>1. PICK k \in 1 .. n : \E m \in 1 .. Len(g[k].items) : g[k].items[m] = p
        BY <1>2, <3>4 DEF Held
      <4>2. k \in 1 .. Len(h) /\ h[k] = g[k]
        BY <1>3, <4>1
      <4>3. Held(h, p)
        BY <4>1, <4>2 DEF Held
      <4> QED
        BY <3>1, <4>3
    <3>5. CASE Before(a, p)
      <4>1. (\E m \in 1 .. Len(page.items) : page.items[m] = p) \/ (page.next # End /\ Before(page.next, p))
        BY <1>6, <3>2, <3>5
      <4>2. CASE \E m \in 1 .. Len(page.items) : page.items[m] = p
        <5>1. n + 1 \in 1 .. Len(h) /\ h[n + 1] = page
          BY <1>3
        <5>2. Held(h, p)
          BY <4>2, <5>1 DEF Held
        <5> QED
          BY <3>1, <5>2
      <4> QED
        BY <3>1, <4>1, <4>2
    <3> QED
      BY <3>3, <3>4, <3>5
  <2> QED
    BY <2>1, <2>2 DEF NoneLeftOut
<1> QED
  BY <1>1, <1>13, <1>14, <1>15

---------------------------------------------------------------------------
(* Every action keeps the walk and the screen together. *)

\* A walk that is still followed up, current or not, is none of the later ones.
LEMMA WalkMoves ==
  ASSUME GridInv, NEW w \in 1 .. MaxWalks, w <= walk, NEW x \in WalkSet, walks' = [walks EXCEPT ![w] = x],
         list' = list, walk' = walk, touched' \in SUBSET Ids,
         grid' \in [Blocks -> ShownSet], \A b \in Blocks : grid'[b].under <= walk,
         w = walk => WalkFits(list, x, touched') /\ ShownFits(x, grid', walk),
         w # walk => touched' = touched /\ grid' = grid
  PROVE  GridInv'
<1>1. walk \in 1 .. MaxWalks /\ walks \in [1 .. MaxWalks -> WalkSet] /\ MaxWalks \in Nat
  BY GridAssumption DEF GridInv, GridTyped
<1>2. walks' \in [1 .. MaxWalks -> WalkSet] /\ \A v \in 1 .. MaxWalks : walks'[v] = IF v = w THEN x ELSE walks[v]
  BY <1>1
<1>3. \A v \in 1 .. MaxWalks : v > walk => walks'[v] = Unread
  BY <1>1, <1>2 DEF GridInv, GridTyped
<1>4. GridTyped'
  <2>1. ListOfRows'
    BY DEF GridInv, GridTyped, ListOfRows
  <2> QED
    BY <1>1, <1>2, <1>3, <2>1 DEF GridTyped
<1>5. WalkFits(list', walks'[walk'], touched') /\ ShownFits(walks'[walk'], grid', walk')
  <2>1. CASE w = walk
    <3>1. walks'[walk'] = x
      BY <1>1, <1>2, <2>1
    <3> QED
      BY <2>1, <3>1, Zenon
  <2>2. CASE w # walk
    <3>1. walks'[walk'] = walks[walk]
      BY <1>1, <1>2, <2>2
    <3> QED
      BY <2>2, <3>1, Zenon DEF GridInv
  <2> QED
    BY <2>1, <2>2
<1> QED
  BY <1>4, <1>5, Zenon DEF GridInv

\* Only a walk that has begun has anything to read or to deliver.
LEMMA WalkBegun ==
  ASSUME GridInv, NEW w \in 1 .. MaxWalks
  PROVE  /\ walks[w] \in WalkSet
         /\ walks[w].reading \in Readings /\ walks[w].pages \in Seq(PageSet) /\ walks[w].wants \in SUBSET Blocks
         /\ Len(walks[w].reading) > 0 \/ walks[w].wants # {} => w <= walk
<1>1. walks[w] \in WalkSet
  BY DEF GridInv, GridTyped
<1>2. walks[w].reading \in Readings /\ walks[w].pages \in Seq(PageSet) /\ walks[w].wants \in SUBSET Blocks
  BY <1>1 DEF WalkSet
<1>3. ASSUME Len(walks[w].reading) > 0 \/ walks[w].wants # {}
      PROVE  w <= walk
  <2>1. walks[w] # Unread
    <3>1. Len(Unread.reading) = 0 /\ Unread.wants = {}
      BY UnreadIs
    <3> QED
      BY <1>3, <3>1
  <2>2. walk \in Int /\ w \in Int /\ ~(w > walk)
    BY <2>1, GridAssumption DEF GridInv, GridTyped
  <2> QED
    BY <2>2
<1> QED
  BY <1>1, <1>2, <1>3

LEMMA KeptIs ==
  ASSUME NEW w, NEW x \in WalkSet
  PROVE  Kept(w, x) \in WalkSet /\ (w = walk => Kept(w, x) = x)
BY UnreadIs DEF Kept

LEMMA NowFits ==
  ASSUME GridInv
  PROVE  /\ walk \in 1 .. MaxWalks /\ touched \in SUBSET Ids /\ ListOfRows
         /\ grid \in [Blocks -> ShownSet] /\ \A b \in Blocks : grid[b].under <= walk
         /\ WalkFits(list, walks[walk], touched) /\ ShownFits(walks[walk], grid, walk)
BY DEF GridInv, GridTyped

LEMMA AskKeeps ==
  ASSUME GridInv, NEW b \in Blocks, Ask(b)
  PROVE  GridInv'
<1>1. PICK w : w = walks[walk]
  OBVIOUS
<1>2. walk \in 1 .. MaxWalks /\ w \in WalkSet /\ walk <= walk
  BY <1>1, WalkBegun, NowFits
<1>3. PICK y : y = [w EXCEPT !.wants = {b}]
  OBVIOUS
<1>4. y \in WalkSet /\ y.pages = w.pages /\ y.reading = w.reading
  BY <1>2, <1>3 DEF WalkSet
<1>5. WalkFits(list, y, touched) /\ ShownFits(y, grid, walk)
  <2>1. Got(y) = Got(w) /\ ReadingFits(y)
    BY <1>1, <1>4, NowFits DEF Got, ReadingFits, WalkFits
  <2> QED
    BY <1>1, <1>4, <2>1, NowFits, SameSeen
<1>6. PICK x : x = Pursue(y)
  OBVIOUS
<1>7. x \in WalkSet /\ WalkFits(list, x, touched) /\ ShownFits(x, grid, walk)
  BY <1>4, <1>5, <1>6, PursueIs, PursuedSeen
<1>8. walks' = [walks EXCEPT ![walk] = x]
  <2>1. walks' = [walks EXCEPT ![walk] = Pursue([walks[walk] EXCEPT !.wants = {b}])]
    BY DEF Ask
  <2> QED
    BY <1>1, <1>3, <1>6, <2>1, Zenon
<1>9. list' = list /\ walk' = walk /\ touched' = touched /\ grid' = grid
  BY DEF Ask
<1>10. touched' \in SUBSET Ids /\ grid' \in [Blocks -> ShownSet] /\ \A c \in Blocks : grid'[c].under <= walk
  BY <1>9, NowFits
<1>11. WalkFits(list, x, touched') /\ ShownFits(x, grid', walk)
  BY <1>7, <1>9, Zenon
<1> QED
  BY <1>2, <1>7, <1>8, <1>9, <1>10, <1>11, WalkMoves

LEMMA MissKeeps ==
  ASSUME GridInv, NEW w \in 1 .. MaxWalks, Miss(w)
  PROVE  GridInv'
<1>1. PICK v : v = walks[w]
  OBVIOUS
<1>2. v \in WalkSet /\ v.reading \in Readings /\ Len(v.reading) = 1 /\ w <= walk
  <2>1. Len(walks[w].reading) = 1
    BY Zenon DEF Miss
  <2>2. walks[w] \in WalkSet /\ walks[w].reading \in Readings /\ (Len(walks[w].reading) > 0 => w <= walk)
    BY WalkBegun
  <2>3. v \in WalkSet /\ v.reading \in Readings /\ Len(v.reading) = 1 /\ (Len(v.reading) > 0 => w <= walk)
    BY <1>1, <2>1, <2>2, Zenon
  <2> QED
    BY <2>3
<1>3. PICK y : y = [v EXCEPT !.reading = <<>>, !.wants = {}]
  OBVIOUS
<1>4. y \in WalkSet /\ y.pages = v.pages /\ y.reading = <<>> /\ Len(y.reading) = 0
  <2>1. PICK r \in Readings : r = <<>> /\ Len(r) = 0
    BY NoReading, Zenon
  <2>2. PICK none \in SUBSET Blocks : none = {}
    OBVIOUS
  <2>3. y = [v EXCEPT !.reading = r, !.wants = none]
    BY <1>3, <2>1, <2>2, Zenon
  <2>4. y \in WalkSet /\ y.pages = v.pages /\ y.reading = r
    BY <1>2, <2>3 DEF WalkSet
  <2> QED
    BY <2>1, <2>4
<1>5. PICK x : x = Kept(w, y)
  OBVIOUS
<1>6. x \in WalkSet /\ (w = walk => x = y)
  BY <1>4, <1>5, KeptIs
<1>7. walks' = [walks EXCEPT ![w] = x]
  <2>1. walks' = [walks EXCEPT ![w] = Kept(w, [walks[w] EXCEPT !.reading = <<>>, !.wants = {}])]
    BY DEF Miss
  <2> QED
    BY <1>1, <1>3, <1>5, <2>1, Zenon
<1>8. list' = list /\ walk' = walk /\ touched' = touched /\ grid' = grid
  BY DEF Miss
<1>9. w = walk => WalkFits(list, x, touched) /\ ShownFits(x, grid, walk)
  <2>1. SUFFICES ASSUME w = walk PROVE WalkFits(list, y, touched) /\ ShownFits(y, grid, walk)
    BY <1>6
  <2>2. Got(y) = Got(v) /\ ReadingFits(y)
    BY <1>2, <1>4 DEF Got, ReadingFits
  <2> QED
    BY <1>1, <1>4, <2>1, <2>2, NowFits, SameSeen
<1>10. touched' \in SUBSET Ids /\ grid' \in [Blocks -> ShownSet] /\ \A c \in Blocks : grid'[c].under <= walk
  BY <1>8, NowFits
<1>11. w = walk => WalkFits(list, x, touched') /\ ShownFits(x, grid', walk)
  BY <1>8, <1>9, Zenon
<1> QED
  BY <1>2, <1>6, <1>7, <1>8, <1>10, <1>11, WalkMoves

\* The server's answer is the page behind the cursor; what changed before the first one is forgotten.
LEMMA ServeKeeps ==
  ASSUME GridInv, NEW w \in 1 .. MaxWalks, Serve(w)
  PROVE  GridInv'
<1>1. PICK v : v = walks[w]
  OBVIOUS
<1>2. v \in WalkSet /\ v.reading \in Readings /\ v.pages \in Seq(PageSet) /\ Len(v.reading) = 1 /\ w <= walk
  <2>1. Len(walks[w].reading) = 1
    BY Zenon DEF Serve
  <2>2. /\ walks[w] \in WalkSet /\ walks[w].reading \in Readings /\ walks[w].pages \in Seq(PageSet)
        /\ (Len(walks[w].reading) > 0 => w <= walk)
    BY WalkBegun
  <2>3. /\ v \in WalkSet /\ v.reading \in Readings /\ v.pages \in Seq(PageSet)
        /\ Len(v.reading) = 1 /\ (Len(v.reading) > 0 => w <= walk)
    BY <1>1, <2>1, <2>2, Zenon
  <2> QED
    BY <2>3
<1>3. PICK a \in Cursors : a = v.reading[1]
  BY <1>2, ReadingIs
<1>4. PICK page : page = PageAfter(a)
  OBVIOUS
<1>5. PageFits(page, a) /\ page \in PageSet
  <2>1. PageFits(page, a)
    BY <1>4, NowFits, PageAfterIs
  <2> QED
    BY <2>1 DEF PageFits
<1>6. PICK r : r = Append(v.reading, page)
  OBVIOUS
<1>7. r \in Readings /\ Len(r) = 2 /\ r[1] = a /\ r[2] = page
  <2>1. v.reading \in Seq(Cursors \cup PageSet) /\ Len(v.reading) = 1
    BY <1>2 DEF Readings
  <2>2. page \in Cursors \cup PageSet
    BY <1>5
  <2>3. r \in Seq(Cursors \cup PageSet) /\ Len(r) = 2 /\ r[1] = a /\ r[2] = page
    BY <1>3, <1>6, <2>1, <2>2
  <2>4. r[1] \in Cursors /\ r[2] \in PageSet
    BY <1>3, <1>5, <2>3, Zenon
  <2>5. Len(r) <= 2
    BY <2>3
  <2>6. r \in Readings
    BY <2>3, <2>4, <2>5, Zenon DEF Readings
  <2> QED
    BY <2>3, <2>6
<1>8. PICK x : x = [v EXCEPT !.reading = r]
  OBVIOUS
<1>9. x \in WalkSet /\ x.pages = v.pages /\ x.reading = r
  BY <1>2, <1>7, <1>8 DEF WalkSet
<1>10. walks' = [walks EXCEPT ![w] = x]
  <2>1. walks' = [walks EXCEPT ![w] = [walks[w] EXCEPT !.reading = Append(v.reading, PageAfter(v.reading[1]))]]
    BY <1>1 DEF Serve
  <2>2. Append(v.reading, PageAfter(v.reading[1])) = r
    BY <1>3, <1>4, <1>6, Zenon
  <2> QED
    BY <1>1, <1>8, <2>1, <2>2, Zenon
<1>11. /\ list' = list /\ walk' = walk /\ grid' = grid
       /\ touched' = IF w = walk /\ v.pages = <<>> THEN {} ELSE touched
  BY <1>1, Zenon DEF Serve
<1>12. w = walk => WalkFits(list, x, touched') /\ ShownFits(x, grid, walk)
  <2>1. SUFFICES ASSUME w = walk PROVE WalkFits(list, x, touched') /\ ShownFits(x, grid, walk)
    OBVIOUS
  <2>2. WalkFits(list, v, touched) /\ ShownFits(v, grid, walk) /\ ListOfRows
    BY <1>1, <2>1, NowFits, Zenon
  <2>3. Got(v) = v.pages /\ a = EndOf(v.pages) /\ EndOf(v.pages) # End
    BY <1>2, <1>3, <2>2 DEF WalkFits, ReadingFits, Got
  <2>4. PICK g \in Seq(PageSet) : g = v.pages
    BY <1>2
  <2>5. PagesRise(g) /\ AreRows(list, g, touched) /\ NoneLeftOut(list, g, touched) /\ a = EndOf(g) /\ EndOf(g) # End
    BY <2>2, <2>3, <2>4 DEF WalkFits
  <2>6. g # <<>> => touched' = touched
    BY <1>11, <2>4
  <2>7. PICK T : T = touched'
    OBVIOUS
  <2>8. PICK U : U = touched
    OBVIOUS
  <2>9. PageFits(page, EndOf(g)) /\ (g # <<>> => T = U) /\ AreRows(list, g, U) /\ NoneLeftOut(list, g, U)
    BY <1>5, <2>5, <2>6, <2>7, <2>8, Zenon
  <2>10. /\ PagesRise(Append(g, page)) /\ AreRows(list, Append(g, page), T)
         /\ NoneLeftOut(list, Append(g, page), T)
    BY <2>2, <2>5, <2>9, AppendFits
  <2>11. Got(x) = Append(g, page)
    BY <1>7, <1>9, <2>4 DEF Got
  <2>12. ReadingFits(x)
    BY <1>7, <1>9, <2>3 DEF ReadingFits
  <2>13. WalkFits(list, x, touched')
    BY <2>7, <2>10, <2>11, <2>12, Zenon DEF WalkFits
  <2>14. \A b : (Resolved(x, b) <=> Resolved(v, b)) /\ BlockOf(x, b) = BlockOf(v, b)
    BY <1>9 DEF Resolved, BlockOf, Ended
  <2> QED
    BY <2>2, <2>13, <2>14, Zenon DEF ShownFits
<1>13. touched' \in SUBSET Ids /\ grid' \in [Blocks -> ShownSet] /\ \A c \in Blocks : grid'[c].under <= walk
  BY <1>11, NowFits
<1>14. w = walk => WalkFits(list, x, touched') /\ ShownFits(x, grid', walk)
  BY <1>11, <1>12, Zenon
<1>15. w # walk => touched' = touched /\ grid' = grid
  BY <1>11
<1> QED
  BY <1>2, <1>9, <1>10, <1>11, <1>13, <1>14, <1>15, WalkMoves

\* A page that lands was answered before: nothing new is known. While one is on its way the walk has
\* not ended, so every block on screen is of a page before it.
LEMMA LandKeeps ==
  ASSUME GridInv, NEW w \in 1 .. MaxWalks, Land(w)
  PROVE  GridInv'
<1>1. PICK v : v = walks[w]
  OBVIOUS
<1>2. v \in WalkSet /\ v.reading \in Readings /\ v.pages \in Seq(PageSet) /\ Len(v.reading) = 2 /\ w <= walk
  <2>1. Len(walks[w].reading) = 2
    BY Zenon DEF Land
  <2>2. /\ walks[w] \in WalkSet /\ walks[w].reading \in Readings /\ walks[w].pages \in Seq(PageSet)
        /\ (Len(walks[w].reading) > 0 => w <= walk)
    BY WalkBegun
  <2>3. /\ v \in WalkSet /\ v.reading \in Readings /\ v.pages \in Seq(PageSet)
        /\ Len(v.reading) = 2 /\ (Len(v.reading) > 0 => w <= walk)
    BY <1>1, <2>1, <2>2, Zenon
  <2> QED
    BY <2>3
<1>3. PICK page \in PageSet : page = v.reading[2]
  BY <1>2, ReadingIs
<1>4. PICK g : g = Append(v.pages, page)
  OBVIOUS
<1>5. g \in Seq(PageSet) /\ Got(v) = g
  BY <1>2, <1>3, <1>4 DEF Got
<1>6. PICK r \in Readings : r = <<>> /\ Len(r) = 0
  BY NoReading, Zenon
<1>7. PICK y : y = [v EXCEPT !.pages = g, !.reading = r]
  OBVIOUS
<1>8. y \in WalkSet /\ y.pages = g /\ y.reading = r
  BY <1>2, <1>5, <1>7 DEF WalkSet
<1>9. PICK x : x = Pursue(y)
  OBVIOUS
<1>10. walks' = [walks EXCEPT ![w] = x]
  <2>1. walks' = [walks EXCEPT ![w] = Pursue([walks[w] EXCEPT !.pages = Append(walks[w].pages, walks[w].reading[2]),
                                                              !.reading = <<>>])]
    BY DEF Land
  <2> QED
    BY <1>1, <1>3, <1>4, <1>6, <1>7, <1>9, <2>1, Zenon
<1>11. list' = list /\ walk' = walk /\ touched' = touched /\ grid' = grid
  BY DEF Land
<1>12. w = walk => WalkFits(list, x, touched) /\ ShownFits(x, grid, walk)
  <2>1. SUFFICES ASSUME w = walk PROVE WalkFits(list, x, touched) /\ ShownFits(x, grid, walk)
    OBVIOUS
  <2>2. WalkFits(list, v, touched) /\ ShownFits(v, grid, walk)
    BY <1>1, <2>1, NowFits, Zenon
  <2>3. Got(y) = g /\ ReadingFits(y)
    BY <1>6, <1>8 DEF Got, ReadingFits
  <2>4. WalkFits(list, y, touched)
    BY <1>5, <2>2, <2>3, Zenon DEF WalkFits
  <2>5. ~Ended(v)
    <3>1. EndOf(v.pages) # End
      BY <1>2, <2>2 DEF WalkFits, ReadingFits
    <3> QED
      BY <3>1 DEF EndOf, Ended, Last
  <2>6. ASSUME NEW b \in Blocks, grid[b].under = walk
        PROVE  Resolved(y, b) /\ grid[b].items = BlockOf(y, b).items /\ (grid[b].done <=> BlockOf(y, b).next = End)
    <3>1. Resolved(v, b) /\ grid[b].items = BlockOf(v, b).items /\ (grid[b].done <=> BlockOf(v, b).next = End)
      BY <2>2, <2>6 DEF ShownFits
    <3>2. b < Len(v.pages) /\ b \in Nat
      BY <2>5, <3>1, GridAssumption DEF Resolved
    <3>3. b < Len(g) /\ g[b + 1] = v.pages[b + 1]
      BY <1>2, <1>3, <1>4, <3>2
    <3>4. Resolved(y, b) /\ BlockOf(y, b) = BlockOf(v, b)
      BY <1>8, <3>2, <3>3 DEF Resolved, BlockOf
    <3> QED
      BY <3>1, <3>4
  <2>7. ShownFits(y, grid, walk)
    BY <2>6 DEF ShownFits
  <2> QED
    BY <1>8, <1>9, <2>4, <2>7, PursuedSeen
<1>13. x \in WalkSet
  BY <1>8, <1>9, PursueIs
<1>14. touched' \in SUBSET Ids /\ grid' \in [Blocks -> ShownSet] /\ \A c \in Blocks : grid'[c].under <= walk
  BY <1>11, NowFits
<1>15. w = walk => WalkFits(list, x, touched') /\ ShownFits(x, grid', walk)
  BY <1>11, <1>12, Zenon
<1> QED
  BY <1>2, <1>10, <1>11, <1>13, <1>14, <1>15, WalkMoves

LEMMA DeliverKeeps ==
  ASSUME GridInv, NEW w \in 1 .. MaxWalks, Deliver(w)
  PROVE  GridInv'
<1>1. PICK v : v = walks[w]
  OBVIOUS
<1>2. PICK b \in walks[w].wants :
         /\ Resolved(v, b)
         /\ walks' = [walks EXCEPT ![w] = Kept(w, [v EXCEPT !.wants = v.wants \ {b}])]
         /\ grid' = IF w # walk THEN grid
                    ELSE [grid EXCEPT ![b] = [under |-> walk, items |-> BlockOf(v, b).items,
                                              done |-> BlockOf(v, b).next = End]]
         /\ list' = list /\ walk' = walk /\ touched' = touched
  <2>1. PICK b \in walks[w].wants :
           /\ Resolved(walks[w], b)
           /\ walks' = [walks EXCEPT ![w] = Kept(w, [walks[w] EXCEPT !.wants = walks[w].wants \ {b}])]
           /\ grid' = IF w # walk THEN grid
                      ELSE [grid EXCEPT ![b] = [under |-> walk, items |-> BlockOf(walks[w], b).items,
                                                done |-> BlockOf(walks[w], b).next = End]]
           /\ list' = list /\ walk' = walk /\ touched' = touched
    BY DEF Deliver
  <2> QED
    BY <1>1, <2>1, Zenon
<1>3. v \in WalkSet /\ v.pages \in Seq(PageSet) /\ b \in Blocks /\ w <= walk
  <2>1. /\ walks[w] \in WalkSet /\ walks[w].pages \in Seq(PageSet) /\ walks[w].wants \in SUBSET Blocks
        /\ (walks[w].wants # {} => w <= walk)
    BY WalkBegun
  <2> QED
    BY <1>1, <1>2, <2>1
<1>4. PICK y : y = [v EXCEPT !.wants = v.wants \ {b}]
  OBVIOUS
<1>5. y \in WalkSet /\ y.pages = v.pages /\ y.reading = v.reading
  BY <1>3, <1>4 DEF WalkSet
<1>6. PICK x : x = Kept(w, y)
  OBVIOUS
<1>7. x \in WalkSet /\ (w = walk => x = y)
  BY <1>5, <1>6, KeptIs
<1>8. walks' = [walks EXCEPT ![w] = x]
  BY <1>2, <1>4, <1>6, Zenon
<1>9. PICK e : e = [under |-> walk, items |-> BlockOf(v, b).items, done |-> BlockOf(v, b).next = End]
  OBVIOUS
<1>10. e \in ShownSet /\ e.under = walk /\ e.items = BlockOf(v, b).items /\ (e.done <=> BlockOf(v, b).next = End)
  <2>1. BlockOf(v, b).items \in Seq(Pairs)
    <3>1. CASE b < Len(v.pages)
      <4>1. b + 1 \in 1 .. Len(v.pages)
        BY <1>3, <3>1, GridAssumption
      <4>2. v.pages[b + 1] \in PageSet
        BY <1>3, <4>1
      <4> QED
        BY <3>1, <4>2 DEF BlockOf, PageSet
    <3>2. CASE ~(b < Len(v.pages))
      BY <3>2 DEF BlockOf
    <3> QED
      BY <3>1, <3>2
  <2>2. walk \in Nat
    BY NowFits
  <2>3. PICK s \in Seq(Pairs) : s = BlockOf(v, b).items
    BY <2>1
  <2>4. PICK d \in BOOLEAN : d = (BlockOf(v, b).next = End)
    BY Zenon
  <2>5. e = [under |-> walk, items |-> s, done |-> d]
    BY <1>9, <2>3, <2>4, Zenon
  <2>6. e \in ShownSet /\ e.under = walk /\ e.items = s /\ e.done = d
    BY <2>2, <2>5 DEF ShownSet
  <2> QED
    BY <2>3, <2>4, <2>6, Zenon
<1>11. grid' = IF w # walk THEN grid ELSE [grid EXCEPT ![b] = e]
  BY <1>2, <1>9, Zenon
<1>12. grid' \in [Blocks -> ShownSet] /\ \A c \in Blocks : grid'[c].under <= walk
  <2>1. grid \in [Blocks -> ShownSet] /\ (\A c \in Blocks : grid[c].under <= walk) /\ walk \in Nat
    BY NowFits
  <2> QED
    BY <1>3, <1>10, <1>11, <2>1
<1>13. w = walk => WalkFits(list, x, touched) /\ ShownFits(x, grid', walk)
  <2>1. SUFFICES ASSUME w = walk PROVE WalkFits(list, y, touched) /\ ShownFits(y, grid', walk)
    BY <1>7
  <2>2. WalkFits(list, v, touched) /\ ShownFits(v, grid, walk)
    BY <1>1, <2>1, NowFits, Zenon
  <2>3. Got(y) = Got(v) /\ ReadingFits(y)
    BY <1>5, <2>2 DEF Got, ReadingFits, WalkFits
  <2>4. WalkFits(list, y, touched) /\ ShownFits(y, grid, walk)
    BY <1>5, <2>2, <2>3, SameSeen
  <2>5. Resolved(y, b) /\ BlockOf(y, b) = BlockOf(v, b)
    BY <1>2, <1>5 DEF Resolved, BlockOf, Ended
  <2>6. ASSUME NEW c \in Blocks, grid'[c].under = walk
        PROVE  Resolved(y, c) /\ grid'[c].items = BlockOf(y, c).items /\ (grid'[c].done <=> BlockOf(y, c).next = End)
    <3>1. grid \in [Blocks -> ShownSet] /\ grid' = [grid EXCEPT ![b] = e]
      BY <1>11, <2>1, NowFits
    <3>2. CASE c = b
      <4>1. grid'[c] = e
        BY <3>1, <3>2
      <4> QED
        BY <1>10, <2>5, <3>2, <4>1, Zenon
    <3>3. CASE c # b
      <4>1. grid'[c] = grid[c]
        BY <3>1, <3>3
      <4> QED
        BY <2>4, <2>6, <4>1, Zenon DEF ShownFits
    <3> QED
      BY <3>2, <3>3
  <2> QED
    BY <2>4, <2>6, Zenon DEF ShownFits
<1>14. touched' \in SUBSET Ids
  BY <1>2, NowFits
<1>15. w = walk => WalkFits(list, x, touched') /\ ShownFits(x, grid', walk)
  BY <1>2, <1>13, Zenon
<1>16. list' = list /\ walk' = walk /\ (w # walk => touched' = touched /\ grid' = grid)
  BY <1>2, <1>11
<1> QED
  BY <1>3, <1>7, <1>8, <1>12, <1>14, <1>15, <1>16, WalkMoves

\* A row that changes is still no more: of the rest everything is as it was.
LEMMA RowChangesKeeps ==
  ASSUME GridInv, NEW i \in Ids, RowChanges(i)
  PROVE  GridInv'
<1>1. PICK key \in Keys \cup {Gone} : list' = [list EXCEPT ![i] = key]
  BY DEF RowChanges
<1>2. touched' = touched \cup {i} /\ walk' = walk /\ walks' = walks /\ grid' = grid
  BY DEF RowChanges
<1>3. ListOfRows'
  BY <1>1, NowFits DEF ListOfRows
<1>4. GridTyped'
  <2>1. touched' \in SUBSET Ids
    BY <1>2, NowFits
  <2> QED
    BY <1>2, <1>3, <2>1 DEF GridInv, GridTyped
<1>5. \A j \in Ids \ touched' : j \in Ids \ touched /\ list'[j] = list[j]
  BY <1>1, <1>2, NowFits DEF ListOfRows
<1>6. PICK g : g = Got(walks[walk])
  OBVIOUS
<1>7. AreRows(list, g, touched) /\ NoneLeftOut(list, g, touched)
  BY <1>6, NowFits, Zenon DEF WalkFits
<1>8. AreRows(list', g, touched')
  <2>1. ASSUME NEW n \in 1 .. Len(g), NEW m \in 1 .. Len(g[n].items), g[n].items[m][2] \in Ids \ touched'
        PROVE  /\ list'[g[n].items[m][2]] # Gone
               /\ g[n].items[m] = <<list'[g[n].items[m][2]], g[n].items[m][2]>>
    <3>1. PICK j : j = g[n].items[m][2]
      OBVIOUS
    <3>2. j \in Ids \ touched /\ list'[j] = list[j]
      BY <1>5, <2>1, <3>1
    <3>3. list[j] # Gone /\ g[n].items[m] = <<list[j], j>>
      BY <1>7, <3>1, <3>2 DEF AreRows
    <3> QED
      BY <3>1, <3>2, <3>3, Zenon
  <2> QED
    BY <2>1, Zenon DEF AreRows
<1>9. NoneLeftOut(list', g, touched')
  BY <1>5, <1>7, Zenon DEF NoneLeftOut
<1>10. WalkFits(list', walks[walk], touched')
  BY <1>6, <1>8, <1>9, NowFits, Zenon DEF WalkFits
<1>11. WalkFits(list', walks'[walk'], touched') /\ ShownFits(walks'[walk'], grid', walk')
  BY <1>2, <1>10, NowFits, Zenon
<1> QED
  BY <1>4, <1>11, Zenon DEF GridInv

\* A refresh: nothing is read yet and nothing of the new walk is on screen.
LEMMA RefreshKeeps ==
  ASSUME GridInv, walk < MaxWalks, walk' = walk + 1, walks' \in {walks, [walks EXCEPT ![walk] = Unread]},
         grid' = NothingShown, list' = list, touched' = touched
  PROVE  GridInv'
<1>1. walk \in 1 .. MaxWalks /\ MaxWalks \in Nat /\ walks \in [1 .. MaxWalks -> WalkSet]
  BY GridAssumption DEF GridInv, GridTyped
<1>2. walk + 1 \in 1 .. MaxWalks /\ walk + 1 > walk
  BY <1>1
<1>3. /\ walks' \in [1 .. MaxWalks -> WalkSet]
      /\ \A w \in 1 .. MaxWalks : w > walk => walks'[w] = Unread
  <2>1. walks \in [1 .. MaxWalks -> WalkSet] /\ \A w \in 1 .. MaxWalks : w > walk => walks[w] = Unread
    BY DEF GridInv, GridTyped
  <2>2. CASE walks' = walks
    BY <2>1, <2>2
  <2>3. CASE walks' = [walks EXCEPT ![walk] = Unread]
    BY <1>1, <2>1, <2>3, UnreadIs
  <2> QED
    BY <2>2, <2>3
<1>4. grid' \in [Blocks -> ShownSet] /\ \A b \in Blocks : grid'[b].under = 0
  BY DEF NothingShown, ShownSet
<1>5. GridTyped'
  <2>1. ListOfRows' /\ touched' \in SUBSET Ids
    BY NowFits DEF ListOfRows
  <2>2. \A b \in Blocks : grid'[b].under <= walk'
    BY <1>1, <1>4
  <2>3. \A w \in 1 .. MaxWalks : w > walk' => walks'[w] = Unread
    BY <1>1, <1>3
  <2> QED
    BY <1>2, <1>3, <1>4, <2>1, <2>2, <2>3 DEF GridTyped
<1>6. walks'[walk'] = Unread
  BY <1>2, <1>3
<1>7. WalkFits(list', walks'[walk'], touched')
  BY <1>6, UnreadIs, Zenon
<1>8. ShownFits(walks'[walk'], grid', walk')
  <2>1. \A b \in Blocks : grid'[b].under # walk'
    BY <1>1, <1>4
  <2> QED
    BY <2>1 DEF ShownFits
<1> QED
  BY <1>5, <1>7, <1>8, Zenon DEF GridInv

LEMMA GridStill ==
  ASSUME GridInv, UNCHANGED gridVars
  PROVE  GridInv'
<1>1. list' = list /\ walk' = walk /\ walks' = walks /\ grid' = grid /\ touched' = touched
  BY DEF gridVars
<1>2. GridTyped'
  BY <1>1 DEF GridInv, GridTyped, ListOfRows
<1>3. WalkFits(list', walks'[walk'], touched') /\ ShownFits(walks'[walk'], grid', walk')
  BY <1>1, NowFits, Zenon
<1> QED
  BY <1>2, <1>3, Zenon DEF GridInv

LEMMA InitGrid == GridInit => GridInv
<1> SUFFICES ASSUME GridInit PROVE GridInv
  OBVIOUS
<1>1. 1 \in 1 .. MaxWalks /\ walk = 1 /\ touched = {} /\ ListOfRows
  BY GridAssumption DEF GridInit, ListOfRows
<1>2. walks \in [1 .. MaxWalks -> WalkSet] /\ \A w \in 1 .. MaxWalks : walks[w] = Unread
  BY UnreadIs DEF GridInit
<1>3. grid \in [Blocks -> ShownSet] /\ \A b \in Blocks : grid[b].under = 0
  BY DEF GridInit, NothingShown, ShownSet
<1>4. GridTyped
  BY <1>1, <1>2, <1>3 DEF GridTyped
<1>5. walks[walk] = Unread
  BY <1>1, <1>2
<1>6. WalkFits(list, walks[walk], touched)
  BY <1>5, UnreadIs, Zenon
<1>7. ShownFits(walks[walk], grid, walk)
  BY <1>1, <1>3 DEF ShownFits
<1> QED
  BY <1>4, <1>6, <1>7 DEF GridInv

LEMMA StepGrid ==
  ASSUME GridInv, [Next]_vars
  PROVE  GridInv'
<1>1. ASSUME NEW i \in Ids, RowChanges(i)
      PROVE  GridInv'
  BY <1>1, RowChangesKeeps
<1>2. ASSUME NEW b \in Blocks, Ask(b)
      PROVE  GridInv'
  BY <1>2, AskKeeps
<1>3. ASSUME NEW w \in 1 .. MaxWalks, Serve(w)
      PROVE  GridInv'
  BY <1>3, ServeKeeps
<1>4. ASSUME NEW w \in 1 .. MaxWalks, Land(w)
      PROVE  GridInv'
  BY <1>4, LandKeeps
<1>5. ASSUME NEW w \in 1 .. MaxWalks, Miss(w)
      PROVE  GridInv'
  BY <1>5, MissKeeps
<1>6. ASSUME NEW w \in 1 .. MaxWalks, Deliver(w)
      PROVE  GridInv'
  BY <1>6, DeliverKeeps
<1>7. CASE Invalidate
  <2>1. /\ walk < MaxWalks /\ walk' = walk + 1 /\ grid' = NothingShown /\ list' = list /\ touched' = touched
        /\ walks' = walks \/ walks' = [walks EXCEPT ![walk] = Unread]
    BY <1>7 DEF Invalidate
  <2>2. walks' \in {walks, [walks EXCEPT ![walk] = Unread]}
    BY <2>1, Zenon
  <2> QED
    BY <2>1, <2>2, RefreshKeeps
<1>8. CASE Reinstall
  <2>1. /\ walk < MaxWalks /\ walk' = walk + 1 /\ grid' = NothingShown /\ list' = list /\ touched' = touched
        /\ walks' = [walks EXCEPT ![walk] = Unread]
    BY <1>8 DEF Reinstall
  <2>2. walks' \in {walks, [walks EXCEPT ![walk] = Unread]}
    BY <2>1, Zenon
  <2> QED
    BY <2>1, <2>2, RefreshKeeps
<1>9. CASE UNCHANGED gridVars
  BY <1>9, GridStill
<1>10. GridNext \/ UNCHANGED gridVars
  BY Zenon DEF Next, vars, Detail, Viewer, Grid, Coverage, Usage, Sidebar, Refresh, Failure
<1> QED
  BY <1>1, <1>2, <1>3, <1>4, <1>5, <1>6, <1>7, <1>8, <1>9, <1>10, Zenon DEF GridNext

---------------------------------------------------------------------------
(* What the grid shows. *)

LEMMA OnScreen ==
  ASSUME GridInv, NEW w, w = walks[walk], NEW g, g = Got(w)
  PROVE  /\ g \in Seq(PageSet) /\ w.pages \in Seq(PageSet) /\ Len(w.pages) <= Len(g)
         /\ \A b \in Current :
              /\ b \in Nat /\ Resolved(w, b) /\ (grid[b].done <=> BlockOf(w, b).next = End)
              /\ \/ b < Len(w.pages) /\ b + 1 \in 1 .. Len(g) /\ g[b + 1] = w.pages[b + 1]
                    /\ BlockOf(w, b) = g[b + 1] /\ grid[b].items = g[b + 1].items
                 \/ b >= Len(w.pages) /\ BlockOf(w, b).next = End /\ grid[b].items = <<>>
<1>1. w \in WalkSet /\ w.reading \in Readings /\ w.pages \in Seq(PageSet)
  BY WalkBegun, NowFits
<1>2. /\ g \in Seq(PageSet) /\ Len(w.pages) <= Len(g)
      /\ \A k \in 1 .. Len(w.pages) : k \in 1 .. Len(g) /\ g[k] = w.pages[k]
  <2>1. CASE Len(w.reading) = 2
    <3>1. PICK page \in PageSet : page = w.reading[2]
      BY <1>1, <2>1, ReadingIs
    <3>2. g = Append(w.pages, page)
      BY <2>1, <3>1 DEF Got
    <3> QED
      BY <1>1, <3>1, <3>2
  <2>2. CASE Len(w.reading) # 2
    <3>1. g = w.pages
      BY <2>2 DEF Got
    <3> QED
      BY <1>1, <3>1
  <2> QED
    BY <2>1, <2>2
<1>3. ASSUME NEW b \in Current
      PROVE  /\ b \in Nat /\ Resolved(w, b) /\ (grid[b].done <=> BlockOf(w, b).next = End)
             /\ \/ b < Len(w.pages) /\ b + 1 \in 1 .. Len(g) /\ g[b + 1] = w.pages[b + 1]
                   /\ BlockOf(w, b) = g[b + 1] /\ grid[b].items = g[b + 1].items
                \/ b >= Len(w.pages) /\ BlockOf(w, b).next = End /\ grid[b].items = <<>>
  <2>1. b \in Blocks /\ grid[b].under = walk /\ b \in Nat
    BY GridAssumption DEF Current
  <2>2. ShownFits(w, grid, walk)
    BY NowFits
  <2>3. Resolved(w, b) /\ grid[b].items = BlockOf(w, b).items /\ (grid[b].done <=> BlockOf(w, b).next = End)
    BY <2>1, <2>2 DEF ShownFits
  <2>4. CASE b < Len(w.pages)
    <3>1. b + 1 \in 1 .. Len(w.pages)
      BY <1>1, <2>1, <2>4
    <3>2. b + 1 \in 1 .. Len(g) /\ g[b + 1] = w.pages[b + 1]
      BY <1>2, <3>1
    <3>3. BlockOf(w, b) = g[b + 1]
      BY <2>4, <3>2 DEF BlockOf
    <3> QED
      BY <2>1, <2>3, <2>4, <3>2, <3>3
  <2>5. CASE ~(b < Len(w.pages))
    <3>1. BlockOf(w, b) = [items |-> <<>>, next |-> End]
      BY <2>5 DEF BlockOf
    <3>2. Len(w.pages) \in Nat
      BY <1>1
    <3> QED
      BY <2>1, <2>3, <2>5, <3>1, <3>2
  <2> QED
    BY <2>4, <2>5
<1> QED
  BY <1>1, <1>2, <1>3

\* Two blocks of the current walk: what they show of the rows that did not change.
LEMMA BlocksApart ==
  ASSUME GridInv, NEW b \in Current, NEW c \in Current, b < c
  PROVE  /\ IdsIn(b) \cap IdsIn(c) \cap (Ids \ touched) = {}
         /\ \A i \in 1 .. Len(grid[b].items), j \in 1 .. Len(grid[c].items) : Before(grid[b].items[i], grid[c].items[j])
<1>1. PICK w : w = walks[walk]
  OBVIOUS
<1>2. PICK g : g = Got(w)
  OBVIOUS
<1>3. PagesRise(g) /\ AreRows(list, g, touched)
  BY <1>1, <1>2, NowFits, Zenon DEF WalkFits
<1>4. b \in Nat /\ c \in Nat /\ g \in Seq(PageSet) /\ Len(w.pages) \in Nat
  BY <1>1, <1>2, OnScreen
<1>5. CASE c < Len(w.pages)
  <2>1. /\ b + 1 \in 1 .. Len(g) /\ grid[b].items = g[b + 1].items
        /\ c + 1 \in 1 .. Len(g) /\ grid[c].items = g[c + 1].items /\ b + 1 < c + 1
    BY <1>1, <1>2, <1>4, <1>5, OnScreen
  <2>2. ASSUME NEW i \in 1 .. Len(grid[b].items), NEW j \in 1 .. Len(grid[c].items)
        PROVE  /\ grid[b].items[i] \in Pairs /\ grid[c].items[j] \in Pairs
               /\ Before(grid[b].items[i], grid[c].items[j])
    <3>1. g[b + 1].items \in Seq(Pairs) /\ g[c + 1].items \in Seq(Pairs)
      BY <1>4, <2>1 DEF PageSet
    <3>2. Before(g[b + 1].items[i], g[c + 1].items[j])
      BY <1>3, <2>1 DEF PagesRise
    <3> QED
      BY <2>1, <3>1, <3>2
  <2>3. ASSUME NEW id \in IdsIn(b) \cap IdsIn(c) \cap (Ids \ touched)
        PROVE  FALSE
    <3>1. PICK i \in 1 .. Len(grid[b].items) : grid[b].items[i][2] = id
      BY DEF IdsIn
    <3>2. PICK j \in 1 .. Len(grid[c].items) : grid[c].items[j][2] = id
      BY DEF IdsIn
    <3>3. grid[b].items[i] = <<list[id], id>>
      BY <1>3, <2>1, <3>1 DEF AreRows
    <3>4. grid[c].items[j] = <<list[id], id>>
      BY <1>3, <2>1, <3>2 DEF AreRows
    <3> QED
      BY <2>2, <3>3, <3>4, BeforeIs
  <2> QED
    BY <2>2, <2>3
<1>6. CASE ~(c < Len(w.pages))
  <2>1. grid[c].items = <<>>
    BY <1>1, <1>2, <1>4, <1>6, OnScreen
  <2>2. Len(grid[c].items) = 0 /\ IdsIn(c) = {}
    BY <2>1 DEF IdsIn
  <2> QED
    BY <2>2
<1> QED
  BY <1>5, <1>6

\* With the last block and all before it on screen the walk has nothing more to read.
LEMMA AllOnScreen ==
  ASSUME GridInv, NEW b \in Current, grid[b].done, 0 .. b \subseteq Current,
         NEW w, w = walks[walk], NEW g, g = Got(w)
  PROVE  /\ g = w.pages /\ g # <<>> /\ EndOf(g) = End
         /\ \A k \in 1 .. Len(g) : k - 1 \in Current
<1>1. /\ g \in Seq(PageSet) /\ w.pages \in Seq(PageSet) /\ Len(w.pages) <= Len(g)
      /\ b \in Nat /\ Resolved(w, b) /\ BlockOf(w, b).next = End
  BY OnScreen
<1>2. PagesRise(g) /\ ReadingFits(w)
  BY NowFits, Zenon DEF WalkFits
<1>3. w.reading \in Readings
  BY WalkBegun, NowFits
<1>4. Ended(w) /\ Len(w.pages) <= b + 1
  <2>1. CASE b < Len(w.pages)
    <3>1. b + 1 \in 1 .. Len(g) /\ g[b + 1] = w.pages[b + 1] /\ BlockOf(w, b) = g[b + 1]
      BY <1>1, <2>1, OnScreen
    <3>2. ~(b + 1 < Len(g))
      BY <1>1, <1>2, <3>1 DEF PagesRise
    <3>3. b + 1 = Len(w.pages)
      BY <1>1, <2>1, <3>1, <3>2
    <3>4. w.pages # <<>> /\ w.pages[Len(w.pages)].next = End
      BY <1>1, <3>1, <3>3
    <3> QED
      BY <1>1, <3>3, <3>4 DEF Ended, Last
  <2>2. CASE ~(b < Len(w.pages))
    BY <1>1, <2>2 DEF Resolved
  <2> QED
    BY <2>1, <2>2
<1>5. EndOf(w.pages) = End /\ w.pages # <<>>
  BY <1>4 DEF Ended, EndOf, Last
<1>6. g = w.pages
  <2>1. Len(w.reading) \in Nat
    BY <1>3 DEF Readings
  <2>2. ~(Len(w.reading) > 0)
    BY <1>2, <1>5, Zenon DEF ReadingFits
  <2>3. Len(w.reading) # 2
    <3>1. PICK n \in Nat : n = Len(w.reading)
      BY <2>1
    <3>2. ~(n > 0)
      BY <2>2, <3>1, Zenon
    <3>3. n # 2
      BY <3>2
    <3> QED
      BY <3>1, <3>3, Zenon
  <2> QED
    BY <2>3 DEF Got
<1>7. \A k \in 1 .. Len(g) : k - 1 \in 0 .. b
  BY <1>1, <1>4, <1>6
<1> QED
  BY <1>5, <1>6, <1>7

LEMMA GridShows == GridInv => WalkIsConsistent
<1> SUFFICES ASSUME GridInv PROVE WalkIsConsistent
  OBVIOUS
<1> DEFINE shown == UNION {IdsIn(b) : b \in Current}
<1>1. PICK w : w = walks[walk]
  OBVIOUS
<1>2. PICK g : g = Got(w)
  OBVIOUS
<1>3. AreRows(list, g, touched) /\ NoneLeftOut(list, g, touched)
  BY <1>1, <1>2, NowFits, Zenon DEF WalkFits
\* A row on screen that did not change is in the list.
<1>4. ASSUME NEW i \in shown \cap (Ids \ touched)
      PROVE  list[i] # Gone
  <2>1. PICK b \in Current : i \in IdsIn(b)
    OBVIOUS
  <2>2. PICK m \in 1 .. Len(grid[b].items) : grid[b].items[m][2] = i
    BY <2>1 DEF IdsIn
  <2>3. grid[b].items # <<>>
    BY <2>2
  <2>4. b + 1 \in 1 .. Len(g) /\ grid[b].items = g[b + 1].items
    BY <1>1, <1>2, <2>3, OnScreen
  <2> QED
    BY <1>3, <2>2, <2>4 DEF AreRows
\* And with the last block on screen there is no other.
<1>5. ASSUME NEW b \in Current, grid[b].done, 0 .. b \subseteq Current,
             NEW i \in Ids \ touched, list[i] # Gone
      PROVE  i \in shown
  <2>1. g = w.pages /\ g # <<>> /\ EndOf(g) = End /\ \A k \in 1 .. Len(g) : k - 1 \in Current
    BY <1>1, <1>2, <1>5, AllOnScreen
  <2>2. Held(g, <<list[i], i>>)
    BY <1>3, <1>5, <2>1 DEF NoneLeftOut
  <2>3. PICK k \in 1 .. Len(g) : \E m \in 1 .. Len(g[k].items) : g[k].items[m] = <<list[i], i>>
    BY <2>2 DEF Held
  <2>4. PICK m \in 1 .. Len(g[k].items) : g[k].items[m] = <<list[i], i>>
    BY <2>3
  <2>5. PICK c \in Current : c = k - 1
    BY <2>1
  <2>6. grid[c].items = g[k].items
    <3>1. PICK p : p = w.pages
      OBVIOUS
    <3>2. \/ c < Len(p) /\ grid[c].items = g[c + 1].items
          \/ c >= Len(p)
      BY <1>1, <1>2, <3>1, OnScreen
    <3>3. p \in Seq(PageSet) /\ p = g
      BY <1>1, <1>2, <2>1, <3>1, OnScreen
    <3>4. PICK n \in Nat : n = Len(p)
      BY <3>3
    <3>5. k \in 1 .. n
      BY <3>3, <3>4, Zenon
    <3>6. c < n /\ c + 1 = k
      BY <2>5, <3>5
    <3>7. ~(c >= n)
      BY <2>5, <3>5
    <3>8. grid[c].items = g[c + 1].items
      BY <3>2, <3>4, <3>7, Zenon
    <3> QED
      BY <3>6, <3>8, Zenon
  <2>7. i \in IdsIn(c)
    BY <2>4, <2>6 DEF IdsIn
  <2> QED
    BY <2>7
<1>6. (\E b \in Current : grid[b].done /\ 0 .. b \subseteq Current)
        => {i \in Ids \ touched : list[i] # Gone} = shown \cap (Ids \ touched)
  BY <1>4, <1>5
<1>7. \A b, c \in Current : b < c =>
        /\ IdsIn(b) \cap IdsIn(c) \cap (Ids \ touched) = {}
        /\ \A i \in 1 .. Len(grid[b].items), j \in 1 .. Len(grid[c].items) : Before(grid[b].items[i], grid[c].items[j])
  BY BlocksApart
<1> HIDE DEF shown
<1>8. \A b, c \in Current : b < c =>
        /\ IdsIn(b) \cap IdsIn(c) \cap (Ids \ touched) = {}
        /\ \A i \in 1 .. Len(grid[b].items), j \in 1 .. Len(grid[c].items) :
             {grid[b].items[i][2], grid[c].items[j][2]} \subseteq Ids \ touched
               => Before(grid[b].items[i], grid[c].items[j])
  BY <1>7, Zenon
<1> QED
  BY <1>6, <1>8, Zenon DEF WalkIsConsistent, shown

\* However the list changes under the walk, pages fail and refreshes start it again, a row that did
\* not change is in no two blocks and in its order's, and once the whole list is on screen no such row
\* is missing and none is shown that is gone (list_page, cursorDatasource.ts).
THEOREM WalkIsConsistentAlways == Spec => []WalkIsConsistent
<1>1. Init => GridInv
  BY InitGrid DEF Init
<1>2. GridInv => WalkIsConsistent
  BY GridShows
<1> QED
  BY <1>1, <1>2, StepGrid, PTL DEF Spec

---------------------------------------------------------------------------
(* The types.  A failure: what was raised has a reset where its reason asks *)
(* for one, and at most one line is written before the answer's.            *)

\* A typed failure has its reason's reset, and no other has any.
ResetFits(f) ==
    /\ f.kind = "typed" => f.reason \in DOMAIN REASONS /\ (f.reset # NoReset <=> f.reason \in RequiresResetAt)
    /\ f.kind # "typed" => f.reset = NoReset

FailureTyped ==
    /\ moment <= LastMoment /\ request \in {"store", "other"}
    /\ ResetFits(origin.failure)
    /\ place \in {"none", "hop", "answered"} => failure = NoFailure
    /\ place \in {"hop", "store"} => minted <= 1 /\ Len(lines) <= 1
    /\ minted <= 2 /\ Len(lines) <= 2
    /\ answer.id \in 0 .. minted /\ recorded.id \in 0 .. minted

LEMMA NoFailureIs ==
  /\ NoFailure.kind = "none" /\ ResetFits(NoFailure) /\ ResetFits(Bug) /\ ResetFits(Plain)
  /\ \A id, reset, chain : \A r \in DOMAIN REASONS :
       (reset # NoReset <=> r \in RequiresResetAt) => ResetFits(Typed(r, id, reset, chain))
BY DEF NoFailure, Bug, Plain, ResetFits, Typed

LEMMA IdIs ==
  ASSUME FailureInv, place = "store"
  PROVE  /\ failure.id \in 0 .. minted /\ IdOf(failure) \in 0 .. minted + 1
         /\ IdOf(failure) = IF failure.id = 0 THEN minted + 1 ELSE failure.id
<1>1. minted \in Nat /\ (failure.id # 0 => failure.id \in 1 .. minted)
  BY DEF FailureInv, Faithful, Traced
<1> QED
  BY <1>1 DEF IdOf, own_error_id

LEMMA OneIsLong == Len(<<>>) = 0 /\ \A l : Len(Append(<<>>, l)) = 1
<1>1. \A l : <<>> \in Seq({l})
  OBVIOUS
<1> QED
  BY <1>1

\* Raising one: nothing was written before.
LEMMA RaisedTyped ==
  ASSUME FailureInv, FailureTyped, NEW where \in {"ingest", "store"}, NEW e, Raise(where, e), ResetFits(e),
         minted' \in 0 .. 1, Len(lines') <= 1
  PROVE  FailureTyped'
<1>1. /\ minted = 0 /\ place' = where /\ origin' = [at |-> where, failure |-> e, heard |-> TRUE]
      /\ UNCHANGED <<moment, request, recorded, answer>>
  BY DEF FailureInv, Raise
<1>2. ResetFits(origin'.failure)
  BY <1>1
<1>3. answer'.id \in 0 .. minted' /\ recorded'.id \in 0 .. minted'
  BY <1>1 DEF FailureTyped
<1> QED
  BY <1>1, <1>2, <1>3 DEF FailureTyped

LEMMA RaiseInIngestTyped ==
  ASSUME FailureInv, FailureTyped, RaiseInIngest
  PROVE  FailureTyped'
<1>1. /\ minted' \in 0 .. 1 /\ Len(lines') <= 1 /\ moment \in Nat
  <2>1. place = "none" /\ minted' = minted /\ lines' = lines
    BY Zenon DEF RaiseInIngest, Raise
  <2>2. minted = 0 /\ lines = <<>> /\ moment \in Nat
    BY <2>1 DEF FailureInv
  <2> QED
    BY <2>1, <2>2
<1>2. PICK e : Raise("ingest", e)
               /\ \/ \E r \in Refuses : e = Typed(r, 0, NoReset, FALSE)
                  \/ \E r \in VendorFails : e = Typed(r, 0, NoReset, TRUE)
                  \/ \E d \in Delays : e = Typed("RATE_BUDGET", 0, moment + d, FALSE)
                  \/ \E d \in Delays : e = Typed("VENDOR_RATE_LIMITED", 0, moment + d, TRUE)
                  \/ e = Bug
  BY DEF RaiseInIngest
<1>3. ResetFits(e)
  <2>1. \A r \in Refuses \cup VendorFails : r \in DOMAIN REASONS /\ r \notin RequiresResetAt
    <3>1. \A r \in Refuses \cup VendorFails : r \notin RequiresResetAt
      BY DEF Refuses, VendorFails, RequiresResetAt
    <3> QED
      BY <3>1, Table DEF IngestReasons
  <2>2. \A d \in Delays : moment + d # NoReset
    BY <1>1, ErrorAssumption
  <2>3. {"RATE_BUDGET", "VENDOR_RATE_LIMITED"} \subseteq DOMAIN REASONS \cap RequiresResetAt
    BY Table DEF IngestReasons, RequiresResetAt
  <2> QED
    BY <1>2, <2>1, <2>2, <2>3, NoFailureIs, Zenon
<1> QED
  BY <1>1, <1>2, <1>3, RaisedTyped

LEMMA RaiseInStoreTyped ==
  ASSUME FailureInv, FailureTyped, RaiseInStore \/ StreamBreaks
  PROVE  FailureTyped'
<1>1. place = "none" /\ minted = 0 /\ lines = <<>>
  BY DEF FailureInv, RaiseInStore, StreamBreaks, Raise
<1>2. minted' \in 0 .. 1 /\ Len(lines') <= 1
  <2>1. minted' \in {minted, minted + 1}
    BY Zenon DEF RaiseInStore, StreamBreaks
  <2>2. lines' = lines \/ \E l : lines' = Append(lines, l)
    BY Zenon DEF RaiseInStore, StreamBreaks
  <2>3. Len(lines') \in {0, 1}
    BY <1>1, <2>2, OneIsLong, Zenon
  <2>4. minted' \in 0 .. 1
    BY <1>1, <2>1
  <2>5. \A n \in {0, 1} : n <= 1
    OBVIOUS
  <2> QED
    BY <2>3, <2>4, <2>5, Zenon
<1>3. PICK e : Raise("store", e) /\ ResetFits(e)
  <2>1. \A r \in StoreRefuses \cup {"DATABASE_CONFLICT", "DATABASE_UNAVAILABLE", "DATABASE_INTEGRITY", "PEER_PROTOCOL_ERROR"} :
          r \in DOMAIN REASONS /\ r \notin RequiresResetAt
    <3>1. \A r \in StoreRefuses \cup {"DATABASE_CONFLICT", "DATABASE_UNAVAILABLE", "DATABASE_INTEGRITY", "PEER_PROTOCOL_ERROR"} :
            r \notin RequiresResetAt
      BY DEF StoreRefuses, RequiresResetAt
    <3> QED
      BY <3>1, Table
  <2>2. \/ \E r \in StoreRefuses : Raise("store", Typed(r, 0, NoReset, FALSE))
        \/ Raise("store", Bug)
        \/ Raise("store", Plain)
        \/ \E r \in {"DATABASE_CONFLICT", "DATABASE_UNAVAILABLE", "DATABASE_INTEGRITY"} :
             Raise("store", Typed(r, minted + 1, NoReset, TRUE))
        \/ \E chain \in BOOLEAN : Raise("store", Typed("PEER_PROTOCOL_ERROR", 0, NoReset, chain))
    BY Zenon DEF RaiseInStore, StreamBreaks
  <2> QED
    BY <2>1, <2>2, NoFailureIs, Zenon
<1> QED
  BY <1>2, <1>3, RaisedTyped

\* The ingest service's reply, or that there is none.
LEMMA RepliedTyped ==
  ASSUME FailureInv, FailureTyped,
         RefuseInBand \/ abort_with_error \/ abort_with_bug \/ TransportFails
  PROVE  FailureTyped'
<1>1. /\ place' = "hop" /\ failure' = NoFailure
      /\ UNCHANGED <<moment, request, recorded, answer>> /\ origin'.failure = origin.failure
  <2>1. CASE TransportFails
    BY <2>1 DEF TransportFails, FailureInv
  <2>2. CASE RefuseInBand \/ abort_with_error \/ abort_with_bug
    BY <2>2 DEF RefuseInBand, abort_with_error, abort_with_bug, Replies
  <2> QED
    BY <2>1, <2>2
<1>2. minted \in Nat /\ lines \in Seq(LogLines)
  BY DEF FailureInv
<1>3. minted' \in Nat /\ minted <= minted' /\ minted' <= 1 /\ Len(lines') <= 1
  <2>1. CASE TransportFails
    <3>1. minted <= 1 /\ Len(lines) <= 1
      BY <2>1 DEF TransportFails, FailureInv, FailureTyped
    <3> QED
      BY <1>2, <2>1, <3>1 DEF TransportFails
  <2>2. CASE RefuseInBand \/ abort_with_error \/ abort_with_bug
    <3>1. minted = 0 /\ lines = <<>> /\ place = "ingest"
      BY <2>2 DEF RefuseInBand, abort_with_error, abort_with_bug, Replies, FailureInv
    <3>2. minted' \in {minted, minted + 1}
      BY <2>2 DEF RefuseInBand, abort_with_error, abort_with_bug, Mints
    <3>3. lines' = lines \/ \E l : lines' = Append(lines, l)
      BY <2>2, Zenon DEF RefuseInBand, abort_with_error, abort_with_bug
    <3>4. Len(lines') \in {0, 1}
      BY <3>1, <3>3, OneIsLong, Zenon
    <3>5. minted' \in Nat /\ minted <= minted' /\ minted' <= 1
      BY <3>1, <3>2
    <3>6. \A n \in {0, 1} : n <= 1
      OBVIOUS
    <3> QED
      BY <3>4, <3>5, <3>6, Zenon
  <2> QED
    BY <2>1, <2>2
<1>4. answer'.id \in 0 .. minted' /\ recorded'.id \in 0 .. minted'
  BY <1>1, <1>2, <1>3 DEF FailureTyped
<1> QED
  BY <1>1, <1>2, <1>3, <1>4 DEF FailureTyped

LEMMA AnsweredTyped ==
  ASSUME FailureInv, FailureTyped, AnswerTyped \/ AnswerBug \/ AnswerPlain
  PROVE  FailureTyped'
<1>1. /\ place = "store" /\ place' = "answered" /\ failure' = NoFailure
      /\ UNCHANGED <<moment, request, recorded, origin>>
  BY DEF AnswerTyped, AnswerBug, AnswerPlain, Answers
<1>2. minted \in Nat /\ lines \in Seq(LogLines) /\ minted <= 1 /\ Len(lines) <= 1
  BY <1>1 DEF FailureInv, FailureTyped
<1>3. lines' = lines \/ \E l : lines' = Append(lines, l)
  BY Zenon DEF AnswerTyped, AnswerBug, AnswerPlain
<1>4. Len(lines') <= 2
  BY <1>2, <1>3
<1>5. minted' \in {minted, minted + 1} /\ answer'.id \in 0 .. minted'
  <2>1. CASE AnswerTyped
    <3>1. minted' = (IF failure.id = 0 THEN minted + 1 ELSE minted) /\ answer'.id = IdOf(failure)
      BY <2>1 DEF AnswerTyped, Answers, Mints, own_error_id
    <3> QED
      BY <1>1, <1>2, <3>1, IdIs
  <2>2. CASE AnswerBug
    BY <1>2, <2>2 DEF AnswerBug, Answers, NoAnswer
  <2>3. CASE AnswerPlain
    BY <1>2, <2>3 DEF AnswerPlain, Answers, NoAnswer
  <2> QED
    BY <2>1, <2>2, <2>3
<1>6. recorded'.id \in 0 .. minted'
  BY <1>1, <1>2, <1>5 DEF FailureTyped
<1> QED
  BY <1>1, <1>2, <1>4, <1>5, <1>6 DEF FailureTyped

LEMMA StepFailureTyped ==
  ASSUME FailureInv, FailureTyped, [Next]_vars
  PROVE  FailureTyped'
<1>1. CASE HearFailure
  BY <1>1 DEF HearFailure, FailureTyped
<1>2. CASE RecordFailure
  <2>1. recorded'.id = failure.id /\ failure.id \in 0 .. minted
    BY <1>2, IdIs DEF RecordFailure, own_error_id
  <2> QED
    BY <1>2, <2>1 DEF RecordFailure, FailureTyped
<1>3. CASE MomentPasses
  <2>1. moment' <= LastMoment
    BY <1>3, ErrorAssumption DEF MomentPasses, FailureInv
  <2> QED
    BY <1>3, <2>1 DEF MomentPasses, FailureTyped
<1>4. CASE UNCHANGED errorVars
  BY <1>4 DEF errorVars, FailureTyped
<1>5. ErrorNext \/ UNCHANGED errorVars
  BY Zenon DEF Next, vars, Detail, Viewer, Grid, Coverage, Usage, Sidebar, Refresh, Failure
<1> QED
  BY <1>1, <1>2, <1>3, <1>4, <1>5, RaiseInIngestTyped, RaiseInStoreTyped, RepliedTyped, AnsweredTyped DEF ErrorNext

LEMMA FailureTypes ==
  ASSUME FailureInv, FailureTyped
  PROVE  ErrorTypeOK
<1>1. moment \in 0 .. LastMoment /\ request \in {"store", "other"}
      /\ place \in {"none", "ingest", "hop", "store", "answered"}
      /\ minted <= 3 /\ Len(lines) <= 3 /\ answer.id \in 0 .. minted /\ recorded.id \in 0 .. minted
  <2>1. lines \in Seq(LogLines) /\ minted \in Nat /\ moment \in Nat
    BY DEF FailureInv
  <2> QED
    BY <2>1, ErrorAssumption DEF FailureInv, FailureTyped
<1>2. ResetFits(failure)
  <2>1. CASE place \in {"none", "hop", "answered"}
    BY <2>1, NoFailureIs DEF FailureTyped
  <2>2. CASE place = "ingest"
    <3>1. origin.failure = failure
      BY <2>2 DEF FailureInv
    <3> QED
      BY <3>1 DEF FailureTyped
  <2>3. CASE place = "store"
    <3>1. Faithful(failure) /\ ResetFits(origin.failure)
      BY <2>3 DEF FailureInv, FailureTyped
    <3>2. CASE failure.kind # "typed"
      BY <3>1, <3>2 DEF Faithful, ResetFits
    <3>3. CASE failure.kind = "typed" /\ ~origin.heard
      <4>1. failure.reason \in {"PEER_UNAVAILABLE", "DEADLINE"} /\ failure.reset = NoReset /\ failure.reason \in DOMAIN REASONS
        BY <3>1, <3>3 DEF Faithful, Said
      <4> QED
        BY <4>1 DEF ResetFits, RequiresResetAt
    <3>4. CASE failure.kind = "typed" /\ origin.heard
      <4>1. failure.reason \in DOMAIN REASONS /\ failure.reset = origin.failure.reset /\ failure.reason \in Said
        BY <3>1, <3>4 DEF Faithful
      <4>2. CASE origin.failure.kind = "typed"
        BY <3>1, <3>4, <4>1, <4>2 DEF ResetFits, Said
      <4>3. CASE origin.failure.kind # "typed"
        <5>1. failure.reason \in {"PEER_INTERNAL", "none"} /\ failure.reset = NoReset
          BY <3>1, <3>4, <4>1, <4>3 DEF ResetFits, Said
        <5> QED
          BY <3>4, <4>1, <5>1 DEF ResetFits, RequiresResetAt
      <4> QED
        BY <4>2, <4>3
    <3> QED
      BY <3>2, <3>3, <3>4
  <2> QED
    BY <1>1, <2>1, <2>2, <2>3
<1>3. \A e : (e = failure \/ e = origin.failure) /\ e.kind = "typed" =>
        e.reason \in DOMAIN REASONS /\ ((e.reset # NoReset) <=> (e.reason \in RequiresResetAt))
  <2>1. ResetFits(origin.failure)
    BY DEF FailureTyped
  <2>2. SUFFICES ASSUME NEW e, e = failure \/ e = origin.failure, e.kind = "typed"
                 PROVE  e.reason \in DOMAIN REASONS /\ (e.reset # NoReset <=> e.reason \in RequiresResetAt)
    BY Zenon
  <2>3. ResetFits(e)
    BY <1>2, <2>1, <2>2, Zenon
  <2> QED
    BY <2>2, <2>3, Zenon DEF ResetFits
<1>4. \A e \in {x \in {failure, origin.failure} : x.kind = "typed"} :
        e.reason \in DOMAIN REASONS /\ (e.reset # NoReset) = (e.reason \in RequiresResetAt)
  <2>1. SUFFICES ASSUME NEW e \in {x \in {failure, origin.failure} : x.kind = "typed"}
                 PROVE  e.reason \in DOMAIN REASONS /\ (e.reset # NoReset) = (e.reason \in RequiresResetAt)
    OBVIOUS
  <2>2. (e = failure \/ e = origin.failure) /\ e.kind = "typed"
    OBVIOUS
  <2>3. e.reason \in DOMAIN REASONS /\ ((e.reset # NoReset) <=> (e.reason \in RequiresResetAt))
    BY <1>3, <2>2, Zenon
  <2>4. \A p \in BOOLEAN, q \in BOOLEAN : (p <=> q) => p = q
    OBVIOUS
  <2> QED
    BY <2>3, <2>4
<1> QED
  BY <1>1, <1>4 DEF ErrorTypeOK

LEMMA InitFailureTyped == ErrorInit => FailureTyped
BY NoFailureIs, ErrorAssumption DEF ErrorInit, FailureTyped, NoRun, NoAnswer, NoFailure
---------------------------------------------------------------------------
(* The detail screen's types, and the viewer's. *)

MissedTyped == missed \subseteq {"unheard", "ignored", "overwritten", "unsaid"}

LEMMA StepMissedTyped ==
  ASSUME MissedTyped, [Next]_vars
  PROVE  MissedTyped'
<1>1. missed' = missed \/ missed' \subseteq missed \cup {"unheard", "ignored", "overwritten", "unsaid"}
  <2>1. CASE DetailNext
    <3>1. CASE \E d \in Datasets : Commit(d) \/ Visit(d)
      BY <3>1, Zenon DEF Commit, Visit, Load, screenVars
    <3>2. CASE \E e \in due : Publish(e)
      <4>1. PICK e, lost : missed' = missed \cup Unheard(lost)
        BY <3>2, Zenon DEF Publish
      <4> QED
        BY <4>1 DEF Unheard
    <3>3. CASE \E a \in asks : ServeFetch(a) \/ FetchFails(a) \/ HearFetch(a)
      BY <3>3 DEF ServeFetch, FetchFails, HearFetch
    <3>4. CASE \E w \in writes : ServeWrite(w) \/ HearWrite(w)
      BY <3>4 DEF ServeWrite, HearWrite
    <3>5. CASE \E kind \in {"patch", "delete"} : StartWrite(kind)
      BY <3>5 DEF StartWrite
    <3>6. CASE TryAgain \/ Unmount \/ ReloadRuns
      BY <3>6 DEF TryAgain, Unmount, ReloadRuns, Load, Leave
    <3>7. CASE Hear \/ Flush \/ ReadByChanges \/ Connection
      BY <3>7 DEF Hear, Flush, ReadByChanges, Connection, detailVars
    <3>8. CASE HearOpened
      BY <3>8 DEF HearOpened, Load
    <3>9. CASE Drop
      BY <3>9 DEF Drop, Unheard
    <3> QED
      BY <2>1, <3>1, <3>2, <3>3, <3>4, <3>5, <3>6, <3>7, <3>8, <3>9 DEF DetailNext
  <2>2. CASE UNCHANGED detailVars
    BY <2>2 DEF detailVars
  <2>3. DetailNext \/ UNCHANGED detailVars
    BY Zenon DEF Next, vars, Detail, Viewer, Grid, Coverage, Usage, Sidebar, Refresh, Failure
  <2> QED
    BY <2>1, <2>2, <2>3
<1> QED
  BY <1>1 DEF MissedTyped

LEMMA DetailTypes ==
  ASSUME ScreenInv, MissedTyped
  PROVE  DetailTypeOK
<1>1. ServerTyped /\ ScreenTyped /\ AsksTyped
  BY DEF ScreenInv
<1>2. scr.status = "idle" <=> at = None
  BY <1>1 DEF ScreenTyped
<1>3. /\ scr.status \in {"idle", "loading", "ready", "not-found", "error"}
      /\ scr.rows \in {"idle", "loading", "ready", "error"}
      /\ {scr.deleted, scr.problem, scr.timer, scr.writing} \subseteq BOOLEAN
  BY <1>1 DEF ScreenTyped, ScreenRecords
<1>4. store \in [Datasets -> [ver : Nat, run : Nat, gone : BOOLEAN]] /\ at \in Datasets \cup {None}
  BY <1>1 DEF ServerTyped, ScreenTyped
<1>5. \A a \in asks, b \in asks : a.what = b.what => a = b
  BY <1>1 DEF AsksTyped
<1> QED
  BY <1>2, <1>3, <1>4, <1>5 DEF DetailTypeOK, MissedTyped

PagesTyped ==
    /\ opening <= MaxOpens /\ index.n \in BarCounts \cup {0}
    /\ indexSt \in {"idle", "loading", "ready", "error"} /\ resting \in BOOLEAN

LEMMA TruthValues ==
  ASSUME NEW x, NEW y, NEW p, NEW q
  PROVE  (x = y) \in BOOLEAN /\ (p \/ q) \in BOOLEAN
OBVIOUS

LEMMA ShowPageTyped ==
  ASSUME NEW es, NEW k, ShowPageIn(es, k)
  PROVE  resting' \in BOOLEAN
BY TruthValues DEF ShowPageIn

LEMMA StepPagesTyped ==
  ASSUME PagesInv, PagesTyped, [Next]_vars
  PROVE  PagesTyped'
<1>1. CASE Open
  <2>1. opening' <= MaxOpens
    BY <1>1, PagesAssumption DEF Open, PagesInv
  <2> QED
    BY <1>1, <2>1 DEF Open, PagesTyped, NoIndex
<1>2. CASE SeekWindow \/ \E k \in Pages(index.n) : LoadPage(k)
  <2>1. UNCHANGED <<opening, index, indexSt>>
    BY <1>2 DEF SeekWindow, Seek, LoadPage
  <2>2. resting' = TRUE \/ \E k : ShowPageIn(entries, k)
    <3>1. (\E k : Seek(k)) \/ \E k : LoadPage(k)
      <4>1. ASSUME SeekWindow
            PROVE  \E k : Seek(k)
        BY <4>1 DEF SeekWindow
      <4> QED
        BY <1>2, <4>1, Zenon
    <3>2. CASE \E k : Seek(k)
      BY <3>2, Zenon DEF Seek
    <3>3. CASE \E k : LoadPage(k)
      BY <3>3, Zenon DEF LoadPage
    <3> QED
      BY <3>1, <3>2, <3>3
  <2>3. resting' \in BOOLEAN
    BY <2>2, ShowPageTyped
  <2> QED
    BY <2>1, <2>3 DEF PagesTyped
<1>3. CASE Settle
  BY <1>3 DEF Settle, PagesTyped
<1>4. CASE \E k \in Pages(index.n) : PageLands(k) \/ PageFails(k)
  <2>1. UNCHANGED <<opening, index, indexSt>>
    BY <1>4 DEF PageLands, PageFails
  <2>2. resting' = resting \/ \E k : resting' = (resting \/ k = cur)
    BY <1>4, Zenon DEF PageLands, PageFails
  <2>3. resting' \in BOOLEAN
    BY <2>2, TruthValues DEF PagesTyped
  <2> QED
    BY <2>1, <2>3 DEF PagesTyped
<1>5. CASE \E open \in indexing : IndexFails(open) \/ \E n \in BarCounts : IndexLands(open, n)
  <2>1. CASE \E open \in indexing : IndexFails(open)
    BY <2>1 DEF IndexFails, PagesTyped
  <2>2. ASSUME NEW open \in indexing, NEW n \in BarCounts, IndexLands(open, n)
        PROVE  PagesTyped'
    <3>1. opening' = opening /\ index'.n \in BarCounts \cup {0} /\ indexSt' \in {"idle", "loading", "ready", "error"}
      BY <2>2 DEF IndexLands, PagesTyped
    <3>2. resting' = resting \/ \E k : ShowPageIn(entries, k)
      BY <2>2, Zenon DEF IndexLands
    <3>3. resting' \in BOOLEAN
      BY <3>2, ShowPageTyped DEF PagesTyped
    <3> QED
      BY <3>1, <3>3 DEF PagesTyped
  <2> QED
    BY <1>5, <2>1, <2>2
<1>6. CASE UNCHANGED pagesVars
  BY <1>6 DEF pagesVars, PagesTyped
<1>7. PagesNext \/ UNCHANGED pagesVars
  BY Zenon DEF Next, vars, Detail, Viewer, Grid, Coverage, Usage, Sidebar, Refresh, Failure
<1> QED
  BY <1>1, <1>2, <1>3, <1>4, <1>5, <1>6, <1>7 DEF PagesNext

LEMMA PagesTypes ==
  ASSUME PagesInv, PagesTyped
  PROVE  PagesTypeOK
<1>1. opening \in 0 .. MaxOpens /\ indexing \subseteq 1 .. MaxOpens /\ index.open \in 0 .. MaxOpens
  <2>1. opening \in Nat /\ opening <= MaxOpens /\ MaxOpens \in Nat /\ indexing \subseteq 1 .. opening
    BY PagesAssumption DEF PagesInv, PagesTyped
  <2>2. index.open = opening \/ index.open = 0
    BY DEF PagesInv, NoIndex
  <2>3. opening \in 0 .. MaxOpens
    BY <2>1
  <2>4. 1 .. opening \subseteq 1 .. MaxOpens
    BY <2>1
  <2> QED
    BY <2>1, <2>2, <2>3, <2>4
<1>2. cur \in Pages(index.n) \cup {Nowhere}
  BY DEF PagesInv
<1>3. \A i \in 1 .. Len(entries) : entries[i] \in [k : Pages(index.n), st : {"loading", "ready", "error"}, user : BOOLEAN]
  <2>1. CASE cur = Nowhere
    BY <2>1 DEF PagesInv
  <2>2. CASE cur # Nowhere
    <3>1. ListOK(entries, index.n)
      BY <2>2 DEF PagesInv, CacheOK
    <3> QED
      BY <3>1, EntryTyped, Zenon DEF EntriesOf
  <2> QED
    BY <2>1, <2>2
<1> QED
  BY <1>1, <1>2, <1>3 DEF PagesTypeOK, PagesTyped

LEMMA GridTypes ==
  ASSUME GridInv
  PROVE  GridTypeOK
<1>1. GridTyped
  BY DEF GridInv
<1>2. list \in [Ids -> Keys \cup {Gone}] /\ walk \in 1 .. MaxWalks /\ touched \subseteq Ids
  BY <1>1 DEF GridTyped, ListOfRows
<1>3. ASSUME NEW w \in 1 .. MaxWalks
      PROVE  /\ walks[w].wants \subseteq Blocks
             /\ \A i \in 1 .. Len(walks[w].pages) : Len(walks[w].pages[i].items) <= PageSize
  <2>1. walks[w] \in WalkSet
    BY <1>1 DEF GridTyped
  <2>2. PICK pages \in Seq(PageSet) : pages = walks[w].pages
    BY <2>1 DEF WalkSet
  <2>3. \A i \in 1 .. Len(pages) : Len(pages[i].items) <= PageSize
    BY DEF PageSet
  <2> QED
    BY <2>1, <2>2, <2>3 DEF WalkSet
<1>4. ASSUME NEW b \in Blocks
      PROVE  grid[b].under \in 0 .. walk
  <2>1. grid[b] \in ShownSet /\ grid[b].under <= walk
    BY <1>1 DEF GridTyped
  <2> QED
    BY <1>2, <2>1 DEF ShownSet
<1> QED
  BY <1>2, <1>3, <1>4 DEF GridTypeOK
---------------------------------------------------------------------------
(* The types of the coverage, of the usage figures. *)

HealthTyped == stops \in 0 .. MaxStops /\ wrote \in Nat /\ wrote <= clock

LEMMA StepHealthTyped ==
  ASSUME HealthInv, HealthTyped, [Next]_vars
  PROVE  HealthTyped'
<1>1. clock \in Nat /\ MaxStops \in Nat
  BY CalendarAssumption DEF HealthInv
<1>2. CASE TimePasses
  BY <1>1, <1>2 DEF TimePasses, HealthTyped
<1>3. CASE StoreBars
  <2>1. clock' = clock /\ stops' = stops /\ wrote' \in {wrote, clock}
    BY <1>3, Zenon DEF StoreBars
  <2> QED
    BY <1>1, <2>1 DEF HealthTyped
<1>4. CASE SwitchCollecting
  BY <1>1, <1>4 DEF SwitchCollecting, HealthTyped
<1>5. CASE UNCHANGED healthVars
  BY <1>5 DEF healthVars, HealthTyped
<1>6. HealthNext \/ UNCHANGED healthVars
  BY Zenon DEF Next, vars, Detail, Viewer, Grid, Coverage, Usage, Sidebar, Refresh, Failure
<1> QED
  BY <1>2, <1>3, <1>4, <1>5, <1>6 DEF HealthNext

LEMMA HealthTypes ==
  ASSUME HealthInv, HealthTyped
  PROVE  HealthTypeOK
<1>1. kept.collect \in BOOLEAN
  BY DEF HealthInv, SubscriptionSet
<1>2. wrote \in 0 .. clock /\ covered \subseteq 0 .. LastDay
  BY DEF HealthInv, HealthTyped
<1>3. DailyStatus \in {"FRESH", "LATE", "OVERDUE"}
  <2>1. \A n \in BOOLEAN, a, b \in BOOLEAN :
           (CASE a -> "FRESH" [] ~a /\ b -> "FRESH" [] OTHER -> IF n THEN "LATE" ELSE "OVERDUE") \in {"FRESH", "LATE", "OVERDUE"}
    OBVIOUS
  <2> QED
    BY DEF DailyStatus
<1>4. StreamStatus \in {"FRESH", "OVERDUE"}
  BY DEF StreamStatus
<1>5. Status \in {"FRESH", "LATE", "OVERDUE", "COMPLETE", "GAPS", "RETIRED", "NONE"}
  <2> HIDE DEF DailyStatus, StreamStatus
  <2> QED
    BY <1>3, <1>4 DEF Status
<1> QED
  BY <1>1, <1>2, <1>5 DEF HealthTypeOK, HealthTyped

LEMMA StepInstant ==
  ASSUME UsageInv, utc <= LastInstant, [Next]_vars
  PROVE  utc' <= LastInstant
<1>1. utc' = utc \/ UtcPasses
  BY Zenon DEF Next, vars, usageVars, catalogVars, Detail, Viewer, Grid, Coverage, Usage, Sidebar, Refresh, Failure,
       CatalogNext, DatasetGone, UsageNext, ReadRecorded, FoldOld
<1>2. CASE UtcPasses
  BY <1>2, UsageAssumption DEF UtcPasses, UsageInv
<1> QED
  BY <1>1, <1>2

\* A day's row is of a day with a read or a session, and its last instant is of that day.
LEMMA UsageTypes ==
  ASSUME UsageInv, utc <= LastInstant
  PROVE  UsageTypeOK
<1>1. rawReads \subseteq made /\ utc \in 0 .. LastInstant
  BY UsageAssumption DEF UsageInv
<1>2. ASSUME NEW k \in DOMAIN dailyReads
      PROVE  dailyReads[k].reads + dailyReads[k].sessions > 0 /\ UtcDay(dailyReads[k].last) = k.day
  <2>1. PICK S : S = OfDay(FoldedAway, k)
    OBVIOUS
  <2>2. S \in SUBSET made /\ S # {} /\ \A r \in S : DayKey(r) = k
    <3>1. k \in {DayKey(r) : r \in FoldedAway}
      BY Zenon DEF UsageInv
    <3>2. S # {}
      BY <2>1, <3>1, KeyOfDay
    <3> QED
      BY <2>1, <3>2 DEF OfDay, FoldedAway
  <2>3. Reads(S) /\ IsFiniteSet(S) /\ utc \in Nat
    BY <2>2, UsageReads DEF UsageInv
  <2>4. dailyReads[k] = [reads |-> Cardinality(Proper(S)), sessions |-> Cardinality(S \ Proper(S)), last |-> Max({r.at : r \in S})]
    <3>1. dailyReads[k] = Summary(FoldedAway, k)
      BY Zenon DEF UsageInv
    <3> QED
      BY <2>1, <3>1, SummaryIs, Zenon
  <2>5. PICK n, m, last : n = Cardinality(Proper(S)) /\ m = Cardinality(S \ Proper(S)) /\ last = Max({r.at : r \in S})
    OBVIOUS
  <2>6. dailyReads[k].reads = n /\ dailyReads[k].sessions = m /\ dailyReads[k].last = last
    BY <2>4, <2>5
  <2>7. n \in Nat /\ m \in Nat /\ n + m > 0
    <3>1. Proper(S) \in SUBSET S /\ S \ Proper(S) \in SUBSET S
      BY DEF Proper
    <3>2. IsFiniteSet(Proper(S)) /\ IsFiniteSet(S \ Proper(S))
      BY <2>3, <3>1, FS_Subset
    <3>3. n \in Nat /\ m \in Nat
      BY <2>5, <3>2, FS_CardinalityType
    <3>4. n # 0 \/ m # 0
      <4>1. SUFFICES ASSUME n = 0, m = 0
                     PROVE  FALSE
        OBVIOUS
      <4>2. Proper(S) = {} /\ S \ Proper(S) = {}
        BY <2>5, <3>2, <4>1, FS_EmptySet, Zenon
      <4> QED
        BY <2>2, <3>1, <4>2
    <3> QED
      BY <3>3, <3>4
  <2>8. UtcDay(last) = k.day
    <3>1. last \in {r.at : r \in S}
      BY <2>2, <2>3, <2>5, InstantsOf
    <3>2. PICK r \in S : r.at = last
      BY <3>1
    <3>3. DayKey(r).day = UtcDay(last)
      BY <3>2 DEF DayKey
    <3> QED
      BY <2>2, <3>2, <3>3
  <2> QED
    BY <2>6, <2>7, <2>8
<1> QED
  BY <1>1, <1>2 DEF UsageTypeOK
---------------------------------------------------------------------------
(* The refresh: the plan's order, and how many a pass takes. *)

LEMMA LastPlaceIs ==
  ASSUME RefreshTyped, NEW d \in Subs
  PROVE  LastPlace(d) \in Nat
<1>1. Len(history) \in Nat /\ Attempts(d) \subseteq 1 .. Len(history)
  BY DEF RefreshTyped, Attempts
<1>2. PICK S : S = {0} \cup Attempts(d)
  OBVIOUS
<1>3. S \in SUBSET Nat /\ S # {} /\ \A q \in S : q <= Len(history)
  BY <1>1, <1>2
<1>4. Max(S) \in Nat
  BY <1>1, <1>3, LastOf
<1> QED
  BY <1>2, <1>4 DEF LastPlace

\* The order of a class leaves nothing open.
LEMMA OrderIs ==
  ASSUME RefreshTyped
  PROVE  /\ \A a \in Subs : ~GoesBefore(a, a)
         /\ \A a, b, c \in Subs : GoesBefore(a, b) /\ GoesBefore(b, c) => GoesBefore(a, c)
         /\ \A a, b \in Subs : a # b => GoesBefore(a, b) \/ GoesBefore(b, a)
<1>1. \A d \in Subs : d \in Nat /\ LastPlace(d) \in Nat /\ newest[d].s \in Int
  <2>1. \A d \in Subs : LastPlace(d) \in Nat
    BY LastPlaceIs
  <2>2. \A d \in Subs : d \in Nat /\ newest[d].s \in Int
    BY RefreshAssumption DEF RefreshTyped, NoBar
  <2> QED
    BY <2>1, <2>2
<1>2. \A a, b : GoesBefore(a, b) <=>
        \/ LastPlace(a) < LastPlace(b)
        \/ LastPlace(a) = LastPlace(b) /\ newest[a].s < newest[b].s
        \/ LastPlace(a) = LastPlace(b) /\ newest[a].s = newest[b].s /\ a < b
  BY Zenon DEF GoesBefore
<1> QED
  BY <1>1, <1>2

\* No two have the same turn.
LEMMA TurnIs ==
  ASSUME RefreshTyped, NEW C \in SUBSET Subs
  PROVE  /\ IsFiniteSet(C) /\ Cardinality(C) \in Nat
         /\ \A d \in C : Turn(d, C) \in Nat
         /\ \A d, e \in C : GoesBefore(d, e) => Turn(d, C) < Turn(e, C)
         /\ \A d, e \in C : d # e => Turn(d, C) # Turn(e, C)
<1>1. IsFiniteSet(C) /\ Cardinality(C) \in Nat
  BY RefreshAssumption, FS_Subset, FS_CardinalityType
<1>2. ASSUME NEW d \in C
      PROVE  Turn(d, C) \in Nat
  <2>1. PICK U \in SUBSET C : U = {x \in C : GoesBefore(x, d)}
    OBVIOUS
  <2>2. Cardinality(U) \in Nat
    BY <1>1, FS_Subset, FS_CardinalityType
  <2> QED
    BY <2>1, <2>2 DEF Turn
<1>3. ASSUME NEW d \in C, NEW e \in C, GoesBefore(d, e)
      PROVE  Turn(d, C) < Turn(e, C)
  <2>1. PICK U \in SUBSET C : U = {x \in C : GoesBefore(x, d)}
    OBVIOUS
  <2>2. PICK W \in SUBSET C : W = {x \in C : GoesBefore(x, e)}
    OBVIOUS
  <2>3. U \in SUBSET W /\ d \in W /\ d \notin U
    <3>1. \A x \in C : GoesBefore(x, d) => GoesBefore(x, e)
      BY <1>3, OrderIs, Zenon
    <3>2. ~GoesBefore(d, d)
      BY OrderIs
    <3> QED
      BY <1>3, <2>1, <2>2, <3>1, <3>2
  <2>4. IsFiniteSet(W)
    BY <1>1, FS_Subset
  <2>5. IsFiniteSet(U) /\ Cardinality(U) <= Cardinality(W) /\ (Cardinality(W) = Cardinality(U) => W = U)
    BY <2>3, <2>4, FS_Subset
  <2>6. Cardinality(U) \in Nat /\ Cardinality(W) \in Nat /\ Cardinality(U) # Cardinality(W)
    BY <2>3, <2>4, <2>5, FS_CardinalityType
  <2> QED
    BY <2>1, <2>2, <2>5, <2>6 DEF Turn
<1>4. ASSUME NEW d \in C, NEW e \in C, d # e
      PROVE  Turn(d, C) # Turn(e, C)
  <2>1. GoesBefore(d, e) \/ GoesBefore(e, d)
    BY <1>4, OrderIs
  <2>2. Turn(d, C) \in Nat /\ Turn(e, C) \in Nat
    BY <1>2
  <2> QED
    BY <1>3, <2>1, <2>2
<1> QED
  BY <1>1, <1>2, <1>3, <1>4

\* So at most k are among the first k.
LEMMA FirstFew ==
  ASSUME RefreshTyped, NEW C \in SUBSET Subs, NEW k \in Nat, NEW T, T = {d \in C : Turn(d, C) < k}
  PROVE  IsFiniteSet(T) /\ Cardinality(T) \in Nat /\ Cardinality(T) <= k
<1> DEFINE f == [d \in T |-> Turn(d, C)]
           N == 0 .. k - 1
<1>1. f \in [T -> N]
  BY TurnIs
<1>2. \A d, e \in T : f[d] = f[e] => d = e
  BY TurnIs
<1>3. IsFiniteSet(N) /\ Cardinality(N) = k
  BY FS_Interval
<1> HIDE DEF f, N
<1>4. f \in Injection(T, N)
  BY <1>1, <1>2 DEF Injection, IsInjective
<1>5. IsFiniteSet(T) /\ Cardinality(T) <= k
  BY <1>3, <1>4, FS_Injection
<1> QED
  BY <1>5, FS_CardinalityType

\* A pass takes no more than the cap.
LEMMA TakenFits ==
  ASSUME RefreshTyped
  PROVE  IsFiniteSet(Taken) /\ Cardinality(Taken) <= MaxPerPass
<1>1. PICK cap \in Nat, half \in Nat : cap = MaxPerPass /\ half = MaxPerPass \div 2 /\ half <= cap
  BY RefreshAssumption
<1>2. Productive \in SUBSET Subs /\ DueAgain \in SUBSET Subs
  BY DEF Productive, DueAgain, OwedNow
<1>3. PICK few \in Nat : few = Min({Cardinality(DueAgain), MaxPerPass \div 2}) /\ few <= cap
  <2>1. PICK n \in Nat : n = Cardinality(DueAgain)
    BY <1>2, TurnIs
  <2>2. PICK S : S = {n, half}
    OBVIOUS
  <2>3. Min(S) = IF n <= half THEN n ELSE half
    BY <2>2, FirstOfTwo
  <2> QED
    BY <1>1, <2>1, <2>2, <2>3
<1>4. PICK A : A = First
  OBVIOUS
<1>5. IsFiniteSet(A) /\ Cardinality(A) \in Nat /\ Cardinality(A) <= cap - few
  <2>1. cap - few \in Nat /\ A = {d \in Productive : Turn(d, Productive) < cap - few}
    BY <1>1, <1>3, <1>4 DEF First
  <2> QED
    BY <1>2, <2>1, FirstFew
<1>6. PICK B : B = Again
  OBVIOUS
<1>7. IsFiniteSet(B) /\ Cardinality(B) \in Nat /\ Cardinality(B) <= cap - Cardinality(A)
  <2>1. PICK n \in Nat : n = cap - Cardinality(A)
    BY <1>3, <1>5
  <2>2. B = {d \in DueAgain : Turn(d, DueAgain) < n}
    BY <1>1, <1>4, <1>6, <2>1 DEF Again
  <2> QED
    BY <1>2, <2>1, <2>2, FirstFew
<1> DEFINE f == [d \in A |-> [d |-> d, from |-> TailStart(d), turn |-> Turn(d, Productive)]]
           g == [d \in B |-> [d |-> d, from |-> TailStart(d), turn |-> Cardinality(A) + Turn(d, DueAgain)]]
           P == {f[d] : d \in A}
           Q == {g[d] : d \in B}
<1>8. Taken = P \cup Q
  BY <1>4, <1>6 DEF Taken
<1>9. f \in [A -> P] /\ (\A p \in P : \E d \in A : f[d] = p) /\ g \in [B -> Q] /\ (\A p \in Q : \E d \in B : g[d] = p)
  OBVIOUS
<1> HIDE DEF f, g, P, Q
<1>10. f \in Surjection(A, P) /\ g \in Surjection(B, Q)
  BY <1>9, Zenon DEF Surjection
<1>11. IsFiniteSet(P) /\ Cardinality(P) <= Cardinality(A) /\ IsFiniteSet(Q) /\ Cardinality(Q) <= Cardinality(B)
  BY <1>5, <1>7, <1>10, FS_Surjection
<1>12. /\ IsFiniteSet(P \cup Q) /\ Cardinality(P \cup Q) = Cardinality(P) + Cardinality(Q) - Cardinality(P \cap Q)
       /\ IsFiniteSet(P \cap Q)
  BY <1>11, FS_Union, FS_Intersection
<1>13. Cardinality(P) \in Nat /\ Cardinality(Q) \in Nat /\ Cardinality(P \cap Q) \in Nat
  BY <1>11, <1>12, FS_CardinalityType
<1> QED
  BY <1>1, <1>5, <1>7, <1>8, <1>11, <1>12, <1>13
\* While a pass is on, the runner runs it, and has not failed too often in a row.
PassFits(p, st) ==
    /\ {"batch", "failures"} \subseteq DOMAIN p
    /\ IsFiniteSet(p.batch) /\ Cardinality(p.batch) <= MaxPerPass /\ p.failures < MaxInARow
    /\ p # Idle => st = "running"

LoopTyped ==
    /\ tick <= LastTick /\ fetching \subseteq Subs /\ active \subseteq Subs
    /\ \A d \in Subs : newest[d].s <= OpenSession
    /\ "st" \in DOMAIN loop /\ loop.st \in {"asking", "sleeping", "retrying", "running"}
    /\ PassFits(pass, loop.st)

LEMMA IdleFits == \A st : PassFits(Idle, st)
<1>1. {"batch", "failures"} \subseteq DOMAIN Idle /\ Idle.batch = {} /\ Idle.failures = 0
  BY DEF Idle
<1>2. IsFiniteSet({}) /\ Cardinality({}) = 0
  BY FS_EmptySet
<1>3. MaxPerPass \in Nat \ {0} /\ MaxInARow \in Nat \ {0}
  BY RefreshAssumption
<1>4. Idle.failures < MaxInARow /\ IsFiniteSet(Idle.batch) /\ Cardinality(Idle.batch) <= MaxPerPass
  <2>1. Cardinality(Idle.batch) = 0
    BY <1>1, <1>2, Zenon
  <2> QED
    BY <1>1, <1>2, <1>3, <2>1
<1> QED
  BY <1>1, <1>4, Zenon DEF PassFits

LEMMA RunFits ==
  ASSUME NEW p, {"batch", "failures"} \subseteq DOMAIN p, NEW S, S \subseteq p.batch, PassFits(p, "running"),
         NEW n, n < MaxInARow
  PROVE  PassFits([p EXCEPT !.batch = S, !.failures = n], "running")
<1>1. PICK q : q = [p EXCEPT !.batch = S, !.failures = n]
  OBVIOUS
<1>2. {"batch", "failures"} \subseteq DOMAIN q /\ q.batch = S /\ q.failures = n
  BY <1>1
<1>3. IsFiniteSet(p.batch) /\ Cardinality(p.batch) <= MaxPerPass /\ S \in SUBSET p.batch
  BY DEF PassFits
<1>4. IsFiniteSet(S) /\ Cardinality(S) <= Cardinality(p.batch)
  BY <1>3, FS_Subset
<1>5. Cardinality(S) <= MaxPerPass
  <2>1. Cardinality(S) \in Nat /\ Cardinality(p.batch) \in Nat /\ MaxPerPass \in Nat
    BY <1>3, <1>4, FS_CardinalityType, RefreshAssumption
  <2> QED
    BY <1>3, <1>4, <2>1
<1> QED
  BY <1>1, <1>2, <1>4, <1>5, Zenon DEF PassFits

\* A bar is never ahead of the session that is open.
LEMMA StoresTyped ==
  ASSUME RefreshInv, LoopTyped, NEW x \in pass.batch, StoresTail(x)
  PROVE  \A d \in Subs : newest'[d].s <= OpenSession'
<1>1. /\ x.d \in Subs /\ newest \in [Subs -> [s : Nat \cup {NoBar}, at : Nat]] /\ tick' = tick
      /\ \A d \in Subs : newest[d].s <= OpenSession
  BY DEF RefreshInv, RefreshTyped, LoopTyped, StoresTail
<1>2. OpenSession' = OpenSession
  BY <1>1 DEF OpenSession, LastClosed
<1>3. PICK m, s : /\ s \in m .. OpenSession
                  /\ newest' = IF s >= newest[x.d].s THEN [newest EXCEPT ![x.d] = [s |-> s, at |-> tick]] ELSE newest
  BY Zenon DEF StoresTail
<1>4. s <= OpenSession
  BY <1>3
<1>5. ASSUME NEW d \in Subs
      PROVE  newest'[d].s <= OpenSession
  <2>1. CASE newest' = newest
    BY <1>1, <2>1
  <2>2. CASE newest' = [newest EXCEPT ![x.d] = [s |-> s, at |-> tick]]
    <3>1. CASE d = x.d
      <4>1. newest'[d] = [s |-> s, at |-> tick]
        BY <1>1, <2>2, <3>1
      <4> QED
        BY <1>4, <4>1
    <3>2. CASE d # x.d
      <4>1. newest'[d] = newest[d]
        BY <1>1, <2>2, <3>2
      <4> QED
        BY <1>1, <4>1
    <3> QED
      BY <3>1, <3>2
  <2> QED
    BY <1>3, <2>1, <2>2
<1> QED
  BY <1>2, <1>5

LEMMA ElsewhereTyped ==
  ASSUME RefreshInv, LoopTyped, NEW e \in Subs, ElsewhereEnds(e)
  PROVE  \A d \in Subs : newest'[d].s <= OpenSession'
<1>1. /\ newest \in [Subs -> [s : Nat \cup {NoBar}, at : Nat]] /\ tick' = tick
      /\ \A d \in Subs : newest[d].s <= OpenSession
  BY DEF RefreshInv, RefreshTyped, LoopTyped, ElsewhereEnds
<1>2. OpenSession' = OpenSession
  BY <1>1 DEF OpenSession, LastClosed
<1>3. PICK m, s : /\ s \in {newest[e].s} \cup (m .. OpenSession)
                  /\ newest' = IF s = newest[e].s THEN newest ELSE [newest EXCEPT ![e] = [s |-> s, at |-> tick]]
  BY Zenon DEF ElsewhereEnds
<1>4. s <= OpenSession
  BY <1>1, <1>3
<1>5. ASSUME NEW d \in Subs
      PROVE  newest'[d].s <= OpenSession
  <2>1. CASE newest' = newest
    BY <1>1, <2>1
  <2>2. CASE newest' = [newest EXCEPT ![e] = [s |-> s, at |-> tick]]
    <3>1. CASE d = e
      <4>1. newest'[d] = [s |-> s, at |-> tick]
        BY <1>1, <2>2, <3>1
      <4> QED
        BY <1>4, <4>1
    <3>2. CASE d # e
      <4>1. newest'[d] = newest[d]
        BY <1>1, <2>2, <3>2
      <4> QED
        BY <1>1, <4>1
    <3> QED
      BY <3>1, <3>2
  <2> QED
    BY <1>3, <2>1, <2>2
<1> QED
  BY <1>2, <1>5

LEMMA StepLoopTyped ==
  ASSUME RefreshInv, LoopTyped, [Next]_vars
  PROVE  LoopTyped'
<1>1. /\ tick \in Nat /\ tick <= LastTick /\ fetching \subseteq Subs /\ active \subseteq Subs
      /\ \A d \in Subs : newest[d].s <= OpenSession /\ newest[d].s \in Int
      /\ "st" \in DOMAIN loop /\ loop.st \in {"asking", "sleeping", "retrying", "running"}
      /\ PassFits(pass, loop.st) /\ {"batch", "failures"} \subseteq DOMAIN pass
      /\ RefreshTyped /\ LastTick \in Nat
  BY RefreshAssumption DEF RefreshInv, RefreshTyped, LoopTyped, PassFits, NoBar
<1>2. ASSUME UNCHANGED tick
      PROVE  OpenSession' = OpenSession
  BY <1>2 DEF OpenSession, LastClosed
<1>3. pass # Idle => loop.st = "running"
  BY <1>1, Zenon DEF PassFits
<1>4. CASE NameFire \/ ScheduleFails \/ AskAgain \/ RefreshRaises
  <2>1. UNCHANGED <<tick, newest, active, fetching, pass>>
    BY <1>4 DEF NameFire, ScheduleFails, AskAgain, RefreshRaises, dataVars
  <2>2. "st" \in DOMAIN loop' /\ loop'.st \in {"asking", "sleeping", "retrying", "running"} /\ loop.st # "running"
    BY <1>1, <1>4 DEF NameFire, ScheduleFails, AskAgain, RefreshRaises, Due
  <2>3. PassFits(pass', loop'.st)
    BY <1>3, <2>1, <2>2, IdleFits, Zenon
  <2> QED
    BY <1>1, <1>2, <2>1, <2>2, <2>3 DEF LoopTyped
<1>5. CASE StartRefresh
  <2>1. UNCHANGED <<tick, newest, active, fetching>>
    BY <1>5 DEF StartRefresh, dataVars
  <2>2. "st" \in DOMAIN loop' /\ loop'.st = "running"
    BY <1>1, <1>5 DEF StartRefresh
  <2>3. PassFits(pass', "running")
    <3>1. PICK b : b = Taken
      OBVIOUS
    <3>2. {"batch", "failures"} \subseteq DOMAIN pass' /\ pass'.batch = b /\ pass'.failures = 0
      BY <1>5, <3>1 DEF StartRefresh, Idle
    <3>3. IsFiniteSet(b) /\ Cardinality(b) <= MaxPerPass
      BY <1>1, <3>1, TakenFits
    <3>4. 0 < MaxInARow
      BY RefreshAssumption
    <3> QED
      BY <3>2, <3>3, <3>4, Zenon DEF PassFits
  <2> QED
    BY <1>1, <1>2, <2>1, <2>2, <2>3 DEF LoopTyped
<1>6. CASE EndRefresh \/ RefreshRestarts
  <2>1. UNCHANGED <<tick, newest, active>> /\ pass' = Idle /\ fetching' \subseteq Subs
    BY <1>1, <1>6 DEF EndRefresh, RefreshRestarts, dataVars
  <2>2. "st" \in DOMAIN loop' /\ loop'.st = "asking"
    BY <1>1, <1>6 DEF EndRefresh, RefreshRestarts
  <2>3. PassFits(pass', loop'.st)
    BY <2>1, IdleFits, Zenon
  <2> QED
    BY <1>1, <1>2, <2>1, <2>2, <2>3 DEF LoopTyped
<1>7. ASSUME NEW x \in pass.batch, StoresTail(x) \/ FindsNothing(x) \/ IsRefused(x) \/ RequestFails(x)
      PROVE  LoopTyped'
  <2>1. UNCHANGED <<tick, active, fetching>> /\ loop.st = "running"
    BY <1>7 DEF StoresTail, FindsNothing, IsRefused, RequestFails, dataVars, Asking
  <2>2. \A d \in Subs : newest'[d].s <= OpenSession'
    <3>1. CASE StoresTail(x)
      BY <3>1, StoresTyped
    <3>2. CASE FindsNothing(x) \/ IsRefused(x) \/ RequestFails(x)
      <4>1. newest' = newest
        BY <3>2 DEF FindsNothing, IsRefused, RequestFails, dataVars
      <4> QED
        BY <1>1, <1>2, <2>1, <4>1
    <3> QED
      BY <1>7, <3>1, <3>2
  <2>3. "st" \in DOMAIN loop' /\ loop'.st \in {"running", "asking"} /\ PassFits(pass', loop'.st)
    <3>1. \/ loop' = loop /\ \E n : n < MaxInARow /\ Proceed(x, n)
          \/ pass' = Idle /\ loop' = [loop EXCEPT !.st = "asking"]
      <4>1. 0 < MaxInARow /\ pass.failures < MaxInARow
        BY <1>1, RefreshAssumption DEF PassFits
      <4> QED
        BY <1>7, <4>1, Zenon DEF StoresTail, FindsNothing, IsRefused, RequestFails
    <3>2. ASSUME loop' = loop, NEW n, n < MaxInARow, Proceed(x, n)
          PROVE  PassFits(pass', loop'.st)
      <4>1. PICK S : S = pass.batch \ {x}
        OBVIOUS
      <4>2. pass' = [pass EXCEPT !.batch = S, !.failures = n]
        BY <3>2, <4>1 DEF Proceed
      <4>3. PassFits(pass, "running") /\ loop'.st = "running" /\ S \subseteq pass.batch
        BY <1>1, <2>1, <3>2, <4>1
      <4>4. PassFits([pass EXCEPT !.batch = S, !.failures = n], "running")
        BY <1>1, <3>2, <4>3, RunFits
      <4> QED
        BY <4>2, <4>3, <4>4, Zenon
    <3>3. CASE pass' = Idle /\ loop' = [loop EXCEPT !.st = "asking"]
      BY <1>1, <3>3, IdleFits
    <3> QED
      BY <1>1, <2>1, <3>1, <3>2, <3>3
  <2> QED
    BY <1>1, <2>1, <2>2, <2>3 DEF LoopTyped
<1>8. CASE TickPasses
  <2>1. UNCHANGED <<newest, active, fetching, pass, loop>> /\ tick' = tick + 1 /\ tick < LastTick
    BY <1>8 DEF TickPasses, dataVars
  <2>2. OpenSession \in Int /\ OpenSession' \in Int /\ OpenSession <= OpenSession'
    <3>1. PICK w \in Nat \ {0} : w = DayTicks
      BY RefreshAssumption
    <3>2. tick \div w \in Nat /\ tick' \div w \in Nat /\ tick \div w <= tick' \div w
      BY <1>1, <2>1
    <3> QED
      BY <3>1, <3>2 DEF OpenSession, LastClosed
  <2>3. \A d \in Subs : newest'[d].s <= OpenSession'
    BY <1>1, <2>1, <2>2
  <2>4. tick' <= LastTick
    BY <1>1, <2>1
  <2> QED
    BY <1>1, <2>1, <2>3, <2>4 DEF LoopTyped
<1>9. CASE \E d \in Subs : Flip(d) \/ ElsewhereBegins(d)
  <2>1. UNCHANGED <<tick, newest, pass, loop>> /\ fetching' \subseteq Subs /\ active' \subseteq Subs
    BY <1>1, <1>9 DEF Flip, ElsewhereBegins
  <2> QED
    BY <1>1, <1>2, <2>1 DEF LoopTyped
<1>10. CASE \E d \in Subs : ElsewhereEnds(d)
  <2>1. UNCHANGED <<tick, active, pass, loop>> /\ fetching' \subseteq Subs
    BY <1>1, <1>10 DEF ElsewhereEnds
  <2>2. \A d \in Subs : newest'[d].s <= OpenSession'
    BY <1>10, ElsewhereTyped
  <2> QED
    BY <1>1, <2>1, <2>2 DEF LoopTyped
<1>11. CASE UNCHANGED refreshVars
  <2>1. UNCHANGED <<tick, newest, active, fetching, pass, loop>>
    BY <1>11 DEF refreshVars
  <2> QED
    BY <1>1, <1>2, <2>1 DEF LoopTyped
<1>12. RefreshNext \/ UNCHANGED refreshVars
  BY Zenon DEF Next, vars, Detail, Viewer, Grid, Coverage, Usage, Sidebar, Refresh, Failure
<1> QED
  BY <1>4, <1>5, <1>6, <1>7, <1>8, <1>9, <1>10, <1>11, <1>12 DEF RefreshNext

LEMMA RefreshTypes ==
  ASSUME RefreshInv, LoopTyped
  PROVE  RefreshTypeOK
<1>1. /\ tick \in Nat /\ tick <= LastTick /\ LastTick \in Nat
      /\ newest \in [Subs -> [s : Nat \cup {NoBar}, at : Nat]] /\ \A d \in Subs : newest[d].at <= tick
      /\ \A d \in Subs : newest[d].s <= OpenSession
  BY RefreshAssumption DEF RefreshInv, RefreshTyped, LoopTyped
<1>2. PICK open \in Nat : open = OpenSession
  <2>1. tick \div DayTicks \in Nat
    BY <1>1, RefreshAssumption, DivIs
  <2> QED
    BY <2>1 DEF OpenSession, LastClosed
<1>3. \A d \in Subs : newest[d].s \in NoBar .. open /\ newest[d].at \in 0 .. tick
  BY <1>1, <1>2 DEF NoBar
<1>4. tick \in 0 .. LastTick
  BY <1>1
<1>5. Cardinality(pass.batch) <= MaxPerPass /\ pass.failures < MaxInARow /\ (pass # Idle => loop.st = "running")
  BY Zenon DEF LoopTyped, PassFits
<1> QED
  BY <1>2, <1>3, <1>4, <1>5 DEF RefreshTypeOK, LoopTyped
---------------------------------------------------------------------------
(* All of them. *)

TypesInv ==
    /\ ScreenInv /\ MissedTyped
    /\ PagesInv /\ PagesTyped
    /\ GridInv
    /\ HealthInv /\ HealthTyped
    /\ UsageInv /\ utc <= LastInstant
    /\ RefreshInv /\ LoopTyped
    /\ FailureInv /\ FailureTyped

LEMMA InitTypes == Init => TypesInv
<1> SUFFICES ASSUME Init PROVE TypesInv
  OBVIOUS
<1>1. ScreenInv /\ PagesInv /\ GridInv /\ HealthInv /\ UsageInv /\ RefreshInv /\ FailureInv
  <2>1. ScreenInv
    BY DetailAssumption, InitScreen, Zenon
  <2>2. PagesInit /\ GridInit /\ HealthInit /\ UsageInit /\ RefreshInit /\ ErrorInit
    BY Zenon DEF Init, CatalogInit
  <2> QED
    BY <2>1, <2>2, InitPages, InitGrid, InitHealth, InitUsage, InitRefresh, InitFailure, Zenon
<1>2. MissedTyped
  BY DEF Init, DetailInit, MissedTyped
<1>3. PagesTyped
  <2>1. opening = 0 /\ index = NoIndex /\ NoIndex.n = 0 /\ indexSt = "idle" /\ resting = FALSE
    BY DEF Init, PagesInit, NoIndex
  <2>2. opening <= MaxOpens /\ index.n \in BarCounts \cup {0}
    BY <2>1, PagesAssumption
  <2>3. indexSt \in {"idle", "loading", "ready", "error"} /\ resting \in BOOLEAN
    BY <2>1
  <2> QED
    BY <2>2, <2>3, Zenon DEF PagesTyped
<1>4. HealthTyped
  BY CalendarAssumption DEF Init, HealthInit, HealthTyped
<1>5. utc <= LastInstant
  BY UsageAssumption DEF Init, CatalogInit, UsageInit
<1>6. LoopTyped
  <2>1. /\ tick = 0 /\ newest = [d \in Subs |-> [s |-> NoBar, at |-> 0]] /\ active = Subs /\ fetching = {}
        /\ loop = [st |-> "asking", until |-> 0, wake |-> TRUE, last |-> -1] /\ pass = Idle
    BY DEF Init, RefreshInit
  <2>2. tick <= LastTick
    BY <2>1, RefreshAssumption
  <2>3. \A d \in Subs : newest[d].s <= OpenSession
    <3>1. tick \div DayTicks \in Nat
      BY <2>1, RefreshAssumption, DivIs
    <3> QED
      BY <2>1, <3>1 DEF NoBar, OpenSession, LastClosed
  <2>4. PassFits(pass, loop.st)
    BY <2>1, IdleFits
  <2> QED
    BY <2>1, <2>2, <2>3, <2>4 DEF LoopTyped
<1>7. FailureTyped
  BY InitFailureTyped DEF Init
<1> QED
  BY <1>1, <1>2, <1>3, <1>4, <1>5, <1>6, <1>7 DEF TypesInv

LEMMA StepTypes ==
  ASSUME TypesInv, [Next]_vars
  PROVE  TypesInv'
<1>1. ScreenInv' /\ PagesInv' /\ GridInv' /\ HealthInv' /\ UsageInv' /\ RefreshInv' /\ FailureInv'
  BY FeedAssumption, DetailAssumption, StepScreen, StepPages, StepGrid, StepHealth, StepUsage, StepRefresh, StepFailure, Zenon DEF TypesInv
<1>2. MissedTyped' /\ PagesTyped' /\ HealthTyped' /\ utc' <= LastInstant /\ LoopTyped' /\ FailureTyped'
  BY StepMissedTyped, StepPagesTyped, StepHealthTyped, StepInstant, StepLoopTyped, StepFailureTyped, Zenon DEF TypesInv
<1> QED
  BY <1>1, <1>2 DEF TypesInv

\* Every variable of the parts around the store has its type, and each part's rules of shape hold: one
\* request of each kind on the detail screen, an index and pages within what was opened, a status for
\* every dataset, a day's usage row of that day and never empty, a pass that takes no more than the cap
\* and is on only while the runner runs it, a reset just where its reason has one and no more than the
\* failure's own ids and lines (the classes and tables of the client, the reads, daily_refresh.py and errors/).
THEOREM TypeOKAlways == Spec => []TypeOK
<1>1. TypesInv => TypeOK
  BY DetailTypes, PagesTypes, GridTypes, HealthTypes, UsageTypes, RefreshTypes, FailureTypes, Zenon DEF TypesInv, TypeOK
<1> QED
  BY <1>1, InitTypes, StepTypes, PTL DEF Spec

---------------------------------------------------------------------------
(* The refresh: whoever is due is asked for.  While a dataset waits, each   *)
(* pass that leaves it out asks for half a cap of others that were not      *)
(* asked for since (TakenBefore, WentIsLater): WaitInv counts them.         *)

\* The finished runs in the history that count as this dataset's now, however old they are.
Tried(x) ==
    {i \in 1 .. Len(history) :
        /\ history[i].done
        /\ history[i].of = x \/ (history[i].of = RequestOf[x] /\ history[i].from = TailStart(x))}

\* Since d waits, x was asked for behind the last run that may be d's.
Went(x, d) == \E i \in Tried(x) : history[i].at >= waited[d].since /\ \A j \in Own(d) : j < i

Others(d) == {x \in Subs \ {d} : Went(x, d)}
ToAsk(d) == {x \in Subs \ {d} : \E b \in pass.batch : b.d = x}

Half == MaxPerPass \div 2

Waits(d) ==
    /\ Cardinality(Others(d)) >= waited[d].passes * Half
    /\ loop.st = "running" /\ waited[d].left =>
         Cardinality(Others(d) \cup ToAsk(d)) >= (waited[d].passes + 1) * Half

WaitTyped ==
    /\ waited \in [Subs -> [passes : Nat, since : Nat, left : BOOLEAN]]
    /\ \A d \in Subs : waited[d].since <= tick
    /\ \A x, y \in pass.batch : x.d = y.d => x = y
    /\ loop.st = "running" /\ (\E d \in Subs : waited[d].left) => \A x \in pass.batch : x.from = TailStart(x.d)

WaitInv == WaitTyped /\ \A d \in Subs : Lone(d) => Waits(d)

LEMMA HalfIs == MaxPerPass \in Nat /\ Half \in Nat /\ Half + Half <= MaxPerPass
BY RefreshAssumption DEF Half

LEMMA OthersAreFew ==
  ASSUME NEW d \in Subs, NEW S \in SUBSET (Subs \ {d})
  PROVE  IsFiniteSet(S) /\ Cardinality(S) \in Nat /\ Cardinality(S) < Cardinality(Subs)
<1>1. IsFiniteSet(Subs) /\ S \in SUBSET Subs
  BY RefreshAssumption
<1>2. IsFiniteSet(S) /\ Cardinality(S) <= Cardinality(Subs) /\ (Cardinality(Subs) = Cardinality(S) => Subs = S)
  BY <1>1, FS_Subset
<1>3. Cardinality(S) \in Nat /\ Cardinality(Subs) \in Nat /\ S # Subs
  BY <1>1, <1>2, FS_CardinalityType
<1> QED
  BY <1>2, <1>3

\* More others, and more to come, keep it.
LEMMA MoreWent ==
  ASSUME NEW d \in Subs, WaitTyped, Waits(d), waited'[d].passes = waited[d].passes,
         waited'[d].left => waited[d].left,
         \A x \in Subs \ {d} : Went(x, d) => Went(x, d)',
         loop'.st = "running" /\ waited'[d].left =>
           /\ loop.st = "running"
           /\ \A b \in pass.batch : b.d \in Subs \ {d} => Went(b.d, d)' \/ \E c \in pass'.batch : c.d = b.d
  PROVE  Waits(d)'
<1>1. PICK A : A = Others(d)
  OBVIOUS
<1>2. PICK B : B = Others(d)'
  OBVIOUS
<1>3. A \in SUBSET B /\ B \in SUBSET (Subs \ {d})
  BY <1>1, <1>2 DEF Others
<1>4. Cardinality(A) <= Cardinality(B) /\ Cardinality(A) \in Nat /\ Cardinality(B) \in Nat
  <2>1. IsFiniteSet(B) /\ Cardinality(B) \in Nat
    BY <1>3, OthersAreFew
  <2>2. IsFiniteSet(A) /\ Cardinality(A) <= Cardinality(B)
    BY <1>3, <2>1, FS_Subset
  <2> QED
    BY <2>1, <2>2, FS_CardinalityType
<1>5. PICK p \in Nat : p = waited[d].passes
  BY DEF WaitTyped
<1>6. PICK y \in Int, z \in Int : y = p * Half /\ z = (p + 1) * Half
  BY HalfIs
<1>7. waited'[d].passes = p
  BY <1>5
<1>8. Cardinality(B) >= y
  <2>1. Cardinality(A) >= y
    BY <1>1, <1>5, <1>6 DEF Waits
  <2> QED
    BY <1>4, <2>1
<1>9. ASSUME loop'.st = "running", waited'[d].left
      PROVE  Cardinality(B \cup ToAsk(d)') >= z
  <2>1. PICK C : C = A \cup ToAsk(d)
    OBVIOUS
  <2>2. PICK D : D = B \cup ToAsk(d)'
    OBVIOUS
  <2>3. loop.st = "running" /\ waited[d].left /\ Cardinality(C) >= z
    BY <1>1, <1>5, <1>6, <1>7, <1>9, <2>1 DEF Waits
  <2>4. \A b \in pass.batch : b.d \in Subs \ {d} => Went(b.d, d)' \/ \E c \in pass'.batch : c.d = b.d
    BY <1>9, <2>3
  <2>5. C \in SUBSET D /\ D \in SUBSET (Subs \ {d})
    <3>1. ASSUME NEW x \in ToAsk(d)
          PROVE  x \in D
      BY <1>2, <2>2, <2>4 DEF ToAsk, Others
    <3> QED
      BY <1>3, <2>1, <2>2, <3>1 DEF ToAsk
  <2>6. IsFiniteSet(D) /\ Cardinality(D) \in Nat
    BY <2>5, OthersAreFew
  <2>7. IsFiniteSet(C) /\ Cardinality(C) <= Cardinality(D)
    BY <2>5, <2>6, FS_Subset
  <2>8. Cardinality(C) \in Nat
    BY <2>7, FS_CardinalityType
  <2> QED
    BY <2>2, <2>3, <2>6, <2>7, <2>8
<1> QED
  BY <1>2, <1>6, <1>7, <1>8, <1>9 DEF Waits

\* Who was just asked for has waited for nothing.
LEMMA JustAskedWaits ==
  ASSUME NEW d \in Subs, waited'[d] = JustAsked
  PROVE  Waits(d)'
<1>1. PICK B : B = Others(d)'
  OBVIOUS
<1>2. B \in SUBSET (Subs \ {d})
  BY <1>1 DEF Others
<1>3. Cardinality(B) \in Nat
  BY <1>2, OthersAreFew
<1>4. waited'[d].passes = 0 /\ ~waited'[d].left
  BY DEF JustAsked
<1>5. 0 * Half = 0
  BY HalfIs
<1> QED
  BY <1>1, <1>3, <1>4, <1>5 DEF Waits

\* The history stays.
LEMMA WentStays ==
  ASSUME NEW d \in Subs, NEW x \in Subs, Went(x, d), history' = history, waited'[d].since = waited[d].since,
         TailStart(x)' = TailStart(x) \/ \A i \in 1 .. Len(history) : ~(history[i].of = RequestOf[x] /\ history[i].from = TailStart(x))
  PROVE  Went(x, d)'
<1>1. PICK i \in Tried(x) : history[i].at >= waited[d].since /\ \A j \in Own(d) : j < i
  BY DEF Went
<1>2. i \in Tried(x)'
  BY <1>1 DEF Tried
<1>3. Own(d)' = Own(d)
  BY DEF Own
<1> QED
  BY <1>1, <1>2, <1>3 DEF Went

\* Whoever does not get among the first k of a class has k others of them before it.
LEMMA FirstAll ==
  ASSUME RefreshTyped, NEW C \in SUBSET Subs, NEW k \in Nat, NEW d \in C, Turn(d, C) >= k,
         NEW T, T = {x \in C : Turn(x, C) < k}
  PROVE  /\ T \in SUBSET (Subs \ {d}) /\ Cardinality(T) >= k
         /\ \A x \in T : GoesBefore(x, d)
<1>1. \A x \in C : Turn(x, C) \in Nat
  BY TurnIs
<1>2. PICK S : S = {n \in Nat : n >= k /\ \E x \in C : Turn(x, C) = n}
  OBVIOUS
<1>3. S \in SUBSET Nat /\ S # {}
  BY <1>1, <1>2
<1>4. PICK m \in S : \A n \in S : m <= n
  BY <1>3, LeastOf
<1>5. PICK e \in C : Turn(e, C) = m /\ m >= k /\ m \in Nat
  BY <1>2, <1>4
<1>6. PICK U \in SUBSET C : U = {x \in C : GoesBefore(x, e)}
  OBVIOUS
<1>7. U \in SUBSET T
  <2>1. ASSUME NEW x \in U
        PROVE  x \in T
    <3>1. Turn(x, C) < Turn(e, C) /\ x \in C
      BY <1>6, TurnIs
    <3>2. ~(Turn(x, C) >= k)
      BY <1>1, <1>2, <1>4, <1>5, <3>1
    <3> QED
      BY <1>1, <3>1, <3>2
  <2> QED
    BY <2>1
<1>8. Cardinality(U) = m
  BY <1>5, <1>6 DEF Turn
<1>9. T \in SUBSET (Subs \ {d})
  BY <1>1
<1>10. IsFiniteSet(T) /\ Cardinality(T) \in Nat
  BY <1>9, OthersAreFew
<1>11. Cardinality(U) <= Cardinality(T)
  BY <1>7, <1>10, FS_Subset
<1>12. ASSUME NEW x \in T
       PROVE  GoesBefore(x, d)
  <2>1. x \in C /\ x # d /\ ~(Turn(d, C) < Turn(x, C))
    BY <1>1
  <2>2. ~GoesBefore(d, x)
    BY <2>1, TurnIs
  <2> QED
    BY <2>1, <2>2, OrderIs
<1> QED
  BY <1>5, <1>8, <1>9, <1>10, <1>11, <1>12

\* A due dataset that a pass leaves out has half a cap of others before it that the pass asks for.
LEMMA TakenBefore ==
  ASSUME RefreshTyped, NEW d \in (Productive \cup DueAgain) \ (First \cup Again)
  PROVE  \E T \in SUBSET (Subs \ {d}) :
           /\ Cardinality(T) >= Half
           /\ \A x \in T : GoesBefore(x, d) /\ x \in First \cup Again
<1>1. PICK cap \in Nat, half \in Nat : cap = MaxPerPass /\ half = Half /\ half + half <= cap
  BY HalfIs
<1>2. Productive \in SUBSET Subs /\ DueAgain \in SUBSET Subs
  BY DEF Productive, DueAgain, OwedNow
<1>3. PICK n \in Nat : n = Cardinality(DueAgain)
  BY <1>2, TurnIs
<1>4. PICK few \in Nat : few = Min({Cardinality(DueAgain), MaxPerPass \div 2}) /\ few = IF n <= half THEN n ELSE half
  <2>1. PICK S : S = {n, half}
    OBVIOUS
  <2>2. Min(S) = IF n <= half THEN n ELSE half
    BY <2>1, FirstOfTwo
  <2> QED
    BY <1>1, <1>3, <2>1, <2>2 DEF Half
<1>5. PICK k \in Nat : k = cap - few /\ k >= half
  BY <1>1, <1>4
<1>6. First = {x \in Productive : Turn(x, Productive) < k}
  BY <1>1, <1>4, <1>5 DEF First
<1>7. PICK a \in Nat : a = Cardinality(First) /\ a <= k
  BY <1>2, <1>6, FirstFew
<1>8. PICK l \in Nat : l = cap - a /\ l >= few
  BY <1>5, <1>7
<1>9. Again = {x \in DueAgain : Turn(x, DueAgain) < l}
  BY <1>1, <1>7, <1>8 DEF Again
<1>10. CASE d \in Productive
  <2>1. Turn(d, Productive) \in Nat /\ ~(Turn(d, Productive) < k)
    BY <1>2, <1>6, <1>10, TurnIs
  <2>2. /\ First \in SUBSET (Subs \ {d}) /\ Cardinality(First) >= k
        /\ \A x \in First : GoesBefore(x, d)
    BY <1>2, <1>6, <1>10, <2>1, FirstAll
  <2>3. Cardinality(First) >= Half
    BY <1>1, <1>5, <1>7, <2>2
  <2> QED
    BY <2>2, <2>3
<1>11. CASE d \in DueAgain
  <2>1. Turn(d, DueAgain) \in Nat /\ Turn(d, DueAgain) >= l
    <3>1. Turn(d, DueAgain) \in Nat
      BY <1>2, <1>11, TurnIs
    <3>2. ~(Turn(d, DueAgain) < l)
      BY <1>9, <1>11
    <3> QED
      BY <3>1, <3>2
  <2>2. /\ Again \in SUBSET (Subs \ {d}) /\ Cardinality(Again) >= l
        /\ \A x \in Again : GoesBefore(x, d)
    <3>1. PICK T : T = Again
      OBVIOUS
    <3>2. T = {x \in DueAgain : Turn(x, DueAgain) < l}
      BY <1>9, <3>1
    <3>3. T \in SUBSET (Subs \ {d}) /\ Cardinality(T) >= l /\ \A x \in T : GoesBefore(x, d)
      <4>1. DueAgain \in SUBSET Subs /\ l \in Nat /\ d \in DueAgain /\ Turn(d, DueAgain) >= l
        BY <1>2, <1>11, <2>1
      <4> QED
        BY <3>2, <4>1, FirstAll
    <3> QED
      BY <3>1, <3>3
  <2>3. Turn(d, DueAgain) < n
    <3>1. PICK U : U = {x \in DueAgain : GoesBefore(x, d)}
      OBVIOUS
    <3>2. U \in SUBSET DueAgain /\ d \notin U
      BY <1>2, <1>11, <3>1, OrderIs
    <3>3. IsFiniteSet(DueAgain)
      BY <1>2, TurnIs
    <3>4. IsFiniteSet(U) /\ Cardinality(U) <= Cardinality(DueAgain) /\ (Cardinality(DueAgain) = Cardinality(U) => DueAgain = U)
      BY <3>2, <3>3, FS_Subset
    <3>5. Cardinality(U) \in Nat /\ Cardinality(U) # Cardinality(DueAgain)
      BY <1>11, <3>2, <3>4, FS_CardinalityType
    <3> QED
      BY <1>3, <3>1, <3>4, <3>5 DEF Turn
  <2>4. l >= half
    BY <1>1, <1>4, <1>8, <2>1, <2>3
  <2>5. Cardinality(Again) >= Half
    <3>1. Cardinality(Again) \in Nat
      BY <1>2, <1>11, <2>2, OthersAreFew
    <3> QED
      BY <1>1, <2>2, <2>4, <3>1
  <2> QED
    BY <2>2, <2>5
<1> QED
  BY <1>10, <1>11

\* Who was asked for since does not go before.
LEMMA WentIsLater ==
  ASSUME RefreshTyped, NEW x \in Subs, NEW d \in Subs, Went(x, d), waited[d].since \in Nat,
         waited[d].since >= tick - Lookback
  PROVE  ~GoesBefore(x, d)
<1>1. PICK i \in Tried(x) : history[i].at >= waited[d].since /\ \A j \in Own(d) : j < i
  BY DEF Went
<1>2. i \in 1 .. Len(history) /\ Len(history) \in Nat /\ history[i].at \in Nat /\ tick \in Nat /\ Lookback \in Nat
  <2>1. i \in 1 .. Len(history)
    BY <1>1 DEF Tried
  <2>2. history[i].at \in Nat
    BY <2>1, RunTyped
  <2>3. Len(history) \in Nat /\ tick \in Nat /\ Lookback \in Nat
    BY RefreshAssumption DEF RefreshTyped
  <2> QED
    BY <2>1, <2>2, <2>3
<1>3. i \in Attempts(x)
  <2>1. history[i].at >= tick - Lookback
    BY <1>1, <1>2
  <2> QED
    BY <1>1, <1>2, <2>1 DEF Tried, Attempts
<1>4. LastPlace(x) >= i /\ LastPlace(x) \in Nat
  <2>1. PICK S : S = {0} \cup Attempts(x)
    OBVIOUS
  <2>2. S \in SUBSET Nat /\ S # {} /\ (\A q \in S : q <= Len(history)) /\ i \in S
    BY <1>2, <1>3, <2>1 DEF Attempts
  <2>3. i <= Max(S) /\ Max(S) \in Nat
    BY <1>2, <2>2, LastOf
  <2> QED
    BY <1>2, <2>1, <2>3 DEF LastPlace
<1>5. LastPlace(d) < i
  <2>1. PICK S : S = {0} \cup Attempts(d)
    OBVIOUS
  <2>2. S \in SUBSET Nat /\ S # {} /\ (\A q \in S : q <= Len(history))
    BY <1>2, <2>1 DEF Attempts
  <2>3. \A q \in S : q < i
    BY <1>1, <1>2, <2>1 DEF Attempts, Own
  <2>4. Max(S) \in S
    BY <1>2, <2>2, LastOf
  <2> QED
    BY <2>1, <2>3, <2>4 DEF LastPlace
<1>6. LastPlace(d) \in Nat
  BY LastPlaceIs
<1> QED
  BY <1>2, <1>4, <1>5, <1>6 DEF GoesBefore

---------------------------------------------------------------------------
(* Each step keeps the count. *)

\* A pass starts.
LEMMA StartWaits ==
  ASSUME RefreshTyped, WaitTyped, StartRefresh
  PROVE  /\ WaitTyped'
         /\ \A d \in Subs : Waits(d) => Waits(d)'
<1>1. UNCHANGED <<tick, newest, history>> /\ tick \in Nat
  BY DEF StartRefresh, dataVars, RefreshTyped
<1>2. PICK b : b = Taken
  OBVIOUS
<1>3. "batch" \in DOMAIN pass' /\ pass'.batch = b
  BY <1>2 DEF StartRefresh, Idle
<1>4. ASSUME NEW d \in Subs
      PROVE  /\ waited'[d] \in [passes : Nat, since : Nat, left : BOOLEAN] /\ waited'[d].since <= tick
             /\ waited'[d].left => d \in (Productive \cup DueAgain) \ (First \cup Again)
             /\ \/ /\ waited'[d].passes = waited[d].passes /\ waited'[d].since = waited[d].since
                   /\ waited[d].since >= tick - Lookback
                \/ waited'[d].passes = 0
  <2>1. PICK l : l = (d \in (Productive \cup DueAgain) \ (First \cup Again))
    OBVIOUS
  <2>6. l \in BOOLEAN
    <3>1. CASE d \in (Productive \cup DueAgain) \ (First \cup Again)
      <4>1. l = TRUE
        BY <2>1, <3>1, Zenon
      <4> QED
        BY <4>1
    <3>2. CASE d \notin (Productive \cup DueAgain) \ (First \cup Again)
      <4>1. l = FALSE
        <5>1. ~(d \in (Productive \cup DueAgain) \ (First \cup Again))
          BY <3>2
        <5>2. (d \in (Productive \cup DueAgain) \ (First \cup Again)) = FALSE
          BY <5>1, SMT
        <5> QED
          BY <2>1, <5>2, Zenon
      <4> QED
        BY <4>1
    <3> QED
      BY <3>1, <3>2
  <2>7. l => d \in (Productive \cup DueAgain) \ (First \cup Again)
    BY <2>1, Zenon
  <2>2. waited'[d] = [(IF d \in Productive \cup DueAgain /\ StillWaits(d) THEN waited[d] ELSE [JustAsked EXCEPT !.since = tick])
                        EXCEPT !.left = l]
    BY <2>1 DEF StartRefresh
  <2>3. waited[d] \in [passes : Nat, since : Nat, left : BOOLEAN] /\ waited[d].since <= tick
    BY DEF WaitTyped
  <2>4. CASE d \in Productive \cup DueAgain /\ StillWaits(d)
    <3>1. waited'[d] = [waited[d] EXCEPT !.left = l] /\ waited[d].since >= tick - Lookback
      BY <2>2, <2>4 DEF StillWaits
    <3>2. /\ waited'[d] \in [passes : Nat, since : Nat, left : BOOLEAN]
          /\ waited'[d].passes = waited[d].passes /\ waited'[d].since = waited[d].since /\ waited'[d].left = l
      BY <2>3, <2>6, <3>1
    <3>3. waited'[d].left => d \in (Productive \cup DueAgain) \ (First \cup Again)
      BY <2>7, <3>2
    <3> QED
      BY <2>3, <3>1, <3>2, <3>3
  <2>5. CASE ~(d \in Productive \cup DueAgain /\ StillWaits(d))
    <3>1. waited'[d] = [[JustAsked EXCEPT !.since = tick] EXCEPT !.left = l]
      BY <2>2, <2>5, Zenon
    <3>2. waited'[d] = [passes |-> 0, since |-> tick, left |-> l]
      BY <3>1 DEF JustAsked
    <3>3. waited'[d] \in [passes : Nat, since : Nat, left : BOOLEAN]
      BY <1>1, <2>6, <3>2
    <3>4. waited'[d].passes = 0 /\ waited'[d].since = tick /\ waited'[d].left = l
      BY <3>2
    <3>5. waited'[d].left => d \in (Productive \cup DueAgain) \ (First \cup Again)
      BY <2>7, <3>4
    <3> QED
      BY <1>1, <3>3, <3>4, <3>5
  <2> QED
    BY <2>4, <2>5
<1>5. WaitTyped'
  <2>1. waited' \in [Subs -> [passes : Nat, since : Nat, left : BOOLEAN]]
    <3>1. waited' = [d \in Subs |-> waited'[d]]
      BY DEF StartRefresh
    <3> QED
      BY <1>4, <3>1
  <2>2. \A x \in b : x.d \in Subs /\ x.from = TailStart(x.d)
    BY <1>2, TakenIs
  <2>3. \A d : TailStart(d)' = TailStart(d)
    BY <1>1 DEF TailStart, IsProvisional, FireOf, CloseOf
  <2>4. \A x, y \in b : x.d = y.d => x = y
    BY <1>2, TakenOnce
  <2> QED
    BY <1>1, <1>3, <1>4, <2>1, <2>2, <2>3, <2>4 DEF WaitTyped
<1>6. ASSUME NEW d \in Subs, Waits(d)
      PROVE  Waits(d)'
  <2>1. PICK A : A = Others(d)
    OBVIOUS
  <2>2. PICK B : B = Others(d)'
    OBVIOUS
  <2>3. PICK D : D = B \cup ToAsk(d)'
    OBVIOUS
  <2>4. B \in SUBSET D /\ D \in SUBSET (Subs \ {d}) /\ A \in SUBSET (Subs \ {d})
    BY <2>1, <2>2, <2>3 DEF Others, ToAsk
  <2>5. /\ IsFiniteSet(A) /\ Cardinality(A) \in Nat /\ Cardinality(B) \in Nat
        /\ IsFiniteSet(D) /\ Cardinality(D) \in Nat
    BY <2>4, OthersAreFew
  <2>6. PICK p \in Nat : p = waited'[d].passes
    BY <1>4
  <2>7. PICK h \in Nat : h = Half
    BY HalfIs
  <2>8. PICK y \in Int, z \in Int : y = p * h /\ z = (p + 1) * h /\ z = y + h
    BY <2>6, <2>7
  <2>9. CASE waited'[d].passes = 0
    <3>1. y = 0 /\ z = h
      BY <2>6, <2>7, <2>8, <2>9
    <3>2. ASSUME waited'[d].left
          PROVE  Cardinality(D) >= z
      <4>1. PICK T \in SUBSET (Subs \ {d}) : Cardinality(T) >= Half /\ \A x \in T : x \in First \cup Again
        BY <1>4, <3>2, TakenBefore
      <4>2. T \in SUBSET D
        BY <1>2, <1>3, <2>3, <4>1, TakenOnce DEF ToAsk
      <4>3. IsFiniteSet(T) /\ Cardinality(T) <= Cardinality(D) /\ Cardinality(T) \in Nat
        BY <2>5, <4>1, <4>2, FS_Subset, OthersAreFew
      <4> QED
        BY <2>5, <2>7, <3>1, <4>1, <4>3
    <3>3. Cardinality(B) >= y
      BY <2>5, <3>1
    <3> QED
      BY <2>2, <2>3, <2>6, <2>7, <2>8, <3>2, <3>3 DEF Waits
  <2>10. CASE /\ waited'[d].passes = waited[d].passes /\ waited'[d].since = waited[d].since
              /\ waited[d].since >= tick - Lookback
    <3>1. B = A
      <4>1. Own(d)' = Own(d) /\ \A x : Tried(x)' = Tried(x)
        BY <1>1 DEF Own, Tried, TailStart, IsProvisional, FireOf, CloseOf
      <4>2. \A x : Went(x, d)' <=> Went(x, d)
        BY <1>1, <2>10, <4>1 DEF Went
      <4> QED
        BY <2>1, <2>2, <4>2 DEF Others
    <3>2. Cardinality(A) >= y
      BY <2>1, <2>6, <2>7, <2>8, <2>10, <1>6 DEF Waits
    <3>3. ASSUME waited'[d].left
          PROVE  Cardinality(D) >= z
      <4>1. PICK T \in SUBSET (Subs \ {d}) : Cardinality(T) >= Half /\ \A x \in T : GoesBefore(x, d) /\ x \in First \cup Again
        BY <1>4, <3>3, TakenBefore
      <4>2. T \in SUBSET D
        BY <1>2, <1>3, <2>3, <4>1, TakenOnce DEF ToAsk
      <4>3. IsFiniteSet(T) /\ Cardinality(T) \in Nat
        BY <4>1, OthersAreFew
      <4>4. A \cap T = {}
        <5>1. waited[d].since \in Nat
          BY DEF WaitTyped
        <5>2. \A x \in A : x \in Subs /\ Went(x, d)
          BY <2>1 DEF Others
        <5>3. \A x \in A : ~GoesBefore(x, d)
          BY <2>10, <5>1, <5>2, WentIsLater
        <5> QED
          BY <4>1, <5>3
      <4>5. PICK U : U = A \cup T
        OBVIOUS
      <4>6. Cardinality(U) = Cardinality(A) + Cardinality(T) - Cardinality(A \cap T) /\ Cardinality(A \cap T) = 0
        BY <2>5, <4>3, <4>4, <4>5, FS_Union, FS_EmptySet
      <4>7. Cardinality(U) <= Cardinality(D)
        <5>1. U \in SUBSET D
          BY <2>4, <3>1, <4>2, <4>5
        <5> QED
          BY <2>5, <5>1, FS_Subset
      <4> QED
        BY <2>5, <2>7, <2>8, <3>2, <4>1, <4>3, <4>6, <4>7
    <3> QED
      BY <2>2, <2>3, <2>6, <2>7, <2>8, <3>1, <3>2, <3>3 DEF Waits
  <2> QED
    BY <1>4, <2>9, <2>10
<1> QED
  BY <1>5, <1>6

\* Nothing is asked and no tail moves that was asked for: the wait goes on.
LEMMA QuietWaits ==
  ASSUME WaitInv, tick' \in Nat, tick <= tick', tick \in Nat, UNCHANGED <<newest, history, waited>>,
         pass'.batch \subseteq pass.batch, loop'.st = "running" => loop.st = "running" /\ pass'.batch = pass.batch
  PROVE  WaitInv'
<1>1. WaitTyped
  BY DEF WaitInv
<1>2. \A d : TailStart(d)' = TailStart(d)
  BY DEF TailStart, IsProvisional, FireOf, CloseOf
<1>3. WaitTyped'
  <2>1. \A d \in Subs : waited[d].since \in Nat /\ waited[d].since <= tick
    BY <1>1 DEF WaitTyped
  <2>2. \A d \in Subs : waited'[d].since <= tick'
    BY <2>1
  <2> QED
    BY <1>1, <1>2, <2>2 DEF WaitTyped
<1>4. ASSUME NEW d \in Subs, Lone(d)
      PROVE  Waits(d)'
  <2>1. Waits(d)
    BY <1>4 DEF WaitInv
  <2>2. \A x \in Subs \ {d} : Went(x, d) => Went(x, d)'
    BY <1>2, WentStays
  <2> QED
    BY <1>1, <2>1, <2>2, MoreWent
<1> QED
  BY <1>3, <1>4 DEF WaitInv, Lone

\* A pass ends: all it had were asked for.
LEMMA EndWaits ==
  ASSUME RefreshTyped, WaitInv, EndRefresh, "st" \in DOMAIN loop
  PROVE  WaitInv'
<1>1. /\ UNCHANGED <<tick, newest, history>> /\ pass.batch = {} /\ loop.st = "running" /\ loop'.st = "asking"
      /\ pass'.batch = {}
  BY DEF EndRefresh, dataVars, Idle
<1>2. WaitTyped
  BY DEF WaitInv
<1>3. ASSUME NEW d \in Subs
      PROVE  /\ waited'[d] \in [passes : Nat, since : Nat, left : BOOLEAN] /\ waited'[d].since = waited[d].since
             /\ waited'[d].passes = waited[d].passes + (IF waited[d].left THEN 1 ELSE 0)
  <2>1. PICK k \in Nat : k = IF waited[d].left THEN 1 ELSE 0
    OBVIOUS
  <2>2. waited'[d] = [waited[d] EXCEPT !.passes = @ + k]
    BY <2>1 DEF EndRefresh
  <2>3. waited[d] \in [passes : Nat, since : Nat, left : BOOLEAN]
    BY <1>2 DEF WaitTyped
  <2> QED
    BY <2>1, <2>2, <2>3
<1>4. WaitTyped'
  <2>1. waited' = [d \in Subs |-> waited'[d]]
    BY DEF EndRefresh
  <2>2. waited' \in [Subs -> [passes : Nat, since : Nat, left : BOOLEAN]]
    BY <1>3, <2>1
  <2>3. \A d \in Subs : waited'[d].since <= tick'
    BY <1>1, <1>2, <1>3 DEF WaitTyped
  <2> QED
    BY <1>1, <2>2, <2>3 DEF WaitTyped
<1>5. ASSUME NEW d \in Subs, Waits(d)
      PROVE  Waits(d)'
  <2>1. Others(d)' = Others(d)
    <3>1. Own(d)' = Own(d) /\ \A x : Tried(x)' = Tried(x)
      BY <1>1 DEF Own, Tried, TailStart, IsProvisional, FireOf, CloseOf
    <3>2. \A x : Went(x, d)' <=> Went(x, d)
      BY <1>1, <1>3, <3>1 DEF Went
    <3> QED
      BY <3>2 DEF Others
  <2>2. Others(d) \cup ToAsk(d) = Others(d)
    BY <1>1 DEF ToAsk
  <2>3. PICK p \in Nat : p = waited[d].passes
    BY <1>2 DEF WaitTyped
  <2>4. Cardinality(Others(d)) >= waited'[d].passes * Half
    <3>1. CASE waited[d].left
      <4>1. Cardinality(Others(d)) >= (p + 1) * Half
        BY <1>1, <1>5, <2>2, <2>3, <3>1 DEF Waits
      <4>2. waited'[d].passes = p + 1
        BY <1>3, <2>3, <3>1
      <4> QED
        BY <4>1, <4>2
    <3>2. CASE ~waited[d].left
      <4>1. waited'[d].passes = p
        BY <1>3, <2>3, <3>2
      <4> QED
        BY <1>5, <2>3, <4>1 DEF Waits
    <3> QED
      BY <3>1, <3>2
  <2> QED
    BY <1>1, <2>1, <2>4 DEF Waits
<1> QED
  BY <1>4, <1>5 DEF WaitInv, Lone

\* Somebody else's fetch ends.
LEMMA ElsewhereWaits ==
  ASSUME RefreshTyped, WaitInv, NEW e \in Subs, ElsewhereEnds(e)
  PROVE  WaitInv'
<1>1. UNCHANGED <<tick, history, pass, loop>> /\ tick \in Nat
  BY DEF ElsewhereEnds, RefreshTyped
<1>2. PICK s : IF s = newest[e].s THEN UNCHANGED <<newest, waited>>
               ELSE /\ newest' = [newest EXCEPT ![e] = [s |-> s, at |-> tick]]
                    /\ waited' = IF LosesRuns(e) THEN [d \in Subs |-> JustAsked] ELSE waited
  BY Zenon DEF ElsewhereEnds
<1>3. WaitTyped
  BY DEF WaitInv
<1>4. CASE UNCHANGED <<newest, waited>>
  BY <1>1, <1>4, QuietWaits
<1>5. CASE newest' = [newest EXCEPT ![e] = [s |-> s, at |-> tick]] /\ waited' = [d \in Subs |-> JustAsked]
  <2>1. WaitTyped'
    <3>1. JustAsked \in [passes : Nat, since : Nat, left : BOOLEAN] /\ ~JustAsked.left /\ JustAsked.since = 0
      BY DEF JustAsked
    <3> QED
      BY <1>1, <1>3, <1>5, <3>1 DEF WaitTyped
  <2>2. \A d \in Subs : waited'[d] = JustAsked
    BY <1>5
  <2> QED
    BY <2>1, <2>2, JustAskedWaits DEF WaitInv
<1>6. CASE newest' = [newest EXCEPT ![e] = [s |-> s, at |-> tick]] /\ waited' = waited /\ ~LosesRuns(e)
  <2>1. \A d \in Subs \ {e} : TailStart(d)' = TailStart(d)
    <3>1. \A d \in Subs \ {e} : newest'[d] = newest[d]
      BY <1>6 DEF RefreshTyped
    <3> QED
      BY <3>1 DEF TailStart, IsProvisional, FireOf, CloseOf
  <2>2. \A x \in pass.batch : x.d \in Subs \ {e}
    BY <1>6 DEF LosesRuns, RefreshTyped
  <2>3. WaitTyped'
    BY <1>1, <1>3, <1>6, <2>1, <2>2 DEF WaitTyped
  <2>4. ASSUME NEW d \in Subs, Lone(d)
        PROVE  Waits(d)'
    <3>1. Waits(d)
      BY <2>4 DEF WaitInv
    <3>2. ASSUME NEW x \in Subs \ {d}, Went(x, d)
          PROVE  Went(x, d)'
      <4>1. CASE x # e
        BY <1>1, <1>6, <2>1, <3>2, <4>1, WentStays
      <4>2. CASE x = e
        <5>1. \A i \in 1 .. Len(history) : ~(history[i].of = RequestOf[x] /\ history[i].from = TailStart(x))
          BY <1>6, <4>2 DEF LosesRuns
        <5> QED
          BY <1>1, <1>6, <3>2, <5>1, WentStays
      <4> QED
        BY <4>1, <4>2
    <3> QED
      BY <1>1, <1>3, <1>6, <3>1, <3>2, MoreWent
  <2> QED
    BY <2>3, <2>4 DEF WaitInv, Lone
<1> QED
  BY <1>2, <1>4, <1>5, <1>6

\* A request of the pass, its run finished or not: the others are behind as they were; and so is now whom
\* it asked for, if it is finished.
LEMMA RequestWent ==
  ASSUME RefreshTyped, WaitTyped, NEW x \in pass.batch, NEW v \in BOOLEAN, NEW named \in BOOLEAN,
         NEW done \in BOOLEAN, v => done, history' = Added(RunMade(x, v, named, done)),
         NEW d \in Subs \ {x.d}, Lone(d), waited'[d].since = waited[d].since,
         \A y \in Subs : TailStart(y)' = TailStart(y) \/ (y = x.d /\ named /\ done)
  PROVE  /\ \A y \in Subs \ {d} : Went(y, d) => Went(y, d)'
         /\ done /\ x.from = TailStart(x.d) => Went(x.d, d)'
<1>1. x.d \in Subs /\ x.from \in Nat /\ tick \in Nat
  BY DEF RefreshTyped
<1>2. PICK run \in Runs : /\ history' = Added(run) /\ run.of = (IF named THEN x.d ELSE RequestOf[x.d]) /\ run.at = tick
                          /\ run.done = done /\ (~named => run.from = x.from)
  BY RunIs
<1>3. PICK f \in [1 .. Len(history') - 1 -> 1 .. Len(history)] :
        /\ \A i \in 1 .. Len(history') - 1 : history'[i] = history[f[i]]
        /\ \A i, j \in 1 .. Len(history') - 1 : j < i => f[j] < f[i]
        /\ \A i \in 1 .. Len(history) : Stays(history[i], run) => \E j \in 1 .. Len(history') - 1 : f[j] = i
  BY <1>2, AddedKeeps
<1>4. PICK n \in Nat \ {0} : n = Len(history') /\ history'[n] = run
  BY <1>2, AddedKeeps
<1>5. \A i \in 1 .. n - 1 : f[i] \in 1 .. Len(history) /\ f[i] \in Int /\ history'[i] = history[f[i]] /\ i \in 1 .. n
  <2>1. \A i \in 1 .. n - 1 : f[i] \in 1 .. Len(history) /\ history'[i] = history[f[i]]
    BY <1>3, <1>4, Zenon
  <2> QED
    BY <2>1
<1>6. run.of \notin {d, RequestOf[d]}
  BY <1>1, <1>2, RefreshAssumption DEF Lone
\* The dataset's own runs are among those before.
<1>7. \A i \in Own(d)' : i \in 1 .. n - 1 /\ f[i] \in Own(d)
  <2>1. ASSUME NEW i \in Own(d)'
        PROVE  i \in 1 .. n - 1 /\ f[i] \in Own(d)
    <3>1. i \in 1 .. n /\ history'[i].of \in {d, RequestOf[d]}
      BY <1>4 DEF Own
    <3>2. i \in 1 .. n - 1
      BY <1>4, <1>6, <3>1
    <3> QED
      BY <1>5, <3>1, <3>2 DEF Own
  <2> QED
    BY <2>1
<1>8. waited[d].since \in Nat /\ waited[d].since <= tick
  BY DEF WaitTyped
\* The new run is behind them.
<1>9. ASSUME NEW y \in Subs, n \in Tried(y)'
      PROVE  Went(y, d)'
  BY <1>2, <1>4, <1>7, <1>8, <1>9 DEF Went
<1>10. ASSUME named, done
       PROVE  n \in Tried(x.d)'
  <2>1. history'[n].of = x.d /\ history'[n].done
    BY <1>2, <1>4, <1>10
  <2> QED
    BY <1>4, <2>1 DEF Tried
<1>11. ASSUME NEW y \in Subs \ {d}, Went(y, d)
       PROVE  Went(y, d)'
  <2>1. PICK i \in Tried(y) : history[i].at >= waited[d].since /\ \A j \in Own(d) : j < i
    BY <1>11 DEF Went
  <2>2. i \in 1 .. Len(history) /\ i \in Int /\ history[i].done /\ (history[i].of = y \/ (history[i].of = RequestOf[y] /\ history[i].from = TailStart(y)))
    BY <2>1 DEF Tried
  <2>3. CASE y = x.d /\ named /\ done
    BY <1>1, <1>9, <1>10, <2>3
  <2>4. CASE ~(y = x.d /\ named /\ done) /\ Stays(history[i], run)
    <3>1. PICK j \in 1 .. n - 1 : f[j] = i
      BY <1>3, <1>4, <2>2, <2>4
    <3>2. TailStart(y)' = TailStart(y)
      BY <2>4
    <3>3. j \in Tried(y)' /\ history'[j] = history[i]
      BY <1>4, <1>5, <2>2, <3>1, <3>2 DEF Tried
    <3>4. ASSUME NEW k \in Own(d)'
          PROVE  k < j
      <4>1. k \in 1 .. n - 1 /\ f[k] < f[j] /\ f[k] \in Int /\ f[j] \in Int
        BY <1>5, <1>7, <2>1, <3>1
      <4>2. k # j
        BY <4>1
      <4>3. ~(j < k)
        <5>1. j < k => f[j] < f[k]
          BY <1>3, <1>4, <3>1, <4>1
        <5> QED
          BY <4>1, <5>1
      <4> QED
        BY <3>1, <4>1, <4>2, <4>3
    <3> QED
      BY <2>1, <3>3, <3>4 DEF Went
  <2>5. CASE ~(y = x.d /\ named /\ done) /\ ~Stays(history[i], run)
    <3>1. /\ run.done /\ history[i].of = run.of /\ (run.of \in Subs \/ history[i].from = run.from)
          /\ TailStart(y)' = TailStart(y)
      BY <2>5 DEF Stays
    <3>2. RequestOf[y] \notin Subs
      BY <1>11, RefreshAssumption
    <3>3. history'[n].done /\ (history'[n].of = y \/ (history'[n].of = RequestOf[y] /\ history'[n].from = TailStart(y)'))
      BY <1>4, <2>2, <3>1, <3>2
    <3>4. n \in Tried(y)'
      BY <1>4, <3>3 DEF Tried
    <3> QED
      BY <1>9, <3>4
  <2> QED
    BY <2>3, <2>4, <2>5
<1>12. ASSUME done, x.from = TailStart(x.d)
       PROVE  Went(x.d, d)'
  <2>1. CASE named
    BY <1>1, <1>9, <1>10, <1>12, <2>1
  <2>2. CASE ~named
    <3>1. history'[n].done /\ history'[n].of = RequestOf[x.d] /\ history'[n].from = TailStart(x.d)'
      BY <1>1, <1>2, <1>4, <1>12, <2>2
    <3>2. n \in Tried(x.d)'
      BY <1>4, <3>1 DEF Tried
    <3> QED
      BY <1>1, <1>9, <3>2
  <2> QED
    BY <2>1, <2>2
<1> QED
  BY <1>11, <1>12

\* A request that is on the record.
LEMMA AskedWaits ==
  ASSUME RefreshTyped, WaitInv, NEW x \in pass.batch, NEW vain \in BOOLEAN, NEW named \in BOOLEAN,
         Finished(x, vain, named), tick' = tick, waited' = [waited EXCEPT ![x.d] = JustAsked],
         \A y \in Subs : TailStart(y)' = TailStart(y) \/ (y = x.d /\ named),
         pass'.batch \subseteq pass.batch \ {x},
         loop'.st = "running" => loop.st = "running" /\ pass'.batch = pass.batch \ {x}
  PROVE  WaitInv'
<1>1. WaitTyped /\ x.d \in Subs /\ tick \in Nat
  BY DEF WaitInv, RefreshTyped
<1>2. waited'[x.d] = JustAsked /\ \A d \in Subs \ {x.d} : waited'[d] = waited[d]
  BY <1>1 DEF WaitTyped
<1>3. WaitTyped'
  <2>1. JustAsked \in [passes : Nat, since : Nat, left : BOOLEAN] /\ ~JustAsked.left /\ JustAsked.since = 0
    BY DEF JustAsked
  <2>2. waited' \in [Subs -> [passes : Nat, since : Nat, left : BOOLEAN]]
    BY <1>1, <2>1 DEF WaitTyped
  <2>3. \A d \in Subs : waited'[d].since <= tick'
    BY <1>1, <1>2, <2>1 DEF WaitTyped
  <2>4. \A y, z \in pass'.batch : y.d = z.d => y = z
    BY <1>1 DEF WaitTyped
  <2>5. ASSUME loop'.st = "running", NEW d \in Subs, waited'[d].left, NEW y \in pass'.batch
        PROVE  y.from = TailStart(y.d)'
    <3>1. d # x.d /\ waited[d].left
      BY <1>2, <2>1, <2>5
    <3>2. y \in pass.batch /\ y # x /\ y.d # x.d /\ y.d \in Subs
      BY <1>1, <2>5 DEF WaitTyped, RefreshTyped
    <3>3. y.from = TailStart(y.d)
      BY <1>1, <2>5, <3>1, <3>2 DEF WaitTyped
    <3> QED
      BY <3>2, <3>3
  <2> QED
    BY <2>2, <2>3, <2>4, <2>5 DEF WaitTyped
<1>4. ASSUME NEW d \in Subs, Lone(d)
      PROVE  Waits(d)'
  <2>1. CASE d = x.d
    BY <1>2, <2>1, JustAskedWaits
  <2>2. CASE d # x.d
    <3>1. Waits(d) /\ waited'[d] = waited[d]
      BY <1>2, <1>4, <2>2 DEF WaitInv
    <3>2. /\ \A y \in Subs \ {d} : Went(y, d) => Went(y, d)'
          /\ x.from = TailStart(x.d) => Went(x.d, d)'
      <4>1. history' = Added(RunMade(x, vain, named, TRUE))
        BY DEF Finished
      <4> QED
        BY <1>1, <1>4, <2>2, <3>1, <4>1, RequestWent
    <3>3. ASSUME loop'.st = "running", waited'[d].left
          PROVE  \A b \in pass.batch : b.d \in Subs \ {d} => Went(b.d, d)' \/ \E c \in pass'.batch : c.d = b.d
      <4>1. x.from = TailStart(x.d)
        BY <1>1, <3>1, <3>3 DEF WaitTyped
      <4>2. \A b \in pass.batch : b = x \/ b \in pass'.batch
        BY <3>3
      <4> QED
        BY <3>2, <4>1, <4>2
    <3> QED
      BY <1>1, <3>1, <3>2, <3>3, MoreWent
  <2> QED
    BY <2>1, <2>2
<1> QED
  BY <1>3, <1>4 DEF WaitInv, Lone

\* A request that is not: the pass does not count, and if a tail moved nobody has waited for anything.
LEMMA LostWaits ==
  ASSUME RefreshTyped, WaitInv, NEW x \in pass.batch, tick' = tick,
         \/ history' = history
         \/ \E v, named, done \in BOOLEAN : (v => done) /\ history' = Added(RunMade(x, v, named, done)),
         waited' = [d \in Subs |->
           IF d = x.d \/ newest' # newest THEN JustAsked ELSE [waited[d] EXCEPT !.left = FALSE]],
         pass'.batch \subseteq pass.batch
  PROVE  WaitInv'
<1>1. WaitTyped /\ x.d \in Subs /\ tick \in Nat
  BY DEF WaitInv, RefreshTyped
<1>2. JustAsked \in [passes : Nat, since : Nat, left : BOOLEAN] /\ ~JustAsked.left /\ JustAsked.since = 0
  BY DEF JustAsked
<1>3. ASSUME NEW d \in Subs
      PROVE  \/ waited'[d] = JustAsked
             \/ /\ waited'[d] \in [passes : Nat, since : Nat, left : BOOLEAN] /\ ~waited'[d].left
                /\ waited'[d].passes = waited[d].passes /\ waited'[d].since = waited[d].since
                /\ d # x.d /\ newest' = newest
  <2>1. CASE d = x.d \/ newest' # newest
    BY <2>1
  <2>2. CASE ~(d = x.d \/ newest' # newest)
    <3>1. waited'[d] = [waited[d] EXCEPT !.left = FALSE]
      BY <2>2
    <3>2. waited[d] \in [passes : Nat, since : Nat, left : BOOLEAN]
      BY <1>1 DEF WaitTyped
    <3> QED
      BY <2>2, <3>1, <3>2
  <2> QED
    BY <2>1, <2>2
<1>4. WaitTyped'
  <2>1. ASSUME NEW d \in Subs
        PROVE  /\ waited'[d] \in [passes : Nat, since : Nat, left : BOOLEAN] /\ ~waited'[d].left
               /\ waited'[d].since <= tick'
    <3>1. waited[d].since <= tick
      BY <1>1 DEF WaitTyped
    <3>2. CASE waited'[d] = JustAsked
      <4>1. JustAsked.since <= tick'
        BY <1>1, <1>2
      <4> QED
        BY <1>2, <3>2, <4>1, Zenon
    <3>3. CASE waited'[d] # JustAsked
      BY <1>3, <3>1, <3>3
    <3> QED
      BY <3>2, <3>3
  <2>2. waited' \in [Subs -> [passes : Nat, since : Nat, left : BOOLEAN]]
    <3>1. waited' = [d \in Subs |-> waited'[d]]
      OBVIOUS
    <3> QED
      BY <2>1, <3>1
  <2>3. \A y, z \in pass'.batch : y.d = z.d => y = z
    BY <1>1 DEF WaitTyped
  <2> QED
    BY <2>1, <2>2, <2>3 DEF WaitTyped
<1>5. ASSUME NEW d \in Subs, Lone(d)
      PROVE  Waits(d)'
  <2>1. CASE waited'[d] = JustAsked
    BY <2>1, JustAskedWaits
  <2>2. CASE /\ ~waited'[d].left /\ waited'[d].passes = waited[d].passes /\ waited'[d].since = waited[d].since
             /\ d # x.d /\ newest' = newest
    <3>1. \A y \in Subs : TailStart(y)' = TailStart(y)
      BY <2>2 DEF TailStart, IsProvisional, FireOf, CloseOf
    <3>2. \A y \in Subs \ {d} : Went(y, d) => Went(y, d)'
      <4>1. CASE history' = history
        BY <2>2, <3>1, <4>1, WentStays
      <4>2. CASE \E v, named, done \in BOOLEAN : (v => done) /\ history' = Added(RunMade(x, v, named, done))
        BY <1>1, <1>5, <2>2, <3>1, <4>2, RequestWent
      <4> QED
        BY <4>1, <4>2
    <3>3. Waits(d)
      BY <1>5 DEF WaitInv
    <3> QED
      BY <1>1, <2>2, <3>2, <3>3, MoreWent
  <2> QED
    BY <1>3, <2>1, <2>2
<1> QED
  BY <1>4, <1>5 DEF WaitInv, Lone

\* The process starts anew: the runs it finishes count as well.
LEMMA RestartWaits ==
  ASSUME RefreshTyped, WaitInv, RefreshRestarts, "st" \in DOMAIN loop
  PROVE  WaitInv'
<1>1. /\ UNCHANGED <<tick, newest, waited>> /\ pass'.batch = {} /\ loop'.st = "asking"
      /\ history' = Swept \/ history' = history
  BY DEF RefreshRestarts, ghostVars, Idle
<1>2. WaitTyped /\ tick \in Nat
  BY DEF WaitInv, RefreshTyped
<1>3. CASE history' = history
  BY <1>1, <1>2, <1>3, QuietWaits
<1>4. CASE history' = Swept
  <2>1. PICK n \in Nat : n = Len(history) /\ \A i \in 1 .. n : history[i] \in Runs
    BY RunTyped DEF RefreshTyped
  <2>2. history' = [i \in 1 .. n |-> [history[i] EXCEPT !.done = TRUE]]
    BY <1>4, <2>1 DEF Swept
  <2>3. ASSUME NEW i \in 1 .. n
        PROVE  /\ history'[i].of = history[i].of /\ history'[i].from = history[i].from
               /\ history'[i].at = history[i].at /\ history'[i].done /\ history'[i] \in Runs
    <3>1. PICK r \in Runs : r = history[i]
      BY <2>1
    <3>2. history'[i] = [r EXCEPT !.done = TRUE]
      BY <2>2, <3>1
    <3> QED
      BY <3>1, <3>2 DEF Runs
  <2>4. Len(history') = n
    <3>1. history' \in [1 .. n -> Runs]
      BY <2>2, <2>3
    <3> QED
      BY <3>1, <2>2
  <2>5. \A d : TailStart(d)' = TailStart(d)
    BY <1>1 DEF TailStart, IsProvisional, FireOf, CloseOf
  <2>6. WaitTyped'
    BY <1>1, <1>2 DEF WaitTyped
  <2>7. ASSUME NEW d \in Subs, Lone(d)
        PROVE  Waits(d)'
    <3>1. ASSUME NEW x \in Subs, Went(x, d)
          PROVE  Went(x, d)'
      <4>1. PICK i \in Tried(x) : history[i].at >= waited[d].since /\ \A j \in Own(d) : j < i
        BY <3>1 DEF Went
      <4>2. i \in 1 .. n
        BY <2>1, <4>1 DEF Tried
      <4>3. i \in Tried(x)'
        BY <2>3, <2>4, <2>5, <4>1, <4>2 DEF Tried
      <4>4. Own(d)' = Own(d)
        BY <2>1, <2>3, <2>4 DEF Own
      <4> QED
        BY <1>1, <2>3, <4>1, <4>2, <4>3, <4>4 DEF Went
    <3>2. Waits(d)
      BY <2>7 DEF WaitInv
    <3> QED
      BY <1>1, <1>2, <3>1, <3>2, MoreWent
  <2> QED
    BY <2>6, <2>7 DEF WaitInv, Lone
<1> QED
  BY <1>1, <1>3, <1>4

LEMMA RequestsWait ==
  ASSUME RefreshTyped, WaitInv, "st" \in DOMAIN loop, NEW x \in pass.batch,
         StoresTail(x) \/ FindsNothing(x) \/ IsRefused(x) \/ RequestFails(x)
  PROVE  WaitInv'
<1>1. tick' = tick /\ loop.st = "running" /\ x.d \in Subs /\ "batch" \in DOMAIN pass
  BY DEF StoresTail, FindsNothing, IsRefused, RequestFails, dataVars, Asking, RefreshTyped
<1>2. PICK vain \in BOOLEAN, named \in BOOLEAN :
        /\ Recorded(x, vain, named)
        /\ newest' = newest \/ (named /\ \E s : newest' = [newest EXCEPT ![x.d] = [s |-> s, at |-> tick]])
  <2>1. CASE StoresTail(x)
    <3>1. Recorded(x, FALSE, TRUE)
      BY <2>1 DEF StoresTail
    <3>2. \E s : newest' = IF s >= newest[x.d].s THEN [newest EXCEPT ![x.d] = [s |-> s, at |-> tick]] ELSE newest
      BY <2>1, Zenon DEF StoresTail
    <3>3. newest' = newest \/ \E s : newest' = [newest EXCEPT ![x.d] = [s |-> s, at |-> tick]]
      BY <3>2, Zenon
    <3> QED
      BY <3>1, <3>3
  <2>2. CASE FindsNothing(x) \/ IsRefused(x) \/ RequestFails(x)
    <3>1. newest' = newest
      BY <2>2 DEF FindsNothing, IsRefused, RequestFails, dataVars
    <3>2. \E vain \in BOOLEAN, named \in BOOLEAN : Recorded(x, vain, named)
      BY <2>2, RequestMade
    <3> QED
      BY <3>1, <3>2
  <2> QED
    BY <2>1, <2>2
<1>3. \A y \in Subs : TailStart(y)' = TailStart(y) \/ (y = x.d /\ named)
  <2>1. ASSUME NEW y \in Subs
        PROVE  newest'[y] = newest[y] \/ (y = x.d /\ named)
    BY <1>1, <1>2 DEF RefreshTyped
  <2> QED
    BY <2>1 DEF TailStart, IsProvisional, FireOf, CloseOf
<1>4. /\ pass'.batch \subseteq pass.batch \ {x}
      /\ loop'.st = "running" => loop.st = "running" /\ pass'.batch = pass.batch \ {x}
  <2>1. \/ loop' = loop /\ \E n : Proceed(x, n)
        \/ pass' = Idle /\ loop' = [loop EXCEPT !.st = "asking"]
    BY Zenon DEF StoresTail, FindsNothing, IsRefused, RequestFails
  <2>2. CASE loop' = loop /\ \E n : Proceed(x, n)
    BY <1>1, <2>2 DEF Proceed
  <2>3. CASE pass' = Idle /\ loop' = [loop EXCEPT !.st = "asking"]
    BY <2>3 DEF Idle
  <2> QED
    BY <2>1, <2>2, <2>3
<1>5. CASE Finished(x, vain, named) /\ waited' = [waited EXCEPT ![x.d] = JustAsked]
  BY <1>1, <1>3, <1>4, <1>5, AskedWaits
<1>6. CASE /\ Unfinished(x, vain, named) \/ (named /\ Finished(x, vain, FALSE))
           /\ waited' = [d \in Subs |->
                IF d = x.d \/ newest' # newest THEN JustAsked ELSE [waited[d] EXCEPT !.left = FALSE]]
  <2>1. \/ history' = history
        \/ \E v, shown, done \in BOOLEAN : (v => done) /\ history' = Added(RunMade(x, v, shown, done))
    <3>1. CASE Unfinished(x, vain, named)
      BY <3>1 DEF Unfinished
    <3>2. CASE Finished(x, vain, FALSE)
      BY <3>2 DEF Finished
    <3> QED
      BY <1>6, <3>1, <3>2
  <2>2. pass'.batch \subseteq pass.batch
    BY <1>4
  <2> QED
    BY <1>1, <1>6, <2>1, <2>2, LostWaits
<1> QED
  BY <1>2, <1>5, <1>6, Zenon DEF Recorded

LEMMA StepWaits ==
  ASSUME RefreshInv, WaitInv, "st" \in DOMAIN loop, [Next]_vars
  PROVE  WaitInv'
<1>1. RefreshTyped /\ tick \in Nat /\ WaitTyped /\ "batch" \in DOMAIN pass
  BY DEF RefreshInv, RefreshTyped, WaitInv
<1>2. CASE NameFire \/ ScheduleFails \/ AskAgain \/ RefreshRaises
  <2>1. UNCHANGED <<tick, newest, history, waited, pass>>
    BY <1>2 DEF NameFire, ScheduleFails, AskAgain, RefreshRaises, dataVars, ghostVars
  <2>2. loop'.st # "running"
    BY <1>2 DEF NameFire, ScheduleFails, AskAgain, RefreshRaises
  <2> QED
    BY <1>1, <2>1, <2>2, QuietWaits
<1>3. CASE StartRefresh
  <2>1. WaitTyped' /\ \A d \in Subs : Waits(d) => Waits(d)'
    BY <1>1, <1>3, StartWaits
  <2> QED
    BY <2>1 DEF WaitInv, Lone
<1>4. CASE EndRefresh
  BY <1>1, <1>4, EndWaits
<1>5. CASE \E x \in pass.batch : StoresTail(x) \/ FindsNothing(x) \/ IsRefused(x) \/ RequestFails(x)
  BY <1>1, <1>5, RequestsWait
<1>6. CASE TickPasses
  <2>1. UNCHANGED <<newest, history, waited, pass, loop>> /\ tick' = tick + 1
    BY <1>6 DEF TickPasses, dataVars
  <2> QED
    BY <1>1, <2>1, QuietWaits
<1>7. CASE \E d \in Subs : Flip(d) \/ ElsewhereBegins(d)
  <2>1. UNCHANGED <<tick, newest, history, waited, pass, loop>>
    BY <1>7 DEF Flip, ElsewhereBegins, ghostVars
  <2> QED
    BY <1>1, <2>1, QuietWaits
<1>8. CASE \E d \in Subs : ElsewhereEnds(d)
  BY <1>1, <1>8, ElsewhereWaits
<1>9. CASE RefreshRestarts
  BY <1>1, <1>9, RestartWaits
<1>10. CASE UNCHANGED refreshVars
  <2>1. UNCHANGED <<tick, newest, history, waited, pass, loop>>
    BY <1>10 DEF refreshVars
  <2> QED
    BY <1>1, <2>1, QuietWaits
<1>11. RefreshNext \/ UNCHANGED refreshVars
  BY Zenon DEF Next, vars, Detail, Viewer, Grid, Coverage, Usage, Sidebar, Refresh, Failure
<1> QED
  BY <1>2, <1>3, <1>4, <1>5, <1>6, <1>7, <1>8, <1>9, <1>10, <1>11, Zenon DEF RefreshNext

LEMMA InitWaits == RefreshInit => WaitInv
<1> SUFFICES ASSUME RefreshInit PROVE WaitInv
  OBVIOUS
<1>1. /\ tick = 0 /\ pass.batch = {} /\ loop.st = "asking" /\ waited = [d \in Subs |-> JustAsked]
  BY DEF RefreshInit, Idle
<1>2. JustAsked \in [passes : Nat, since : Nat, left : BOOLEAN] /\ JustAsked.passes = 0 /\ ~JustAsked.left /\ JustAsked.since = 0
  BY DEF JustAsked
<1>3. WaitTyped
  BY <1>1, <1>2 DEF WaitTyped
<1>4. ASSUME NEW d \in Subs
      PROVE  Waits(d)
  <2>1. PICK B : B = Others(d)
    OBVIOUS
  <2>2. B \in SUBSET (Subs \ {d})
    BY <2>1 DEF Others
  <2>3. Cardinality(B) \in Nat /\ 0 * Half = 0
    BY <2>2, OthersAreFew, HalfIs
  <2> QED
    BY <1>1, <1>2, <2>1, <2>3 DEF Waits
<1> QED
  BY <1>3, <1>4 DEF WaitInv

---------------------------------------------------------------------------
(* While the runner sleeps, it has missed no fire. *)

NoFireMissed ==
    /\ {"st", "until", "wake", "last"} \subseteq DOMAIN loop
    /\ loop.until \in Int /\ loop.last \in Int /\ loop.last <= tick
    /\ loop.st = "retrying" => overran
    /\ loop.st = "sleeping" =>
         \A s \in AllSessions : FireOf(s) > tick /\ FireOf(s) > loop.last => FireOf(s) >= loop.until
    /\ loop.st = "sleeping" /\ ~loop.wake => tick <= loop.until
    /\ ~loop.wake /\ ~overran =>
         \A s \in AllSessions : FireOf(s) <= tick =>
           FireOf(s) <= loop.last \/ (loop.st = "sleeping" /\ FireOf(s) >= loop.until)

LEMMA FireIs ==
  /\ \A s \in AllSessions : FireOf(s) \in Nat
  /\ LastTick + 1 \in AllSessions /\ FireOf(LastTick + 1) > LastTick
<1>1. DayTicks \in Nat \ {0} /\ SettleDelay \in Nat /\ LastTick \in Nat
  BY RefreshAssumption
<1>2. ASSUME NEW s \in AllSessions
      PROVE  FireOf(s) \in Nat /\ FireOf(s) >= s
  <2>1. s \in Nat
    BY <1>1, <1>2 DEF AllSessions
  <2>2. DayTicks * s \in Nat /\ DayTicks * s >= s
    BY <1>1, <2>1
  <2> QED
    BY <1>1, <2>1, <2>2 DEF FireOf, CloseOf
<1>3. LastTick + 1 \in AllSessions
  BY <1>1 DEF AllSessions
<1> QED
  BY <1>1, <1>2, <1>3

LEMMA NextFireIs ==
  ASSUME tick \in Nat, tick <= LastTick, NEW last \in Int, last <= tick
  PROVE  /\ NextFire(last) \in Nat /\ NextFire(last) > tick
         /\ \A s \in AllSessions : FireOf(s) > tick /\ FireOf(s) > last => FireOf(s) >= NextFire(last)
<1>1. Max({tick, last}) = tick
  <2>1. Max({tick, last}) \in {tick, last} /\ tick <= Max({tick, last})
    BY MaxTwo
  <2> QED
    BY <2>1
<1>2. PICK S : S = {FireOf(s) : s \in {x \in AllSessions : FireOf(x) > tick}}
  OBVIOUS
<1>3. NextFire(last) = Min(S)
  BY <1>1, <1>2 DEF NextFire
<1>4. S \in SUBSET Nat /\ \A f \in S : f > tick
  BY <1>2, FireIs
<1>5. S # {}
  <2>1. FireOf(LastTick + 1) > tick
    BY FireIs, RefreshAssumption
  <2> QED
    BY <1>2, <2>1, FireIs
<1>6. Min(S) \in S /\ \A f \in S : Min(S) <= f
  BY <1>4, <1>5, FirstOf
<1>7. \A s \in AllSessions : FireOf(s) > tick => FireOf(s) \in S
  BY <1>2
<1>8. \A s \in AllSessions : FireOf(s) \in Nat
  BY FireIs
<1> QED
  BY <1>3, <1>4, <1>6, <1>7, <1>8

LEMMA StepFires ==
  ASSUME NoFireMissed, tick \in Nat, tick <= LastTick, tick' \in Nat, [Next]_vars
  PROVE  NoFireMissed'
<1>1. \A s \in AllSessions : FireOf(s) \in Nat
  BY FireIs
<1>2. /\ {"st", "until", "wake", "last"} \subseteq DOMAIN loop
      /\ loop.until \in Int /\ loop.last \in Int /\ loop.last <= tick
  BY DEF NoFireMissed
<1>3. CASE NameFire
  <2>1. PICK u : u = NextFire(loop.last)
    OBVIOUS
  <2>2. /\ u \in Nat /\ u > tick
        /\ \A s \in AllSessions : FireOf(s) > tick /\ FireOf(s) > loop.last => FireOf(s) >= u
    BY <1>2, <2>1, NextFireIs
  <2>3. /\ loop.st = "asking" /\ loop' = [loop EXCEPT !.st = "sleeping", !.until = u]
        /\ tick' = tick /\ overran' = overran
    BY <1>3, <2>1 DEF NameFire, ghostVars
  <2>4. /\ {"st", "until", "wake", "last"} \subseteq DOMAIN loop' /\ loop'.st = "sleeping" /\ loop'.until = u
        /\ loop'.wake = loop.wake /\ loop'.last = loop.last
    BY <1>2, <2>3
  <2>5. ~loop.wake /\ ~overran => \A s \in AllSessions : FireOf(s) <= tick => FireOf(s) <= loop.last
    BY <2>3 DEF NoFireMissed
  <2> QED
    BY <1>2, <2>2, <2>3, <2>4, <2>5 DEF NoFireMissed
<1>4. CASE ScheduleFails
  <2>1. /\ loop' = [loop EXCEPT !.st = IF loop.wake THEN "asking" ELSE "retrying", !.until = tick + 1, !.wake = FALSE]
        /\ overran' /\ tick' = tick
    BY <1>4 DEF ScheduleFails
  <2>2. /\ {"st", "until", "wake", "last"} \subseteq DOMAIN loop' /\ loop'.st # "sleeping" /\ loop'.until = tick + 1
        /\ loop'.last = loop.last
    BY <1>2, <2>1
  <2> QED
    BY <1>2, <2>1, <2>2 DEF NoFireMissed
<1>5. CASE AskAgain \/ EndRefresh
  <2>1. /\ loop' = [loop EXCEPT !.st = "asking"] /\ overran' = overran /\ tick' = tick /\ loop.st # "sleeping"
    BY <1>5 DEF AskAgain, EndRefresh, ghostVars
  <2>2. /\ {"st", "until", "wake", "last"} \subseteq DOMAIN loop' /\ loop'.st = "asking" /\ loop'.until = loop.until
        /\ loop'.last = loop.last /\ loop'.wake = loop.wake
    BY <1>2, <2>1
  <2>3. ~loop.wake /\ ~overran => \A s \in AllSessions : FireOf(s) <= tick => FireOf(s) <= loop.last
    BY <2>1 DEF NoFireMissed
  <2> QED
    BY <1>2, <2>1, <2>2, <2>3 DEF NoFireMissed
<1>6. CASE StartRefresh \/ RefreshRaises
  <2>1. PICK a \in {"running", "asking"} : loop' = [loop EXCEPT !.st = a, !.wake = FALSE, !.last = tick]
    BY <1>6 DEF StartRefresh, RefreshRaises
  <2>2. tick' = tick
    BY <1>6 DEF StartRefresh, RefreshRaises
  <2>3. /\ {"st", "until", "wake", "last"} \subseteq DOMAIN loop' /\ loop'.st = a /\ loop'.until = loop.until
        /\ loop'.last = tick
    BY <1>2, <2>1
  <2> QED
    BY <1>2, <2>2, <2>3 DEF NoFireMissed
<1>7. CASE \E x \in pass.batch : StoresTail(x) \/ FindsNothing(x) \/ IsRefused(x) \/ RequestFails(x)
  <2>1. /\ tick' = tick /\ overran' = overran /\ loop.st = "running"
        /\ loop' = loop \/ loop' = [loop EXCEPT !.st = "asking"]
    BY <1>7, Zenon DEF StoresTail, FindsNothing, IsRefused, RequestFails, Asking
  <2>2. /\ {"st", "until", "wake", "last"} \subseteq DOMAIN loop' /\ loop'.st \in {"running", "asking"} /\ loop'.until = loop.until
        /\ loop'.last = loop.last /\ loop'.wake = loop.wake
    BY <1>2, <2>1
  <2>3. ~loop.wake /\ ~overran => \A s \in AllSessions : FireOf(s) <= tick => FireOf(s) <= loop.last
    BY <2>1 DEF NoFireMissed
  <2> QED
    BY <1>2, <2>1, <2>2, <2>3 DEF NoFireMissed
<1>8. CASE TickPasses
  <2>1. /\ loop' = loop /\ tick' = tick + 1 /\ loop.st # "asking"
        /\ ~(loop.st = "sleeping" /\ (loop.wake \/ tick >= loop.until))
    BY <1>8 DEF TickPasses, Due
  <2>2. ~overran' => ~overran /\ (loop.st = "sleeping" \/ \A s \in AllSessions : FireOf(s) # tick + 1)
    BY <1>8, Zenon DEF TickPasses
  <2>3. loop.st = "retrying" => overran'
    BY <2>2 DEF NoFireMissed
  <2>4. loop.st = "sleeping" => ~loop.wake /\ tick + 1 <= loop.until
    BY <1>2, <2>1
  <2>5. loop.st = "sleeping" =>
          \A s \in AllSessions : FireOf(s) > tick /\ FireOf(s) > loop.last => FireOf(s) >= loop.until
    BY DEF NoFireMissed
  <2>6. ASSUME ~loop.wake, ~overran', NEW s \in AllSessions, FireOf(s) <= tick + 1
        PROVE  FireOf(s) <= loop.last \/ (loop.st = "sleeping" /\ FireOf(s) >= loop.until)
    <3>1. CASE FireOf(s) <= tick
      BY <2>2, <2>6, <3>1 DEF NoFireMissed
    <3>2. CASE FireOf(s) = tick + 1
      <4>1. loop.st = "sleeping"
        BY <2>2, <2>6, <3>2
      <4>2. FireOf(s) > tick /\ FireOf(s) > loop.last
        BY <1>2, <3>2
      <4> QED
        BY <2>5, <4>1, <4>2
    <3> QED
      BY <1>1, <2>6, <3>1, <3>2
  <2>7. loop.st = "sleeping" =>
          \A s \in AllSessions : FireOf(s) > tick + 1 /\ FireOf(s) > loop.last => FireOf(s) >= loop.until
    BY <1>1, <2>5
  <2> QED
    BY <1>2, <2>1, <2>3, <2>4, <2>6, <2>7 DEF NoFireMissed
<1>9. CASE \/ \E d \in Subs : Flip(d) \/ ElsewhereBegins(d) \/ ElsewhereEnds(d)
           \/ UNCHANGED refreshVars
  <2>1. UNCHANGED <<tick, loop, overran>>
    BY <1>9 DEF Flip, ElsewhereBegins, ElsewhereEnds, ghostVars, refreshVars
  <2> QED
    BY <2>1 DEF NoFireMissed
<1>10. CASE RefreshRestarts
  <2>1. loop' = [st |-> "asking", until |-> 0, wake |-> TRUE, last |-> -1] /\ tick' = tick
    BY <1>10 DEF RefreshRestarts
  <2> QED
    BY <2>1 DEF NoFireMissed
<1>11. RefreshNext \/ UNCHANGED refreshVars
  BY Zenon DEF Next, vars, Detail, Viewer, Grid, Coverage, Usage, Sidebar, Refresh, Failure
<1> QED
  BY <1>3, <1>4, <1>5, <1>6, <1>7, <1>8, <1>9, <1>10, <1>11, Zenon DEF RefreshNext

LEMMA InitFires == RefreshInit => NoFireMissed
<1>1. ASSUME NEW l, l = [st |-> "asking", until |-> 0, wake |-> TRUE, last |-> -1]
      PROVE  /\ {"st", "until", "wake", "last"} \subseteq DOMAIN l /\ l.until \in Int /\ l.last \in Int /\ l.last <= 0
             /\ l.st = "asking" /\ l.wake
  BY <1>1
<1> QED
  BY <1>1 DEF RefreshInit, NoFireMissed

LEMMA WaitsEnd ==
  ASSUME RefreshTyped, WaitInv, NoFireMissed
  PROVE  DueIsAsked
<1>1. ASSUME NEW d \in Subs, Lone(d)
      PROVE  waited[d].passes * (MaxPerPass \div 2) < Cardinality(Subs)
  <2>1. PICK B : B = Others(d)
    OBVIOUS
  <2>2. B \in SUBSET (Subs \ {d})
    BY <2>1 DEF Others
  <2>3. Cardinality(B) \in Nat /\ Cardinality(B) < Cardinality(Subs) /\ Cardinality(Subs) \in Nat
    BY <2>2, OthersAreFew, FS_CardinalityType, RefreshAssumption
  <2>4. PICK p \in Nat : p = waited[d].passes
    BY DEF WaitInv, WaitTyped
  <2>5. PICK y \in Int : y = p * Half
    BY <2>4, HalfIs
  <2>6. Cardinality(B) >= y
    BY <1>1, <2>1, <2>4, <2>5 DEF WaitInv, Waits
  <2>7. y < Cardinality(Subs)
    BY <2>3, <2>6
  <2> QED
    BY <2>4, <2>5, <2>7 DEF Half
<1>2. ASSUME loop.st = "sleeping", ~loop.wake, ~overran, NEW s \in AllSessions, FireOf(s) <= tick
      PROVE  FireOf(s) <= loop.last \/ FireOf(s) = loop.until
  <2>1. FireOf(s) \in Nat /\ loop.until \in Int
    BY FireIs DEF NoFireMissed
  <2>2. FireOf(s) <= loop.last \/ FireOf(s) >= loop.until
    BY <1>2 DEF NoFireMissed
  <2>3. tick <= loop.until
    BY <1>2 DEF NoFireMissed
  <2>4. FireOf(s) >= loop.until => FireOf(s) = loop.until
    <3>1. tick \in Nat
      BY DEF RefreshTyped
    <3> QED
      BY <1>2, <2>1, <2>3, <3>1
  <2> QED
    BY <2>2, <2>4
<1> QED
  BY <1>1, <1>2 DEF DueIsAsked

DueInv == RefreshInv /\ LoopTyped /\ WaitInv /\ NoFireMissed

\* A dataset that is due is asked for before as many passes have left it out as half a cap needs to go
\* once round the others, whichever class it is in, whatever fails at the vendor and however often the
\* process restarts. A pass one of whose requests goes unrecorded, by a crash or for the recorder, does
\* not count, and all wait anew if it stored a bar; so they do where a fetch that is not the refresh's moves a
\* tail that unnamed runs asked for, and when the look-back ends. And a runner that sleeps has missed no fire
\* (run_pass, _plan and _take of daily_refresh.py; run_recording.py; run_periodic of common/scheduling.py).
THEOREM DueIsAskedAlways == Spec => []DueIsAsked
<1>1. Init => DueInv
  <2> SUFFICES ASSUME Init PROVE DueInv
    OBVIOUS
  <2>1. TypesInv /\ RefreshInit
    BY InitTypes DEF Init
  <2>2. RefreshInv /\ LoopTyped
    BY <2>1 DEF TypesInv
  <2>3. WaitInv /\ NoFireMissed
    BY <2>1, InitWaits, InitFires
  <2> QED
    BY <2>2, <2>3 DEF DueInv
<1>2. DueInv /\ [Next]_vars => DueInv'
  <2> SUFFICES ASSUME DueInv, [Next]_vars PROVE DueInv'
    OBVIOUS
  <2>1. RefreshInv /\ LoopTyped /\ WaitInv /\ NoFireMissed
    BY DEF DueInv
  <2>2. RefreshInv' /\ LoopTyped'
    BY <2>1, StepRefresh, StepLoopTyped
  <2>3. "st" \in DOMAIN loop /\ tick \in Nat /\ tick <= LastTick /\ tick' \in Nat
    BY <2>1, <2>2 DEF LoopTyped, RefreshInv, RefreshTyped
  <2>4. WaitInv' /\ NoFireMissed'
    BY <2>1, <2>3, StepWaits, StepFires
  <2> QED
    BY <2>2, <2>4 DEF DueInv
<1>3. DueInv => DueIsAsked
  BY WaitsEnd DEF DueInv, RefreshInv
<1> QED
  BY <1>1, <1>2, <1>3, PTL DEF Spec
=============================================================================
