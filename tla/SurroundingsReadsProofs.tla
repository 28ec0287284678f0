------------------------ MODULE SurroundingsReadsProofs ------------------------
(***************************************************************************)
(* The server's answers agree with each other.                             *)
(*                                                                         *)
(* The coverage strip of the detail page, the gaps listed beside it and    *)
(* the status.  A listed gap is a run of missing sessions that no missing  *)
(* session extends; these are disjoint and leave nothing out, so their     *)
(* counts add up to the missing sessions.  A bucket holds the sessions of  *)
(* the range at consecutive places; the places are cut without hole or     *)
(* overlap, so what the buckets leave out adds up to them as well.         *)
(*                                                                         *)
(* The list, the sidebar, the usage page and the storage page.  List and   *)
(* sidebar ask the same seven questions of a dataset, in another order     *)
(* and each count without its own; the figures are sums over the reads     *)
(* there were, each counted once by its client and day; a sum of sizes is  *)
(* the number of as many pairs, and the shares of it fall short by the     *)
(* remainders.                                                             *)
(***************************************************************************)
EXTENDS SurroundingsAnswersProofs

---------------------------------------------------------------------------
(* The runs of missing sessions. *)

RunIn(W, a, b) == {s \in W : a <= s /\ s <= b}

\* A run of missing sessions that no missing session extends.
Whole(W, M, a, b) ==
    /\ a <= b /\ RunIn(W, a, b) \subseteq M
    /\ \A s \in M : RunIn(W, Min({a, s}), Max({b, s})) \subseteq M => s \in RunIn(W, a, b)

\* It goes no further to either side.
NoFurther(W, M, a, b) ==
    /\ RunIn(W, a, b) \subseteq M
    /\ \A s \in M : s < a => ~(RunIn(W, s, b) \subseteq M)
    /\ \A s \in M : b < s => ~(RunIn(W, a, s) \subseteq M)

LEMMA WholeIs ==
  ASSUME NEW W \in SUBSET Nat, NEW M \in SUBSET W, NEW a \in M, NEW b \in M
  PROVE  Whole(W, M, a, b) <=> a <= b /\ NoFurther(W, M, a, b)
<1>1. a \in Nat /\ b \in Nat /\ a \in W /\ b \in W
  OBVIOUS
<1>2. ASSUME NEW s \in M
      PROVE  /\ s \in Nat /\ s \in W /\ Min({a, s}) = (IF a <= s THEN a ELSE s) /\ Max({b, s}) = (IF b <= s THEN s ELSE b)
  <2>1. s \in Nat /\ s \in W
    OBVIOUS
  <2> QED
    BY <1>1, <2>1, FirstOfTwo, LastOfTwo
<1>3. ASSUME Whole(W, M, a, b), NEW s \in M, s < a, RunIn(W, s, b) \subseteq M
      PROVE  FALSE
  <2>1. a <= b
    BY <1>3 DEF Whole
  <2>2. Min({a, s}) = s /\ Max({b, s}) = b
    BY <1>1, <1>2, <1>3, <2>1
  <2>3. s \in RunIn(W, a, b)
    BY <1>3, <2>2 DEF Whole
  <2> QED
    BY <1>1, <1>2, <1>3, <2>3 DEF RunIn
<1>4. ASSUME Whole(W, M, a, b), NEW s \in M, b < s, RunIn(W, a, s) \subseteq M
      PROVE  FALSE
  <2>1. a <= b
    BY <1>4 DEF Whole
  <2>2. Min({a, s}) = a /\ Max({b, s}) = s
    BY <1>1, <1>2, <1>4, <2>1
  <2>3. s \in RunIn(W, a, b)
    BY <1>4, <2>2 DEF Whole
  <2> QED
    BY <1>1, <1>2, <1>4, <2>3 DEF RunIn
<1>5. ASSUME a <= b, RunIn(W, a, b) \subseteq M,
             \A s \in M : s < a => ~(RunIn(W, s, b) \subseteq M),
             \A s \in M : b < s => ~(RunIn(W, a, s) \subseteq M)
      PROVE  Whole(W, M, a, b)
  <2>1. ASSUME NEW s \in M, RunIn(W, Min({a, s}), Max({b, s})) \subseteq M
        PROVE  s \in RunIn(W, a, b)
    <3>1. s < a => Min({a, s}) = s /\ Max({b, s}) = b
      BY <1>1, <1>2, <1>5
    <3>2. b < s => Min({a, s}) = a /\ Max({b, s}) = s
      BY <1>1, <1>2, <1>5
    <3>3. ~(s < a) /\ ~(b < s)
      BY <1>5, <2>1, <3>1, <3>2
    <3> QED
      BY <1>1, <1>2, <3>3 DEF RunIn
  <2> QED
    BY <1>5, <2>1 DEF Whole
<1>6. Whole(W, M, a, b) <=>
           /\ a <= b /\ RunIn(W, a, b) \subseteq M
           /\ \A s \in M : s < a => ~(RunIn(W, s, b) \subseteq M)
           /\ \A s \in M : b < s => ~(RunIn(W, a, s) \subseteq M)
  BY <1>3, <1>4, <1>5 DEF Whole
<1> QED
  BY <1>6, Zenon DEF NoFurther

LEMMA WholeSays ==
  ASSUME NEW W \in SUBSET Nat, NEW M \in SUBSET W, NEW a \in M, NEW b \in M, Whole(W, M, a, b)
  PROVE  NoFurther(W, M, a, b)
BY WholeIs

LEMMA RunsJoin ==
  ASSUME NEW W \in SUBSET Nat, NEW M, NEW a \in Nat, NEW b \in Nat, NEW c \in Nat, NEW d \in Nat, c <= b,
         RunIn(W, a, b) \subseteq M, RunIn(W, c, d) \subseteq M
  PROVE  RunIn(W, a, d) \subseteq M
<1>1. SUFFICES ASSUME NEW s \in W, a <= s, s <= d
               PROVE  s \in M
  BY DEF RunIn
<1>2. s \in Nat
  OBVIOUS
<1>3. s <= b \/ c <= s
  BY <1>2
<1> QED
  BY <1>1, <1>3 DEF RunIn

LEMMA PartOfRun ==
  ASSUME NEW W \in SUBSET Nat, NEW M, NEW a \in Nat, NEW b \in Nat, NEW c \in Nat, NEW d \in Nat, a <= c, d <= b,
         RunIn(W, a, b) \subseteq M
  PROVE  RunIn(W, c, d) \subseteq M
<1>1. SUFFICES ASSUME NEW s \in W, c <= s, s <= d
               PROVE  s \in M
  BY DEF RunIn
<1>2. s \in Nat
  OBVIOUS
<1>3. a <= s /\ s <= b
  BY <1>1, <1>2
<1> QED
  BY <1>3 DEF RunIn

\* Every missing session is in one of them,
LEMMA GapOf ==
  ASSUME NEW W \in SUBSET Nat, NEW M \in SUBSET W, NEW n \in Nat, \A x \in M : x <= n, NEW m \in M
  PROVE  \E a, b \in M : Whole(W, M, a, b) /\ a <= m /\ m <= b
<1>1. PICK A : A = {x \in M : x <= m /\ RunIn(W, x, m) \subseteq M}
  OBVIOUS
<1>2. PICK B : B = {x \in M : m <= x /\ RunIn(W, m, x) \subseteq M}
  OBVIOUS
<1>3. m \in Nat /\ m \in W
  OBVIOUS
<1>4. RunIn(W, m, m) \subseteq M
  <2>1. \A s \in W : s \in Nat
    OBVIOUS
  <2>2. \A s \in W : m <= s /\ s <= m => s = m
    BY <1>3, <2>1
  <2> QED
    BY <2>2 DEF RunIn
<1>5. m \in A /\ m \in B /\ A \subseteq M /\ B \subseteq M
  <2>1. m <= m
    BY <1>3
  <2> QED
    BY <1>1, <1>2, <1>4, <2>1
<1>15. A \in SUBSET Nat /\ B \in SUBSET Nat /\ A # {} /\ B # {}
  BY <1>5
<1>6. PICK a \in A : \A y \in A : a <= y
  BY <1>15, LeastOf
<1>7. \A y \in B : y <= n
  BY <1>5
<1>8. PICK b \in B : \A y \in B : y <= b
  BY <1>7, <1>15, LargestOf
<1>9. /\ a \in M /\ a \in Nat /\ a <= m /\ RunIn(W, a, m) \subseteq M
      /\ b \in M /\ b \in Nat /\ m <= b /\ RunIn(W, m, b) \subseteq M
  BY <1>1, <1>2, <1>5, <1>15
<1>10. RunIn(W, a, b) \subseteq M
  <2>1. m <= m
    BY <1>3
  <2> QED
    BY <1>3, <1>9, <2>1, RunsJoin
<1>11. ASSUME NEW s \in M, s < a, RunIn(W, s, b) \subseteq M
       PROVE  FALSE
  <2>1. s \in Nat /\ s <= m
    BY <1>3, <1>9, <1>11
  <2>2. RunIn(W, s, m) \subseteq M
    <3>1. s <= s
      BY <2>1
    <3> QED
      BY <1>3, <1>9, <1>11, <2>1, <3>1, PartOfRun
  <2>3. s \in A
    BY <1>1, <2>1, <2>2
  <2> QED
    BY <1>6, <1>9, <1>11, <2>1, <2>3
<1>12. ASSUME NEW s \in M, b < s, RunIn(W, a, s) \subseteq M
       PROVE  FALSE
  <2>1. s \in Nat /\ m <= s
    BY <1>3, <1>9, <1>12
  <2>2. RunIn(W, m, s) \subseteq M
    <3>1. s <= s
      BY <2>1
    <3> QED
      BY <1>3, <1>9, <1>12, <2>1, <3>1, PartOfRun
  <2>3. s \in B
    BY <1>2, <2>1, <2>2
  <2> QED
    BY <1>8, <1>9, <1>12, <2>1, <2>3
<1>13. a <= b
  BY <1>3, <1>9
<1>14. Whole(W, M, a, b)
  <2>1. NoFurther(W, M, a, b)
    BY <1>9, <1>10, <1>11, <1>12, <1>13 DEF NoFurther
  <2> QED
    BY <1>9, <1>10, <1>11, <1>12, <1>13, <2>1, WholeIs
<1> QED
  BY <1>9, <1>14

\* and in no other.
LEMMA GapsApart ==
  ASSUME NEW W \in SUBSET Nat, NEW M \in SUBSET W, NEW a \in M, NEW b \in M, NEW c \in M, NEW d \in M,
         Whole(W, M, a, b), Whole(W, M, c, d), NEW m \in Nat, a <= m, m <= b, c <= m, m <= d
  PROVE  a = c /\ b = d
<1>1. a \in Nat /\ b \in Nat /\ c \in Nat /\ d \in Nat
  OBVIOUS
<1>2. /\ RunIn(W, a, b) \subseteq M /\ RunIn(W, c, d) \subseteq M
      /\ \A s \in M : s < a => ~(RunIn(W, s, b) \subseteq M)
      /\ \A s \in M : b < s => ~(RunIn(W, a, s) \subseteq M)
      /\ \A s \in M : s < c => ~(RunIn(W, s, d) \subseteq M)
      /\ \A s \in M : d < s => ~(RunIn(W, c, s) \subseteq M)
  <2>1. NoFurther(W, M, a, b)
    BY WholeSays
  <2>2. NoFurther(W, M, c, d)
    BY WholeSays
  <2> QED
    BY <2>1, <2>2 DEF NoFurther
<1>3. RunIn(W, a, d) \subseteq M /\ RunIn(W, c, b) \subseteq M
  <2>1. c <= b /\ a <= d
    BY <1>1
  <2> QED
    BY <1>1, <1>2, <2>1, RunsJoin
<1>4. ~(a < c) /\ ~(c < a) /\ ~(b < d) /\ ~(d < b)
  BY <1>2, <1>3, Zenon
<1> QED
  BY <1>1, <1>4

---------------------------------------------------------------------------
(* What is walked and what is missing of the dataset. *)

Judged == WalkedAt(kept.width, clock, kept.start, EndAt(kept, clock))
Owing  == ExpectedAt(kept.width, clock, kept.start, EndAt(kept, clock))
Span   == Overlapping(kept.start, EndAt(kept, clock))

\* A bar is stamped with the start of the period it covers.
StampsInv == \A p \in covered : \E s \in Sessions : p = PeriodOf(kept.width, s)

LEMMA InitStamps == HealthInit => StampsInv
BY DEF HealthInit, StampsInv

LEMMA StepStamps ==
  ASSUME HealthInv, StampsInv, [Next]_vars
  PROVE  StampsInv'
<1>1. CASE StoreBars
  <2>1. PICK days \in SUBSET Stamps : covered' = covered \cup days /\ kept' = kept
    BY <1>1 DEF StoreBars
  <2>2. \A d : PeriodStart(d) = PeriodOf(kept.width, d)
    BY DEF PeriodStart, PeriodOf
  <2>3. \A p \in Stamps : \E s \in Sessions : p = PeriodOf(kept.width, s)
    BY <2>2 DEF Stamps, Periods
  <2> QED
    BY <2>1, <2>3 DEF StampsInv
<1>2. CASE SwitchCollecting
  <2>1. covered' = covered /\ kept' = [kept EXCEPT !.collect = ~@]
    BY <1>2 DEF SwitchCollecting
  <2>2. kept'.width = kept.width
    BY <2>1 DEF HealthInv, SubscriptionSet
  <2> QED
    BY <2>1, <2>2 DEF StampsInv
<1>3. CASE TimePasses \/ UNCHANGED healthVars
  <2>1. covered' = covered /\ kept' = kept
    BY <1>3 DEF TimePasses, healthVars
  <2> QED
    BY <2>1 DEF StampsInv
<1>4. HealthNext \/ UNCHANGED healthVars
  BY Zenon DEF Next, vars, Detail, Viewer, Grid, Coverage, Usage, Sidebar, Refresh, Failure
<1> QED
  BY <1>1, <1>2, <1>3, <1>4 DEF HealthNext

LEMMA SpanIs ==
  ASSUME NEW a \in Nat, NEW b \in Nat
  PROVE  /\ Overlapping(a, b) \in SUBSET Nat /\ Overlapping(a, b) \subseteq Sessions
         /\ \A s \in Overlapping(a, b) : s \in Nat /\ 4 * s + 1 < b /\ 4 * s + 2 > a
         /\ \A x, y \in Overlapping(a, b), s \in Sessions : x <= s /\ s <= y => s \in Overlapping(a, b)
         /\ IsFiniteSet(Overlapping(a, b))
<1>1. Sessions \subseteq Nat
  BY CalendarAssumption
<1>2. Overlapping(a, b) = {s \in Sessions : 4 * s + 1 < b /\ 4 * s + 2 > a}
  BY DEF Overlapping, SessionOpen, SessionClose
<1>3. \A s \in Overlapping(a, b) : s \in Nat /\ s \in Sessions /\ 4 * s + 1 < b /\ 4 * s + 2 > a
  BY <1>1, <1>2
<1>4. ASSUME NEW x \in Overlapping(a, b), NEW y \in Overlapping(a, b), NEW s \in Sessions, x <= s, s <= y
      PROVE  s \in Overlapping(a, b)
  <2>1. s \in Nat /\ x \in Nat /\ y \in Nat /\ 4 * y + 1 < b /\ 4 * x + 2 > a
    BY <1>1, <1>3
  <2>2. 4 * s + 1 < b /\ 4 * s + 2 > a
    BY <1>4, <2>1
  <2> QED
    BY <1>2, <2>2
<1>5. Overlapping(a, b) \subseteq 0 .. b
  <2>1. \A s \in Overlapping(a, b) : s \in 0 .. b
    BY <1>3
  <2> QED
    BY <2>1
<1>6. IsFiniteSet(Overlapping(a, b))
  <2>1. IsFiniteSet(0 .. b)
    BY FS_Interval
  <2> QED
    BY <1>5, <2>1, FS_Subset
<1> QED
  BY <1>3, <1>4, <1>6

LEMMA JudgedIs ==
  ASSUME HealthInv
  PROVE  /\ Judged \in SUBSET Nat /\ Judged \subseteq Sessions
         /\ \A x, y \in Judged, s \in Sessions : x <= s /\ s <= y => s \in Judged
         /\ kept.width = "day" => Judged = Span
<1>1. PICK from \in Nat, to \in Nat : from = kept.start /\ to = EndAt(kept, clock)
  <2>1. EndAt(kept, clock) \in Nat
    BY EndGrows DEF HealthInv
  <2> QED
    BY <2>1 DEF HealthInv, SubscriptionSet
<1>2. kept.width = "day" => Judged = Overlapping(from, to)
  BY <1>1 DEF Judged, WalkedAt
<1>3. \E b \in Nat : Judged = {} \/ Judged = Overlapping(from, b)
  <2>1. CASE kept.width = "day"
    BY <1>1, <1>2, <2>1
  <2>2. CASE kept.width # "day"
    <3>1. PICK m \in Nat : m = Min({to, clock})
      <4>1. clock \in Nat
        BY DEF HealthInv
      <4>2. Min({to, clock}) = IF to <= clock THEN to ELSE clock
        BY <4>1, FirstOfTwo
      <4> QED
        BY <4>1, <4>2
    <3>2. Judged = IF m <= from THEN {} ELSE Overlapping(from, Midnight(AfterPeriod(kept.width, DayOf(m))))
      BY <1>1, <2>2, <3>1 DEF Judged, WalkedAt
    <3>3. PICK n \in Nat : n = AfterPeriod(kept.width, DayOf(m))
      <4>1. DayOf(m) \in Nat
        BY <3>1 DEF DayOf
      <4> QED
        BY <4>1, PeriodIs
    <3>4. 4 * n \in Nat /\ Midnight(n) = 4 * n
      BY <3>3 DEF Midnight
    <3> QED
      BY <3>2, <3>3, <3>4
  <2> QED
    BY <2>1, <2>2
<1>4. PICK b \in Nat : Judged = {} \/ Judged = Overlapping(from, b)
  BY <1>3
<1>5. CASE Judged = {}
  BY <1>1, <1>2, <1>5 DEF Span
<1>6. CASE Judged = Overlapping(from, b)
  BY <1>1, <1>2, <1>6, SpanIs DEF Span
<1> QED
  BY <1>4, <1>5, <1>6

LEMMA MissingIs ==
  ASSUME HealthInv
  PROVE  /\ MissingSessions \subseteq Judged /\ MissingSessions \subseteq Span
         /\ \A s \in MissingSessions : s \in Nat /\ s \in Sessions /\ s <= clock
         /\ IsFiniteSet(MissingSessions)
         /\ MissingSessions = {s \in Owing \cap Span : PeriodOf(kept.width, s) \notin {PeriodOf(kept.width, d) : d \in covered}}
<1>1. PICK from \in Nat, to \in Nat : from = kept.start /\ to = EndAt(kept, clock)
  <2>1. EndAt(kept, clock) \in Nat
    BY EndGrows DEF HealthInv
  <2> QED
    BY <2>1 DEF HealthInv, SubscriptionSet
<1>2. clock \in Nat
  BY DEF HealthInv
<1>3. MissingSessions = {s \in (IF kept.width = "day" THEN Owing ELSE Owing \cap Span) :
                            PeriodOf(kept.width, s) \notin {PeriodOf(kept.width, d) : d \in covered}}
  BY MissingHere DEF MissingAt, Owing, Span
<1>4. Owing \subseteq Judged
  BY DEF Owing, Judged, ExpectedAt
<1>5. kept.width = "day" => Owing \subseteq Span
  BY <1>4, JudgedIs
<1>6. MissingSessions = {s \in Owing \cap Span : PeriodOf(kept.width, s) \notin {PeriodOf(kept.width, d) : d \in covered}}
  BY <1>3, <1>5
<1>7. \A s \in Owing : s \in Nat /\ s \in Sessions /\ s <= clock
  <2>1. SUFFICES ASSUME NEW s \in Owing PROVE s \in Nat /\ s \in Sessions /\ s <= clock
    OBVIOUS
  <2>2. s \in ExpectedAt(kept.width, clock, from, to) /\ clock <= clock /\ to <= to
    BY <1>1, <1>2 DEF Owing
  <2>3. s \in Nat /\ s \in Sessions /\ 4 * s + 2 <= clock
    BY <1>1, <1>2, <2>2, ExpectedGrows
  <2> QED
    BY <1>2, <2>3
<1>8. MissingSessions \subseteq Owing /\ MissingSessions \subseteq Span
  BY <1>6
<1>9. MissingSessions \subseteq 0 .. clock
  BY <1>2, <1>7, <1>8
<1>10. IsFiniteSet(MissingSessions)
  <2>1. IsFiniteSet(0 .. clock)
    BY <1>2, FS_Interval
  <2> QED
    BY <1>9, <2>1, FS_Subset
<1> QED
  BY <1>4, <1>6, <1>7, <1>8, <1>10

LEMMA IntervalsAre ==
  GapIntervals = {[first |-> g[1], last |-> g[2], sessions |-> Cardinality(RunIn(Judged, g[1], g[2]))] :
                     g \in {p \in MissingSessions \X MissingSessions : Whole(Judged, MissingSessions, p[1], p[2])}}
<1>1. Walked(kept.start, RangeEnd) = Judged
  BY Zenon DEF Walked, WalkedAt, Judged, RangeEnd, EndAt, PeriodStart, PeriodOf, NextPeriod, AfterPeriod
<1> QED
  BY <1>1, Zenon DEF GapIntervals, RunIn, Whole

\* The window of a gap.
WindowOf(a, b) == [start |-> 4 * a, end |-> 4 * (b + 1), sessions |-> Cardinality(RunIn(Judged, a, b))]

LEMMA WindowsAre ==
  ASSUME NEW n
  PROVE  \A w : w \in DatasetCoverage(n).gaps <=>
                  \E a, b \in MissingSessions : Whole(Judged, MissingSessions, a, b) /\ w = WindowOf(a, b)
<1> DEFINE P == {p \in MissingSessions \X MissingSessions : Whole(Judged, MissingSessions, p[1], p[2])}
           G == {[first |-> g[1], last |-> g[2], sessions |-> Cardinality(RunIn(Judged, g[1], g[2]))] : g \in P}
<1>1. DatasetCoverage(n).gaps = {[start |-> 4 * g.first, end |-> 4 * (g.last + 1), sessions |-> g.sessions] : g \in G}
  BY IntervalsAre DEF DatasetCoverage, Midnight
<1>2. \A w : w \in DatasetCoverage(n).gaps <=> \E p \in P : w = WindowOf(p[1], p[2])
  <2>1. \A g \in G : \E p \in P : g = [first |-> p[1], last |-> p[2], sessions |-> Cardinality(RunIn(Judged, p[1], p[2]))]
    OBVIOUS
  <2>2. \A p \in P : [first |-> p[1], last |-> p[2], sessions |-> Cardinality(RunIn(Judged, p[1], p[2]))] \in G
    OBVIOUS
  <2>3. \A p \in P : \A g : g = [first |-> p[1], last |-> p[2], sessions |-> Cardinality(RunIn(Judged, p[1], p[2]))]
           => [start |-> 4 * g.first, end |-> 4 * (g.last + 1), sessions |-> g.sessions] = WindowOf(p[1], p[2])
    BY DEF WindowOf
  <2> HIDE DEF P, G
  <2>4. ASSUME NEW w \in DatasetCoverage(n).gaps
        PROVE  \E p \in P : w = WindowOf(p[1], p[2])
    <3>1. PICK g \in G : w = [start |-> 4 * g.first, end |-> 4 * (g.last + 1), sessions |-> g.sessions]
      BY <1>1
    <3> QED
      BY <2>1, <2>3, <3>1
  <2>5. ASSUME NEW p \in P
        PROVE  WindowOf(p[1], p[2]) \in DatasetCoverage(n).gaps
    <3>1. PICK g \in G : g = [first |-> p[1], last |-> p[2], sessions |-> Cardinality(RunIn(Judged, p[1], p[2]))]
      BY <2>2
    <3>2. [start |-> 4 * g.first, end |-> 4 * (g.last + 1), sessions |-> g.sessions] \in DatasetCoverage(n).gaps
      BY <1>1
    <3> QED
      BY <2>3, <3>1, <3>2
  <2> QED
    BY <2>4, <2>5
<1>3. ASSUME NEW w, NEW p \in P, w = WindowOf(p[1], p[2])
      PROVE  \E a, b \in MissingSessions : Whole(Judged, MissingSessions, a, b) /\ w = WindowOf(a, b)
  BY <1>3
<1>4. ASSUME NEW w, NEW a \in MissingSessions, NEW b \in MissingSessions, Whole(Judged, MissingSessions, a, b), w = WindowOf(a, b)
      PROVE  \E p \in P : w = WindowOf(p[1], p[2])
  <2>1. <<a, b>> \in P
    BY <1>4
  <2>2. PICK p \in P : p = <<a, b>>
    BY <2>1
  <2>3. p[1] = a /\ p[2] = b
    BY <2>2
  <2> QED
    BY <1>4, <2>3
<1> HIDE DEF P, G
<1>5. ASSUME NEW w
      PROVE  w \in DatasetCoverage(n).gaps
             <=> \E a, b \in MissingSessions : Whole(Judged, MissingSessions, a, b) /\ w = WindowOf(a, b)
  <2>1. w \in DatasetCoverage(n).gaps <=> \E p \in P : w = WindowOf(p[1], p[2])
    BY <1>2, Zenon
  <2> QED
    BY <1>3, <1>4, <2>1, Zenon
<1> QED
  BY <1>5, Zenon

\* A period start is its own.
LEMMA StartOfStart ==
  ASSUME NEW w, NEW d \in Nat
  PROVE  PeriodOf(w, PeriodOf(w, d)) = PeriodOf(w, d)
<1>1. PICK e \in Nat : e = PeriodOf(w, d) /\ e <= d /\ d < AfterPeriod(w, d) /\ AfterPeriod(w, d) \in Nat
  BY PeriodIs
<1>2. PeriodOf(w, e) \in Nat /\ PeriodOf(w, e) <= e /\ e < AfterPeriod(w, e) /\ AfterPeriod(w, e) \in Nat
  BY PeriodIs
<1>3. PeriodOf(w, d) = PeriodOf(w, e) \/ AfterPeriod(w, d) <= PeriodOf(w, e) \/ AfterPeriod(w, e) <= PeriodOf(w, d)
  BY PeriodIs
<1> QED
  BY <1>1, <1>2, <1>3

\* A gap holds no bar and no session but its own.
LEMMA GapIs ==
  ASSUME HealthInv, StampsInv, NEW a \in MissingSessions, NEW b \in MissingSessions, Whole(Judged, MissingSessions, a, b)
  PROVE  /\ a \in Nat /\ b \in Nat /\ a <= b
         /\ covered \cap (a .. b) = {}
         /\ Sessions \cap (a .. b) = RunIn(Judged, a, b) /\ RunIn(Judged, a, b) \subseteq MissingSessions
<1>1. a \in Nat /\ b \in Nat /\ a \in Judged /\ b \in Judged /\ Judged \in SUBSET Nat /\ Judged \subseteq Sessions
  BY MissingIs, JudgedIs
<1>2. MissingSessions \in SUBSET Judged
  BY MissingIs
<1>3. a <= b /\ RunIn(Judged, a, b) \subseteq MissingSessions
  BY DEF Whole
<1>4. Sessions \cap (a .. b) = RunIn(Judged, a, b)
  <2>1. Sessions \subseteq Nat
    BY CalendarAssumption
  <2>2. \A s \in Sessions \cap (a .. b) : s \in Judged /\ a <= s /\ s <= b
    BY <1>1, <2>1, JudgedIs
  <2>3. \A s \in Judged : a <= s /\ s <= b => s \in Sessions \cap (a .. b)
    BY <1>1
  <2> QED
    BY <2>2, <2>3 DEF RunIn
<1>5. ASSUME NEW p \in covered, p \in a .. b
      PROVE  FALSE
  <2>1. PICK s \in Sessions : p = PeriodOf(kept.width, s)
    BY DEF StampsInv
  <2>2. s \in Nat /\ p \in Nat /\ p <= s /\ a <= p /\ p <= b
    BY <1>1, <1>5, <2>1, PeriodIs, CalendarAssumption
  <2>3. PeriodOf(kept.width, p) = p
    BY <2>1, <2>2, StartOfStart
  <2>4. \A x \in MissingSessions : PeriodOf(kept.width, x) # p
    <3>1. \A x \in MissingSessions : PeriodOf(kept.width, x) \notin {PeriodOf(kept.width, d) : d \in covered}
      BY MissingIs
    <3> QED
      BY <2>3, <3>1
  <2>5. CASE s <= b
    <3>1. s \in Sessions \cap (a .. b)
      BY <1>1, <2>2, <2>5
    <3>2. s \in MissingSessions
      BY <1>3, <1>4, <3>1
    <3> QED
      BY <2>1, <2>4, <3>2
  <2>6. CASE ~(s <= b)
    <3>1. b <= s
      BY <1>1, <2>2, <2>6
    <3>2. PeriodOf(kept.width, p) <= PeriodOf(kept.width, b) /\ PeriodOf(kept.width, b) <= PeriodOf(kept.width, s)
      BY <1>1, <2>2, <3>1, PeriodsRise
    <3>3. PeriodOf(kept.width, b) \in Nat
      BY <1>1, PeriodIs
    <3>4. PeriodOf(kept.width, b) = p
      BY <2>1, <2>2, <2>3, <3>2, <3>3
    <3> QED
      BY <2>4, <3>4
  <2> QED
    BY <2>5, <2>6
<1> QED
  BY <1>1, <1>3, <1>4, <1>5

---------------------------------------------------------------------------
(* Sums over what is counted. *)

\* What a finite set reaches is finite.
LEMMA ReachedFinite ==
  ASSUME NEW S, IsFiniteSet(S), NEW f, NEW T, \A t \in T : \E x \in S : f[x] = t
  PROVE  IsFiniteSet(T) /\ Cardinality(T) <= Cardinality(S)
<1>1. PICK R, g : R = {f[x] : x \in S} /\ g = [x \in S |-> f[x]]
  OBVIOUS
<1>2. g \in Surjection(S, R)
  BY <1>1 DEF Surjection
<1>3. IsFiniteSet(R) /\ Cardinality(R) <= Cardinality(S)
  BY <1>2, FS_Surjection
<1>4. T \in SUBSET R
  BY <1>1
<1>5. IsFiniteSet(T) /\ Cardinality(T) <= Cardinality(R)
  BY <1>3, <1>4, FS_Subset
<1>6. Cardinality(T) \in Nat /\ Cardinality(R) \in Nat /\ Cardinality(S) \in Nat
  BY <1>3, <1>5, FS_CardinalityType
<1> QED
  BY <1>3, <1>5, <1>6

LEMMA SumSessions ==
  ASSUME NEW K, NEW w, w = [k \in K |-> k.sessions], NEW f, AddsUp(f, w, K), IsFiniteSet(K)
  PROVE  MapThenSumSet(LAMBDA k : k.sessions, K) = f[K]
<1> DEFINE P(it) == it = [s \in SUBSET K |-> IF s = {} THEN 0 ELSE (CHOOSE x \in s : TRUE).sessions + it[s \ {CHOOSE x \in s : TRUE}]]
<1>1. PICK h : h = CHOOSE it : P(it)
  OBVIOUS
<1>2. MapThenSumSet(LAMBDA k : k.sessions, K) = h[K]
  BY <1>1, Zenon DEF MapThenSumSet, MapThenFoldSet
<1>3. \A it : P(it) <=> AddsUp(it, w, K)
  <2>1. ASSUME NEW s \in SUBSET K, s # {}
        PROVE  w[CHOOSE x \in s : TRUE] = (CHOOSE x \in s : TRUE).sessions
    <3>1. PICK x : x = CHOOSE y \in s : TRUE
      OBVIOUS
    <3>2. x \in K
      BY <2>1, <3>1, Zenon
    <3>3. w[x] = x.sessions
      BY <3>2
    <3> QED
      BY <3>1, <3>3, Zenon
  <2>2. SUFFICES ASSUME NEW it PROVE P(it) <=> AddsUp(it, w, K)
    OBVIOUS
  <2>3. [s \in SUBSET K |-> IF s = {} THEN 0 ELSE (CHOOSE x \in s : TRUE).sessions + it[s \ {CHOOSE x \in s : TRUE}]]
        = [s \in SUBSET K |-> IF s = {} THEN 0 ELSE w[CHOOSE x \in s : TRUE] + it[s \ {CHOOSE x \in s : TRUE}]]
    <3>1. ASSUME NEW s \in SUBSET K
          PROVE  (IF s = {} THEN 0 ELSE (CHOOSE x \in s : TRUE).sessions + it[s \ {CHOOSE x \in s : TRUE}])
                 = (IF s = {} THEN 0 ELSE w[CHOOSE x \in s : TRUE] + it[s \ {CHOOSE x \in s : TRUE}])
      <4>1. CASE s = {}
        BY <4>1, Zenon
      <4>2. CASE s # {}
        BY <2>1, <4>2
      <4> QED
        BY <4>1, <4>2
    <3> QED
      BY <3>1, Zenon
  <2> QED
    BY <2>3, Zenon DEF AddsUp
<1> HIDE DEF P
<1>4. P(f)
  BY <1>3
<1>5. P(h)
  BY <1>1, <1>4, Zenon
<1>6. AddsUp(h, w, K)
  BY <1>3, <1>5
<1> QED
  BY <1>2, <1>6, OneSum

---------------------------------------------------------------------------
(* The gaps list the missing sessions, each once. *)

\* A key takes each missing session to its gap, and to each gap of these the sessions of its run.
KeyedBy(key, K) ==
    /\ \A s \in MissingSessions : key[s] \in K
    /\ \A a, b \in MissingSessions : Whole(Judged, MissingSessions, a, b) =>
          RunIn(Judged, a, b) = {s \in MissingSessions : key[s] = WindowOf(a, b)}
    /\ \A w \in K : \E s \in MissingSessions : key[s] = w

\* Each missing session has its gap.
LEMMA GapsList ==
  ASSUME HealthInv, StampsInv, NEW n, NEW K, K = DatasetCoverage(n).gaps
  PROVE  \E key : KeyedBy(key, K)
<1> DEFINE M == MissingSessions
           At(w, s) == w.start <= 4 * s /\ 4 * s < w.end
<1>1. PICK key : key = [s \in M |-> CHOOSE w \in K : At(w, s)]
  OBVIOUS
<1>2. M \in SUBSET Judged /\ Judged \in SUBSET Nat /\ clock \in Nat /\ \A s \in M : s \in Nat /\ s <= clock
  BY MissingIs, JudgedIs DEF HealthInv
<1>3. ASSUME NEW a \in M, NEW b \in M, NEW s \in M
      PROVE  At(WindowOf(a, b), s) <=> a <= s /\ s <= b
  <2>1. a \in Nat /\ b \in Nat /\ s \in Nat
    BY <1>2
  <2>2. WindowOf(a, b).start = 4 * a /\ WindowOf(a, b).end = 4 * (b + 1)
    BY DEF WindowOf
  <2> QED
    BY <2>1, <2>2
<1>4. \A w \in K : \E a, b \in M : Whole(Judged, M, a, b) /\ w = WindowOf(a, b)
  BY WindowsAre
<1>5. \A a, b \in M : Whole(Judged, M, a, b) => WindowOf(a, b) \in K
  BY WindowsAre
<1> HIDE DEF At, M
<1>6. ASSUME NEW s \in M
      PROVE  key[s] \in K /\ At(key[s], s)
  <2>1. \E a, b \in M : Whole(Judged, M, a, b) /\ a <= s /\ s <= b
    BY <1>2, GapOf
  <2>2. PICK a \in M, b \in M : Whole(Judged, M, a, b) /\ a <= s /\ s <= b
    BY <2>1
  <2>3. WindowOf(a, b) \in K /\ At(WindowOf(a, b), s)
    BY <1>3, <1>5, <2>2
  <2>4. key[s] = CHOOSE w \in K : At(w, s)
    BY <1>1
  <2> QED
    BY <2>3, <2>4, Zenon
<1>20. ASSUME NEW a \in M, NEW b \in M, NEW c \in M, NEW d \in M, NEW m \in Nat, Whole(Judged, M, a, b),
              Whole(Judged, M, c, d), a <= m, m <= b, c <= m, m <= d
       PROVE  a = c /\ b = d
  <2>1. Judged \in SUBSET Nat /\ M \in SUBSET Judged
    BY <1>2
  <2> QED
    BY <1>20, <2>1, GapsApart
<1>7. ASSUME NEW a \in M, NEW b \in M, Whole(Judged, M, a, b), NEW s \in M
      PROVE  key[s] = WindowOf(a, b) <=> a <= s /\ s <= b
  <2>1. key[s] = WindowOf(a, b) => a <= s /\ s <= b
    BY <1>3, <1>6
  <2>2. ASSUME a <= s, s <= b
        PROVE  key[s] = WindowOf(a, b)
    <3>1. PICK c \in M, d \in M : Whole(Judged, M, c, d) /\ key[s] = WindowOf(c, d)
      BY <1>4, <1>6
    <3>2. c <= s /\ s <= d
      BY <1>3, <1>6, <3>1
    <3>3. s \in Nat
      BY <1>2
    <3>4. Whole(Judged, M, a, b) /\ Whole(Judged, M, c, d) /\ a <= s /\ s <= b
      BY <1>7, <2>2, <3>1
    <3>5. a = c /\ b = d
      BY <1>20, <3>2, <3>3, <3>4
    <3> QED
      BY <3>1, <3>5
  <2> QED
    BY <2>1, <2>2
<1>8. ASSUME NEW a \in M, NEW b \in M, Whole(Judged, M, a, b)
      PROVE  RunIn(Judged, a, b) = {s \in M : key[s] = WindowOf(a, b)}
  <2>1. RunIn(Judged, a, b) \subseteq M
    BY <1>8 DEF Whole
  <2>2. RunIn(Judged, a, b) = {s \in M : a <= s /\ s <= b}
    BY <1>2, <2>1 DEF RunIn
  <2> QED
    BY <1>7, <1>8, <2>2
<1>9. ASSUME NEW w \in K
      PROVE  \E s \in M : key[s] = w
  <2>1. PICK a \in M, b \in M : Whole(Judged, M, a, b) /\ w = WindowOf(a, b)
    BY <1>4
  <2>2. a <= a /\ a <= b
    BY <1>2, <2>1 DEF Whole
  <2> QED
    BY <1>7, <2>1, <2>2
<1>10. KeyedBy(key, K)
  BY <1>6, <1>8, <1>9 DEF M, KeyedBy
<1> QED
  BY <1>10

LEMMA GapsAddUp ==
  ASSUME HealthInv, StampsInv, NEW n, NEW K, K = DatasetCoverage(n).gaps
  PROVE  MapThenSumSet(LAMBDA g : g.sessions, K) = Cardinality(MissingSessions)
<1>1. PICK key : KeyedBy(key, K)
  BY GapsList
<1>2. IsFiniteSet(MissingSessions)
  BY MissingIs
<1>3. IsFiniteSet(K)
  <2>1. \A k \in K : \E s \in MissingSessions : key[s] = k
    BY <1>1 DEF KeyedBy
  <2> QED
    BY <1>2, <2>1, ReachedFinite
<1>4. PICK w : w = [k \in K |-> k.sessions]
  OBVIOUS
<1>5. CountsBy(w, K, MissingSessions, key)
  <2>1. SUFFICES ASSUME NEW k \in K PROVE w[k] = Cardinality({r \in MissingSessions : key[r] = k})
    BY DEF CountsBy
  <2>2. PICK a \in MissingSessions, b \in MissingSessions : Whole(Judged, MissingSessions, a, b) /\ k = WindowOf(a, b)
    BY WindowsAre
  <2>3. k.sessions = Cardinality(RunIn(Judged, a, b))
    BY <2>2 DEF WindowOf
  <2>4. RunIn(Judged, a, b) = {r \in MissingSessions : key[r] = WindowOf(a, b)}
    BY <1>1, <2>2, Zenon DEF KeyedBy
  <2>5. RunIn(Judged, a, b) = {r \in MissingSessions : key[r] = k}
    BY <2>2, <2>4, Zenon
  <2>6. w[k] = k.sessions
    BY <1>4
  <2> QED
    BY <2>3, <2>5, <2>6, Zenon
<1>6. PICK f : AddsUp(f, w, K) /\ f[K] = Cardinality({r \in MissingSessions : key[r] \in K})
  BY <1>2, <1>3, <1>5, CountsAddUp
<1>7. {r \in MissingSessions : key[r] \in K} = MissingSessions
  BY <1>1 DEF KeyedBy
<1>8. MapThenSumSet(LAMBDA g : g.sessions, K) = f[K]
  BY <1>3, <1>4, <1>6, SumSessions
<1> QED
  BY <1>6, <1>7, <1>8

---------------------------------------------------------------------------
(* The strip. *)

\* A finite set of days in order.
LEMMA NthIs ==
  ASSUME NEW S \in SUBSET Nat, IsFiniteSet(S)
  PROVE  /\ Cardinality(S) \in Nat
         /\ \A i \in 1 .. Cardinality(S) : Nth(S, i) \in S
         /\ \A i, j \in 1 .. Cardinality(S) : i < j => Nth(S, i) < Nth(S, j)
         /\ \A s \in S : \E i \in 1 .. Cardinality(S) : Nth(S, i) = s
<1>1. PICK n \in Nat : n = Cardinality(S)
  BY FS_CardinalityType
<1>2. /\ \A x \in S : Rank(S, x) \in 0 .. n - 1
      /\ \A x, y \in S : x < y => Rank(S, x) < Rank(S, y)
      /\ \A m \in 0 .. n - 1 : \E x \in S : Rank(S, x) = m
  <2>1. S \in SUBSET Int
    OBVIOUS
  <2> QED
    BY <1>1, <2>1, RankIs
<1>3. ASSUME NEW i \in 1 .. n
      PROVE  Nth(S, i) \in S /\ Rank(S, Nth(S, i)) = i - 1
  <2>1. i - 1 \in 0 .. n - 1
    OBVIOUS
  <2>2. \E x \in S : Rank(S, x) = i - 1
    BY <1>2, <2>1
  <2>3. Nth(S, i) = CHOOSE x \in S : Rank(S, x) = i - 1
    BY DEF Nth, Rank
  <2> QED
    BY <2>2, <2>3, Zenon
<1>4. \A x, y \in S : Rank(S, x) < Rank(S, y) => x < y
  <2>1. SUFFICES ASSUME NEW x \in S, NEW y \in S, Rank(S, x) < Rank(S, y) PROVE x < y
    OBVIOUS
  <2>2. x \in Nat /\ y \in Nat /\ Rank(S, x) \in Nat /\ Rank(S, y) \in Nat
    BY <1>2
  <2>3. ~(y < x) /\ x # y
    BY <1>2, <2>1, <2>2
  <2> QED
    BY <2>2, <2>3
<1>5. \A i, j \in 1 .. n : i < j => Nth(S, i) < Nth(S, j)
  <2>1. SUFFICES ASSUME NEW i \in 1 .. n, NEW j \in 1 .. n, i < j PROVE Nth(S, i) < Nth(S, j)
    OBVIOUS
  <2>2. Rank(S, Nth(S, i)) < Rank(S, Nth(S, j))
    BY <1>3, <2>1
  <2> QED
    BY <1>3, <1>4, <2>2
<1>6. ASSUME NEW s \in S
      PROVE  \E i \in 1 .. n : Nth(S, i) = s
  <2>1. PICK i \in 1 .. n : Rank(S, s) = i - 1
    <3>1. Rank(S, s) \in 0 .. n - 1
      BY <1>2
    <3>2. Rank(S, s) + 1 \in 1 .. n /\ Rank(S, s) = (Rank(S, s) + 1) - 1
      BY <3>1
    <3> QED
      BY <3>2
  <2>2. Nth(S, i) \in S /\ Rank(S, Nth(S, i)) = Rank(S, s)
    BY <1>3, <2>1
  <2>3. Nth(S, i) \in Nat /\ s \in Nat
    BY <2>2
  <2>4. ~(Nth(S, i) < s) /\ ~(s < Nth(S, i))
    <3>1. Rank(S, s) \in Nat
      BY <1>2
    <3>2. \A x, y \in S : x < y => Rank(S, x) # Rank(S, y)
      <4>1. \A x, y \in S : Rank(S, x) \in Nat /\ Rank(S, y) \in Nat
        BY <1>2
      <4> QED
        BY <1>2, <4>1
    <3> QED
      BY <2>2, <3>2
  <2> QED
    BY <2>3, <2>4
<1> QED
  BY <1>1, <1>3, <1>5, <1>6

\* Where the buckets end.
UptoIn(len, groups) == [i \in 0 .. groups |-> i * (len \div groups) + Min({i, len % groups})]

LEMMA UptoIs ==
  ASSUME NEW len \in Nat, NEW groups \in Nat \ {0}, groups <= len, NEW u, u = UptoIn(len, groups)
  PROVE  /\ u[0] = 0 /\ u[groups] = len
         /\ \A i, k \in 0 .. groups : i < k => u[i] < u[k]
         /\ \A i \in 0 .. groups : u[i] \in 0 .. len
<1>1. PICK q \in Nat, r \in Nat : q = len \div groups /\ r = len % groups /\ r < groups /\ len = groups * q + r
  BY ModIs
<1>2. q # 0
  BY <1>1
<1>3. \A i \in 0 .. groups : u[i] = i * q + (IF i <= r THEN i ELSE r)
  <2>1. \A i \in 0 .. groups : Min({i, r}) = IF i <= r THEN i ELSE r
    BY FirstOfTwo
  <2> QED
    BY <1>1, <2>1 DEF UptoIn
<1>4. u[0] = 0
  BY <1>1, <1>3
<1>5. u[groups] = len
  BY <1>1, <1>3
<1>6. ASSUME NEW i \in 0 .. groups, NEW k \in 0 .. groups, i < k
      PROVE  u[i] \in Nat /\ u[k] \in Nat /\ u[i] < u[k]
  <2>1. (i + 1) * q <= k * q
    <3>1. i + 1 <= k /\ i + 1 \in Nat /\ k \in Nat
      BY <1>6
    <3> QED
      BY <3>1, TimesGrows
  <2>2. PICK a \in Nat, b \in Nat : a = i * q /\ b = k * q
    OBVIOUS
  <2>3. (i + 1) * q = a + q
    BY <2>2
  <2>4. a + q <= b
    BY <2>1, <2>2, <2>3
  <2>5. u[i] = a + (IF i <= r THEN i ELSE r) /\ u[k] = b + (IF k <= r THEN k ELSE r)
    BY <1>3, <2>2
  <2> QED
    BY <1>2, <1>6, <2>4, <2>5
<1>7. ASSUME NEW i \in 0 .. groups
      PROVE  u[i] \in 0 .. len
  <2>1. CASE i = 0
    BY <1>4, <2>1
  <2>2. CASE i = groups
    BY <1>5, <2>2
  <2>3. CASE i # 0 /\ i # groups
    <3>1. 0 \in 0 .. groups /\ groups \in 0 .. groups /\ 0 < i /\ i < groups
      BY <2>3
    <3>2. u[i] \in Nat /\ u[i] < u[groups]
      BY <1>6, <3>1
    <3> QED
      BY <1>5, <3>2
  <2> QED
    BY <2>1, <2>2, <2>3
<1> QED
  BY <1>4, <1>5, <1>6, <1>7

\* The days of the i-th bucket, in the strip.
Bunch(u, i) == {Nth(Span, j) : j \in u[i - 1] + 1 .. u[i]}

BucketAt(u, groups, i) ==
    [start    |-> IF i = 1 THEN kept.start ELSE 4 * Nth(Span, u[i - 1] + 1),
     end      |-> IF i = groups THEN RangeEnd ELSE 4 * Nth(Span, u[i] + 1),
     expected |-> Cardinality(Bunch(u, i) \cap Owing),
     held     |-> Cardinality({s \in Bunch(u, i) \cap Owing : Holds(s)})]

\* The strip is cut into so many buckets, at these places of the range.
StripCut(strip, groups, u) ==
    /\ strip = [i \in 1 .. groups |-> BucketAt(u, groups, i)]
    /\ groups # 0 => groups <= Cardinality(Span) /\ u = UptoIn(Cardinality(Span), groups)
    /\ Cardinality(Span) \in Nat /\ Span \in SUBSET Nat /\ IsFiniteSet(Span)
    /\ \A s \in Span : s \in Nat /\ 4 * s + 1 < RangeEnd /\ 4 * s + 2 > kept.start
    /\ kept.start \in Nat /\ RangeEnd \in Nat

LEMMA StripIs ==
  ASSUME HealthInv, NEW n \in Nat \ {0}
  PROVE  \E groups \in Nat : \E u : StripCut(DatasetCoverage(n).buckets, groups, u)
<1>1. RangeEnd = EndAt(kept, clock) /\ Expected(kept.start, RangeEnd) = Owing
  BY Zenon DEF RangeEnd, EndAt, Owing, Expected, ExpectedAt, Walked, WalkedAt, PeriodStart, PeriodOf, NextPeriod, AfterPeriod
<1>2. Overlapping(kept.start, RangeEnd) = Span
  BY <1>1 DEF Span
<1>3. kept.start \in Nat /\ RangeEnd \in Nat
  <2>1. EndAt(kept, clock) \in Nat
    BY EndGrows DEF HealthInv
  <2> QED
    BY <1>1, <2>1 DEF HealthInv, SubscriptionSet
<1>4. /\ Span \in SUBSET Nat /\ IsFiniteSet(Span)
      /\ \A s \in Span : s \in Nat /\ 4 * s + 1 < RangeEnd /\ 4 * s + 2 > kept.start
  BY <1>2, <1>3, SpanIs
<1>5. PICK l \in Nat : l = Cardinality(Span)
  BY <1>4, FS_CardinalityType
<1>6. PICK x : x = [i \in 1 .. l |-> Nth(Span, i)]
  OBVIOUS
<1>7. Len(x) = l
  BY <1>6
<1>8. PICK groups \in Nat : groups = Min({n, l}) /\ groups = IF n <= l THEN n ELSE l
  BY FirstOfTwo
<1>9. PICK u : u = UptoIn(l, groups)
  OBVIOUS
<1> DEFINE upto(i) == i * (l \div groups) + Min({i, l % groups})
           bunch(i) == {x[j] : j \in upto(i - 1) + 1 .. upto(i)} \cap Owing
           bucket(i) == [start    |-> IF i = 1 THEN kept.start ELSE Midnight(x[upto(i - 1) + 1]),
                         end      |-> IF i = groups THEN RangeEnd ELSE Midnight(x[upto(i) + 1]),
                         expected |-> Cardinality(bunch(i)),
                         held     |-> Cardinality({s \in bunch(i) : Holds(s)})]
<1>10. DatasetCoverage(n).buckets = [i \in 1 .. groups |-> bucket(i)]
  <2> DEFINE O == Overlapping(kept.start, RangeEnd)
             y == [i \in 1 .. Cardinality(O) |-> Nth(O, i)]
             most == Min({n, Len(y)})
             till(i) == i * (Len(y) \div most) + Min({i, Len(y) % most})
             group(i) == {y[j] : j \in till(i - 1) + 1 .. till(i)} \cap Expected(kept.start, RangeEnd)
             one(i) == [start    |-> IF i = 1 THEN kept.start ELSE Midnight(y[till(i - 1) + 1]),
                        end      |-> IF i = most THEN RangeEnd ELSE Midnight(y[till(i) + 1]),
                        expected |-> Cardinality(group(i)),
                        held     |-> Cardinality({s \in group(i) : Holds(s)})]
  <2>1. y = x
    BY <1>2, <1>5, <1>6
  <2>2. CoverageBuckets(n) = [i \in 1 .. most |-> one(i)]
    BY Zenon DEF CoverageBuckets
  <2> HIDE DEF O, y
  <2>3. most = groups
    BY <1>7, <1>8, <2>1
  <2>4. \A i : till(i) = upto(i)
    BY <1>7, <2>1, <2>3
  <2> HIDE DEF most, till, upto
  <2>5. \A i : group(i) = bunch(i)
    BY <1>1, <2>1, <2>4
  <2> HIDE DEF group, bunch
  <2>6. \A i : one(i) = bucket(i)
    BY <2>1, <2>3, <2>4, <2>5
  <2> HIDE DEF one, bucket
  <2>7. CoverageBuckets(n) = [i \in 1 .. groups |-> bucket(i)]
    BY <2>2, <2>3, <2>6
  <2> QED
    BY <2>7 DEF DatasetCoverage
<1>11. ASSUME NEW i \in 1 .. groups
       PROVE  bucket(i) = BucketAt(u, groups, i)
  <2>1. groups # 0 /\ groups <= l /\ i \in 0 .. groups /\ i - 1 \in 0 .. groups
    BY <1>8
  <2>2. u[i] = upto(i) /\ u[i - 1] = upto(i - 1)
    BY <1>9, <2>1 DEF UptoIn
  <2>3. u[i] \in 0 .. l /\ u[i - 1] \in 0 .. l /\ u[i - 1] < u[i] /\ (i # groups => u[i] < l)
    <3>1. /\ \A k \in 0 .. groups : u[k] \in 0 .. l
          /\ \A k, j \in 0 .. groups : k < j => u[k] < u[j]
          /\ u[groups] = l
      BY <1>9, <2>1, UptoIs
    <3>2. groups \in 0 .. groups /\ i - 1 < i /\ (i # groups => i < groups)
      BY <2>1
    <3> QED
      BY <2>1, <3>1, <3>2
  <2>4. \A j \in 1 .. l : x[j] = Nth(Span, j)
    BY <1>6
  <2> HIDE DEF upto
  <2>5. \A j \in upto(i - 1) + 1 .. upto(i) : x[j] = Nth(Span, j)
    BY <2>2, <2>3, <2>4
  <2>6. bunch(i) = Bunch(u, i) \cap Owing
    <3>1. {x[j] : j \in upto(i - 1) + 1 .. upto(i)} = {Nth(Span, j) : j \in upto(i - 1) + 1 .. upto(i)}
      BY <2>5
    <3> QED
      BY <2>2, <3>1 DEF Bunch
  <2>7. x[upto(i - 1) + 1] = Nth(Span, u[i - 1] + 1) /\ (i # groups => x[upto(i) + 1] = Nth(Span, u[i] + 1))
    BY <2>2, <2>3, <2>4
  <2> HIDE DEF bunch
  <2> QED
    BY <2>6, <2>7 DEF BucketAt, Midnight
<1>12. DatasetCoverage(n).buckets = [i \in 1 .. groups |-> BucketAt(u, groups, i)]
  <2> HIDE DEF bucket
  <2> QED
    BY <1>10, <1>11
<1>13. groups # 0 => groups <= l /\ u = UptoIn(l, groups)
  BY <1>8, <1>9
<1>14. StripCut(DatasetCoverage(n).buckets, groups, u)
  BY <1>3, <1>4, <1>5, <1>12, <1>13 DEF StripCut
<1> QED
  BY <1>14, Zenon

\* The buckets tile the range.
LEMMA StripTiles ==
  ASSUME HealthInv, NEW n \in Nat \ {0}, NEW strip, strip = DatasetCoverage(n).buckets, strip # <<>>
  PROVE  /\ strip[1].start = kept.start /\ strip[Len(strip)].end = RangeEnd
         /\ \A i \in 1 .. Len(strip) :
              strip[i].start < strip[i].end /\ (i > 1 => strip[i].start = strip[i - 1].end)
<1>30. PICK groups \in Nat : \E u : StripCut(strip, groups, u)
  BY StripIs, Zenon
<1>31. PICK u : StripCut(strip, groups, u)
  BY <1>30
<1>1. /\ strip = [i \in 1 .. groups |-> BucketAt(u, groups, i)]
      /\ groups # 0 => groups <= Cardinality(Span) /\ u = UptoIn(Cardinality(Span), groups)
      /\ Cardinality(Span) \in Nat /\ Span \in SUBSET Nat /\ IsFiniteSet(Span)
      /\ \A s \in Span : s \in Nat /\ 4 * s + 1 < RangeEnd /\ 4 * s + 2 > kept.start
      /\ kept.start \in Nat /\ RangeEnd \in Nat
  BY <1>31 DEF StripCut
<1>2. groups # 0 /\ Len(strip) = groups
  BY <1>1
<1>3. PICK l \in Nat : l = Cardinality(Span) /\ groups <= l
  BY <1>1, <1>2
<1>4. /\ u[0] = 0 /\ u[groups] = l
      /\ \A i, k \in 0 .. groups : i < k => u[i] < u[k]
      /\ \A i \in 0 .. groups : u[i] \in 0 .. l
  BY <1>1, <1>2, <1>3, UptoIs
<1>5. /\ \A j \in 1 .. l : Nth(Span, j) \in Span
      /\ \A j, k \in 1 .. l : j < k => Nth(Span, j) < Nth(Span, k)
  BY <1>1, <1>3, NthIs
<1>6. \A j \in 1 .. l : Nth(Span, j) \in Nat /\ 4 * Nth(Span, j) + 1 < RangeEnd /\ 4 * Nth(Span, j) + 2 > kept.start
  BY <1>1, <1>5
<1>7. \A i \in 1 .. groups : strip[i] = BucketAt(u, groups, i)
  BY <1>1
<1>8. \A i \in 1 .. groups : /\ strip[i].start = (IF i = 1 THEN kept.start ELSE 4 * Nth(Span, u[i - 1] + 1))
                             /\ strip[i].end = (IF i = groups THEN RangeEnd ELSE 4 * Nth(Span, u[i] + 1))
  <2>1. \A i : /\ BucketAt(u, groups, i).start = (IF i = 1 THEN kept.start ELSE 4 * Nth(Span, u[i - 1] + 1))
               /\ BucketAt(u, groups, i).end = (IF i = groups THEN RangeEnd ELSE 4 * Nth(Span, u[i] + 1))
    BY DEF BucketAt
  <2> QED
    BY <1>7, <2>1
<1>9. \A i \in 0 .. groups - 1 : u[i] + 1 \in 1 .. l
  <2>1. SUFFICES ASSUME NEW i \in 0 .. groups - 1 PROVE u[i] + 1 \in 1 .. l
    OBVIOUS
  <2>2. i \in 0 .. groups /\ groups \in 0 .. groups /\ i < groups
    BY <1>1
  <2>3. u[i] \in 0 .. l /\ u[i] < l
    BY <1>4, <2>2
  <2> QED
    BY <2>3
<1>10. ASSUME NEW i \in 1 .. groups
       PROVE  strip[i].start < strip[i].end
  <2>1. PICK p \in Nat, a \in 1 .. l : p = i - 1 /\ p \in 0 .. groups - 1 /\ a = u[p] + 1 /\ a >= 1
    <3>1. i - 1 \in 0 .. groups - 1 /\ i - 1 \in Nat
      BY <1>1
    <3>2. u[i - 1] + 1 \in 1 .. l
      BY <1>9, <3>1
    <3>3. u[i - 1] + 1 >= 1
      BY <3>2
    <3> QED
      BY <3>1, <3>2, <3>3, Zenon
  <2>2. CASE i = groups
    <3>1. strip[i].end = RangeEnd /\ strip[i].start = IF i = 1 THEN kept.start ELSE 4 * Nth(Span, a)
      BY <1>8, <2>1, <2>2
    <3>2. Nth(Span, a) \in Nat /\ 4 * Nth(Span, a) + 1 < RangeEnd /\ 4 * Nth(Span, a) + 2 > kept.start
      BY <1>6
    <3> QED
      BY <1>1, <3>1, <3>2
  <2>3. CASE i # groups
    <3>1. PICK b \in 1 .. l : b = u[i] + 1 /\ a < b
      <4>1. i \in 0 .. groups - 1 /\ i \in 0 .. groups /\ p \in 0 .. groups /\ p < i
        BY <1>1, <2>1, <2>3
      <4>2. u[i] + 1 \in 1 .. l /\ u[p] < u[i] /\ u[i] \in Nat /\ u[p] \in Nat
        BY <1>4, <1>9, <4>1
      <4> QED
        BY <2>1, <4>2
    <3>2. strip[i].end = 4 * Nth(Span, b) /\ strip[i].start = IF i = 1 THEN kept.start ELSE 4 * Nth(Span, a)
      BY <1>8, <2>1, <2>3, <3>1
    <3>3. Nth(Span, a) < Nth(Span, b) /\ Nth(Span, a) \in Nat /\ Nth(Span, b) \in Nat /\ 4 * Nth(Span, a) + 2 > kept.start
      BY <1>5, <1>6, <3>1
    <3> QED
      BY <1>1, <3>2, <3>3
  <2> QED
    BY <2>2, <2>3
<1>11. ASSUME NEW i \in 1 .. groups, i > 1
       PROVE  strip[i].start = strip[i - 1].end
  <2>1. i - 1 \in 1 .. groups /\ i # 1 /\ i - 1 # groups
    BY <1>11
  <2> QED
    BY <1>8, <2>1
<1> QED
  BY <1>2, <1>8, <1>10, <1>11

\* What a strip's buckets leave out adds up, by the recursion of AddsUp, to the missing sessions.
StripOwes(strip) ==
  \E w, f : /\ \A i \in 1 .. Len(strip) : w[i] = strip[i].expected - strip[i].held
            /\ AddsUp(f, w, 1 .. Len(strip)) /\ f[1 .. Len(strip)] = Cardinality(MissingSessions)

LEMMA OwesBy ==
  ASSUME NEW strip, NEW w, NEW f, \A i \in 1 .. Len(strip) : w[i] = strip[i].expected - strip[i].held,
         AddsUp(f, w, 1 .. Len(strip)), f[1 .. Len(strip)] = Cardinality(MissingSessions)
  PROVE  StripOwes(strip)
BY Zenon DEF StripOwes

\* They leave out what is missing.
LEMMA StripAddsUp ==
  ASSUME HealthInv, NEW n \in Nat \ {0}, NEW strip, strip = DatasetCoverage(n).buckets, strip # <<>>
  PROVE  StripOwes(strip)
<1>30. PICK groups \in Nat : \E u : StripCut(strip, groups, u)
  BY StripIs, Zenon
<1>31. PICK u : StripCut(strip, groups, u)
  BY <1>30
<1>1. /\ strip = [i \in 1 .. groups |-> BucketAt(u, groups, i)]
      /\ groups # 0 => groups <= Cardinality(Span) /\ u = UptoIn(Cardinality(Span), groups)
      /\ Cardinality(Span) \in Nat /\ Span \in SUBSET Nat /\ IsFiniteSet(Span)
  BY <1>31 DEF StripCut
<1>2. groups # 0 /\ Len(strip) = groups
  BY <1>1
<1>3. PICK l \in Nat : l = Cardinality(Span) /\ groups <= l
  BY <1>1, <1>2
<1>4. /\ u[0] = 0 /\ u[groups] = l
      /\ \A i, k \in 0 .. groups : i < k => u[i] < u[k]
      /\ \A i \in 0 .. groups : u[i] \in 0 .. l
  BY <1>1, <1>2, <1>3, UptoIs
<1>5. /\ \A j, k \in 1 .. l : j < k => Nth(Span, j) < Nth(Span, k)
      /\ \A j \in 1 .. l : Nth(Span, j) \in Nat
      /\ \A s \in Span : \E j \in 1 .. l : Nth(Span, j) = s
  <2>1. \A j \in 1 .. l : Nth(Span, j) \in Span
    BY <1>1, <1>3, NthIs
  <2> QED
    BY <1>1, <1>3, <2>1, NthIs
<1>6. PICK K : K = 1 .. groups
  OBVIOUS
<1>7. ASSUME NEW s \in Span
      PROVE  \E i \in K : s \in Bunch(u, i)
  <2>1. PICK j \in 1 .. l : Nth(Span, j) = s
    BY <1>5
  <2>2. PICK A : A = {i \in K : j <= u[i]}
    OBVIOUS
  <2>3. A \in SUBSET Nat /\ A # {}
    <3>1. groups \in K /\ j <= u[groups]
      BY <1>2, <1>4, <1>6
    <3> QED
      BY <1>6, <2>2, <3>1
  <2>4. PICK i \in A : \A k \in A : i <= k
    BY <2>3, LeastOf
  <2>5. i \in K /\ j <= u[i]
    BY <2>2
  <2>6. u[i - 1] < j
    <3>1. CASE i = 1
      BY <1>4, <3>1
    <3>2. CASE i # 1
      <4>1. i - 1 \in K /\ i - 1 \in 0 .. groups /\ ~(i <= i - 1)
        BY <1>6, <2>5, <3>2
      <4>2. ~(j <= u[i - 1])
        BY <2>2, <2>4, <4>1
      <4>3. u[i - 1] \in Nat
        BY <1>4, <4>1
      <4> QED
        BY <4>2, <4>3
    <3> QED
      BY <3>1, <3>2
  <2>7. j \in u[i - 1] + 1 .. u[i]
    <3>1. i - 1 \in 0 .. groups /\ i \in 0 .. groups
      BY <1>6, <2>5
    <3>2. u[i - 1] \in Nat /\ u[i] \in Nat
      BY <1>4, <3>1
    <3> QED
      BY <2>5, <2>6, <3>2
  <2> QED
    BY <2>1, <2>5, <2>7 DEF Bunch
<1>8. ASSUME NEW i \in K, NEW k \in K, i < k, NEW s, s \in Bunch(u, i), s \in Bunch(u, k)
      PROVE  FALSE
  <2>1. i \in 0 .. groups /\ i - 1 \in 0 .. groups /\ k \in 0 .. groups /\ k - 1 \in 0 .. groups /\ (i = k - 1 \/ i < k - 1)
    BY <1>6, <1>8
  <2>2. u[i] <= u[k - 1] /\ u[i] \in 0 .. l /\ u[i - 1] \in 0 .. l /\ u[k] \in 0 .. l /\ u[k - 1] \in 0 .. l
    <3>1. u[i] \in 0 .. l /\ u[i - 1] \in 0 .. l /\ u[k] \in 0 .. l /\ u[k - 1] \in 0 .. l
      BY <1>4, <2>1
    <3>2. i < k - 1 => u[i] < u[k - 1]
      BY <1>4, <2>1
    <3> QED
      BY <2>1, <3>1, <3>2
  <2>3. PICK p \in u[i - 1] + 1 .. u[i], q \in u[k - 1] + 1 .. u[k] : Nth(Span, p) = s /\ Nth(Span, q) = s
    BY <1>8 DEF Bunch
  <2>4. p \in 1 .. l /\ q \in 1 .. l /\ p < q
    BY <2>2, <2>3
  <2>5. s < s /\ s \in Nat
    BY <1>5, <2>3, <2>4
  <2> QED
    BY <2>5
<1>9. PICK key : key = [s \in Span |-> CHOOSE i \in K : s \in Bunch(u, i)]
  OBVIOUS
<1>10. \A s \in Span, i \in K : key[s] \in K /\ (key[s] = i <=> s \in Bunch(u, i))
  <2>1. SUFFICES ASSUME NEW s \in Span, NEW i \in K PROVE key[s] \in K /\ (key[s] = i <=> s \in Bunch(u, i))
    OBVIOUS
  <2>2. key[s] = CHOOSE k \in K : s \in Bunch(u, k)
    BY <1>9
  <2>3. key[s] \in K /\ s \in Bunch(u, key[s])
    BY <1>7, <2>2, Zenon
  <2>4. \A k \in K : k \in Int
    BY <1>6
  <2>5. key[s] \in Int /\ i \in Int
    BY <2>3, <2>4
  <2>6. s \in Bunch(u, i) => ~(key[s] < i) /\ ~(i < key[s])
    BY <1>8, <2>3
  <2> QED
    BY <2>3, <2>5, <2>6
<1>11. \A i \in K : Bunch(u, i) \subseteq Span
  <2>1. SUFFICES ASSUME NEW i \in K, NEW s \in Bunch(u, i) PROVE s \in Span
    OBVIOUS
  <2>2. PICK j \in u[i - 1] + 1 .. u[i] : s = Nth(Span, j)
    BY DEF Bunch
  <2>3. i - 1 \in 0 .. groups /\ i \in 0 .. groups
    BY <1>6
  <2>4. u[i - 1] \in 0 .. l /\ u[i] \in 0 .. l
    BY <1>4, <2>3
  <2>5. j \in 1 .. l
    BY <2>2, <2>4
  <2> QED
    BY <1>1, <1>3, <2>2, <2>5, NthIs
<1>12. PICK w : w = [k \in K |-> (strip[k].expected - strip[k].held)]
  OBVIOUS
<1>13. CountsBy(w, K, MissingSessions, key)
  <2>1. SUFFICES ASSUME NEW i \in K PROVE w[i] = Cardinality({s \in MissingSessions : key[s] = i})
    BY DEF CountsBy
  <2>2. PICK E, H, N : E = Bunch(u, i) \cap Owing /\ H = {s \in E : Holds(s)} /\ N = {s \in E : ~Holds(s)}
    OBVIOUS
  <2>3. strip[i].expected = Cardinality(E) /\ strip[i].held = Cardinality(H)
    BY <1>1, <1>6, <2>2 DEF BucketAt
  <2>4. IsFiniteSet(H) /\ IsFiniteSet(N)
    <3>1. H \in SUBSET Span /\ N \in SUBSET Span
      BY <1>11, <2>2
    <3> QED
      BY <1>1, <3>1, FS_Subset
  <2>5. Cardinality(E) = Cardinality(H) + Cardinality(N) /\ Cardinality(H) \in Nat /\ Cardinality(N) \in Nat
    <3>1. H \cap N = {} /\ H \cup N = E
      BY <2>2
    <3> QED
      BY <2>4, <3>1, TwoParts, FS_CardinalityType
  <2>6. N = {s \in MissingSessions : key[s] = i}
    <3>1. MissingSessions = {s \in Owing \cap Span : PeriodOf(kept.width, s) \notin {PeriodOf(kept.width, d) : d \in covered}}
      BY MissingIs
    <3>2. \A s : Holds(s) <=> PeriodOf(kept.width, s) \in {PeriodOf(kept.width, d) : d \in covered}
      BY Zenon DEF Holds, Periods, PeriodStart, PeriodOf
    <3>3. MissingSessions = {s \in Owing \cap Span : ~Holds(s)}
      BY <3>1, <3>2, Zenon
    <3> QED
      BY <1>10, <1>11, <2>2, <3>3
  <2> QED
    BY <1>12, <2>3, <2>5, <2>6
<1>14. IsFiniteSet(K) /\ IsFiniteSet(MissingSessions) /\ MissingSessions \subseteq Span
  BY <1>6, FS_Interval, MissingIs
<1>15. PICK f : AddsUp(f, w, K) /\ f[K] = Cardinality({s \in MissingSessions : key[s] \in K})
  BY <1>13, <1>14, CountsAddUp
<1>16. {s \in MissingSessions : key[s] \in K} = MissingSessions
  <2>1. 1 \in K
    BY <1>2, <1>6
  <2> QED
    BY <1>10, <1>14, <2>1
<1>17. 1 .. Len(strip) = K
  BY <1>2, <1>6
<1>18. \A i \in K : w[i] = strip[i].expected - strip[i].held
  BY <1>12
<1>19. AddsUp(f, w, 1 .. Len(strip)) /\ f[1 .. Len(strip)] = Cardinality(MissingSessions)
  BY <1>15, <1>16, <1>17, Zenon
<1>20. \A i \in 1 .. Len(strip) : w[i] = strip[i].expected - strip[i].held
  BY <1>17, <1>18, Zenon
<1> QED
  BY <1>19, <1>20, OwesBy, Zenon

---------------------------------------------------------------------------
(* One story. *)

LEMMA DaysOfWindow ==
  ASSUME NEW a \in Nat, NEW b \in Nat, NEW g, g = WindowOf(a, b)
  PROVE  DayOf(g.start) .. DayOf(g.end) - 1 = a .. b
<1>1. g.start = 4 * a /\ g.end = 4 * (b + 1)
  BY DEF WindowOf
<1>2. DayOf(4 * a) = a /\ DayOf(4 * (b + 1)) = b + 1
  BY DEF DayOf
<1> QED
  BY <1>1, <1>2

LEMMA StripTells ==
  ASSUME HealthInv, StampsInv
  PROVE  StripAgrees
<1>1. SUFFICES ASSUME ~Uncovered(kept.start), NEW n \in BucketCounts, NEW strip, strip = DatasetCoverage(n).buckets,
                      NEW gaps, gaps = DatasetCoverage(n).gaps
               PROVE  /\ strip # <<>> =>
                           /\ strip[1].start = kept.start /\ strip[Len(strip)].end = RangeEnd
                           /\ \A i \in 1 .. Len(strip) :
                                strip[i].start < strip[i].end /\ (i > 1 => strip[i].start = strip[i - 1].end)
                           /\ MapThenSumSet(LAMBDA i : strip[i].expected - strip[i].held, 1 .. Len(strip))
                                = MapThenSumSet(LAMBDA g : g.sessions, gaps)
                      /\ \A g \in gaps :
                           /\ covered \cap (DayOf(g.start) .. DayOf(g.end) - 1) = {}
                           /\ Sessions \cap (DayOf(g.start) .. DayOf(g.end) - 1) \subseteq MissingSessions
                           /\ g.sessions = Cardinality(Sessions \cap (DayOf(g.start) .. DayOf(g.end) - 1))
                      /\ (UNION {DayOf(g.start) .. DayOf(g.end) - 1 : g \in gaps}) \cap Sessions = MissingSessions
                      /\ kept.update = "STATIC" => (Status = "GAPS" <=> gaps # {})
  BY Zenon DEF StripAgrees
<1>2. n \in Nat \ {0}
  BY CalendarAssumption
<1>3. /\ \A g \in gaps : \E a, b \in MissingSessions : Whole(Judged, MissingSessions, a, b) /\ g = WindowOf(a, b)
      /\ \A a, b \in MissingSessions : Whole(Judged, MissingSessions, a, b) => WindowOf(a, b) \in gaps
  BY <1>1, WindowsAre
<1>4. ASSUME NEW a \in MissingSessions, NEW b \in MissingSessions, Whole(Judged, MissingSessions, a, b),
             NEW g, g = WindowOf(a, b)
      PROVE  /\ DayOf(g.start) .. DayOf(g.end) - 1 = a .. b
             /\ covered \cap (DayOf(g.start) .. DayOf(g.end) - 1) = {}
             /\ Sessions \cap (DayOf(g.start) .. DayOf(g.end) - 1) \subseteq MissingSessions
             /\ g.sessions = Cardinality(Sessions \cap (DayOf(g.start) .. DayOf(g.end) - 1))
  <2>1. /\ a \in Nat /\ b \in Nat /\ covered \cap (a .. b) = {}
        /\ Sessions \cap (a .. b) = RunIn(Judged, a, b) /\ RunIn(Judged, a, b) \subseteq MissingSessions
    BY <1>4, GapIs
  <2>2. DayOf(g.start) .. DayOf(g.end) - 1 = a .. b
    BY <1>4, <2>1, DaysOfWindow
  <2>3. g.sessions = Cardinality(RunIn(Judged, a, b))
    BY <1>4 DEF WindowOf
  <2> QED
    BY <2>1, <2>2, <2>3
<1>5. strip # <<>> =>
        /\ strip[1].start = kept.start /\ strip[Len(strip)].end = RangeEnd
        /\ \A i \in 1 .. Len(strip) :
             strip[i].start < strip[i].end /\ (i > 1 => strip[i].start = strip[i - 1].end)
  BY <1>1, <1>2, StripTiles
<1>6. strip # <<>> => MapThenSumSet(LAMBDA i : strip[i].expected - strip[i].held, 1 .. Len(strip))
                        = MapThenSumSet(LAMBDA g : g.sessions, gaps)
  <2>1. SUFFICES ASSUME strip # <<>>
                 PROVE  MapThenSumSet(LAMBDA i : strip[i].expected - strip[i].held, 1 .. Len(strip)) = Cardinality(MissingSessions)
    <3>1. MapThenSumSet(LAMBDA g : g.sessions, gaps) = Cardinality(MissingSessions)
      BY <1>1, GapsAddUp
    <3> QED
      BY <3>1
  <2>2. PICK K : K = 1 .. Len(strip) /\ IsFiniteSet(K)
    <3>1. Len(strip) \in Nat
      <4>1. PICK groups \in Nat : \E u : StripCut(strip, groups, u)
        BY <1>1, <1>2, StripIs, Zenon
      <4>2. PICK u : strip = [i \in 1 .. groups |-> BucketAt(u, groups, i)]
        BY <4>1 DEF StripCut
      <4> QED
        BY <4>2
    <3> QED
      BY <3>1, FS_Interval
  <2>3. PICK w, f : /\ \A i \in K : w[i] = strip[i].expected - strip[i].held
                    /\ AddsUp(f, w, K) /\ f[K] = Cardinality(MissingSessions)
    <3>1. \E w, f : /\ \A i \in 1 .. Len(strip) : w[i] = strip[i].expected - strip[i].held
                    /\ AddsUp(f, w, 1 .. Len(strip)) /\ f[1 .. Len(strip)] = Cardinality(MissingSessions)
      <4>1. StripOwes(strip)
        BY <1>1, <1>2, <2>1, StripAddsUp
      <4> QED
        BY <4>1, Zenon DEF StripOwes
    <3> QED
      BY <2>2, <3>1, Zenon
  <2>4. MapThenSumSet(LAMBDA i : strip[i].expected - strip[i].held, K) = f[K]
    <3> DEFINE P(it) == it = [s \in SUBSET K |-> IF s = {} THEN 0 ELSE (strip[CHOOSE x \in s : TRUE].expected - strip[CHOOSE x \in s : TRUE].held) + it[s \ {CHOOSE x \in s : TRUE}]]
    <3>1. PICK h : h = CHOOSE it : P(it)
      OBVIOUS
    <3>2. MapThenSumSet(LAMBDA i : strip[i].expected - strip[i].held, K) = h[K]
      BY <3>1, Zenon DEF MapThenSumSet, MapThenFoldSet
    <3>3. \A it : P(it) <=> AddsUp(it, w, K)
      <4>1. ASSUME NEW s \in SUBSET K, s # {}
            PROVE  w[CHOOSE x \in s : TRUE] = (strip[CHOOSE x \in s : TRUE].expected - strip[CHOOSE x \in s : TRUE].held)
        <5>1. PICK x : x = CHOOSE y \in s : TRUE
          OBVIOUS
        <5>2. x \in K
          BY <4>1, <5>1, Zenon
        <5>3. w[x] = (strip[x].expected - strip[x].held)
          BY <2>3, <5>2
        <5> QED
          BY <5>1, <5>3, Zenon
      <4>2. SUFFICES ASSUME NEW it PROVE P(it) <=> AddsUp(it, w, K)
        OBVIOUS
      <4>3. [s \in SUBSET K |-> IF s = {} THEN 0 ELSE (strip[CHOOSE x \in s : TRUE].expected - strip[CHOOSE x \in s : TRUE].held) + it[s \ {CHOOSE x \in s : TRUE}]]
            = [s \in SUBSET K |-> IF s = {} THEN 0 ELSE w[CHOOSE x \in s : TRUE] + it[s \ {CHOOSE x \in s : TRUE}]]
        <5>1. ASSUME NEW s \in SUBSET K
              PROVE  (IF s = {} THEN 0 ELSE (strip[CHOOSE x \in s : TRUE].expected - strip[CHOOSE x \in s : TRUE].held) + it[s \ {CHOOSE x \in s : TRUE}])
                     = (IF s = {} THEN 0 ELSE w[CHOOSE x \in s : TRUE] + it[s \ {CHOOSE x \in s : TRUE}])
          <6>1. CASE s = {}
            BY <6>1, Zenon
          <6>2. CASE s # {}
            BY <4>1, <6>2
          <6> QED
            BY <6>1, <6>2
        <5> QED
          BY <5>1, Zenon
      <4> QED
        BY <4>3, Zenon DEF AddsUp
    <3> HIDE DEF P
    <3>4. P(f)
      BY <2>3, <3>3
    <3>5. P(h)
      BY <3>1, <3>4, Zenon
    <3>6. AddsUp(h, w, K)
      BY <3>3, <3>5
    <3> QED
      BY <2>2, <2>3, <3>2, <3>6, OneSum
  <2> QED
    BY <2>2, <2>3, <2>4
<1>7. ASSUME NEW s \in MissingSessions
      PROVE  \E g \in gaps : s \in DayOf(g.start) .. DayOf(g.end) - 1
  <2>1. Judged \in SUBSET Nat /\ MissingSessions \in SUBSET Judged /\ clock \in Nat /\ \A x \in MissingSessions : x <= clock
    BY MissingIs, JudgedIs DEF HealthInv
  <2>2. PICK a \in MissingSessions, b \in MissingSessions : Whole(Judged, MissingSessions, a, b) /\ a <= s /\ s <= b
    BY <2>1, GapOf
  <2>3. s \in a .. b
    <3>1. s \in Nat /\ a \in Nat /\ b \in Nat
      BY MissingIs
    <3> QED
      BY <2>2, <3>1
  <2>4. WindowOf(a, b) \in gaps
    BY <1>3, <2>2
  <2>5. DayOf(WindowOf(a, b).start) .. DayOf(WindowOf(a, b).end) - 1 = a .. b
    BY <1>4, <2>2
  <2> QED
    BY <2>3, <2>4, <2>5
<1>11. ASSUME NEW g \in gaps
       PROVE  /\ covered \cap (DayOf(g.start) .. DayOf(g.end) - 1) = {}
              /\ Sessions \cap (DayOf(g.start) .. DayOf(g.end) - 1) \subseteq MissingSessions
              /\ g.sessions = Cardinality(Sessions \cap (DayOf(g.start) .. DayOf(g.end) - 1))
  <2>1. PICK a \in MissingSessions, b \in MissingSessions : Whole(Judged, MissingSessions, a, b) /\ g = WindowOf(a, b)
    BY <1>3
  <2> QED
    BY <1>4, <2>1
<1>8. (UNION {DayOf(g.start) .. DayOf(g.end) - 1 : g \in gaps}) \cap Sessions = MissingSessions
  <2>1. MissingSessions \subseteq Sessions
    BY MissingIs
  <2>2. PICK days : days = [g \in gaps |-> DayOf(g.start) .. DayOf(g.end) - 1]
    OBVIOUS
  <2>3. \A g \in gaps : days[g] = DayOf(g.start) .. DayOf(g.end) - 1
    BY <2>2
  <2>4. \A g \in gaps : Sessions \cap days[g] \subseteq MissingSessions
    BY <1>11, <2>3
  <2>5. \A s \in MissingSessions : \E g \in gaps : s \in days[g]
    BY <1>7, <2>3
  <2>6. (UNION {days[g] : g \in gaps}) \cap Sessions = MissingSessions
    <3>1. ASSUME NEW s, s \in (UNION {days[g] : g \in gaps}) \cap Sessions
          PROVE  s \in MissingSessions
      <4>1. s \in Sessions /\ \E g \in gaps : s \in days[g]
        BY <3>1, Zenon
      <4>2. PICK g \in gaps : s \in days[g]
        BY <4>1
      <4>3. s \in Sessions \cap days[g]
        BY <4>1, <4>2
      <4> QED
        BY <2>4, <4>3, Zenon
    <3>2. ASSUME NEW s, s \in MissingSessions
          PROVE  s \in (UNION {days[g] : g \in gaps}) \cap Sessions
      <4>1. PICK g \in gaps : s \in days[g]
        BY <2>5, <3>2
      <4>2. s \in UNION {days[x] : x \in gaps}
        BY <4>1, Zenon
      <4>3. s \in Sessions
        BY <2>1, <3>2
      <4> QED
        BY <4>2, <4>3, Zenon
    <3> QED
      BY <3>1, <3>2, Zenon
  <2>7. {DayOf(g.start) .. DayOf(g.end) - 1 : g \in gaps} = {days[g] : g \in gaps}
    BY <2>3
  <2> QED
    BY <2>6, <2>7
<1>9. gaps # {} <=> MissingSessions # {}
  BY <1>3, <1>7
<1>10. kept.update = "STATIC" => (Status = "GAPS" <=> gaps # {})
  BY <1>1, <1>9 DEF Status
<1> QED
  BY <1>5, <1>6, <1>8, <1>10, <1>11

\* The strip, the listed gaps and the status of a dataset tell one story of what is missing
\* (coverage_buckets, gap_intervals, evaluate_dataset), whatever the calendar, the dataset and its bars.
THEOREM CoverageAgreesAlways == Spec => []CoverageAgrees
<1>1. Init => HealthInv /\ StampsInv
  BY InitHealth, InitStamps DEF Init
<1>2. (HealthInv /\ StampsInv) /\ [Next]_vars => (HealthInv /\ StampsInv)'
  BY StepHealth, StepStamps
<1>3. HealthInv /\ StampsInv => CoverageAgrees
  BY StripTells DEF CoverageAgrees
<1> QED
  BY <1>1, <1>2, <1>3, PTL DEF Spec

---------------------------------------------------------------------------
(* The catalog's rows and the reads behind its figures. *)

RowsInv == rows \in [Stored -> RowChoices] /\ Stored \subseteq Series

FewReads == Cardinality(made) <= MaxReads

LEMMA InitRows == CatalogInit => RowsInv /\ FewReads
<1>1. SUFFICES ASSUME CatalogInit PROVE RowsInv /\ FewReads
  OBVIOUS
<1>2. PICK ds \in SUBSET Series : rows \in [ds -> RowChoices]
  BY <1>1 DEF CatalogInit
<1>3. Cardinality(made) = 0 /\ MaxReads \in Nat
  BY <1>1, FS_EmptySet, UsageAssumption DEF CatalogInit, UsageInit
<1> QED
  BY <1>2, <1>3 DEF RowsInv, FewReads, Stored

LEMMA StepRows ==
  ASSUME RowsInv, [Next]_vars
  PROVE  RowsInv'
<1>1. CASE DatasetGone
  <2>1. PICK d \in Stored : rows' = [x \in Stored \ {d} |-> rows[x]]
    BY <1>1 DEF DatasetGone
  <2>2. DOMAIN rows' = Stored \ {d}
    BY <2>1
  <2>3. \A x \in Stored \ {d} : rows'[x] \in RowChoices
    BY <2>1 DEF RowsInv
  <2>4. rows' \in [Stored \ {d} -> RowChoices]
    BY <2>1, <2>3
  <2> QED
    BY <2>2, <2>4 DEF RowsInv, Stored
<1>2. CASE UNCHANGED rows
  BY <1>2 DEF RowsInv, Stored
<1>3. Detail \/ Viewer \/ Grid \/ Coverage \/ Usage \/ Refresh \/ Failure \/ UNCHANGED vars => UNCHANGED rows
  BY Zenon DEF vars, catalogVars, Detail, Viewer, Grid, Coverage, Usage, Refresh, Failure
<1>4. Sidebar => DatasetGone \/ UNCHANGED rows
  BY DEF Sidebar, CatalogNext
<1> QED
  BY <1>1, <1>2, <1>3, <1>4 DEF Next

LEMMA StepFewReads ==
  ASSUME UsageInv, FewReads, [Next]_vars
  PROVE  FewReads'
<1>1. CASE ReadRecorded
  <2>1. PICK r : r \notin made /\ Cardinality(made) < MaxReads /\ made' = made \cup {r}
    BY <1>1 DEF ReadRecorded
  <2>2. Cardinality(made') = Cardinality(made) + 1 /\ Cardinality(made) \in Nat
    BY <2>1, FS_AddElement, FS_CardinalityType DEF UsageInv
  <2> QED
    BY <2>1, <2>2, UsageAssumption DEF FewReads
<1>2. CASE UNCHANGED made
  BY <1>2 DEF FewReads
<1>3. Detail \/ Viewer \/ Grid \/ Coverage \/ Refresh \/ Failure \/ UNCHANGED vars => UNCHANGED made
  BY Zenon DEF vars, catalogVars, usageVars, Detail, Viewer, Grid, Coverage, Refresh, Failure
<1>4. Sidebar \/ Usage => ReadRecorded \/ UNCHANGED made
  BY DEF Sidebar, Usage, CatalogNext, DatasetGone, UsageNext, FoldOld, UtcPasses, usageVars
<1> QED
  BY <1>1, <1>2, <1>3, <1>4 DEF Next

---------------------------------------------------------------------------
(* When a dataset was last read. *)

LEMMA WindowIs ==
  ASSUME utc \in Nat, NEW n \in Nat
  PROVE  WindowStart(n) = UtcDay(utc) - n /\ UtcDay(utc) \in Nat
BY DEF WindowStart, UtcDay

\* It is never earlier than a read of it.
LEMMA LastCovers ==
  ASSUME UsageInv, NEW d, NEW cs, NEW last, last = LastReadAt(rawReads, dailyReads, d, cs)
  PROVE  /\ last = Never \/ last \in 0 .. utc
         /\ \A r \in made : r.d = d /\ r.c \in cs => last # Never /\ r.at <= last
<1>1. last = LastReadAt(made, NoDays, d, cs) /\ (last = Never \/ last \in 0 .. utc)
  BY LastIs
<1>2. PICK B : B = LastsOf(made, NoDays, d, cs)
  OBVIOUS
<1>3. last = Max(B)
  BY <1>1, <1>2, Zenon DEF LastReadAt, LastsOf
<1>4. PICK C : C = {r.at : r \in {x \in made : x.d = d /\ x.c \in cs}}
  OBVIOUS
<1>5. B = {Never} \cup C
  BY <1>2, <1>4 DEF LastsOf, NoDays
<1>6. C \in SUBSET Nat /\ utc \in Nat /\ \A x \in C : x <= utc
  BY <1>4 DEF UsageInv
<1>7. ASSUME C # {}
      PROVE  last # Never /\ \A x \in C : x <= last
  <2>1. PICK m \in C : \A y \in C : y <= m
    BY <1>6, <1>7, LastOf
  <2>2. m \in B /\ m \in Int /\ \A y \in B : y \in Int /\ y <= m
    BY <1>5, <1>6, <2>1 DEF Never
  <2>3. Max(B) = m
    BY <2>2, MaxIs
  <2> QED
    BY <1>3, <1>6, <2>1, <2>3 DEF Never
<1> QED
  BY <1>1, <1>4, <1>7

\* So who is read within the window is recent.
LEMMA ReadIsRecent ==
  ASSUME UsageInv, NEW d, NEW cs, NEW n \in Nat, NEW r \in made, r.d = d, r.c \in cs, UtcDay(r.at) >= UtcDay(utc) - n
  PROVE  ReadWithin(LastReadAt(rawReads, dailyReads, d, cs), n)
<1>1. PICK last : last = LastReadAt(rawReads, dailyReads, d, cs)
  OBVIOUS
<1>2. last # Never /\ r.at <= last /\ last \in 0 .. utc
  BY <1>1, LastCovers
<1>3. r.at \in Nat /\ utc \in Nat
  BY DEF UsageInv
<1>4. UtcDay(last) >= UtcDay(r.at) /\ UtcDay(last) \in Nat /\ UtcDay(r.at) \in Nat /\ UtcDay(utc) \in Nat
  BY <1>2, <1>3 DEF UtcDay
<1> QED
  BY <1>1, <1>2, <1>4 DEF ReadWithin

---------------------------------------------------------------------------
(* The list and the sidebar ask one question of a dataset. *)

QuerySet ==
    [source : Sources \cup {"ANY"}, update : {"STATIC", "DAILY", "STREAM", "ANY"},
     status : {"HEALTHY", "LATE", "FAILED", "RETIRED", "ANY"}, attention : BOOLEAN, running : BOOLEAN,
     client : [ids : SUBSET Clients, kinds : SUBSET {"UI", "SDK"}], stale : Nat,
     usage : {"NEVER_READ", "READ_30D", "STALE", "ANY"}, before : Nat \cup {Never}]

\* What each filter says of a dataset.
BySource(q, d)    == q.source \in {"ANY", rows[d].source}
ByUpdate(q, d)    == q.update \in {"ANY", rows[d].update}
ByStatus(q, d)    == q.status \in {"ANY", GroupOf(HealthOf(d))}
ByAttention(q, d) == q.attention => GroupOf(HealthOf(d)) \in Attention
ByRunning(q, d)   == q.running => rows[d].running
ByUsage(q, d)     == q.usage = "ANY" \/ InUsage(q.usage, LastReadAt(rawReads, dailyReads, d, Chosen(q.client)), q.stale)
ByExpiry(q, d)    == q.before = Never \/ d \in Expiring({d}, q.before)

LEMMA ListIs ==
  ASSUME RowsInv, NEW q
  PROVE  /\ ListTotal(q) \subseteq Stored
         /\ \A d \in Stored : d \in ListTotal(q) <=>
                /\ BySource(q, d) /\ ByUpdate(q, d) /\ ByStatus(q, d) /\ ByAttention(q, d)
                /\ ByRunning(q, d) /\ ByUsage(q, d) /\ ByExpiry(q, d)
<1> DEFINE last     == LastRead(q.client)
           listed   == {d \in Stored : q.source \in {"ANY", rows[d].source} /\ q.update \in {"ANY", rows[d].update}}
           expiring == IF q.before = Never THEN listed ELSE Expiring(listed, q.before)
           used     == IF q.usage = "ANY" THEN expiring
                       ELSE {d \in expiring : InUsage(q.usage, last[d], q.stale)}
           running  == IF q.running THEN {d \in used : rows[d].running} ELSE used
<1>1. ListTotal(q) = {d \in running : /\ q.status \in {"ANY", GroupOf(HealthOf(d))}
                                      /\ q.attention => GroupOf(HealthOf(d)) \in Attention}
  BY Zenon DEF ListTotal
<1>2. \A d \in Stored : d \in listed <=> BySource(q, d) /\ ByUpdate(q, d)
  BY DEF BySource, ByUpdate
<1>3. listed \subseteq Stored
  OBVIOUS
<1>4. \A d \in Stored : d \in expiring <=> d \in listed /\ ByExpiry(q, d)
  BY DEF ByExpiry, Expiring
<1>5. expiring \subseteq listed
  BY DEF Expiring
<1>6. \A d \in Stored : last[d] = LastReadAt(rawReads, dailyReads, d, Chosen(q.client))
  BY DEF RowsInv, LastRead
<1> HIDE DEF listed, expiring, last
<1>7. \A d \in Stored : d \in used <=> d \in expiring /\ ByUsage(q, d)
  BY <1>6 DEF ByUsage
<1>8. used \subseteq expiring
  OBVIOUS
<1> HIDE DEF used
<1>9. \A d \in Stored : d \in running <=> d \in used /\ ByRunning(q, d)
  BY DEF ByRunning
<1>10. running \subseteq used
  OBVIOUS
<1> HIDE DEF running
<1> QED
  BY <1>1, <1>2, <1>3, <1>4, <1>5, <1>7, <1>8, <1>9, <1>10 DEF ByStatus, ByAttention

LEMMA MatchesIs ==
  ASSUME NEW q, NEW d, NEW omit
  PROVE  Matches(q, d, omit) <=>
           /\ "source" \in omit \/ BySource(q, d)
           /\ "update" \in omit \/ ByUpdate(q, d)
           /\ "status" \in omit \/ ByStatus(q, d)
           /\ "attention" \in omit \/ ByAttention(q, d)
           /\ "running" \in omit \/ ByRunning(q, d)
           /\ "usage" \in omit \/ ByUsage(q, d)
           /\ "before" \in omit \/ ByExpiry(q, d)
BY Zenon DEF Matches, BySource, ByUpdate, ByStatus, ByAttention, ByRunning, ByUsage, ByExpiry

Keeping(q, omit) == {d \in Stored : Matches(q, d, omit)}

LEMMA FacetsAre ==
  ASSUME NEW q, NEW f, f = Facets(q)
  PROVE  /\ f.all = Keeping(q, {"attention"})
         /\ f.attention = {d \in Keeping(q, {"attention"}) : GroupOf(HealthOf(d)) \in Attention}
         /\ f.sources = [s \in Sources |-> {d \in Keeping(q, {"source"}) : rows[d].source = s}]
         /\ f.updates = [u \in {"STATIC", "DAILY", "STREAM"} |-> {d \in Keeping(q, {"update"}) : rows[d].update = u}]
         /\ f.statuses = [s \in {HealthOf(d) : d \in Stored} |-> {d \in Keeping(q, {"status"}) : HealthOf(d) = s}]
         /\ f.running = {d \in Keeping(q, {"running"}) : rows[d].running}
         /\ f.usage = [g \in {"STALE", "READ_30D", "NEVER_READ"} |->
                          {d \in Keeping(q, {"usage"}) : InUsage(g, LastRead(q.client)[d], q.stale)}]
         /\ f.expiring = Expiring(Keeping(q, {"before"}), FacetBound(q))
         /\ f.clients = ClientDatasets(rawReads, dailyReads, Keeping(q, {"usage", "before"}))
<1>1. PICK a, b, c, g, h, i, j, k, l :
        /\ a = Keeping(q, {"attention"})
        /\ b = {d \in Keeping(q, {"attention"}) : GroupOf(HealthOf(d)) \in Attention}
        /\ c = [s \in Sources |-> {d \in Keeping(q, {"source"}) : rows[d].source = s}]
        /\ g = [u \in {"STATIC", "DAILY", "STREAM"} |-> {d \in Keeping(q, {"update"}) : rows[d].update = u}]
        /\ h = [s \in {HealthOf(d) : d \in Stored} |-> {d \in Keeping(q, {"status"}) : HealthOf(d) = s}]
        /\ i = {d \in Keeping(q, {"running"}) : rows[d].running}
        /\ j = [u \in {"STALE", "READ_30D", "NEVER_READ"} |->
                          {d \in Keeping(q, {"usage"}) : InUsage(u, LastRead(q.client)[d], q.stale)}]
        /\ k = Expiring(Keeping(q, {"before"}), FacetBound(q))
        /\ l = ClientDatasets(rawReads, dailyReads, Keeping(q, {"usage", "before"}))
  OBVIOUS
<1>2. Facets(q) = [all |-> a, attention |-> b, sources |-> c, updates |-> g, statuses |-> h, running |-> i,
                   usage |-> j, expiring |-> k, clients |-> l]
  BY <1>1, Zenon DEF Facets, Keeping
<1>3. PICK r : r = [all |-> a, attention |-> b, sources |-> c, updates |-> g, statuses |-> h, running |-> i,
                    usage |-> j, expiring |-> k, clients |-> l]
  OBVIOUS
<1>4. r.all = a /\ r.attention = b /\ r.sources = c /\ r.updates = g /\ r.statuses = h /\ r.running = i
      /\ r.usage = j /\ r.expiring = k /\ r.clients = l
  BY <1>3
<1>5. f = r
  BY <1>2, <1>3, Zenon
<1> QED
  BY <1>1, <1>4, <1>5, Zenon

LEMMA SameFilter ==
  ASSUME NEW p, NEW q, NEW d
  PROVE  /\ p.source = q.source => (BySource(p, d) <=> BySource(q, d))
         /\ p.update = q.update => (ByUpdate(p, d) <=> ByUpdate(q, d))
         /\ p.status = q.status => (ByStatus(p, d) <=> ByStatus(q, d))
         /\ p.attention = q.attention => (ByAttention(p, d) <=> ByAttention(q, d))
         /\ p.running = q.running => (ByRunning(p, d) <=> ByRunning(q, d))
         /\ p.usage = q.usage /\ p.client = q.client /\ p.stale = q.stale => (ByUsage(p, d) <=> ByUsage(q, d))
         /\ p.before = q.before => (ByExpiry(p, d) <=> ByExpiry(q, d))
<1>1. p.source = q.source => (BySource(p, d) <=> BySource(q, d))
  BY Zenon DEF BySource
<1>2. p.update = q.update => (ByUpdate(p, d) <=> ByUpdate(q, d))
  BY Zenon DEF ByUpdate
<1>3. p.status = q.status => (ByStatus(p, d) <=> ByStatus(q, d))
  BY Zenon DEF ByStatus
<1>4. p.attention = q.attention => (ByAttention(p, d) <=> ByAttention(q, d))
  BY Zenon DEF ByAttention
<1>5. p.running = q.running => (ByRunning(p, d) <=> ByRunning(q, d))
  BY Zenon DEF ByRunning
<1>6. p.usage = q.usage /\ p.client = q.client /\ p.stale = q.stale => (ByUsage(p, d) <=> ByUsage(q, d))
  BY Zenon DEF ByUsage
<1>7. p.before = q.before => (ByExpiry(p, d) <=> ByExpiry(q, d))
  BY Zenon DEF ByExpiry
<1> QED
  BY <1>1, <1>2, <1>3, <1>4, <1>5, <1>6, <1>7

\* A count leaves some filters out.
LEMMA KeepingIs ==
  ASSUME NEW q, NEW omit
  PROVE  /\ Keeping(q, omit) \subseteq Stored
         /\ \A d \in Stored : d \in Keeping(q, omit) <=>
              /\ "source" \in omit \/ BySource(q, d)
              /\ "update" \in omit \/ ByUpdate(q, d)
              /\ "status" \in omit \/ ByStatus(q, d)
              /\ "attention" \in omit \/ ByAttention(q, d)
              /\ "running" \in omit \/ ByRunning(q, d)
              /\ "usage" \in omit \/ ByUsage(q, d)
              /\ "before" \in omit \/ ByExpiry(q, d)
BY MatchesIs DEF Keeping

\* Setting one filter leaves the others, and those decide with it what the list holds.
LEMMA SourceFilter ==
  ASSUME RowsInv, NEW q \in QuerySet, NEW v, NEW p, p = [q EXCEPT !.source = v]
  PROVE  ListTotal(p) = {d \in Keeping(q, {"source"}) : v \in {"ANY", rows[d].source}}
<1>1. /\ p.source = v /\ p.update = q.update /\ p.status = q.status /\ p.attention = q.attention /\ p.running = q.running
      /\ p.usage = q.usage /\ p.client = q.client /\ p.stale = q.stale /\ p.before = q.before
  BY DEF QuerySet
<1>2. ASSUME NEW d \in Stored
      PROVE  d \in ListTotal(p) <=> d \in Keeping(q, {"source"}) /\ (v \in {"ANY", rows[d].source})
  <2>1. BySource(p, d) <=> (v \in {"ANY", rows[d].source})
    BY <1>1, Zenon DEF BySource
  <2>2. d \in ListTotal(p) <=>
            /\ BySource(p, d) /\ ByUpdate(p, d) /\ ByStatus(p, d) /\ ByAttention(p, d)
            /\ ByRunning(p, d) /\ ByUsage(p, d) /\ ByExpiry(p, d)
    BY ListIs
  <2>3. /\ ByUpdate(p, d) <=> ByUpdate(q, d)
        /\ ByStatus(p, d) <=> ByStatus(q, d)
        /\ ByAttention(p, d) <=> ByAttention(q, d)
        /\ ByRunning(p, d) <=> ByRunning(q, d)
        /\ ByUsage(p, d) <=> ByUsage(q, d)
        /\ ByExpiry(p, d) <=> ByExpiry(q, d)
    BY <1>1, SameFilter
  <2>4. d \in Keeping(q, {"source"}) <=>
            /\ ByUpdate(q, d) /\ ByStatus(q, d) /\ ByAttention(q, d) /\ ByRunning(q, d)
            /\ ByUsage(q, d) /\ ByExpiry(q, d)
    BY KeepingIs
  <2> QED
    BY <2>1, <2>2, <2>3, <2>4
<1>3. ListTotal(p) \subseteq Stored /\ Keeping(q, {"source"}) \subseteq Stored
  BY ListIs, KeepingIs
<1> QED
  BY <1>2, <1>3

LEMMA UpdateFilter ==
  ASSUME RowsInv, NEW q \in QuerySet, NEW v, NEW p, p = [q EXCEPT !.update = v]
  PROVE  ListTotal(p) = {d \in Keeping(q, {"update"}) : v \in {"ANY", rows[d].update}}
<1>1. /\ p.update = v /\ p.source = q.source /\ p.status = q.status /\ p.attention = q.attention /\ p.running = q.running
      /\ p.usage = q.usage /\ p.client = q.client /\ p.stale = q.stale /\ p.before = q.before
  BY DEF QuerySet
<1>2. ASSUME NEW d \in Stored
      PROVE  d \in ListTotal(p) <=> d \in Keeping(q, {"update"}) /\ (v \in {"ANY", rows[d].update})
  <2>1. ByUpdate(p, d) <=> (v \in {"ANY", rows[d].update})
    BY <1>1, Zenon DEF ByUpdate
  <2>2. d \in ListTotal(p) <=>
            /\ BySource(p, d) /\ ByUpdate(p, d) /\ ByStatus(p, d) /\ ByAttention(p, d)
            /\ ByRunning(p, d) /\ ByUsage(p, d) /\ ByExpiry(p, d)
    BY ListIs
  <2>3. /\ BySource(p, d) <=> BySource(q, d)
        /\ ByStatus(p, d) <=> ByStatus(q, d)
        /\ ByAttention(p, d) <=> ByAttention(q, d)
        /\ ByRunning(p, d) <=> ByRunning(q, d)
        /\ ByUsage(p, d) <=> ByUsage(q, d)
        /\ ByExpiry(p, d) <=> ByExpiry(q, d)
    BY <1>1, SameFilter
  <2>4. d \in Keeping(q, {"update"}) <=>
            /\ BySource(q, d) /\ ByStatus(q, d) /\ ByAttention(q, d) /\ ByRunning(q, d)
            /\ ByUsage(q, d) /\ ByExpiry(q, d)
    BY KeepingIs
  <2> QED
    BY <2>1, <2>2, <2>3, <2>4
<1>3. ListTotal(p) \subseteq Stored /\ Keeping(q, {"update"}) \subseteq Stored
  BY ListIs, KeepingIs
<1> QED
  BY <1>2, <1>3

LEMMA StatusFilter ==
  ASSUME RowsInv, NEW q \in QuerySet, NEW v, NEW p, p = [q EXCEPT !.status = v]
  PROVE  ListTotal(p) = {d \in Keeping(q, {"status"}) : v \in {"ANY", GroupOf(HealthOf(d))}}
<1>1. /\ p.status = v /\ p.source = q.source /\ p.update = q.update /\ p.attention = q.attention /\ p.running = q.running
      /\ p.usage = q.usage /\ p.client = q.client /\ p.stale = q.stale /\ p.before = q.before
  BY DEF QuerySet
<1>2. ASSUME NEW d \in Stored
      PROVE  d \in ListTotal(p) <=> d \in Keeping(q, {"status"}) /\ (v \in {"ANY", GroupOf(HealthOf(d))})
  <2>1. ByStatus(p, d) <=> (v \in {"ANY", GroupOf(HealthOf(d))})
    BY <1>1, Zenon DEF ByStatus
  <2>2. d \in ListTotal(p) <=>
            /\ BySource(p, d) /\ ByUpdate(p, d) /\ ByStatus(p, d) /\ ByAttention(p, d)
            /\ ByRunning(p, d) /\ ByUsage(p, d) /\ ByExpiry(p, d)
    BY ListIs
  <2>3. /\ BySource(p, d) <=> BySource(q, d)
        /\ ByUpdate(p, d) <=> ByUpdate(q, d)
        /\ ByAttention(p, d) <=> ByAttention(q, d)
        /\ ByRunning(p, d) <=> ByRunning(q, d)
        /\ ByUsage(p, d) <=> ByUsage(q, d)
        /\ ByExpiry(p, d) <=> ByExpiry(q, d)
    BY <1>1, SameFilter
  <2>4. d \in Keeping(q, {"status"}) <=>
            /\ BySource(q, d) /\ ByUpdate(q, d) /\ ByAttention(q, d) /\ ByRunning(q, d)
            /\ ByUsage(q, d) /\ ByExpiry(q, d)
    BY KeepingIs
  <2> QED
    BY <2>1, <2>2, <2>3, <2>4
<1>3. ListTotal(p) \subseteq Stored /\ Keeping(q, {"status"}) \subseteq Stored
  BY ListIs, KeepingIs
<1> QED
  BY <1>2, <1>3

LEMMA AttentionFilter ==
  ASSUME RowsInv, NEW q \in QuerySet, NEW v, NEW p, p = [q EXCEPT !.attention = v]
  PROVE  ListTotal(p) = {d \in Keeping(q, {"attention"}) : v => GroupOf(HealthOf(d)) \in Attention}
<1>1. /\ p.attention = v /\ p.source = q.source /\ p.update = q.update /\ p.status = q.status /\ p.running = q.running
      /\ p.usage = q.usage /\ p.client = q.client /\ p.stale = q.stale /\ p.before = q.before
  BY DEF QuerySet
<1>2. ASSUME NEW d \in Stored
      PROVE  d \in ListTotal(p) <=> d \in Keeping(q, {"attention"}) /\ (v => GroupOf(HealthOf(d)) \in Attention)
  <2>1. ByAttention(p, d) <=> (v => GroupOf(HealthOf(d)) \in Attention)
    BY <1>1, Zenon DEF ByAttention
  <2>2. d \in ListTotal(p) <=>
            /\ BySource(p, d) /\ ByUpdate(p, d) /\ ByStatus(p, d) /\ ByAttention(p, d)
            /\ ByRunning(p, d) /\ ByUsage(p, d) /\ ByExpiry(p, d)
    BY ListIs
  <2>3. /\ BySource(p, d) <=> BySource(q, d)
        /\ ByUpdate(p, d) <=> ByUpdate(q, d)
        /\ ByStatus(p, d) <=> ByStatus(q, d)
        /\ ByRunning(p, d) <=> ByRunning(q, d)
        /\ ByUsage(p, d) <=> ByUsage(q, d)
        /\ ByExpiry(p, d) <=> ByExpiry(q, d)
    BY <1>1, SameFilter
  <2>4. d \in Keeping(q, {"attention"}) <=>
            /\ BySource(q, d) /\ ByUpdate(q, d) /\ ByStatus(q, d) /\ ByRunning(q, d)
            /\ ByUsage(q, d) /\ ByExpiry(q, d)
    BY KeepingIs
  <2> QED
    BY <2>1, <2>2, <2>3, <2>4
<1>3. ListTotal(p) \subseteq Stored /\ Keeping(q, {"attention"}) \subseteq Stored
  BY ListIs, KeepingIs
<1> QED
  BY <1>2, <1>3

LEMMA RunningFilter ==
  ASSUME RowsInv, NEW q \in QuerySet, NEW v, NEW p, p = [q EXCEPT !.running = v]
  PROVE  ListTotal(p) = {d \in Keeping(q, {"running"}) : v => rows[d].running}
<1>1. /\ p.running = v /\ p.source = q.source /\ p.update = q.update /\ p.status = q.status /\ p.attention = q.attention
      /\ p.usage = q.usage /\ p.client = q.client /\ p.stale = q.stale /\ p.before = q.before
  BY DEF QuerySet
<1>2. ASSUME NEW d \in Stored
      PROVE  d \in ListTotal(p) <=> d \in Keeping(q, {"running"}) /\ (v => rows[d].running)
  <2>1. ByRunning(p, d) <=> (v => rows[d].running)
    BY <1>1, Zenon DEF ByRunning
  <2>2. d \in ListTotal(p) <=>
            /\ BySource(p, d) /\ ByUpdate(p, d) /\ ByStatus(p, d) /\ ByAttention(p, d)
            /\ ByRunning(p, d) /\ ByUsage(p, d) /\ ByExpiry(p, d)
    BY ListIs
  <2>3. /\ BySource(p, d) <=> BySource(q, d)
        /\ ByUpdate(p, d) <=> ByUpdate(q, d)
        /\ ByStatus(p, d) <=> ByStatus(q, d)
        /\ ByAttention(p, d) <=> ByAttention(q, d)
        /\ ByUsage(p, d) <=> ByUsage(q, d)
        /\ ByExpiry(p, d) <=> ByExpiry(q, d)
    BY <1>1, SameFilter
  <2>4. d \in Keeping(q, {"running"}) <=>
            /\ BySource(q, d) /\ ByUpdate(q, d) /\ ByStatus(q, d) /\ ByAttention(q, d)
            /\ ByUsage(q, d) /\ ByExpiry(q, d)
    BY KeepingIs
  <2> QED
    BY <2>1, <2>2, <2>3, <2>4
<1>3. ListTotal(p) \subseteq Stored /\ Keeping(q, {"running"}) \subseteq Stored
  BY ListIs, KeepingIs
<1> QED
  BY <1>2, <1>3

LEMMA UsageFilter ==
  ASSUME RowsInv, NEW q \in QuerySet, NEW v, NEW p, p = [q EXCEPT !.usage = v], v # "ANY"
  PROVE  ListTotal(p) = {d \in Keeping(q, {"usage"}) : InUsage(v, LastRead(q.client)[d], q.stale)}
<1>1. /\ p.usage = v /\ p.source = q.source /\ p.update = q.update /\ p.status = q.status /\ p.attention = q.attention
      /\ p.running = q.running /\ p.client = q.client /\ p.stale = q.stale /\ p.before = q.before
  BY DEF QuerySet
<1>2. ASSUME NEW d \in Stored
      PROVE  d \in ListTotal(p) <=> d \in Keeping(q, {"usage"}) /\ (InUsage(v, LastRead(q.client)[d], q.stale))
  <2>1. LastRead(q.client)[d] = LastReadAt(rawReads, dailyReads, d, Chosen(q.client))
    BY DEF RowsInv, LastRead
  <2>2. ByUsage(p, d) <=> InUsage(v, LastRead(q.client)[d], q.stale)
    BY <1>1, <2>1, Zenon DEF ByUsage
  <2>3. d \in ListTotal(p) <=>
            /\ BySource(p, d) /\ ByUpdate(p, d) /\ ByStatus(p, d) /\ ByAttention(p, d)
            /\ ByRunning(p, d) /\ ByUsage(p, d) /\ ByExpiry(p, d)
    BY ListIs
  <2>4. /\ BySource(p, d) <=> BySource(q, d)
        /\ ByUpdate(p, d) <=> ByUpdate(q, d)
        /\ ByStatus(p, d) <=> ByStatus(q, d)
        /\ ByAttention(p, d) <=> ByAttention(q, d)
        /\ ByRunning(p, d) <=> ByRunning(q, d)
        /\ ByExpiry(p, d) <=> ByExpiry(q, d)
    BY <1>1, SameFilter
  <2>5. d \in Keeping(q, {"usage"}) <=>
            /\ BySource(q, d) /\ ByUpdate(q, d) /\ ByStatus(q, d) /\ ByAttention(q, d)
            /\ ByRunning(q, d) /\ ByExpiry(q, d)
    BY KeepingIs
  <2> QED
    BY <2>2, <2>3, <2>4, <2>5
<1>3. ListTotal(p) \subseteq Stored /\ Keeping(q, {"usage"}) \subseteq Stored
  BY ListIs, KeepingIs
<1> QED
  BY <1>2, <1>3

LEMMA ExpiryFilter ==
  ASSUME RowsInv, NEW q \in QuerySet, NEW v, NEW p, p = [q EXCEPT !.before = v], v # Never
  PROVE  ListTotal(p) = Expiring(Keeping(q, {"before"}), v)
<1>1. /\ p.before = v /\ p.source = q.source /\ p.update = q.update /\ p.status = q.status /\ p.attention = q.attention
      /\ p.running = q.running /\ p.usage = q.usage /\ p.client = q.client /\ p.stale = q.stale
  BY DEF QuerySet
<1>2. ASSUME NEW d \in Stored
      PROVE  d \in ListTotal(p) <=> d \in Keeping(q, {"before"}) /\ (d \in Expiring({d}, v))
  <2>1. ByExpiry(p, d) <=> (d \in Expiring({d}, v))
    BY <1>1, Zenon DEF ByExpiry
  <2>2. d \in ListTotal(p) <=>
            /\ BySource(p, d) /\ ByUpdate(p, d) /\ ByStatus(p, d) /\ ByAttention(p, d)
            /\ ByRunning(p, d) /\ ByUsage(p, d) /\ ByExpiry(p, d)
    BY ListIs
  <2>3. /\ BySource(p, d) <=> BySource(q, d)
        /\ ByUpdate(p, d) <=> ByUpdate(q, d)
        /\ ByStatus(p, d) <=> ByStatus(q, d)
        /\ ByAttention(p, d) <=> ByAttention(q, d)
        /\ ByRunning(p, d) <=> ByRunning(q, d)
        /\ ByUsage(p, d) <=> ByUsage(q, d)
    BY <1>1, SameFilter
  <2>4. d \in Keeping(q, {"before"}) <=>
            /\ BySource(q, d) /\ ByUpdate(q, d) /\ ByStatus(q, d) /\ ByAttention(q, d)
            /\ ByRunning(q, d) /\ ByUsage(q, d)
    BY KeepingIs
  <2> QED
    BY <2>1, <2>2, <2>3, <2>4
<1>3. Expiring(Keeping(q, {"before"}), v) = {d \in Keeping(q, {"before"}) : d \in Expiring({d}, v)}
  BY DEF Expiring
<1>4. ListTotal(p) \subseteq Stored /\ Keeping(q, {"before"}) \subseteq Stored
  BY ListIs, KeepingIs
<1> QED
  BY <1>2, <1>3, <1>4

\* Who the picker offers read these datasets within the window.
LEMMA OfferedIs ==
  ASSUME UsageInv, RowsInv, NEW q \in QuerySet, NEW p,
         NEW c \in Clients, p = [q EXCEPT !.client = [ids |-> {c}, kinds |-> {}], !.usage = "READ_30D", !.before = Never]
  PROVE  {d \in Keeping(q, {"usage", "before"}) : c \in Readers(rawReads, dailyReads, d)} \subseteq ListTotal(p)
<1>1. SUFFICES ASSUME NEW d \in Keeping(q, {"usage", "before"}), c \in Readers(rawReads, dailyReads, d)
               PROVE  d \in ListTotal(p)
  OBVIOUS
<1>2. /\ p.client = [ids |-> {c}, kinds |-> {}] /\ p.usage = "READ_30D" /\ p.before = Never
      /\ p.source = q.source /\ p.update = q.update /\ p.status = q.status
      /\ p.attention = q.attention /\ p.running = q.running /\ p.stale = q.stale
  BY DEF QuerySet
<1>3. Chosen(p.client) = {c}
  <2>1. PICK e : e = [ids |-> {c}, kinds |-> {}]
    OBVIOUS
  <2>2. e.ids = {c} /\ {c} # {}
    BY <2>1
  <2>3. Chosen(e) = {c}
    BY <2>2, Zenon DEF Chosen
  <2> QED
    BY <1>2, <2>1, <2>3, Zenon
<1>4. PICK r \in made : r.d = d /\ r.c = c /\ UtcDay(r.at) >= UtcDay(utc) - RecentDays
  <2>1. c \in Readers(made, NoDays, d)
    BY <1>1, ReadersIs
  <2>2. {k.c : k \in {x \in DOMAIN NoDays : x.d = d /\ NoDays[x].reads > 0 /\ x.day >= WindowStart(RecentDays)}} = {}
    BY DEF NoDays
  <2>3. PICK r \in Proper(made) : r.d = d /\ r.c = c /\ UtcDay(r.at) >= WindowStart(RecentDays)
    BY <2>1, <2>2 DEF Readers
  <2>4. r \in made
    BY DEF Proper
  <2>5. WindowStart(RecentDays) = UtcDay(utc) - RecentDays
    BY WindowIs, UsageAssumption DEF UsageInv
  <2> QED
    BY <2>3, <2>4, <2>5
<1>5. RecentDays \in Nat /\ RecentDays > 0
  BY UsageAssumption
<1>6. ReadWithin(LastReadAt(rawReads, dailyReads, d, {c}), RecentDays)
  BY <1>4, <1>5, ReadIsRecent
<1>7. ByUsage(p, d)
  BY <1>2, <1>3, <1>6 DEF ByUsage, InUsage
<1>8. ByExpiry(p, d)
  BY <1>2 DEF ByExpiry
<1>9. d \in Stored /\ Matches(q, d, {"usage", "before"})
  BY <1>1 DEF Keeping
<1>10. BySource(q, d) /\ ByUpdate(q, d) /\ ByStatus(q, d) /\ ByAttention(q, d) /\ ByRunning(q, d)
  BY <1>9, MatchesIs
<1>11. BySource(p, d) /\ ByUpdate(p, d) /\ ByStatus(p, d) /\ ByAttention(p, d) /\ ByRunning(p, d)
  BY <1>2, <1>10, SameFilter
<1> QED
  BY <1>7, <1>8, <1>9, <1>11, ListIs

LEMMA FacetsCount ==
  ASSUME UsageInv, RowsInv
  PROVE  FacetsCountTheList
<1>1. SUFFICES ASSUME NEW q \in Queries, NEW f, f = Facets(q)
               PROVE  /\ f.all = ListTotal([q EXCEPT !.attention = FALSE])
                      /\ f.attention = ListTotal([q EXCEPT !.attention = TRUE])
                      /\ \A s \in Sources : f.sources[s] = ListTotal([q EXCEPT !.source = s])
                      /\ \A u \in DOMAIN f.updates : f.updates[u] = ListTotal([q EXCEPT !.update = u])
                      /\ \A g \in {"HEALTHY", "LATE", "FAILED", "RETIRED"} :
                           UNION {f.statuses[s] : s \in {x \in DOMAIN f.statuses : GroupOf(x) = g}}
                             = ListTotal([q EXCEPT !.status = g])
                      /\ f.running = ListTotal([q EXCEPT !.running = TRUE])
                      /\ \A g \in DOMAIN f.usage : f.usage[g] = ListTotal([q EXCEPT !.usage = g])
                      /\ f.expiring = ListTotal([q EXCEPT !.before = FacetBound(q)])
                      /\ \A c \in DOMAIN f.clients :
                           f.clients[c] <= Cardinality(ListTotal([q EXCEPT !.client = [ids |-> {c}, kinds |-> {}],
                                                                           !.usage = "READ_30D", !.before = Never]))
  BY Zenon DEF FacetsCountTheList
<1>2. q \in QuerySet
  BY CatalogAssumption DEF QuerySet, Sources
<1>3. /\ f.all = Keeping(q, {"attention"})
      /\ f.attention = {d \in Keeping(q, {"attention"}) : GroupOf(HealthOf(d)) \in Attention}
      /\ f.sources = [s \in Sources |-> {d \in Keeping(q, {"source"}) : rows[d].source = s}]
      /\ f.updates = [u \in {"STATIC", "DAILY", "STREAM"} |-> {d \in Keeping(q, {"update"}) : rows[d].update = u}]
      /\ f.statuses = [s \in {HealthOf(d) : d \in Stored} |-> {d \in Keeping(q, {"status"}) : HealthOf(d) = s}]
      /\ f.running = {d \in Keeping(q, {"running"}) : rows[d].running}
      /\ f.usage = [g \in {"STALE", "READ_30D", "NEVER_READ"} |->
                       {d \in Keeping(q, {"usage"}) : InUsage(g, LastRead(q.client)[d], q.stale)}]
      /\ f.expiring = Expiring(Keeping(q, {"before"}), FacetBound(q))
      /\ f.clients = ClientDatasets(rawReads, dailyReads, Keeping(q, {"usage", "before"}))
  BY <1>1, FacetsAre
<1>4. f.all = ListTotal([q EXCEPT !.attention = FALSE])
  <2>1. ListTotal([q EXCEPT !.attention = FALSE])
          = {d \in Keeping(q, {"attention"}) : FALSE => GroupOf(HealthOf(d)) \in Attention}
    <3>1. PICK p : p = [q EXCEPT !.attention = FALSE]
      OBVIOUS
    <3>2. ListTotal(p) = {d \in Keeping(q, {"attention"}) : FALSE => GroupOf(HealthOf(d)) \in Attention}
      BY <1>2, <3>1, AttentionFilter
    <3> QED
      BY <3>1, <3>2, Zenon
  <2> QED
    BY <1>3, <2>1
<1>5. f.attention = ListTotal([q EXCEPT !.attention = TRUE])
  <2>1. ListTotal([q EXCEPT !.attention = TRUE])
          = {d \in Keeping(q, {"attention"}) : TRUE => GroupOf(HealthOf(d)) \in Attention}
    <3>1. PICK p : p = [q EXCEPT !.attention = TRUE]
      OBVIOUS
    <3>2. ListTotal(p) = {d \in Keeping(q, {"attention"}) : TRUE => GroupOf(HealthOf(d)) \in Attention}
      BY <1>2, <3>1, AttentionFilter
    <3> QED
      BY <3>1, <3>2, Zenon
  <2> QED
    BY <1>3, <2>1
<1>6. ASSUME NEW s \in Sources
      PROVE  f.sources[s] = ListTotal([q EXCEPT !.source = s])
  <2>1. s # "ANY"
    BY CatalogAssumption DEF Sources
  <2>2. ListTotal([q EXCEPT !.source = s]) = {d \in Keeping(q, {"source"}) : s \in {"ANY", rows[d].source}}
    <3>1. PICK p : p = [q EXCEPT !.source = s]
      OBVIOUS
    <3>2. p = [q EXCEPT !.source = s] =>
             ListTotal(p) = {d \in Keeping(q, {"source"}) : s \in {"ANY", rows[d].source}}
      BY <1>2, <3>1, SourceFilter
    <3> QED
      BY <3>1, <3>2, Zenon
  <2> QED
    BY <1>3, <2>1, <2>2
<1>7. ASSUME NEW u \in {"STATIC", "DAILY", "STREAM"}
      PROVE  f.updates[u] = ListTotal([q EXCEPT !.update = u])
  <2>1. u # "ANY"
    OBVIOUS
  <2>2. ListTotal([q EXCEPT !.update = u]) = {d \in Keeping(q, {"update"}) : u \in {"ANY", rows[d].update}}
    <3>1. PICK p : p = [q EXCEPT !.update = u]
      OBVIOUS
    <3>2. ListTotal(p) = {d \in Keeping(q, {"update"}) : u \in {"ANY", rows[d].update}}
      BY <1>2, <3>1, UpdateFilter
    <3> QED
      BY <3>1, <3>2, Zenon
  <2> QED
    BY <1>3, <2>1, <2>2
<1>8. ASSUME NEW g \in {"HEALTHY", "LATE", "FAILED", "RETIRED"}
      PROVE  (UNION {f.statuses[s] : s \in {x \in DOMAIN f.statuses : GroupOf(x) = g}}) = ListTotal([q EXCEPT !.status = g])
  <2>1. g # "ANY"
    OBVIOUS
  <2>2. ListTotal([q EXCEPT !.status = g]) = {d \in Keeping(q, {"status"}) : g \in {"ANY", GroupOf(HealthOf(d))}}
    <3>1. PICK p : p = [q EXCEPT !.status = g]
      OBVIOUS
    <3>2. ListTotal(p) = {d \in Keeping(q, {"status"}) : g \in {"ANY", GroupOf(HealthOf(d))}}
      BY <1>2, <3>1, StatusFilter
    <3> QED
      BY <3>1, <3>2, Zenon
  <2>3. DOMAIN f.statuses = {HealthOf(d) : d \in Stored}
    BY <1>3
  <2>4. \A s \in DOMAIN f.statuses : f.statuses[s] = {d \in Keeping(q, {"status"}) : HealthOf(d) = s}
    BY <1>3
  <2>5. Keeping(q, {"status"}) \subseteq Stored
    BY DEF Keeping
  <2>6. PICK S : S = {x \in DOMAIN f.statuses : GroupOf(x) = g}
    OBVIOUS
  <2>7. ASSUME NEW d
        PROVE  d \in (UNION {f.statuses[s] : s \in S}) <=> \E s \in S : d \in f.statuses[s]
    BY Zenon
  <2>8. ASSUME NEW d
        PROVE  (\E s \in S : d \in f.statuses[s]) <=> d \in Keeping(q, {"status"}) /\ GroupOf(HealthOf(d)) = g
    <3>1. ASSUME NEW s \in S, d \in f.statuses[s]
          PROVE  d \in Keeping(q, {"status"}) /\ GroupOf(HealthOf(d)) = g
      BY <2>4, <2>6, <3>1
    <3>2. ASSUME d \in Keeping(q, {"status"}), GroupOf(HealthOf(d)) = g
          PROVE  \E s \in S : d \in f.statuses[s]
      <4>1. HealthOf(d) \in S
        BY <2>3, <2>5, <2>6, <3>2
      <4>2. d \in f.statuses[HealthOf(d)]
        BY <2>4, <2>6, <3>2, <4>1
      <4> QED
        BY <4>1, <4>2
    <3> QED
      BY <3>1, <3>2
  <2> QED
    BY <2>1, <2>2, <2>6, <2>7, <2>8
<1>9. f.running = ListTotal([q EXCEPT !.running = TRUE])
  <2>1. ListTotal([q EXCEPT !.running = TRUE]) = {d \in Keeping(q, {"running"}) : TRUE => rows[d].running}
    <3>1. PICK p : p = [q EXCEPT !.running = TRUE]
      OBVIOUS
    <3>2. ListTotal(p) = {d \in Keeping(q, {"running"}) : TRUE => rows[d].running}
      BY <1>2, <3>1, RunningFilter
    <3> QED
      BY <3>1, <3>2, Zenon
  <2> QED
    BY <1>3, <2>1
<1>10. ASSUME NEW g \in {"STALE", "READ_30D", "NEVER_READ"}
       PROVE  f.usage[g] = ListTotal([q EXCEPT !.usage = g])
  <2>1. g # "ANY"
    OBVIOUS
  <2>2. ListTotal([q EXCEPT !.usage = g]) = {d \in Keeping(q, {"usage"}) : InUsage(g, LastRead(q.client)[d], q.stale)}
    <3>1. PICK p : p = [q EXCEPT !.usage = g]
      OBVIOUS
    <3>2. ListTotal(p) = {d \in Keeping(q, {"usage"}) : InUsage(g, LastRead(q.client)[d], q.stale)}
      BY <1>2, <2>1, <3>1, UsageFilter
    <3> QED
      BY <3>1, <3>2, Zenon
  <2> QED
    BY <1>3, <2>1, <2>2
<1>11. f.expiring = ListTotal([q EXCEPT !.before = FacetBound(q)])
  <2>1. FacetBound(q) # Never
    <3>1. utc \in Nat /\ ExpiringSoonDays \in Nat
      BY CatalogAssumption DEF UsageInv
    <3> QED
      BY <3>1 DEF FacetBound, Never
  <2>2. PICK p : p = [q EXCEPT !.before = FacetBound(q)]
    OBVIOUS
  <2>3. ListTotal(p) = Expiring(Keeping(q, {"before"}), FacetBound(q))
    BY <1>2, <2>1, <2>2, ExpiryFilter
  <2> QED
    BY <1>3, <2>2, <2>3, Zenon
<1>12. ASSUME NEW c \in DOMAIN f.clients, NEW p,
              p = [q EXCEPT !.client = [ids |-> {c}, kinds |-> {}], !.usage = "READ_30D", !.before = Never]
       PROVE  f.clients[c] <= Cardinality(ListTotal(p))
  <2>1. PICK ds : ds = Keeping(q, {"usage", "before"})
    OBVIOUS
  <2>2. f.clients = Tally([d \in ds |-> Readers(rawReads, dailyReads, d)], ds)
    <3>1. ClientDatasets(rawReads, dailyReads, ds) = Tally([d \in ds |-> Readers(rawReads, dailyReads, d)], ds)
      BY Zenon DEF ClientDatasets, Tally
    <3>2. f.clients = ClientDatasets(rawReads, dailyReads, ds)
      BY <1>3, <2>1
    <3> QED
      BY <3>1, <3>2, Zenon
  <2>3. PICK readers : readers = [d \in ds |-> Readers(rawReads, dailyReads, d)]
    OBVIOUS
  <2>4. \E d \in ds : c \in readers[d]
    BY <1>12, <2>2, <2>3 DEF Tally
  <2>5. f.clients[c] = Cardinality({d \in ds : c \in readers[d]})
    BY <1>12, <2>2, <2>3 DEF Tally
  <2>6. {d \in ds : c \in readers[d]} = {d \in ds : c \in Readers(rawReads, dailyReads, d)}
    BY <2>3
  <2>7. c \in Clients
    <3>1. PICK d \in ds : c \in Readers(rawReads, dailyReads, d)
      BY <2>3, <2>4
    <3>2. c \in Readers(made, NoDays, d)
      BY <3>1, ReadersIs
    <3>3. {k.c : k \in {x \in DOMAIN NoDays : x.d = d /\ NoDays[x].reads > 0 /\ x.day >= WindowStart(RecentDays)}} = {}
      BY DEF NoDays
    <3>4. PICK r \in Proper(made) : r.c = c
      BY <3>2, <3>3 DEF Readers
    <3> QED
      BY <3>4 DEF Proper, UsageInv
  <2>8. {d \in ds : c \in Readers(rawReads, dailyReads, d)} \subseteq ListTotal(p)
    BY <1>2, <1>12, <2>1, <2>7, OfferedIs
  <2>9. IsFiniteSet(ListTotal(p))
    <3>1. ListTotal(p) \in SUBSET Series
      BY ListIs DEF RowsInv
    <3> QED
      BY <3>1, FS_Subset, CatalogAssumption
  <2>10. Cardinality({d \in ds : c \in Readers(rawReads, dailyReads, d)}) <= Cardinality(ListTotal(p))
    BY <2>8, <2>9, FS_Subset
  <2> QED
    BY <2>5, <2>6, <2>10
<1>13. DOMAIN f.updates = {"STATIC", "DAILY", "STREAM"} /\ DOMAIN f.usage = {"STALE", "READ_30D", "NEVER_READ"}
  BY <1>3
<1>14. (\A u \in DOMAIN f.updates : f.updates[u] = ListTotal([q EXCEPT !.update = u]))
       /\ (\A g \in DOMAIN f.usage : f.usage[g] = ListTotal([q EXCEPT !.usage = g]))
  BY <1>7, <1>10, <1>13, Zenon
<1>15. \A c \in DOMAIN f.clients :
         f.clients[c] <= Cardinality(ListTotal([q EXCEPT !.client = [ids |-> {c}, kinds |-> {}],
                                                         !.usage = "READ_30D", !.before = Never]))
  BY <1>12, Zenon
<1> QED
  BY <1>4, <1>5, <1>6, <1>8, <1>9, <1>11, <1>14, <1>15, Zenon

---------------------------------------------------------------------------
(* The usage page counts what the list holds. *)

LEMMA InUsageIs ==
  ASSUME NEW l, NEW n
  PROVE  /\ InUsage("NEVER_READ", l, n) <=> l = Never
         /\ InUsage("READ_30D", l, n) <=> ReadWithin(l, RecentDays)
         /\ InUsage("STALE", l, n) <=> ~ReadWithin(l, n)
BY DEF InUsage

\* The list of a source's datasets by one usage group.
LEMMA TotalIs ==
  ASSUME RowsInv, NEW filter, NEW source, NEW stale, NEW g, NEW q,
         q = [source |-> source, update |-> "ANY", status |-> "ANY", attention |-> FALSE,
              running |-> FALSE, client |-> filter, usage |-> g, stale |-> stale, before |-> Never]
  PROVE  ListTotal(q) = {d \in OfSource(source) : g = "ANY" \/ InUsage(g, LastRead(filter)[d], stale)}
<1>1. /\ q.source = source /\ q.update = "ANY" /\ q.status = "ANY" /\ q.attention = FALSE /\ q.running = FALSE
      /\ q.client = filter /\ q.usage = g /\ q.stale = stale /\ q.before = Never
  OBVIOUS
<1>2. ASSUME NEW d \in Stored
      PROVE  d \in ListTotal(q) <=> d \in OfSource(source) /\ (g = "ANY" \/ InUsage(g, LastRead(filter)[d], stale))
  <2>1. ByUpdate(q, d) /\ ByStatus(q, d) /\ ByAttention(q, d) /\ ByRunning(q, d) /\ ByExpiry(q, d)
    BY <1>1 DEF ByUpdate, ByStatus, ByAttention, ByRunning, ByExpiry
  <2>2. BySource(q, d) <=> d \in OfSource(source)
    BY <1>1 DEF BySource, OfSource
  <2>3. LastRead(filter)[d] = LastReadAt(rawReads, dailyReads, d, Chosen(filter))
    BY DEF RowsInv, LastRead
  <2>4. ByUsage(q, d) <=> g = "ANY" \/ InUsage(g, LastRead(filter)[d], stale)
    BY <1>1, <2>3, Zenon DEF ByUsage
  <2>5. d \in ListTotal(q) <=>
            /\ BySource(q, d) /\ ByUpdate(q, d) /\ ByStatus(q, d) /\ ByAttention(q, d)
            /\ ByRunning(q, d) /\ ByUsage(q, d) /\ ByExpiry(q, d)
    BY ListIs
  <2> QED
    BY <2>1, <2>2, <2>4, <2>5
<1>3. ListTotal(q) \subseteq Stored /\ OfSource(source) \subseteq Stored
  BY ListIs DEF OfSource
<1> QED
  BY <1>2, <1>3

LEMMA SourceFinite ==
  ASSUME RowsInv, NEW source
  PROVE  IsFiniteSet(Stored) /\ IsFiniteSet(OfSource(source)) /\ OfSource(source) \subseteq Stored
<1>1. Stored \in SUBSET Series /\ OfSource(source) \in SUBSET Stored
  BY DEF RowsInv, OfSource
<1> QED
  BY <1>1, FS_Subset, CatalogAssumption

\* The datasets of each usage group, and the clients of today's reads.
StaleOf(filter, source, n) == {d \in OfSource(source) : ~ReadWithin(LastRead(filter)[d], n)}
RecentOf(filter, source)   == {d \in OfSource(source) : ReadWithin(LastRead(filter)[d], RecentDays)}
NeverOf(filter, source)    == {d \in OfSource(source) : LastRead(filter)[d] = Never}
EverOf(filter, source)     == {d \in OfSource(source) : LastRead(filter)[d] # Never}
TodayOf(filter, source)    == {e.c : e \in ReadsToday(filter, source)}

LEMMA SummaryCounts ==
  ASSUME NEW filter, NEW stale, NEW source, NEW s, s = UsageSummary(filter, stale, source)
  PROVE  /\ s.stale = Cardinality(StaleOf(filter, source, stale)) /\ s.recent = Cardinality(RecentOf(filter, source))
         /\ s.never = Cardinality(NeverOf(filter, source)) /\ s.total = Cardinality(OfSource(source))
         /\ s.clients = Cardinality(TodayOf(filter, source))
<1>1. PICK a, b, c, t, n, k :
        /\ a = Cardinality(StaleOf(filter, source, stale)) /\ b = Cardinality(RecentOf(filter, source))
        /\ c = Cardinality(NeverOf(filter, source)) /\ t = Cardinality(OfSource(source))
        /\ n = MapThenSumSet(LAMBDA e : e.reads, ReadsToday(filter, source))
        /\ k = Cardinality(TodayOf(filter, source))
  OBVIOUS
<1>2. s = [stale |-> a, recent |-> b, never |-> c, total |-> t, today |-> n, clients |-> k]
  BY <1>1, Zenon DEF UsageSummary, StaleOf, RecentOf, NeverOf, TodayOf
<1>3. s.stale = a /\ s.recent = b /\ s.never = c /\ s.total = t /\ s.clients = k
  BY <1>2
<1> QED
  BY <1>1, <1>3, Zenon

---------------------------------------------------------------------------
(* The buckets. *)

\* Whole days since a dataset was last read, and the bucket they fall into.
DaysSince(l) == Max({0, UtcDay(utc) - UtcDay(l)})
BucketOf(n)  == Max({x \in BucketStarts : n >= x})

LEMMA DaysSinceIs ==
  ASSUME utc \in Nat, NEW l \in 0 .. utc
  PROVE  /\ DaysSince(l) \in Nat
         /\ \A n \in Nat : ReadWithin(l, n) <=> DaysSince(l) <= n
<1>1. UtcDay(l) \in Nat /\ UtcDay(utc) \in Nat /\ UtcDay(l) <= UtcDay(utc)
  BY DEF UtcDay
<1>2. PICK m \in Nat : m = UtcDay(utc) - UtcDay(l)
  BY <1>1
<1>3. DaysSince(l) = m
  <2>1. PICK T : T = {0, m}
    OBVIOUS
  <2>2. Max(T) = m
    BY <2>1, LastOfTwo
  <2> QED
    BY <1>2, <2>1, <2>2 DEF DaysSince
<1>4. l # Never
  BY DEF Never
<1> QED
  BY <1>1, <1>2, <1>3, <1>4 DEF ReadWithin

LEMMA BucketIs ==
  ASSUME NEW n \in Nat
  PROVE  /\ BucketOf(n) \in BucketStarts /\ BucketOf(n) \in Nat
         /\ BucketOf(n) < RecentDays + 1 <=> n <= RecentDays
<1>1. PICK B : B = {x \in BucketStarts : n >= x}
  OBVIOUS
<1>2. B \in SUBSET Nat /\ B # {} /\ (\A x \in B : x <= n) /\ RecentDays \in Nat /\ RecentDays + 1 \in BucketStarts
  <2>1. BucketStarts \in SUBSET Nat /\ 0 \in BucketStarts /\ RecentDays + 1 \in BucketStarts
    BY CatalogAssumption
  <2>2. 0 \in B
    BY <1>1, <2>1
  <2> QED
    BY <1>1, <2>1, <2>2, UsageAssumption
<1>3. Max(B) \in B /\ \A x \in B : x <= Max(B)
  BY <1>2, LastOf
<1>4. PICK m \in B : m = Max(B)
  BY <1>3
<1>5. m \in BucketStarts /\ m \in Nat /\ m <= n /\ (n >= RecentDays + 1 => m >= RecentDays + 1)
  BY <1>1, <1>2, <1>3, <1>4
<1> QED
  BY <1>1, <1>2, <1>4, <1>5 DEF BucketOf

LEMMA BucketsAre ==
  ASSUME UsageInv, RowsInv, NEW filter, NEW source, NEW last, last = LastRead(filter),
         NEW buckets, buckets = LastReadBuckets(filter, source)
  PROVE  /\ \A d \in OfSource(source) : last[d] = Never \/ last[d] \in 0 .. utc
         /\ \A b \in BucketStarts :
              buckets[b] = {d \in OfSource(source) : last[d] # Never /\ b = BucketOf(DaysSince(last[d]))}
<1>1. ASSUME NEW d \in OfSource(source) PROVE last[d] = Never \/ last[d] \in 0 .. utc
  <2>1. last[d] = LastReadAt(rawReads, dailyReads, d, Chosen(filter))
    BY DEF RowsInv, LastRead, OfSource
  <2> QED
    BY <2>1, LastCovers
<1>2. buckets = [b \in BucketStarts |->
                   {d \in {x \in OfSource(source) : last[x] # Never} : b = BucketOf(DaysSince(last[d]))}]
  BY Zenon DEF LastReadBuckets, BucketOf, DaysSince
<1>3. \A b \in BucketStarts : buckets[b] = {d \in {x \in OfSource(source) : last[x] # Never} : b = BucketOf(DaysSince(last[d]))}
  BY <1>2, Zenon
<1>4. \A b \in BucketStarts :
         buckets[b] = {d \in OfSource(source) : last[d] # Never /\ b = BucketOf(DaysSince(last[d]))}
  BY <1>3
<1> QED
  BY <1>1, <1>4

\* The young buckets hold the recent datasets.
LEMMA BelowIs ==
  ASSUME UsageInv, RowsInv, NEW filter, NEW source, NEW last, last = LastRead(filter),
         NEW buckets, buckets = LastReadBuckets(filter, source), NEW B, B = {x \in BucketStarts : x < RecentDays + 1}
  PROVE  (UNION {buckets[b] : b \in B}) = RecentOf(filter, source)
<1>1. /\ \A d \in OfSource(source) : last[d] = Never \/ last[d] \in 0 .. utc
      /\ \A b \in BucketStarts :
           buckets[b] = {d \in OfSource(source) : last[d] # Never /\ b = BucketOf(DaysSince(last[d]))}
  BY BucketsAre
<1>2. RecentDays \in Nat /\ utc \in Nat
  BY UsageAssumption DEF UsageInv
<1>3. ASSUME NEW d
      PROVE  d \in (UNION {buckets[b] : b \in B}) <=> \E b \in B : d \in buckets[b]
  BY Zenon
<1>4. ASSUME NEW d \in OfSource(source), ReadWithin(last[d], RecentDays)
      PROVE  \E b \in B : d \in buckets[b]
  <2>1. last[d] # Never
    BY <1>4 DEF ReadWithin
  <2>2. PICK l \in 0 .. utc : l = last[d]
    BY <1>1, <2>1
  <2>3. DaysSince(l) \in Nat /\ DaysSince(l) <= RecentDays
    BY <1>2, <1>4, <2>2, DaysSinceIs
  <2>4. PICK b \in BucketStarts : b = BucketOf(DaysSince(l)) /\ b < RecentDays + 1
    BY <2>3, BucketIs
  <2>5. d \in buckets[b]
    BY <1>1, <2>1, <2>2, <2>4
  <2> QED
    BY <2>4, <2>5
<1>5. ASSUME NEW b \in B, NEW d \in buckets[b]
      PROVE  d \in OfSource(source) /\ ReadWithin(last[d], RecentDays)
  <2>1. d \in OfSource(source) /\ last[d] # Never /\ b = BucketOf(DaysSince(last[d])) /\ b < RecentDays + 1
    BY <1>1
  <2>2. PICK l \in 0 .. utc : l = last[d]
    BY <1>1, <2>1
  <2>3. DaysSince(l) \in Nat
    BY <1>2, DaysSinceIs
  <2>4. DaysSince(l) <= RecentDays
    BY <2>1, <2>2, <2>3, BucketIs
  <2> QED
    BY <1>2, <2>1, <2>2, <2>4, DaysSinceIs
<1> QED
  BY <1>3, <1>4, <1>5 DEF RecentOf

\* What the buckets hold adds up, by the recursion of AddsUp, to the datasets that were ever read.
BucketsHold(buckets, S) ==
  \E w, f : /\ \A b \in BucketStarts : w[b] = Cardinality(buckets[b])
            /\ AddsUp(f, w, BucketStarts) /\ f[BucketStarts] = Cardinality(S)

LEMMA BucketsAddUp ==
  ASSUME UsageInv, RowsInv, NEW filter, NEW source, NEW last, last = LastRead(filter),
         NEW buckets, buckets = LastReadBuckets(filter, source)
  PROVE  BucketsHold(buckets, {d \in OfSource(source) : last[d] # Never})
<1>1. /\ \A d \in OfSource(source) : last[d] = Never \/ last[d] \in 0 .. utc
      /\ \A b \in BucketStarts :
           buckets[b] = {d \in OfSource(source) : last[d] # Never /\ b = BucketOf(DaysSince(last[d]))}
  BY BucketsAre
<1>2. PICK S : S = {d \in OfSource(source) : last[d] # Never}
  OBVIOUS
<1>3. PICK key : key = [d \in S |-> BucketOf(DaysSince(last[d]))]
  OBVIOUS
<1>4. PICK w : w = [b \in BucketStarts |-> Cardinality(buckets[b])]
  OBVIOUS
<1>5. IsFiniteSet(S)
  <2>1. S \in SUBSET OfSource(source)
    BY <1>2
  <2> QED
    BY <2>1, SourceFinite, FS_Subset
<1>6. IsFiniteSet(BucketStarts)
  BY CatalogAssumption
<1>7. CountsBy(w, BucketStarts, S, key)
  <2>1. SUFFICES ASSUME NEW b \in BucketStarts PROVE w[b] = Cardinality({d \in S : key[d] = b})
    BY DEF CountsBy
  <2>2. {d \in S : key[d] = b} = buckets[b]
    BY <1>1, <1>2, <1>3
  <2> QED
    BY <1>4, <2>2
<1>8. PICK f : AddsUp(f, w, BucketStarts) /\ f[BucketStarts] = Cardinality({d \in S : key[d] \in BucketStarts})
  BY <1>5, <1>6, <1>7, CountsAddUp
<1>9. ASSUME NEW d \in S PROVE key[d] \in BucketStarts
  <2>1. PICK l \in 0 .. utc : l = last[d]
    BY <1>1, <1>2
  <2>2. DaysSince(l) \in Nat
    BY DaysSinceIs DEF UsageInv
  <2> QED
    BY <1>3, <2>1, <2>2, BucketIs
<1>10. {d \in S : key[d] \in BucketStarts} = S
  BY <1>9
<1>11. AddsUp(f, w, BucketStarts) /\ f[BucketStarts] = Cardinality(S)
  BY <1>8, <1>10, Zenon
<1>12. \A b \in BucketStarts : w[b] = Cardinality(buckets[b])
  BY <1>4
<1>13. BucketsHold(buckets, S)
  BY <1>11, <1>12, Zenon DEF BucketsHold
<1> QED
  BY <1>2, <1>13, Zenon

---------------------------------------------------------------------------
(* The sums of the usage and the storage pages, by the recursion of AddsUp. *)

LEMMA SumBars ==
  ASSUME NEW K, IsFiniteSet(K), NEW w, \A x \in K : w[x] = rows[x].bars, NEW f, AddsUp(f, w, K)
  PROVE  MapThenSumSet(LAMBDA d : rows[d].bars, K) = f[K]
<1> DEFINE P(it) == it = [s \in SUBSET K |-> IF s = {} THEN 0
                             ELSE rows[CHOOSE x \in s : TRUE].bars + it[s \ {CHOOSE x \in s : TRUE}]]
<1>1. PICK h : h = CHOOSE it : P(it)
  OBVIOUS
<1>2. MapThenSumSet(LAMBDA d : rows[d].bars, K) = h[K]
  BY <1>1, Zenon DEF MapThenSumSet, MapThenFoldSet
<1>3. \A it : P(it) <=> AddsUp(it, w, K)
  <2>1. ASSUME NEW s \in SUBSET K, s # {}
        PROVE  w[CHOOSE x \in s : TRUE] = rows[CHOOSE x \in s : TRUE].bars
    <3>1. PICK x : x = CHOOSE y \in s : TRUE
      OBVIOUS
    <3>2. x \in K
      BY <2>1, <3>1, Zenon
    <3>3. w[x] = rows[x].bars
      BY <3>2
    <3> QED
      BY <3>1, <3>3, Zenon
  <2>2. SUFFICES ASSUME NEW it PROVE P(it) <=> AddsUp(it, w, K)
    OBVIOUS
  <2>3. [s \in SUBSET K |-> IF s = {} THEN 0 ELSE rows[CHOOSE x \in s : TRUE].bars + it[s \ {CHOOSE x \in s : TRUE}]]
        = [s \in SUBSET K |-> IF s = {} THEN 0 ELSE w[CHOOSE x \in s : TRUE] + it[s \ {CHOOSE x \in s : TRUE}]]
    <3>1. ASSUME NEW s \in SUBSET K
          PROVE  (IF s = {} THEN 0 ELSE rows[CHOOSE x \in s : TRUE].bars + it[s \ {CHOOSE x \in s : TRUE}])
                 = (IF s = {} THEN 0 ELSE w[CHOOSE x \in s : TRUE] + it[s \ {CHOOSE x \in s : TRUE}])
      <4>1. CASE s = {}
        BY <4>1, Zenon
      <4>2. CASE s # {}
        BY <2>1, <4>2
      <4> QED
        BY <4>1, <4>2
    <3> QED
      BY <3>1, Zenon
  <2> QED
    BY <2>3, Zenon DEF AddsUp
<1> HIDE DEF P
<1>4. P(f)
  BY <1>3
<1>5. P(h)
  BY <1>1, <1>4, Zenon
<1>6. AddsUp(h, w, K)
  BY <1>3, <1>5
<1> QED
  BY <1>2, <1>6, OneSum

LEMMA SumOfDays ==
  ASSUME NEW K, IsFiniteSet(K), NEW w, \A x \in K : w[x] = x.reads, NEW f, AddsUp(f, w, K)
  PROVE  MapThenSumSet(LAMBDA e : e.reads, K) = f[K]
<1> DEFINE P(it) == it = [s \in SUBSET K |-> IF s = {} THEN 0
                             ELSE (CHOOSE x \in s : TRUE).reads + it[s \ {CHOOSE x \in s : TRUE}]]
<1>1. PICK h : h = CHOOSE it : P(it)
  OBVIOUS
<1>2. MapThenSumSet(LAMBDA e : e.reads, K) = h[K]
  BY <1>1, Zenon DEF MapThenSumSet, MapThenFoldSet
<1>3. \A it : P(it) <=> AddsUp(it, w, K)
  <2>1. ASSUME NEW s \in SUBSET K, s # {}
        PROVE  w[CHOOSE x \in s : TRUE] = (CHOOSE x \in s : TRUE).reads
    <3>1. PICK x : x = CHOOSE y \in s : TRUE
      OBVIOUS
    <3>2. x \in K
      BY <2>1, <3>1, Zenon
    <3>3. w[x] = x.reads
      BY <3>2
    <3> QED
      BY <3>1, <3>3, Zenon
  <2>2. SUFFICES ASSUME NEW it PROVE P(it) <=> AddsUp(it, w, K)
    OBVIOUS
  <2>3. [s \in SUBSET K |-> IF s = {} THEN 0 ELSE (CHOOSE x \in s : TRUE).reads + it[s \ {CHOOSE x \in s : TRUE}]]
        = [s \in SUBSET K |-> IF s = {} THEN 0 ELSE w[CHOOSE x \in s : TRUE] + it[s \ {CHOOSE x \in s : TRUE}]]
    <3>1. ASSUME NEW s \in SUBSET K
          PROVE  (IF s = {} THEN 0 ELSE (CHOOSE x \in s : TRUE).reads + it[s \ {CHOOSE x \in s : TRUE}])
                 = (IF s = {} THEN 0 ELSE w[CHOOSE x \in s : TRUE] + it[s \ {CHOOSE x \in s : TRUE}])
      <4>1. CASE s = {}
        BY <4>1, Zenon
      <4>2. CASE s # {}
        BY <2>1, <4>2
      <4> QED
        BY <4>1, <4>2
    <3> QED
      BY <3>1, Zenon
  <2> QED
    BY <2>3, Zenon DEF AddsUp
<1> HIDE DEF P
<1>4. P(f)
  BY <1>3
<1>5. P(h)
  BY <1>1, <1>4, Zenon
<1>6. AddsUp(h, w, K)
  BY <1>3, <1>5
<1> QED
  BY <1>2, <1>6, OneSum

\* As many pairs that begin with k as w[k] says.
Units(w, K) == {p \in K \X Nat : p[2] \in 1 .. w[p[1]]}

LEMMA UnitsAre ==
  ASSUME NEW K, IsFiniteSet(K), NEW w, \A k \in K : w[k] \in Nat
  PROVE  /\ IsFiniteSet(Units(w, K))
         /\ \A k \in K : Cardinality({p \in Units(w, K) : p[1] = k}) = w[k]
<1>1. ASSUME NEW k \in K
      PROVE  IsFiniteSet({p \in Units(w, K) : p[1] = k}) /\ Cardinality({p \in Units(w, K) : p[1] = k}) = w[k]
  <2>1. PICK n \in Nat : n = w[k]
    OBVIOUS
  <2>2. PICK R : R = {p \in Units(w, K) : p[1] = k}
    OBVIOUS
  <2>3. PICK g : g = [i \in 1 .. n |-> <<k, i>>]
    OBVIOUS
  <2>4. \A i \in 1 .. n : <<k, i>> \in R
    BY <2>1, <2>2 DEF Units
  <2>5. \A p \in R : p[2] \in 1 .. n /\ p = <<k, p[2]>>
    BY <2>1, <2>2 DEF Units
  <2>6. g \in [1 .. n -> R] /\ \A i \in 1 .. n : g[i] = <<k, i>>
    BY <2>3, <2>4
  <2>7. g \in Bijection(1 .. n, R)
    <3>1. \A i, j \in 1 .. n : g[i] = g[j] => i = j
      BY <2>6
    <3>2. ASSUME NEW p \in R PROVE \E i \in 1 .. n : g[i] = p
      <4>1. p[2] \in 1 .. n /\ p = <<k, p[2]>>
        BY <2>5
      <4>2. g[p[2]] = <<k, p[2]>>
        BY <2>6, <4>1
      <4> QED
        BY <4>1, <4>2
    <3>3. PICK D : D = 1 .. n
      OBVIOUS
    <3>4. g \in [D -> R] /\ (\A i, j \in D : g[i] = g[j] => i = j) /\ \A p \in R : \E i \in D : g[i] = p
      BY <2>6, <3>1, <3>2, <3>3
    <3>5. g \in Injection(D, R) /\ g \in Surjection(D, R)
      BY <3>4 DEF Injection, IsInjective, Surjection
    <3> QED
      BY <3>3, <3>5 DEF Bijection
  <2>8. IsFiniteSet(1 .. n) /\ Cardinality(1 .. n) = n
    BY FS_Interval
  <2> QED
    BY <2>1, <2>2, <2>7, <2>8, FS_Bijection DEF ExistsBijection
<1>2. PICK g : g = [k \in K |-> {p \in Units(w, K) : p[1] = k}]
  OBVIOUS
<1>3. PICK A : A = {g[k] : k \in K}
  OBVIOUS
<1>4. IsFiniteSet(A)
  <2>1. \A a \in A : \E k \in K : g[k] = a
    BY <1>3
  <2> QED
    BY <2>1, ReachedFinite
<1>5. \A a \in A : IsFiniteSet(a)
  BY <1>1, <1>2, <1>3
<1>6. Units(w, K) = UNION A
  <2>1. ASSUME NEW p \in Units(w, K) PROVE \E a \in A : p \in a
    <3>1. p[1] \in K /\ p \in g[p[1]]
      BY <1>2 DEF Units
    <3>2. g[p[1]] \in A
      BY <1>3, <3>1
    <3> QED
      BY <3>1, <3>2
  <2>2. \A a \in A : a \subseteq Units(w, K)
    BY <1>2, <1>3
  <2> QED
    BY <2>1, <2>2
<1> QED
  BY <1>1, <1>4, <1>5, <1>6, FS_UNION

\* A sum of numbers of which each part counts its pairs.
UnitsOf(w, K, S) == {p \in Units(w, K) : p[1] \in S}

LEMMA SumCounts ==
  ASSUME NEW K, IsFiniteSet(K), NEW w, \A k \in K : w[k] \in Nat, NEW S \in SUBSET K
  PROVE  \E f : AddsUp(f, w, S) /\ f[S] = Cardinality(UnitsOf(w, K, S))
<1>1. PICK T : T = Units(w, K)
  OBVIOUS
<1>2. PICK g : g = [p \in T |-> p[1]]
  OBVIOUS
<1>3. IsFiniteSet(T) /\ IsFiniteSet(S) /\ \A k \in K : Cardinality({p \in T : p[1] = k}) = w[k]
  <2>1. IsFiniteSet(S)
    BY FS_Subset
  <2>2. IsFiniteSet(Units(w, K)) /\ \A k \in K : Cardinality({p \in Units(w, K) : p[1] = k}) = w[k]
    BY UnitsAre, Zenon
  <2> QED
    BY <1>1, <2>1, <2>2
<1>4. CountsBy(w, S, T, g)
  <2>1. SUFFICES ASSUME NEW k \in S PROVE w[k] = Cardinality({p \in T : g[p] = k})
    BY DEF CountsBy
  <2>2. {p \in T : g[p] = k} = {p \in T : p[1] = k}
    BY <1>2
  <2> QED
    BY <1>3, <2>2
<1>5. PICK f : AddsUp(f, w, S) /\ f[S] = Cardinality({p \in T : g[p] \in S})
  BY <1>3, <1>4, CountsAddUp
<1>6. {p \in T : g[p] \in S} = {p \in T : p[1] \in S}
  BY <1>2
<1> QED
  BY <1>1, <1>5, <1>6 DEF UnitsOf

---------------------------------------------------------------------------
(* Shares rounded down fall short of the whole by less than one for each. *)

LEMMA ShareIs ==
  ASSUME NEW n \in Nat, NEW t \in Nat \ {0}
  PROVE  /\ n \div t \in Nat /\ (n \div t) * t \in Nat
         /\ (n \div t) * t <= n /\ n - (n \div t) * t <= t - 1
<1>1. PICK q \in Nat, m \in Nat : q = n \div t /\ m < t /\ n = t * q + m
  BY ModIs
<1>2. t * q = q * t /\ q * t \in Nat
  OBVIOUS
<1> QED
  BY <1>1, <1>2

LEMMA ShortBy ==
  ASSUME NEW t \in Nat \ {0}, NEW n \in Nat, NEW b \in Nat, NEW c \in Nat \ {0},
         b * t <= t * n, t * n - b * t <= c * (t - 1)
  PROVE  n - b \in 0 .. c - 1
<1>1. t * n = n * t /\ n * t \in Nat /\ b * t \in Nat /\ c * t \in Nat
  OBVIOUS
<1>2. b <= n
  <2>1. SUFFICES ASSUME n + 1 <= b PROVE FALSE
    OBVIOUS
  <2>2. (n + 1) * t <= b * t
    BY <2>1, TimesGrows
  <2>3. (n + 1) * t = n * t + t
    OBVIOUS
  <2> QED
    BY <1>1, <2>2, <2>3
<1>3. n - b <= c - 1
  <2>1. SUFFICES ASSUME b + c <= n PROVE FALSE
    OBVIOUS
  <2>2. (b + c) * t <= n * t
    BY <2>1, TimesGrows
  <2>3. (b + c) * t = b * t + c * t
    OBVIOUS
  <2>4. c * (t - 1) = c * t - c
    OBVIOUS
  <2> QED
    BY <1>1, <2>2, <2>3, <2>4
<1> QED
  BY <1>2, <1>3

LEMMA SharesFallShort ==
  ASSUME NEW K, IsFiniteSet(K), NEW t \in Nat \ {0}, NEW n \in Nat, NEW h, NEW q,
         \A k \in K : h[k] \in Nat /\ q[k] = (h[k] * n) \div t,
         NEW f, AddsUp(f, h, K), NEW g, AddsUp(g, q, K)
  PROVE  /\ f[K] \in Nat /\ g[K] \in Nat
         /\ g[K] * t <= f[K] * n /\ f[K] * n - g[K] * t <= Cardinality(K) * (t - 1)
<1> DEFINE Short(s) == /\ f[s] \in Nat /\ g[s] \in Nat
                       /\ g[s] * t <= f[s] * n /\ f[s] * n - g[s] * t <= Cardinality(s) * (t - 1)
           B == {m \in Nat : \E s \in SUBSET K : Cardinality(s) = m /\ ~Short(s)}
<1>1. SUFFICES ASSUME ~Short(K) PROVE FALSE
  OBVIOUS
<1>2. Cardinality(K) \in B
  BY <1>1, FS_CardinalityType
<1>3. PICK m \in B : \A j \in B : m <= j
  <2>1. B \in SUBSET Nat
    OBVIOUS
  <2> HIDE DEF B
  <2> QED
    BY <1>2, <2>1, LeastOf
<1>4. PICK s \in SUBSET K : Cardinality(s) = m /\ ~Short(s)
  OBVIOUS
<1>5. \A r \in SUBSET K :
         /\ f[r] = IF r = {} THEN 0 ELSE h[CHOOSE x \in r : TRUE] + f[r \ {CHOOSE x \in r : TRUE}]
         /\ g[r] = IF r = {} THEN 0 ELSE q[CHOOSE x \in r : TRUE] + g[r \ {CHOOSE x \in r : TRUE}]
  BY DEF AddsUp
<1>6. IsFiniteSet(s) /\ Cardinality(s) \in Nat
  BY <1>4, FS_Subset, FS_CardinalityType
<1>7. s # {}
  <2>1. SUFFICES ASSUME s = {} PROVE Short(s)
    BY <1>4
  <2>2. f[s] = 0 /\ g[s] = 0 /\ Cardinality(s) = 0
    BY <1>5, <2>1, FS_EmptySet
  <2> QED
    BY <2>2
<1>8. PICK x \in s : x = CHOOSE y \in s : TRUE
  BY <1>7, Zenon
<1>9. PICK r \in SUBSET K : r = s \ {x}
  OBVIOUS
<1>10. f[s] = h[x] + f[r] /\ g[s] = q[x] + g[r]
  BY <1>5, <1>7, <1>8, <1>9, Zenon
<1>11. Cardinality(r) = m - 1 /\ Cardinality(r) \in Nat
  <2>1. Cardinality(s \ {x}) = Cardinality(s) - 1 /\ IsFiniteSet(s \ {x})
    BY <1>6, <1>8, FS_RemoveElement
  <2> QED
    BY <1>4, <1>9, <2>1, FS_CardinalityType
<1>12. Short(r)
  <2>1. SUFFICES ASSUME ~Short(r) PROVE m - 1 \in B
    BY <1>3
  <2> QED
    BY <1>9, <1>11, <2>1
<1>13. PICK u \in Nat, v \in Nat : u = h[x] /\ v = q[x] /\ v = (u * n) \div t
  <2>1. h[x] \in Nat /\ q[x] = (h[x] * n) \div t
    BY <1>4, <1>8
  <2>2. h[x] * n \in Nat
    BY <2>1
  <2> QED
    BY <2>1, <2>2, ShareIs
<1>14. v * t <= u * n /\ u * n - v * t <= t - 1 /\ u * n \in Nat /\ v * t \in Nat
  <2>1. u * n \in Nat
    OBVIOUS
  <2> QED
    BY <1>13, <2>1, ShareIs
<1>15. PICK a \in Nat, b \in Nat, c \in Nat :
         /\ a = f[r] /\ b = g[r] /\ c = Cardinality(r)
         /\ b * t <= a * n /\ a * n - b * t <= c * (t - 1)
  BY <1>11, <1>12
<1>16. /\ (u + a) * n = u * n + a * n /\ (v + b) * t = v * t + b * t /\ (c + 1) * (t - 1) = c * (t - 1) + (t - 1)
       /\ a * n \in Nat /\ b * t \in Nat /\ c * (t - 1) \in Nat
  OBVIOUS
<1>17. f[s] = u + a /\ g[s] = v + b /\ Cardinality(s) = c + 1
  BY <1>4, <1>10, <1>11, <1>13, <1>15
<1>18. /\ u + a \in Nat /\ v + b \in Nat /\ (v + b) * t <= (u + a) * n
       /\ (u + a) * n - (v + b) * t <= (c + 1) * (t - 1)
  BY <1>14, <1>15, <1>16
<1>19. Short(s)
  BY <1>17, <1>18, Zenon
<1> QED
  BY <1>4, <1>19

---------------------------------------------------------------------------
(* Storage. *)

\* What the datasets hold together is counted by the same pairs, whichever datasets they are.
LEMMA BarsAre ==
  ASSUME RowsInv, NEW S \in SUBSET Stored, NEW w, w = [d \in Stored |-> rows[d].bars]
  PROVE  /\ MapThenSumSet(LAMBDA d : rows[d].bars, S) = Cardinality(UnitsOf(w, Stored, S))
         /\ IsFiniteSet(Units(w, Stored))
<1>1. IsFiniteSet(Stored) /\ IsFiniteSet(S)
  BY SourceFinite, FS_Subset
<1>2. \A d \in Stored : w[d] \in Nat
  <2>1. \A d \in Stored : rows[d] \in RowChoices
    BY DEF RowsInv
  <2>2. \A c \in RowChoices : c.bars \in Nat
    BY CatalogAssumption
  <2> QED
    BY <2>1, <2>2
<1>3. PICK f : AddsUp(f, w, S) /\ f[S] = Cardinality(UnitsOf(w, Stored, S))
  <2>1. PICK K : K = Stored
    OBVIOUS
  <2>2. S \in SUBSET K /\ IsFiniteSet(K) /\ \A d \in K : w[d] \in Nat
    BY <1>1, <1>2, <2>1
  <2>3. \E f : AddsUp(f, w, S) /\ f[S] = Cardinality(UnitsOf(w, K, S))
    BY <2>2, SumCounts
  <2> QED
    BY <2>1, <2>3, Zenon
<1>4. \A d \in S : w[d] = rows[d].bars
  OBVIOUS
<1> QED
  BY <1>1, <1>2, <1>3, <1>4, SumBars, UnitsAre

HeldBy(s) == MapThenSumSet(LAMBDA d : rows[d].bars, OfSource(s))

LEMMA HeldIs ==
  ASSUME RowsInv
  PROVE  /\ TotalBars \in Nat /\ \A s : HeldBy(s) \in Nat
         /\ IsFiniteSet({s \in Sources : HeldBy(s) > 0})
         /\ \E f : AddsUp(f, [s \in {x \in Sources : HeldBy(x) > 0} |-> HeldBy(s)], {s \in Sources : HeldBy(s) > 0})
                   /\ f[{s \in Sources : HeldBy(s) > 0}] = TotalBars
<1>1. PICK w : w = [d \in Stored |-> rows[d].bars]
  OBVIOUS
<1>2. PICK T : T = Units(w, Stored)
  OBVIOUS
<1>3. PICK K : K = {s \in Sources : HeldBy(s) > 0}
  OBVIOUS
<1>4. \A p \in T : p[1] \in Stored
  BY <1>2 DEF Units
<1>5. IsFiniteSet(T) /\ IsFiniteSet(Stored)
  <2>1. Stored \in SUBSET Stored
    OBVIOUS
  <2> QED
    BY <1>1, <1>2, <2>1, BarsAre, SourceFinite
<1>6. ASSUME NEW s
      PROVE  /\ HeldBy(s) = Cardinality({p \in T : p[1] \in OfSource(s)})
             /\ IsFiniteSet({p \in T : p[1] \in OfSource(s)}) /\ HeldBy(s) \in Nat
  <2>1. OfSource(s) \in SUBSET Stored
    BY DEF OfSource
  <2>2. HeldBy(s) = Cardinality({p \in T : p[1] \in OfSource(s)})
    BY <1>1, <1>2, <2>1, BarsAre DEF HeldBy, UnitsOf
  <2>3. {p \in T : p[1] \in OfSource(s)} \in SUBSET T
    OBVIOUS
  <2>4. IsFiniteSet({p \in T : p[1] \in OfSource(s)})
    BY <1>5, <2>3, FS_Subset
  <2> QED
    BY <2>2, <2>4, FS_CardinalityType
<1>7. TotalBars = Cardinality(T) /\ TotalBars \in Nat
  <2>1. Stored \in SUBSET Stored
    OBVIOUS
  <2>2. TotalBars = Cardinality({p \in T : p[1] \in Stored})
    BY <1>1, <1>2, <2>1, BarsAre DEF TotalBars, UnitsOf
  <2>3. {p \in T : p[1] \in Stored} = T
    BY <1>4
  <2> QED
    BY <1>5, <2>2, <2>3, FS_CardinalityType
<1>8. \A p \in T : p[1] \in OfSource(rows[p[1]].source) /\ rows[p[1]].source \in Sources
  <2>1. \A d \in Stored : rows[d].source \in Sources
    BY CatalogAssumption DEF RowsInv, Sources
  <2> QED
    BY <1>4, <2>1 DEF OfSource
<1>9. PICK g : g = [p \in T |-> rows[p[1]].source]
  OBVIOUS
<1>10. \A s \in Sources : {p \in T : p[1] \in OfSource(s)} = {p \in T : g[p] = s}
  <2>1. ASSUME NEW s \in Sources, NEW p \in T PROVE p[1] \in OfSource(s) <=> rows[p[1]].source = s
    <3>1. s # "ANY"
      BY CatalogAssumption DEF Sources
    <3> QED
      BY <1>4, <3>1 DEF OfSource
  <2> QED
    BY <1>9, <2>1
<1>11. \A p \in T : g[p] \in K
  <2>1. SUFFICES ASSUME NEW p \in T PROVE HeldBy(rows[p[1]].source) > 0
    BY <1>3, <1>8, <1>9
  <2>2. PICK s : s = rows[p[1]].source
    OBVIOUS
  <2>3. p \in {x \in T : x[1] \in OfSource(s)}
    BY <1>8, <2>2
  <2>4. Cardinality({x \in T : x[1] \in OfSource(s)}) # 0
    BY <1>6, <2>3, FS_EmptySet
  <2> QED
    BY <1>6, <2>2, <2>4
<1>12. IsFiniteSet(K)
  <2>1. PICK h : h = [d \in Stored |-> rows[d].source]
    OBVIOUS
  <2>2. ASSUME NEW s \in K PROVE \E d \in Stored : h[d] = s
    <3>1. OfSource(s) # {}
      <4>1. SUFFICES ASSUME OfSource(s) = {} PROVE FALSE
        OBVIOUS
      <4>2. {p \in T : p[1] \in OfSource(s)} = {}
        BY <4>1
      <4>3. HeldBy(s) = 0
        BY <1>6, <4>2, FS_EmptySet
      <4> QED
        BY <1>3, <4>3
    <3>2. s # "ANY"
      BY <1>3, CatalogAssumption DEF Sources
    <3> QED
      BY <2>1, <3>1, <3>2 DEF OfSource
  <2> QED
    BY <1>5, <2>2, ReachedFinite
<1>13. PICK v : v = [s \in K |-> HeldBy(s)]
  OBVIOUS
<1>14. CountsBy(v, K, T, g)
  <2>1. SUFFICES ASSUME NEW s \in K PROVE v[s] = Cardinality({p \in T : g[p] = s})
    BY DEF CountsBy
  <2>2. s \in Sources
    BY <1>3
  <2> QED
    BY <1>6, <1>10, <1>13, <2>2
<1>15. PICK f : AddsUp(f, v, K) /\ f[K] = Cardinality({p \in T : g[p] \in K})
  BY <1>5, <1>12, <1>14, CountsAddUp
<1>16. f[K] = TotalBars
  <2>1. {p \in T : g[p] \in K} = T
    BY <1>11
  <2> QED
    BY <1>7, <1>15, <2>1
<1> QED
  BY <1>3, <1>6, <1>7, <1>12, <1>13, <1>15, <1>16

SharesTotal(shares) == MapThenSumSet(LAMBDA s : shares[s], DOMAIN shares)

LEMMA SharesAre ==
  ASSUME RowsInv, NEW total \in TableBytes, TotalBars > 0, NEW shares, shares = StorageShares(total)
  PROVE  total - SharesTotal(shares) \in 0 .. Cardinality(DOMAIN shares) - 1
<1>1. PICK K : K = {s \in Sources : HeldBy(s) > 0}
  OBVIOUS
<1>2. shares = [s \in K |-> EstimateBytes(HeldBy(s), total)]
  BY <1>1, Zenon DEF StorageShares, HeldBy
<1>3. PICK t \in Nat \ {0} : t = TotalBars
  BY HeldIs
<1>4. PICK h : h = [s \in K |-> HeldBy(s)]
  OBVIOUS
<1>5. PICK f : AddsUp(f, h, K) /\ f[K] = t
  BY <1>1, <1>3, <1>4, HeldIs
<1>6. IsFiniteSet(K) /\ total \in Nat
  BY <1>1, HeldIs, CatalogAssumption
<1>7. \A s \in K : h[s] \in Nat /\ shares[s] = (h[s] * total) \div t
  BY <1>2, <1>3, <1>4, HeldIs DEF EstimateBytes
<1>8. \A s \in K : shares[s] \in Nat
  <2>1. ASSUME NEW s \in K PROVE shares[s] \in Nat
    <3>1. PICK m \in Nat : m = h[s] * total
      BY <1>6, <1>7
    <3> QED
      BY <1>7, <3>1, ShareIs
  <2> QED
    BY <2>1
<1>9. PICK g : AddsUp(g, shares, K)
  <2>1. K \in SUBSET K
    OBVIOUS
  <2> QED
    BY <1>6, <1>8, <2>1, SumCounts
<1>10. MapThenSumSet(LAMBDA s : shares[s], K) = g[K]
  <2> DEFINE P(it) == it = [s \in SUBSET K |-> IF s = {} THEN 0
                               ELSE shares[CHOOSE x \in s : TRUE] + it[s \ {CHOOSE x \in s : TRUE}]]
  <2>1. PICK u : u = CHOOSE it : P(it)
    OBVIOUS
  <2>2. MapThenSumSet(LAMBDA s : shares[s], K) = u[K]
    BY <2>1, Zenon DEF MapThenSumSet, MapThenFoldSet
  <2>3. \A it : P(it) <=> AddsUp(it, shares, K)
    BY Zenon DEF AddsUp
  <2> HIDE DEF P
  <2>4. P(g)
    BY <1>9, <2>3
  <2>5. P(u)
    BY <2>1, <2>4, Zenon
  <2>6. AddsUp(u, shares, K)
    BY <2>3, <2>5
  <2> QED
    BY <1>6, <1>9, <2>2, <2>6, OneSum
<1>11. /\ g[K] \in Nat /\ g[K] * t <= t * total /\ t * total - g[K] * t <= Cardinality(K) * (t - 1)
  BY <1>5, <1>6, <1>7, <1>9, SharesFallShort
<1>12. K # {}
  <2>1. SUFFICES ASSUME K = {} PROVE FALSE
    OBVIOUS
  <2>2. f[K] = 0
    BY <1>5, <2>1, Zenon DEF AddsUp
  <2> QED
    BY <1>5, <2>2
<1>13. Cardinality(K) \in Nat \ {0}
  BY <1>6, <1>12, FS_EmptySet, FS_CardinalityType
<1>14. total - g[K] \in 0 .. Cardinality(K) - 1
  BY <1>6, <1>11, <1>13, ShortBy
<1>15. DOMAIN shares = K
  BY <1>2
<1>16. SharesTotal(shares) = g[K]
  BY <1>10, <1>15, Zenon DEF SharesTotal
<1> QED
  BY <1>14, <1>15, <1>16

---------------------------------------------------------------------------
(* The reads of each client and day. *)

OnDay(ds, c, day) == {r \in Proper(made) : r.d \in ds /\ r.c = c /\ UtcDay(r.at) = day}

LEMMA OnDayIs ==
  ASSUME UsageInv, NEW ds, NEW c, NEW day \in Int
  PROVE  /\ ReadsSince(rawReads, dailyReads, ds, {c}, day) - ReadsSince(rawReads, dailyReads, ds, {c}, day + 1)
              = Cardinality(OnDay(ds, c, day))
         /\ Cardinality(OnDay(ds, c, day)) \in Nat /\ Cardinality(OnDay(ds, c, day)) <= Cardinality(made)
         /\ IsFiniteSet(OnDay(ds, c, day))
<1>1. PICK A, B, C : A = Counted(made, ds, {c}, day) /\ B = Counted(made, ds, {c}, day + 1) /\ C = OnDay(ds, c, day)
  OBVIOUS
<1>2. \A r \in made : UtcDay(r.at) \in Nat
  BY DEF UsageInv, UtcDay
<1>3. B \in SUBSET made /\ C \in SUBSET made /\ B \cap C = {} /\ B \cup C = A
  <2>1. \A r \in Proper(made) : r \in made
    BY DEF Proper
  <2>2. \A r \in Proper(made) : r \in A <=> r \in B \/ r \in C
    BY <1>1, <1>2, <2>1 DEF Counted, OnDay
  <2>3. A \subseteq Proper(made) /\ B \subseteq Proper(made) /\ C \subseteq Proper(made)
    BY <1>1 DEF Counted, OnDay
  <2>4. \A r \in Proper(made) : ~(r \in B /\ r \in C)
    BY <1>1, <1>2, <2>1 DEF Counted, OnDay
  <2> QED
    BY <2>1, <2>2, <2>3, <2>4
<1>4. IsFiniteSet(B) /\ IsFiniteSet(C) /\ IsFiniteSet(made)
  BY <1>3, UsageReads DEF UsageInv
<1>5. Cardinality(A) = Cardinality(B) + Cardinality(C)
  BY <1>3, <1>4, TwoParts
<1>6. Cardinality(B) \in Nat /\ Cardinality(C) \in Nat /\ Cardinality(C) <= Cardinality(made)
  BY <1>3, <1>4, FS_CardinalityType, FS_Subset
<1>7. ReadsSince(rawReads, dailyReads, ds, {c}, day) = Cardinality(A)
      /\ ReadsSince(rawReads, dailyReads, ds, {c}, day + 1) = Cardinality(B)
  BY <1>1, SinceIs
<1> QED
  BY <1>1, <1>4, <1>5, <1>6, <1>7

DayRows(ds, cs, n) ==
    {e \in [c : cs, day : UtcDay(utc) - n .. UtcDay(utc), reads : 1 .. MaxReads] :
       e.reads = Cardinality(OnDay(ds, e.c, e.day))}

LEMMA DayReadsAre ==
  ASSUME UsageInv, NEW ds, NEW cs, NEW n \in Nat
  PROVE  ClientDayReads(rawReads, dailyReads, ds, cs, n + 1) = DayRows(ds, cs, n)
<1> DEFINE D == ClientDayReads(rawReads, dailyReads, ds, cs, n + 1)
<1>1. WindowStart((n + 1) - 1) = UtcDay(utc) - n /\ UtcDay(utc) \in Nat
  <2>1. (n + 1) - 1 = n
    OBVIOUS
  <2>2. WindowStart(n) = UtcDay(utc) - n /\ UtcDay(utc) \in Nat
    BY WindowIs DEF UsageInv
  <2> QED
    BY <2>1, <2>2, Zenon
<1>2. PICK X : X = [c : cs, day : UtcDay(utc) - n .. UtcDay(utc), reads : 1 .. MaxReads]
  OBVIOUS
<1>3. D = {e \in X : e.reads = ReadsSince(rawReads, dailyReads, ds, {e.c}, e.day)
                                 - ReadsSince(rawReads, dailyReads, ds, {e.c}, e.day + 1)}
  BY <1>1, <1>2, Zenon DEF ClientDayReads
<1>4. ASSUME NEW e \in X
      PROVE  ReadsSince(rawReads, dailyReads, ds, {e.c}, e.day) - ReadsSince(rawReads, dailyReads, ds, {e.c}, e.day + 1)
               = Cardinality(OnDay(ds, e.c, e.day))
  <2>1. e.day \in Int
    BY <1>1, <1>2
  <2> QED
    BY <2>1, OnDayIs
<1>5. D = {e \in X : e.reads = Cardinality(OnDay(ds, e.c, e.day))}
  BY <1>3, <1>4, Zenon
<1> QED
  BY <1>2, <1>5, Zenon DEF DayRows

\* A client with a read today is one that some dataset was recently read by.
LEMMA TodayIsRecent ==
  ASSUME UsageInv, RowsInv, NEW filter, NEW source, source # "ANY", NEW e \in ReadsToday(filter, source)
  PROVE  \E d \in OfSource(source) : ReadWithin(LastRead(filter)[d], RecentDays)
<1>1. PICK ds, cs : ds = OfSource(source) /\ cs = Chosen(filter)
  OBVIOUS
<1>2. ReadsToday(filter, source) = ClientDayReads(rawReads, dailyReads, ds, cs, 0 + 1)
  <2>1. 0 + 1 = 1
    OBVIOUS
  <2>2. ReadsToday(filter, source) = ClientDayReads(rawReads, dailyReads, ds, cs, 1)
    BY <1>1, Zenon DEF ReadsToday
  <2> QED
    BY <2>1, <2>2
<1>3. /\ e.c \in cs /\ e.day \in UtcDay(utc) - 0 .. UtcDay(utc) /\ e.reads \in 1 .. MaxReads
      /\ e.reads = Cardinality(OnDay(ds, e.c, e.day))
  <2>1. e \in DayRows(ds, cs, 0)
    BY <1>2, DayReadsAre
  <2> QED
    BY <2>1 DEF DayRows
<1>4. UtcDay(utc) \in Nat /\ RecentDays \in Nat /\ e.day = UtcDay(utc)
  BY <1>3, UsageAssumption DEF UsageInv, UtcDay
<1>5. OnDay(ds, e.c, e.day) # {}
  <2>1. Cardinality(OnDay(ds, e.c, e.day)) # 0
    BY <1>3
  <2> QED
    BY <2>1, FS_EmptySet, Zenon
<1>6. PICK r \in Proper(made) : r.d \in ds /\ r.c = e.c /\ UtcDay(r.at) = e.day
  BY <1>5 DEF OnDay
<1>7. r \in made
  BY DEF Proper
<1>8. PICK d : d = r.d
  OBVIOUS
<1>9. ReadWithin(LastReadAt(rawReads, dailyReads, d, cs), RecentDays)
  BY <1>3, <1>4, <1>6, <1>7, <1>8, ReadIsRecent
<1>10. LastRead(filter)[d] = LastReadAt(rawReads, dailyReads, d, cs)
  BY <1>1, <1>6, <1>8 DEF RowsInv, LastRead, OfSource
<1> QED
  BY <1>1, <1>6, <1>8, <1>9, <1>10

\* The window's reads of a dataset.
LEMMA WindowReads ==
  ASSUME UsageInv, NEW d, NEW cs
  PROVE  /\ ReadsInWindow(rawReads, dailyReads, d, cs) = Cardinality(Counted(made, {d}, cs, UtcDay(utc) - RecentDays))
         /\ IsFiniteSet(Counted(made, {d}, cs, UtcDay(utc) - RecentDays))
         /\ \A r \in Counted(made, {d}, cs, UtcDay(utc) - RecentDays) :
              r \in made /\ r \in Proper(made) /\ r.d = d /\ r.c \in cs /\ UtcDay(r.at) >= UtcDay(utc) - RecentDays
<1>1. WindowStart(RecentDays) = UtcDay(utc) - RecentDays
  BY WindowIs, UsageAssumption DEF UsageInv
<1>2. ReadsInWindow(rawReads, dailyReads, d, cs) = Cardinality(Counted(made, {d}, cs, UtcDay(utc) - RecentDays))
  BY <1>1, SinceIs DEF ReadsInWindow
<1>3. Counted(made, {d}, cs, UtcDay(utc) - RecentDays) \in SUBSET made
  BY DEF Counted, Proper
<1>4. IsFiniteSet(Counted(made, {d}, cs, UtcDay(utc) - RecentDays))
  BY <1>3, UsageReads
<1> QED
  BY <1>2, <1>3, <1>4 DEF Counted

LEMMA ReadsAreRecent ==
  ASSUME UsageInv, NEW d, NEW cs, ReadsInWindow(rawReads, dailyReads, d, cs) > 0
  PROVE  /\ ReadWithin(LastReadAt(rawReads, dailyReads, d, cs), RecentDays)
         /\ \E c \in cs : c \in Readers(rawReads, dailyReads, d)
<1>1. PICK T : T = Counted(made, {d}, cs, UtcDay(utc) - RecentDays)
  OBVIOUS
<1>2. T # {}
  BY <1>1, WindowReads, FS_EmptySet
<1>3. PICK r \in T : r \in made /\ r \in Proper(made) /\ r.d = d /\ r.c \in cs /\ UtcDay(r.at) >= UtcDay(utc) - RecentDays
  BY <1>1, <1>2, WindowReads
<1>4. RecentDays \in Nat
  BY UsageAssumption
<1>5. ReadWithin(LastReadAt(rawReads, dailyReads, d, cs), RecentDays)
  BY <1>3, <1>4, ReadIsRecent
<1>6. r.c \in Readers(made, NoDays, d)
  <2>1. WindowStart(RecentDays) = UtcDay(utc) - RecentDays
    BY WindowIs, UsageAssumption DEF UsageInv
  <2>2. r \in {x \in Proper(made) : x.d = d /\ UtcDay(x.at) >= WindowStart(RecentDays)}
    BY <1>3, <2>1
  <2> QED
    BY <2>2 DEF Readers
<1> QED
  BY <1>3, <1>5, <1>6, ReadersIs

LEMMA DaysAddUp ==
  ASSUME UsageInv, FewReads, NEW filter, NEW d
  PROVE  ReadsInWindow(rawReads, dailyReads, d, Chosen(filter))
           = MapThenSumSet(LAMBDA e : e.reads, ReadsPerDay(filter, RecentDays + 1, d))
<1>1. PICK cs, D : cs = Chosen(filter) /\ D = ReadsPerDay(filter, RecentDays + 1, d)
  OBVIOUS
<1>2. RecentDays \in Nat /\ UtcDay(utc) \in Nat /\ MaxReads \in Nat
  BY UsageAssumption DEF UsageInv, UtcDay
<1>3. D = {e \in [c : cs, day : UtcDay(utc) - RecentDays .. UtcDay(utc), reads : 1 .. MaxReads] :
             e.reads = Cardinality(OnDay({d}, e.c, e.day))}
  <2>1. D = ClientDayReads(rawReads, dailyReads, {d}, cs, RecentDays + 1)
    BY <1>1, Zenon DEF ReadsPerDay
  <2>2. D = DayRows({d}, cs, RecentDays)
    BY <1>2, <2>1, DayReadsAre
  <2> QED
    BY <2>2, Zenon DEF DayRows
<1>4. PICK T : T = Counted(made, {d}, cs, UtcDay(utc) - RecentDays)
  OBVIOUS
<1>5. IsFiniteSet(T) /\ ReadsInWindow(rawReads, dailyReads, d, cs) = Cardinality(T)
  BY <1>4, WindowReads
<1>6. PICK g : g = [r \in T |-> [c |-> r.c, day |-> UtcDay(r.at), reads |-> Cardinality(OnDay({d}, r.c, UtcDay(r.at)))]]
  OBVIOUS
<1>7. ASSUME NEW r \in T
      PROVE  /\ g[r] = [c |-> r.c, day |-> UtcDay(r.at), reads |-> Cardinality(OnDay({d}, r.c, UtcDay(r.at)))]
             /\ g[r] \in D
  <2>1. r \in made /\ r \in Proper(made) /\ r.d = d /\ r.c \in cs /\ UtcDay(r.at) >= UtcDay(utc) - RecentDays
    BY <1>4, WindowReads
  <2>2. UtcDay(r.at) \in UtcDay(utc) - RecentDays .. UtcDay(utc)
    BY <1>2, <2>1 DEF UsageInv, UtcDay
  <2>3. PICK day, m : day \in Int /\ day = UtcDay(r.at) /\ m = Cardinality(OnDay({d}, r.c, day))
    BY <1>2, <2>2
  <2>4. r \in OnDay({d}, r.c, day)
    BY <2>1, <2>3 DEF OnDay
  <2>5. IsFiniteSet(OnDay({d}, r.c, day)) /\ m \in Nat /\ m <= Cardinality(made)
    BY <2>3, OnDayIs
  <2>6. m # 0
    BY <2>3, <2>4, <2>5, FS_EmptySet
  <2>7. m \in 1 .. MaxReads
    <3>1. Cardinality(made) \in Nat
      BY FS_CardinalityType DEF UsageInv
    <3> QED
      BY <1>2, <2>5, <2>6, <3>1 DEF FewReads
  <2>8. g[r] = [c |-> r.c, day |-> day, reads |-> m]
    BY <1>6, <2>3
  <2>9. PICK e : e = [c |-> r.c, day |-> day, reads |-> m]
    OBVIOUS
  <2>10. /\ e \in [c : cs, day : UtcDay(utc) - RecentDays .. UtcDay(utc), reads : 1 .. MaxReads]
         /\ e.c = r.c /\ e.day = day /\ e.reads = m
    BY <2>1, <2>2, <2>3, <2>7, <2>9
  <2>11. e \in D
    BY <1>3, <2>3, <2>10
  <2>12. g[r] = [c |-> r.c, day |-> UtcDay(r.at), reads |-> Cardinality(OnDay({d}, r.c, UtcDay(r.at)))]
    BY <1>6
  <2> QED
    BY <2>8, <2>9, <2>11, <2>12, Zenon
<1>8. ASSUME NEW e \in D
      PROVE  /\ {r \in T : g[r] = e} = OnDay({d}, e.c, e.day)
             /\ e.reads = Cardinality({r \in T : g[r] = e}) /\ \E r \in T : g[r] = e
  <2>1. /\ e.c \in cs /\ e.day \in UtcDay(utc) - RecentDays .. UtcDay(utc) /\ e.reads \in 1 .. MaxReads
        /\ e.reads = Cardinality(OnDay({d}, e.c, e.day)) /\ e = [c |-> e.c, day |-> e.day, reads |-> e.reads]
    BY <1>3
  <2>2. ASSUME NEW r \in OnDay({d}, e.c, e.day) PROVE r \in T /\ g[r] = e
    <3>1. r \in Proper(made) /\ r.d = d /\ r.c = e.c /\ UtcDay(r.at) = e.day
      BY DEF OnDay
    <3>2. r \in T
      BY <1>2, <1>4, <2>1, <3>1 DEF Counted
    <3>3. g[r] = [c |-> e.c, day |-> e.day, reads |-> Cardinality(OnDay({d}, e.c, e.day))]
      BY <1>7, <3>1, <3>2
    <3> QED
      BY <2>1, <3>2, <3>3
  <2>3. ASSUME NEW r \in T, g[r] = e PROVE r \in OnDay({d}, e.c, e.day)
    <3>1. r.c = e.c /\ UtcDay(r.at) = e.day
      <4>1. PICK m : e = [c |-> r.c, day |-> UtcDay(r.at), reads |-> m]
        BY <1>7, <2>3, Zenon
      <4> QED
        BY <4>1
    <3>2. r \in Proper(made) /\ r.d = d
      BY <1>4, WindowReads
    <3> QED
      BY <3>1, <3>2 DEF OnDay
  <2>4. {r \in T : g[r] = e} = OnDay({d}, e.c, e.day)
    BY <2>2, <2>3
  <2>5. OnDay({d}, e.c, e.day) # {}
    <3>1. Cardinality(OnDay({d}, e.c, e.day)) # 0
      BY <2>1
    <3> QED
      BY <3>1, FS_EmptySet, Zenon
  <2> QED
    BY <2>1, <2>2, <2>4, <2>5
<1>9. IsFiniteSet(D)
  <2>1. \A e \in D : \E r \in T : g[r] = e
    BY <1>8
  <2> QED
    BY <1>5, <2>1, ReachedFinite
<1>10. PICK w : w = [e \in D |-> e.reads]
  OBVIOUS
<1>11. CountsBy(w, D, T, g)
  BY <1>8, <1>10 DEF CountsBy
<1>12. PICK f : AddsUp(f, w, D) /\ f[D] = Cardinality({r \in T : g[r] \in D})
  BY <1>5, <1>9, <1>11, CountsAddUp
<1>13. {r \in T : g[r] \in D} = T
  BY <1>7
<1>14. \A e \in D : w[e] = e.reads
  BY <1>10
<1>15. MapThenSumSet(LAMBDA e : e.reads, D) = f[D]
  BY <1>9, <1>12, <1>14, SumOfDays
<1> QED
  BY <1>1, <1>5, <1>12, <1>13, <1>15, Zenon

---------------------------------------------------------------------------
(* The usage page and the list agree. *)

BucketsTotal(buckets) == MapThenSumSet(LAMBDA b : Cardinality(buckets[b]), BucketStarts)

LEMMA BucketsSum ==
  ASSUME UsageInv, RowsInv, NEW filter, NEW source, NEW buckets, buckets = LastReadBuckets(filter, source)
  PROVE  BucketsTotal(buckets) = Cardinality(EverOf(filter, source))
<1>1. PICK last : last = LastRead(filter)
  OBVIOUS
<1>2. PICK S : S = {d \in OfSource(source) : last[d] # Never}
  OBVIOUS
<1>3. BucketsHold(buckets, S)
  BY <1>1, <1>2, BucketsAddUp
<1>4. PICK w, f : /\ \A b \in BucketStarts : w[b] = Cardinality(buckets[b])
                  /\ AddsUp(f, w, BucketStarts) /\ f[BucketStarts] = Cardinality(S)
  BY <1>3, Zenon DEF BucketsHold
<1>5. IsFiniteSet(BucketStarts)
  BY CatalogAssumption
<1>6. MapThenSumSet(LAMBDA b : Cardinality(buckets[b]), BucketStarts) = f[BucketStarts]
  <2> DEFINE P(it) == it = [s \in SUBSET BucketStarts |-> IF s = {} THEN 0
                               ELSE Cardinality(buckets[CHOOSE x \in s : TRUE]) + it[s \ {CHOOSE x \in s : TRUE}]]
  <2>1. PICK h : h = CHOOSE it : P(it)
    OBVIOUS
  <2>2. MapThenSumSet(LAMBDA b : Cardinality(buckets[b]), BucketStarts) = h[BucketStarts]
    BY <2>1, Zenon DEF MapThenSumSet, MapThenFoldSet
  <2>3. \A it : P(it) <=> AddsUp(it, w, BucketStarts)
    <3>1. ASSUME NEW s \in SUBSET BucketStarts, s # {}
          PROVE  w[CHOOSE x \in s : TRUE] = Cardinality(buckets[CHOOSE x \in s : TRUE])
      <4>1. PICK x : x = CHOOSE y \in s : TRUE
        OBVIOUS
      <4>2. x \in BucketStarts
        BY <3>1, <4>1, Zenon
      <4>3. w[x] = Cardinality(buckets[x])
        BY <1>4, <4>2
      <4> QED
        BY <4>1, <4>3, Zenon
    <3>2. SUFFICES ASSUME NEW it PROVE P(it) <=> AddsUp(it, w, BucketStarts)
      OBVIOUS
    <3>3. [s \in SUBSET BucketStarts |-> IF s = {} THEN 0 ELSE Cardinality(buckets[CHOOSE x \in s : TRUE]) + it[s \ {CHOOSE x \in s : TRUE}]]
          = [s \in SUBSET BucketStarts |-> IF s = {} THEN 0 ELSE w[CHOOSE x \in s : TRUE] + it[s \ {CHOOSE x \in s : TRUE}]]
      <4>1. ASSUME NEW s \in SUBSET BucketStarts
            PROVE  (IF s = {} THEN 0 ELSE Cardinality(buckets[CHOOSE x \in s : TRUE]) + it[s \ {CHOOSE x \in s : TRUE}])
                   = (IF s = {} THEN 0 ELSE w[CHOOSE x \in s : TRUE] + it[s \ {CHOOSE x \in s : TRUE}])
        <5>1. CASE s = {}
          BY <5>1, Zenon
        <5>2. CASE s # {}
          BY <3>1, <5>2
        <5> QED
          BY <5>1, <5>2
      <4> QED
        BY <4>1, Zenon
    <3> QED
      BY <3>3, Zenon DEF AddsUp
  <2> HIDE DEF P
  <2>4. P(f)
    BY <1>4, <2>3
  <2>5. P(h)
    BY <2>1, <2>4, Zenon
  <2>6. AddsUp(h, w, BucketStarts)
    BY <2>3, <2>5
  <2> QED
    BY <1>4, <1>5, <2>2, <2>6, OneSum
<1> QED
  BY <1>1, <1>2, <1>4, <1>6, Zenon DEF BucketsTotal, EverOf

\* The list's query for one usage group of a source's datasets.
UsageQuery(filter, source, stale, g) ==
    [source |-> source, update |-> "ANY", status |-> "ANY", attention |-> FALSE, running |-> FALSE,
     client |-> filter, usage |-> g, stale |-> stale, before |-> Never]

LEMMA TotalsAre ==
  ASSUME RowsInv, NEW filter, NEW source, NEW stale
  PROVE  /\ ListTotal(UsageQuery(filter, source, stale, "ANY")) = OfSource(source)
         /\ ListTotal(UsageQuery(filter, source, stale, "STALE")) = StaleOf(filter, source, stale)
         /\ ListTotal(UsageQuery(filter, source, stale, "READ_30D")) = RecentOf(filter, source)
         /\ ListTotal(UsageQuery(filter, source, stale, "NEVER_READ")) = NeverOf(filter, source)
<1>1. ASSUME NEW g
      PROVE  ListTotal(UsageQuery(filter, source, stale, g))
               = {d \in OfSource(source) : g = "ANY" \/ InUsage(g, LastRead(filter)[d], stale)}
  <2>1. PICK q : q = UsageQuery(filter, source, stale, g)
    OBVIOUS
  <2>2. q = [source |-> source, update |-> "ANY", status |-> "ANY", attention |-> FALSE, running |-> FALSE,
             client |-> filter, usage |-> g, stale |-> stale, before |-> Never]
    BY <2>1 DEF UsageQuery
  <2>3. ListTotal(q) = {d \in OfSource(source) : g = "ANY" \/ InUsage(g, LastRead(filter)[d], stale)}
    BY <2>2, TotalIs
  <2> QED
    BY <2>1, <2>3, Zenon
<1>2. ListTotal(UsageQuery(filter, source, stale, "ANY")) = OfSource(source)
  BY <1>1
<1>3. ListTotal(UsageQuery(filter, source, stale, "STALE")) = StaleOf(filter, source, stale)
  BY <1>1, InUsageIs DEF StaleOf, RecentOf, NeverOf
<1>4. ListTotal(UsageQuery(filter, source, stale, "READ_30D")) = RecentOf(filter, source)
  BY <1>1, InUsageIs DEF StaleOf, RecentOf, NeverOf
<1>5. ListTotal(UsageQuery(filter, source, stale, "NEVER_READ")) = NeverOf(filter, source)
  BY <1>1, InUsageIs DEF StaleOf, RecentOf, NeverOf
<1> QED
  BY <1>2, <1>3, <1>4, <1>5

\* What an item shows beside its dataset.
LEMMA ItemIs ==
  ASSUME NEW filter, NEW d, NEW item, item = Item(filter, d)
  PROVE  /\ item.retired = IsRetired(d) /\ item.collecting = IsCollecting(d)
         /\ item.usage.last = LastRead(filter)[d]
         /\ item.usage.reads = ReadsInWindow(rawReads, dailyReads, d, Chosen(filter))
         /\ item.usage.clients = Readers(rawReads, dailyReads, d)
         /\ item.usage.kinds = {KindOf(c) : c \in Readers(rawReads, dailyReads, d)}
<1>1. PICK a, b, r, k : /\ a = LastRead(filter)[d] /\ b = ReadsInWindow(rawReads, dailyReads, d, Chosen(filter))
                        /\ r = Readers(rawReads, dailyReads, d)
                        /\ k = {KindOf(c) : c \in Readers(rawReads, dailyReads, d)}
  OBVIOUS
<1>2. PICK u : u = PageUsage(filter, d)
  OBVIOUS
<1>3. u = [last |-> a, reads |-> b, clients |-> r, kinds |-> k]
  BY <1>1, <1>2, Zenon DEF PageUsage
<1>4. PICK x, y, z : x = IsRetired(d) /\ y = IsCollecting(d) /\ z = (d \in Pending)
  OBVIOUS
<1>5. item = [retired |-> x, collecting |-> y, pending |-> z, usage |-> u]
  BY <1>2, <1>4, Zenon DEF Item
<1>6. item.retired = x /\ item.collecting = y /\ item.usage = u
  BY <1>5
<1>7. u.last = a /\ u.reads = b /\ u.clients = r /\ u.kinds = k
  BY <1>3
<1> QED
  BY <1>1, <1>4, <1>6, <1>7, Zenon

LEMMA RetiredIs ==
  ASSUME NEW d, IsRetired(d)
  PROVE  ~IsCollecting(d) /\ GroupOf(HealthOf(d)) \notin Attention
<1>1. ~IsCollecting(d)
  BY DEF IsRetired, IsCollecting
<1>2. HealthOf(d) = "RETIRED"
  BY Zenon DEF HealthOf
<1>3. GroupOf("RETIRED") = "RETIRED"
  BY DEF GroupOf
<1> QED
  BY <1>1, <1>2, <1>3 DEF Attention

\* What FiguresAgree says of one filter, source and threshold, and of one item.
SummaryAgrees(filter, source, stale, summary, buckets) ==
    /\ StaleTotal(filter, stale, source) = ListTotal(UsageQuery(filter, source, stale, "STALE"))
    /\ summary.stale = Cardinality(ListTotal(UsageQuery(filter, source, stale, "STALE")))
    /\ summary.recent = Cardinality(ListTotal(UsageQuery(filter, source, stale, "READ_30D")))
    /\ (UNION {buckets[b] : b \in {x \in BucketStarts : x < RecentDays + 1}})
         = ListTotal(UsageQuery(filter, source, stale, "READ_30D"))
    /\ summary.never = Cardinality(ListTotal(UsageQuery(filter, source, stale, "NEVER_READ")))
    /\ summary.never + MapThenSumSet(LAMBDA b : Cardinality(buckets[b]), BucketStarts) = summary.total
    /\ stale = RecentDays =>
         ListTotal(UsageQuery(filter, source, stale, "STALE"))
           = ListTotal(UsageQuery(filter, source, stale, "ANY"))
             \ ListTotal(UsageQuery(filter, source, stale, "READ_30D"))
    /\ summary.clients > 0 /\ source # "ANY" => summary.recent > 0

ItemAgrees(filter, source, stale, d, item) ==
    /\ item.usage.reads > 0 =>
         /\ d \in ListTotal(UsageQuery(filter, source, stale, "READ_30D"))
         /\ item.usage.clients \cap Chosen(filter) # {}
         /\ item.usage.kinds \cap {KindOf(c) : c \in Chosen(filter)} # {}
    /\ item.usage.reads = MapThenSumSet(LAMBDA e : e.reads, ReadsPerDay(filter, RecentDays + 1, d))
    /\ item.usage.last = Never <=> d \in ListTotal(UsageQuery(filter, source, stale, "NEVER_READ"))
    /\ item.retired => ~item.collecting /\ GroupOf(HealthOf(d)) \notin Attention

LEMMA SummaryAgreement ==
  ASSUME UsageInv, RowsInv, NEW filter, NEW source, NEW stale,
         NEW summary, summary = UsageSummary(filter, stale, source),
         NEW buckets, buckets = LastReadBuckets(filter, source)
  PROVE  SummaryAgrees(filter, source, stale, summary, buckets)
<1>1. PICK O, A, B, C, R : /\ O = OfSource(source) /\ A = StaleOf(filter, source, stale)
                           /\ B = RecentOf(filter, source) /\ C = NeverOf(filter, source) /\ R = EverOf(filter, source)
  OBVIOUS
<1>2. /\ ListTotal(UsageQuery(filter, source, stale, "ANY")) = O
      /\ ListTotal(UsageQuery(filter, source, stale, "STALE")) = A
      /\ ListTotal(UsageQuery(filter, source, stale, "READ_30D")) = B
      /\ ListTotal(UsageQuery(filter, source, stale, "NEVER_READ")) = C
  BY <1>1, TotalsAre
<1>3. /\ summary.stale = Cardinality(A) /\ summary.recent = Cardinality(B) /\ summary.never = Cardinality(C)
      /\ summary.total = Cardinality(O) /\ summary.clients = Cardinality(TodayOf(filter, source))
  BY <1>1, SummaryCounts
<1>4. StaleTotal(filter, stale, source) = A
  BY <1>1, InUsageIs DEF StaleTotal, StaleOf
<1>5. (UNION {buckets[b] : b \in {x \in BucketStarts : x < RecentDays + 1}}) = B
  <2>1. PICK Y, last : Y = {x \in BucketStarts : x < RecentDays + 1} /\ last = LastRead(filter)
    OBVIOUS
  <2>2. (UNION {buckets[b] : b \in Y}) = B
    BY <1>1, <2>1, BelowIs
  <2> QED
    BY <2>1, <2>2
<1>6. C \in SUBSET O /\ R \in SUBSET O /\ C \cap R = {} /\ C \cup R = O /\ A = O \ {d \in O : ReadWithin(LastRead(filter)[d], stale)}
      /\ B \in SUBSET O /\ B = {d \in O : ReadWithin(LastRead(filter)[d], RecentDays)}
  BY <1>1 DEF NeverOf, EverOf, StaleOf, RecentOf
<1>7. IsFiniteSet(C) /\ IsFiniteSet(R) /\ IsFiniteSet(B)
  <2>1. IsFiniteSet(O)
    BY <1>1, SourceFinite
  <2> QED
    BY <1>6, <2>1, FS_Subset
<1>8. summary.never + MapThenSumSet(LAMBDA b : Cardinality(buckets[b]), BucketStarts) = summary.total
  <2>1. BucketsTotal(buckets) = Cardinality(R)
    BY <1>1, BucketsSum
  <2>2. MapThenSumSet(LAMBDA b : Cardinality(buckets[b]), BucketStarts) = BucketsTotal(buckets)
    BY Zenon DEF BucketsTotal
  <2>3. Cardinality(C \cup R) = Cardinality(C) + Cardinality(R)
    BY <1>6, <1>7, TwoParts
  <2> QED
    BY <1>3, <1>6, <2>1, <2>2, <2>3
<1>9. stale = RecentDays => A = O \ B
  BY <1>6
<1>10. ASSUME summary.clients > 0, source # "ANY" PROVE summary.recent > 0
  <2>1. TodayOf(filter, source) # {}
    <3>1. SUFFICES ASSUME TodayOf(filter, source) = {} PROVE FALSE
      OBVIOUS
    <3>2. summary.clients = 0
      BY <1>3, <3>1, FS_EmptySet, Zenon
    <3> QED
      BY <1>10, <3>2
  <2>2. PICK e : e \in ReadsToday(filter, source)
    BY <2>1 DEF TodayOf
  <2>3. PICK d \in OfSource(source) : ReadWithin(LastRead(filter)[d], RecentDays)
    BY <1>10, <2>2, TodayIsRecent
  <2>4. d \in B
    BY <1>1, <2>3 DEF RecentOf
  <2>5. Cardinality(B) \in Nat /\ Cardinality(B) # 0
    BY <1>7, <2>4, FS_CardinalityType, FS_EmptySet
  <2> QED
    BY <1>3, <2>5
<1> QED
  BY <1>2, <1>3, <1>4, <1>5, <1>8, <1>9, <1>10, Zenon DEF SummaryAgrees

LEMMA ItemAgreement ==
  ASSUME UsageInv, RowsInv, FewReads, NEW filter, NEW source, NEW stale,
         NEW d \in ListTotal(UsageQuery(filter, source, stale, "ANY")), NEW item, item = Item(filter, d)
  PROVE  ItemAgrees(filter, source, stale, d, item)
<1>1. d \in OfSource(source)
  BY TotalsAre
<1>2. /\ d \in ListTotal(UsageQuery(filter, source, stale, "READ_30D")) <=> ReadWithin(LastRead(filter)[d], RecentDays)
      /\ d \in ListTotal(UsageQuery(filter, source, stale, "NEVER_READ")) <=> LastRead(filter)[d] = Never
  BY <1>1, TotalsAre DEF RecentOf, NeverOf
<1>3. /\ item.retired = IsRetired(d) /\ item.collecting = IsCollecting(d)
      /\ item.usage.last = LastRead(filter)[d]
      /\ item.usage.reads = ReadsInWindow(rawReads, dailyReads, d, Chosen(filter))
      /\ item.usage.clients = Readers(rawReads, dailyReads, d)
      /\ item.usage.kinds = {KindOf(c) : c \in Readers(rawReads, dailyReads, d)}
  BY ItemIs
<1>4. ASSUME item.usage.reads > 0
      PROVE  /\ d \in ListTotal(UsageQuery(filter, source, stale, "READ_30D"))
             /\ item.usage.clients \cap Chosen(filter) # {}
             /\ item.usage.kinds \cap {KindOf(c) : c \in Chosen(filter)} # {}
  <2>1. PICK cs : cs = Chosen(filter)
    OBVIOUS
  <2>2. /\ ReadWithin(LastReadAt(rawReads, dailyReads, d, cs), RecentDays)
        /\ \E c \in cs : c \in Readers(rawReads, dailyReads, d)
    BY <1>3, <1>4, <2>1, ReadsAreRecent
  <2>3. LastRead(filter)[d] = LastReadAt(rawReads, dailyReads, d, cs)
    BY <1>1, <2>1 DEF RowsInv, LastRead, OfSource
  <2>4. PICK c \in cs : c \in Readers(rawReads, dailyReads, d)
    BY <2>2
  <2>5. KindOf(c) \in {KindOf(x) : x \in Readers(rawReads, dailyReads, d)} /\ KindOf(c) \in {KindOf(x) : x \in cs}
    BY <2>4
  <2>6. d \in ListTotal(UsageQuery(filter, source, stale, "READ_30D"))
    BY <1>2, <2>2, <2>3
  <2>7. item.usage.clients \cap Chosen(filter) # {}
    BY <1>3, <2>1, <2>4
  <2>8. item.usage.kinds \cap {KindOf(x) : x \in Chosen(filter)} # {}
    BY <1>3, <2>1, <2>5
  <2> QED
    BY <2>6, <2>7, <2>8
<1>5. item.usage.reads = MapThenSumSet(LAMBDA e : e.reads, ReadsPerDay(filter, RecentDays + 1, d))
  BY <1>3, DaysAddUp
<1>6. item.usage.last = Never <=> d \in ListTotal(UsageQuery(filter, source, stale, "NEVER_READ"))
  BY <1>2, <1>3
<1>7. item.retired => ~item.collecting /\ GroupOf(HealthOf(d)) \notin Attention
  BY <1>3, RetiredIs, Zenon
<1> QED
  BY <1>4, <1>5, <1>6, <1>7, Zenon DEF ItemAgrees

LEMMA UsageAgrees == UsageInv /\ RowsInv /\ FewReads => UsageFiguresAgree
<1>1. SUFFICES ASSUME UsageInv, RowsInv, FewReads PROVE UsageFiguresAgree
  OBVIOUS
<1>2. ASSUME NEW filter, NEW source, NEW stale
      PROVE  FiguresAgree(filter, source, stale)
  <2>1. SummaryAgrees(filter, source, stale, UsageSummary(filter, stale, source), LastReadBuckets(filter, source))
    BY <1>1, SummaryAgreement
  <2>2. \A d \in ListTotal(UsageQuery(filter, source, stale, "ANY")) :
          ItemAgrees(filter, source, stale, d, Item(filter, d))
    BY <1>1, ItemAgreement
  <2> QED
    BY <2>1, <2>2, Zenon DEF FiguresAgree, SummaryAgrees, ItemAgrees, UsageQuery
<1>3. ASSUME NEW total \in TableBytes, TotalBars > 0
      PROVE  total - SharesTotal(StorageShares(total)) \in 0 .. Cardinality(DOMAIN StorageShares(total)) - 1
  BY <1>1, <1>3, SharesAre
<1> QED
  BY <1>2, <1>3, Zenon DEF UsageFiguresAgree, SharesTotal

\* The sidebar's counts are the list's, and the usage page, its items and the split of the storage say the
\* same of the same datasets (dataset_catalog.py): whatever the rows, the reads, their fold and the filters.
THEOREM CatalogAgreesAlways == Spec => []CatalogAgrees
<1>1. Init => UsageInv /\ RowsInv /\ FewReads
  BY InitUsage, InitRows DEF Init, CatalogInit
<1>2. (UsageInv /\ RowsInv /\ FewReads) /\ [Next]_vars => (UsageInv /\ RowsInv /\ FewReads)'
  BY StepUsage, StepRows, StepFewReads
<1>3. UsageInv /\ RowsInv /\ FewReads => CatalogAgrees
  BY FacetsCount, UsageAgrees DEF CatalogAgrees
<1> QED
  BY <1>1, <1>2, <1>3, PTL DEF Spec

=============================================================================
