------------------------ MODULE UsageRecorderProofs ------------------------
(***************************************************************************)
(* A read is counted once at most, for every number of reads and days and  *)
(* every set of faults, as long as no read waits in memory until its day   *)
(* is old enough to be folded; and so long the cap holds for each day.     *)
(* Whatever they wait for, the buffer keeps its bound, and a living        *)
(* process drops none without counting it.                                 *)
(***************************************************************************)
EXTENDS UsageRecorder, FiniteSetTheorems, WellFoundedInduction, TLAPS

Types ==
  /\ read \in Seq([client: Clients, day: 0..MaxDay])
  /\ buffer \in Seq(1..Len(read)) /\ batch \in Seq(1..Len(read))
  /\ Len(read) <= MaxReads
  /\ row \in [Reads -> Labels \cup {NoRow}]
  /\ summary \in [Reads -> Seq(Labels)]
  /\ day \in Nat

\* Nothing is stored under an id that is not minted yet.
NothingUnread == \A r \in Reads: r > Len(read) => row[r] = NoRow /\ summary[r] = <<>>

\* What waits is too young to fold.
WaitingIsYoung == \A r \in Waiting: read[r].day + RollupAfter > day

\* What waits has not been folded; it may be stored already, if a reply was lost.
WaitingIsUnfolded == \A r \in Waiting: summary[r] = <<>>

IInv == Types /\ NothingUnread /\ WaitingIsYoung /\ WaitingIsUnfolded /\ NoReadCountedTwice

-----------------------------------------------------------------------------
\* Trimming keeps a part of what waits.
LEMMA TrimmedIsPart ==
  ASSUME NEW S, NEW w \in Seq(S)
  PROVE  Trimmed(w) \in Seq(S) /\ ToSet(Trimmed(w)) \subseteq ToSet(w)
<1>1. Excess(w) \in Nat
  BY SizesAssumption DEF Excess
<1>2. Trimmed(w) \in Seq(S)
  BY <1>1 DEF Trimmed
<1>3. ASSUME NEW i \in DOMAIN Trimmed(w)
      PROVE  Excess(w) + i \in DOMAIN w /\ Trimmed(w)[i] = w[Excess(w) + i]
  BY <1>1, SMTT(30) DEF Trimmed
<1>. QED  BY <1>2, <1>3 DEF ToSet

\* Joining two sequences joins what they hold.
LEMMA JoinedHolds ==
  ASSUME NEW S, NEW u \in Seq(S), NEW v \in Seq(S)
  PROVE  u \o v \in Seq(S) /\ ToSet(u \o v) \subseteq ToSet(u) \cup ToSet(v)
<1>1. ASSUME NEW i \in DOMAIN (u \o v)
      PROVE  (u \o v)[i] \in ToSet(u) \cup ToSet(v)
  <2>1. CASE i <= Len(u)
    BY <2>1 DEF ToSet
  <2>2. CASE i > Len(u)
    <3>1. i - Len(u) \in DOMAIN v /\ (u \o v)[i] = v[i - Len(u)]
      BY <2>2
    <3>. QED  BY <3>1 DEF ToSet
  <2>. QED  BY <2>1, <2>2
<1>. QED  BY <1>1 DEF ToSet

\* A sequence over a set holds members of it.
LEMMA HoldsMembers == ASSUME NEW S, NEW w \in Seq(S) PROVE ToSet(w) \subseteq S
BY DEF ToSet

LEMMA ElementOf == ASSUME NEW S, NEW w \in Seq(S), NEW i \in 1..Len(w) PROVE w[i] \in S
OBVIOUS

\* What waits has been read, and every read has its day.
LEMMA ReadsAreMinted ==
  ASSUME Types
  PROVE  /\ Len(read) \in Nat /\ 1..Len(read) \subseteq Reads
         /\ ToSet(buffer) \subseteq 1..Len(read) /\ ToSet(batch) \subseteq 1..Len(read)
         /\ Waiting \subseteq 1..Len(read)
         /\ \A r \in 1..Len(read): read[r].client \in Clients /\ read[r].day \in Nat
<1>1. Len(read) \in Nat /\ MaxReads \in Nat /\ Len(read) <= MaxReads
  BY BoundsAssumption DEF Types
<1>2. 1..Len(read) \subseteq Reads
  BY <1>1 DEF Reads
<1>3. ToSet(buffer) \subseteq 1..Len(read) /\ ToSet(batch) \subseteq 1..Len(read)
  BY HoldsMembers DEF Types
<1>4. ASSUME NEW r \in 1..Len(read)
      PROVE  read[r].client \in Clients /\ read[r].day \in Nat
  <2>1. read[r] \in [client: Clients, day: 0..MaxDay]
    BY ElementOf DEF Types
  <2>. QED  BY <2>1, BoundsAssumption
<1>. QED  BY <1>1, <1>2, <1>3, <1>4 DEF Waiting

\* The empty sequence.
LEMMA EmptyHolds == ASSUME NEW S PROVE <<>> \in Seq(S) /\ ToSet(<<>>) = {}
BY DEF ToSet

\* A step that keeps the tables, the reads and the day, and lets nothing new
\* wait, preserves the invariant.
LEMMA MemoryStep ==
  ASSUME IInv, UNCHANGED <<read, row, summary, day>>,
         buffer' \in Seq(1..Len(read)), batch' \in Seq(1..Len(read)), Waiting' \subseteq Waiting
  PROVE  IInv'
BY DEF IInv, Types, NothingUnread, WaitingIsYoung, WaitingIsUnfolded, NoReadCountedTwice

\* A batch that goes back to the buffer lets nothing new wait.
LEMMA PutBackKeeps ==
  ASSUME Types, PutBack
  PROVE  buffer' \in Seq(1..Len(read)) /\ batch' \in Seq(1..Len(read)) /\ Waiting' \subseteq Waiting
<1>1. batch \o buffer \in Seq(1..Len(read)) /\ ToSet(batch \o buffer) \subseteq Waiting
  BY JoinedHolds DEF Types, Waiting
<1>2. buffer' \in Seq(1..Len(read)) /\ ToSet(buffer') \subseteq Waiting
  BY <1>1, TrimmedIsPart DEF PutBack
<1>3. batch' = <<>>
  BY DEF PutBack
<1>. QED  BY <1>2, <1>3, EmptyHolds DEF Waiting

\* The INSERT of a batch none of whose keys is taken, with what waits no more
\* than before.
LEMMA InsertStep ==
  ASSUME IInv, Insertable, row' = Inserted, UNCHANGED <<read, summary, day>>,
         buffer' \in Seq(1..Len(read)), batch' \in Seq(1..Len(read)), Waiting' \subseteq Waiting
  PROVE  IInv'
<1>1. ToSet(batch) \subseteq 1..Len(read) /\ 1..Len(read) \subseteq Reads /\ Len(read) \in Nat
  BY ReadsAreMinted DEF IInv
<1>2. ASSUME NEW r \in ToSet(batch)
      PROVE  LabelOf(r) \in Labels
  <2>1. read[r].client \in Clients
    BY <1>1, ReadsAreMinted DEF IInv
  <2>. QED  BY <2>1 DEF LabelOf, Labels
<1>3. row' \in [Reads -> Labels \cup {NoRow}]
  BY <1>2 DEF IInv, Types, Inserted
<1>4. Types' /\ NothingUnread' /\ WaitingIsYoung' /\ WaitingIsUnfolded'
  <2>1. Types'
    BY <1>3 DEF IInv, Types
  <2>2. NothingUnread'
    BY <1>1 DEF IInv, Types, NothingUnread, Inserted
  <2>. QED  BY <2>1, <2>2 DEF IInv, WaitingIsYoung, WaitingIsUnfolded
<1>5. NoReadCountedTwice'
  <2>1. ASSUME NEW r \in ToSet(batch)
        PROVE  summary[r] = <<>>
    BY DEF IInv, WaitingIsUnfolded, Waiting
  <2>2. ASSUME NEW r \in Reads, r \notin ToSet(batch)
        PROVE  row'[r] = row[r]
    BY <2>2 DEF Inserted
  <2>3. Len(<<>>) <= 1
    OBVIOUS
  <2>. QED  BY <2>1, <2>2, <2>3 DEF IInv, NoReadCountedTwice
<1>. QED  BY <1>4, <1>5 DEF IInv

-----------------------------------------------------------------------------
LEMMA InitIInv == Init => IInv
<1>. SUFFICES ASSUME Init PROVE IInv
  OBVIOUS
<1>1. Types
  BY BoundsAssumption DEF Init, Types, Reads
<1>2. Waiting = {}
  BY DEF Init, Waiting, ToSet
<1>3. NothingUnread /\ NoReadCountedTwice
  BY DEF Init, NothingUnread, NoReadCountedTwice
<1>. QED  BY <1>1, <1>2, <1>3 DEF IInv, WaitingIsYoung, WaitingIsUnfolded

LEMMA RecordReadKeeps ==
  ASSUME IInv, NEW c \in Clients, RecordRead(c), day \in 0..MaxDay
  PROVE  IInv'
<1>. DEFINE new == Len(read) + 1
            longer == Append(read, [client |-> c, day |-> day])
<1>0. Len(read) \in Nat /\ Waiting \subseteq 1..Len(read)
  BY ReadsAreMinted DEF IInv
<1>1. /\ read' = longer /\ Len(longer) = new /\ new <= MaxReads
      /\ longer \in Seq([client: Clients, day: 0..MaxDay])
      /\ \A r \in 1..Len(read): longer[r] = read[r]
      /\ longer[new].day = day
      /\ UNCHANGED <<batch, row, summary, day>>
  BY BoundsAssumption DEF IInv, Types, RecordRead, tables
<1>2. buffer \in Seq(1..new) /\ batch \in Seq(1..new)
  BY DEF IInv, Types
<1>3. Append(buffer, new) \in Seq(1..new)
  BY <1>2 DEF IInv, Types
<1>4. ToSet(Append(buffer, new)) \subseteq ToSet(buffer) \cup {new}
  BY <1>2 DEF ToSet
<1>5. buffer' = Trimmed(Append(buffer, new))
  BY DEF RecordRead
<1>6. buffer' \in Seq(1..new) /\ Waiting' \subseteq Waiting \cup {new}
  BY <1>1, <1>3, <1>4, <1>5, TrimmedIsPart DEF Waiting
<1>7. new \in Reads
  BY <1>0, <1>1, BoundsAssumption DEF Reads
<1>8. Types'
  BY <1>1, <1>2, <1>6 DEF IInv, Types
<1>9. NothingUnread'
  <2>1. ASSUME NEW r \in Reads, r > new
        PROVE  row[r] = NoRow /\ summary[r] = <<>>
    BY <1>0, <2>1 DEF IInv, NothingUnread, Reads
  <2>. QED  BY <1>1, <2>1 DEF NothingUnread
<1>10. WaitingIsYoung'
  BY <1>0, <1>1, <1>6, SizesAssumption, BoundsAssumption DEF IInv, WaitingIsYoung
<1>11. WaitingIsUnfolded'
  <2>1. summary[new] = <<>>
    BY <1>0, <1>7 DEF IInv, NothingUnread
  <2>. QED  BY <1>1, <1>6, <2>1 DEF IInv, WaitingIsUnfolded
<1>12. NoReadCountedTwice'
  BY <1>1 DEF IInv, NoReadCountedTwice
<1>. QED  BY <1>8, <1>9, <1>10, <1>11, <1>12 DEF IInv

LEMMA RollUpKeeps ==
  ASSUME IInv, RollUp
  PROVE  IInv'
<1>1. PICK old \in SUBSET Reads:
        /\ Folded(old)
        /\ summary' = [r \in Reads |-> IF r \in old THEN Append(summary[r], row[r]) ELSE summary[r]]
        /\ row' = [r \in Reads |-> IF r \in old THEN NoRow ELSE row[r]]
  BY DEF RollUp
<1>2. UNCHANGED <<read, buffer, batch, day>>
  BY DEF RollUp, memory
<1>3. ASSUME NEW r \in old
      PROVE  r \in Reads /\ row[r] \in Labels /\ row[r] # NoRow /\ summary[r] = <<>> /\ read[r].day + RollupAfter <= day
  <2>1. r \in Reads /\ row[r] # NoRow /\ read[r].day + RollupAfter <= day
    BY <1>1 DEF Folded
  <2>. QED  BY <2>1 DEF IInv, Types, NoReadCountedTwice
<1>4. ASSUME NEW r \in old
      PROVE  r <= Len(read) /\ r \notin Waiting
  <2>1. r \in 1..MaxReads /\ ~(r > Len(read))
    BY <1>3 DEF IInv, NothingUnread, Reads
  <2>2. Len(read) \in Nat
    BY ReadsAreMinted DEF IInv
  <2>3. r \in 1..Len(read)
    BY <2>1, <2>2, BoundsAssumption
  <2>4. read[r].day \in Nat
    BY <2>3, ReadsAreMinted DEF IInv
  <2>. QED  BY <1>3, <2>1, <2>2, <2>4, SizesAssumption, SMTT(30) DEF IInv, Types, WaitingIsYoung
<1>5. ASSUME NEW r \in old
      PROVE  summary'[r] \in Seq(Labels) /\ Len(summary'[r]) <= 1 /\ row'[r] = NoRow
  <2>1. r \in Reads /\ row[r] \in Labels /\ summary[r] = <<>>
    BY <1>3
  <2>2. summary'[r] = Append(<<>>, row[r]) /\ row'[r] = NoRow
    BY <1>1, <2>1
  <2>3. Append(<<>>, row[r]) \in Seq(Labels) /\ Len(Append(<<>>, row[r])) <= 1
    BY <2>1
  <2>. QED  BY <2>2, <2>3
<1>6. ASSUME NEW r \in Reads, r \notin old
      PROVE  summary'[r] = summary[r] /\ row'[r] = row[r]
  BY <1>1, <1>6
<1>7. Types'
  <2>1. summary' \in [Reads -> Seq(Labels)]
    BY <1>1, <1>5, <1>6 DEF IInv, Types
  <2>2. row' \in [Reads -> Labels \cup {NoRow}]
    BY <1>1, <1>5, <1>6 DEF IInv, Types
  <2>. QED  BY <1>2, <2>1, <2>2 DEF IInv, Types
<1>8. NothingUnread'
  BY <1>2, <1>4, <1>6 DEF IInv, Types, NothingUnread, Reads
<1>9. WaitingIsYoung'
  BY <1>2 DEF IInv, WaitingIsYoung, Waiting
<1>10. WaitingIsUnfolded'
  <2>1. Waiting \subseteq Reads
    BY ReadsAreMinted DEF IInv
  <2>2. Waiting' = Waiting
    BY <1>2 DEF Waiting
  <2>. QED  BY <1>4, <1>6, <2>1, <2>2 DEF IInv, WaitingIsUnfolded
<1>11. NoReadCountedTwice'
  <2>1. ASSUME NEW r \in Reads
        PROVE  IF row'[r] = NoRow THEN Len(summary'[r]) <= 1 ELSE summary'[r] = <<>>
    <3>1. CASE r \in old
      BY <1>5, <3>1
    <3>2. CASE r \notin old
      BY <1>6, <3>2 DEF IInv, NoReadCountedTwice
    <3>. QED  BY <3>1, <3>2
  <2>. QED  BY <2>1 DEF NoReadCountedTwice
<1>. QED  BY <1>7, <1>8, <1>9, <1>10, <1>11 DEF IInv

LEMMA StepKeeps ==
  ASSUME ShortOutages, IInv, day \in 0..MaxDay, [Next]_vars
  PROVE  IInv'
<1>. USE DEF memory, tables
<1>e. <<>> \in Seq(1..Len(read)) /\ ToSet(<<>>) = {}
  BY EmptyHolds
<1>1. ASSUME NEW c \in Clients, RecordRead(c) PROVE IInv'
  BY <1>1, RecordReadKeeps
<1>2. CASE StartFlush
  BY <1>2, <1>e, MemoryStep DEF StartFlush, IInv, Types, Waiting
<1>3. CASE FlushCommits
  BY <1>3, <1>e, InsertStep DEF FlushCommits, IInv, Types, Waiting
<1>4. CASE FlushUnmigrated
  BY <1>4, <1>e, MemoryStep DEF FlushUnmigrated, IInv, Types, Waiting
<1>5. CASE FlushFails
  BY <1>5, PutBackKeeps, MemoryStep DEF FlushFails, IInv
<1>6. CASE FlushReplyLost
  BY <1>6, PutBackKeeps, InsertStep DEF FlushReplyLost, IInv
<1>7. CASE Shutdown
  <2>1. batch \o buffer \in Seq(1..Len(read)) /\ ToSet(batch \o buffer) \subseteq Waiting
    BY JoinedHolds DEF IInv, Types, Waiting
  <2>2. batch' = Trimmed(batch \o buffer) /\ buffer' = <<>> /\ UNCHANGED <<read, summary, day>>
    BY <1>7 DEF Shutdown
  <2>3. batch' \in Seq(1..Len(read)) /\ ToSet(batch') \subseteq Waiting
    BY <2>1, <2>2, TrimmedIsPart
  <2>4. buffer' \in Seq(1..Len(read)) /\ Waiting' \subseteq Waiting
    BY <1>e, <2>2, <2>3 DEF Waiting
  <2>5. CASE UNCHANGED row
    BY <2>2, <2>3, <2>4, <2>5, MemoryStep
  <2>6. CASE Insertable /\ row' = Inserted
    BY <2>2, <2>3, <2>4, <2>6, InsertStep
  <2>. QED  BY <1>7, <2>5, <2>6 DEF Shutdown
<1>8. CASE Crash
  BY <1>8, <1>e, MemoryStep DEF Crash, Waiting
<1>9. CASE Restart
  BY <1>9, <1>e, MemoryStep DEF Restart, Waiting
<1>10. CASE RollUp
  BY <1>10, RollUpKeeps
<1>11. CASE Migrate
  BY <1>11, MemoryStep DEF Migrate, IInv, Types, Waiting
<1>12. CASE NextDay
  <2>1. UNCHANGED <<read, buffer, batch, row, summary>> /\ day' = day + 1
    BY <1>12 DEF NextDay
  <2>2. Waiting' = Waiting /\ \A r \in Waiting: read[r].day + RollupAfter > day + 1
    BY <1>12, <2>1 DEF NextDay, Waiting
  <2>. QED  BY <2>1, <2>2 DEF IInv, Types, NothingUnread, WaitingIsYoung, WaitingIsUnfolded, NoReadCountedTwice
<1>13. CASE UNCHANGED vars
  BY <1>13, MemoryStep DEF vars, IInv, Types, Waiting
<1>. QED  BY <1>1, <1>2, <1>3, <1>4, <1>5, <1>6, <1>7, <1>8, <1>9, <1>10, <1>11, <1>12, <1>13 DEF Next

\* The days stay within their bound.
LEMMA DaysBounded == Spec => [](day \in 0..MaxDay)
<1>1. Init => day \in 0..MaxDay
  BY BoundsAssumption DEF Init
<1>2. ASSUME [Next]_vars
      PROVE  UNCHANGED day \/ (day < MaxDay /\ day' = day + 1)
  <2>1. ASSUME NEW c \in Clients, RecordRead(c) PROVE UNCHANGED day
    BY <2>1 DEF RecordRead
  <2>2. CASE StartFlush \/ FlushCommits \/ FlushUnmigrated \/ FlushFails \/ FlushReplyLost
    BY <2>2 DEF StartFlush, FlushCommits, FlushUnmigrated, FlushFails, FlushReplyLost
  <2>3. CASE Shutdown \/ Crash \/ Restart \/ RollUp \/ Migrate
    BY <2>3 DEF Shutdown, Crash, Restart, RollUp, Migrate
  <2>4. CASE NextDay
    BY <2>4 DEF NextDay
  <2>. QED  BY <1>2, <2>1, <2>2, <2>3, <2>4 DEF Next, vars
<1>3. day \in 0..MaxDay /\ [Next]_vars => (day \in 0..MaxDay)'
  BY <1>2, BoundsAssumption
<1>. QED  BY <1>1, <1>3, PTL DEF Spec

\* A read is counted once at most, in dataset_read or in the daily counts,
\* whatever is retried, cancelled, cut off by a crash or folded: the promise of
\* fold_reads_before, and of the key minted with each read.
THEOREM ReadsCountedOnce ==
  ASSUME ShortOutages
  PROVE  Spec => []NoReadCountedTwice
<1>1. Init => IInv
  BY InitIInv
<1>2. IInv /\ day \in 0..MaxDay /\ [Next]_vars => IInv'
  BY StepKeeps
<1>3. IInv => NoReadCountedTwice
  BY DEF IInv
<1>. QED  BY <1>1, <1>2, <1>3, DaysBounded, PTL DEF Spec

-----------------------------------------------------------------------------
(* Type correctness: what is dropped and what waits was read before *)

Minted == buffer \in Seq(1..Len(read)) /\ batch \in Seq(1..Len(read))

\* Each read waits once at most or was dropped once.
Room == dropped + Len(buffer) + Len(batch) <= Len(read)

TInv == TypeOK /\ Minted /\ Room

LEMMA TypesOfTInv == TInv => Types
BY BoundsAssumption DEF TInv, TypeOK, Minted, Types

\* What trimming leaves is within the bound, and what it takes is counted.
LEMMA TrimmedLength ==
  ASSUME NEW S, NEW w \in Seq(S)
  PROVE  /\ Excess(w) \in Nat /\ Len(Trimmed(w)) = Len(w) - Excess(w)
         /\ Len(Trimmed(w)) <= BufferMax
<1>1. Excess(w) \in Nat /\ Excess(w) <= Len(w) /\ Len(w) - Excess(w) <= BufferMax
  BY SizesAssumption DEF Excess
<1>. QED
  BY <1>1 DEF Trimmed

LEMMA WiderSeq == ASSUME NEW S, NEW T, S \subseteq T, NEW w \in Seq(S) PROVE w \in Seq(T)
<1>1. Len(w) \in Nat /\ w = [i \in 1..Len(w) |-> w[i]] /\ \A i \in 1..Len(w): w[i] \in T
  OBVIOUS
<1>. QED
  BY <1>1

\* A step of the memory that loses no read it does not count.
LEMMA MemoryTypes ==
  ASSUME TInv, UNCHANGED <<read, tables, day>>,
         buffer' \in Seq(1..Len(read)), batch' \in Seq(1..Len(read)),
         Len(buffer') <= BufferMax, Len(batch') <= BufferMax,
         dropped' \in Nat, dropped' + Len(buffer') + Len(batch') <= Len(read),
         loop' \in {"idle", "writing", "final", "stopped"}
  PROVE  TInv'
<1>1. 1..Len(read) \subseteq Reads /\ Len(read) \in Nat
  BY TypesOfTInv, ReadsAreMinted
<1>2. buffer' \in Seq(Reads) /\ batch' \in Seq(Reads)
  BY <1>1, WiderSeq
<1>3. dropped' \in 0..MaxReads
  BY <1>1, BoundsAssumption DEF TInv, TypeOK
<1>. QED
  BY <1>2, <1>3 DEF TInv, TypeOK, Minted, Room, tables

\* The same with the batch's rows inserted.
LEMMA InsertTypes ==
  ASSUME TInv, row' \in {row, Inserted}
  PROVE  row' \in [Reads -> Labels \cup {NoRow}]
<1>1. ToSet(batch) \subseteq 1..Len(read) /\ \A r \in 1..Len(read): read[r].client \in Clients
  BY TypesOfTInv, ReadsAreMinted
<1>2. \A r \in ToSet(batch): LabelOf(r) \in Labels
  BY <1>1 DEF LabelOf, Labels
<1>. QED
  BY <1>2 DEF TInv, TypeOK, Inserted

\* What a failed flush, or the last one at shutdown, makes of what waits.
LEMMA WaitingAsOne ==
  ASSUME TInv
  PROVE  LET w == batch \o buffer
         IN  /\ w \in Seq(1..Len(read)) /\ Len(w) = Len(batch) + Len(buffer)
             /\ Trimmed(w) \in Seq(1..Len(read)) /\ Len(Trimmed(w)) <= BufferMax
             /\ dropped + Excess(w) \in Nat
             /\ dropped + Excess(w) + Len(Trimmed(w)) <= Len(read)
<1> DEFINE w == batch \o buffer
<1>1. w \in Seq(1..Len(read)) /\ Len(w) = Len(batch) + Len(buffer)
  BY DEF TInv, Minted
<1>2. /\ Excess(w) \in Nat /\ Len(Trimmed(w)) = Len(w) - Excess(w)
      /\ Len(Trimmed(w)) <= BufferMax /\ Trimmed(w) \in Seq(1..Len(read))
  BY <1>1, TrimmedLength, TrimmedIsPart
<1>3. dropped \in Nat /\ Len(read) \in Nat
  BY DEF TInv, TypeOK
<1> HIDE DEF w
<1>4. Len(w) \in Nat
  BY <1>1
<1>5. dropped + Excess(w) + Len(Trimmed(w)) = dropped + Len(w)
  BY <1>2, <1>3, <1>4
<1>6. dropped + Len(w) <= Len(read)
  BY <1>1, <1>3 DEF TInv, Room, Minted
<1>. QED
  BY <1>1, <1>2, <1>3, <1>5, <1>6 DEF w

LEMMA RecordReadTypes ==
  ASSUME TInv, NEW c \in Clients, RecordRead(c)
  PROVE  TInv'
<1> DEFINE new == Len(read) + 1
           w == Append(buffer, new)
<1>1. /\ Len(read) \in Nat /\ new \in 1..MaxReads /\ new \in Reads
      /\ read' = Append(read, [client |-> c, day |-> day])
  BY BoundsAssumption DEF TInv, TypeOK, RecordRead, Reads
<1>2. /\ read' \in Seq([client: Clients, day: 0..MaxDay]) /\ Len(read') = new
  BY <1>1 DEF TInv, TypeOK
<1>3. buffer \in Seq(1..new) /\ batch \in Seq(1..new) /\ Len(buffer) \in Nat /\ Len(batch) \in Nat
  BY <1>1 DEF TInv, Minted
<1>4. w \in Seq(1..new) /\ Len(w) = Len(buffer) + 1
  BY <1>1, <1>3
<1>5. /\ buffer' = Trimmed(w) /\ dropped' = dropped + Excess(w)
      /\ UNCHANGED <<batch, loop, tables, day>>
  BY DEF RecordRead
<1>6. /\ Excess(w) \in Nat /\ Len(buffer') = Len(w) - Excess(w)
      /\ Len(buffer') <= BufferMax /\ buffer' \in Seq(1..new)
  <2>1. \A S: w \in Seq(S) => /\ Excess(w) \in Nat /\ Len(Trimmed(w)) = Len(w) - Excess(w)
                              /\ Len(Trimmed(w)) <= BufferMax /\ Trimmed(w) \in Seq(S)
    BY TrimmedLength, TrimmedIsPart
  <2>2. Excess(w) \in Nat /\ Len(Trimmed(w)) = Len(w) - Excess(w)
        /\ Len(Trimmed(w)) <= BufferMax /\ Trimmed(w) \in Seq(1..new)
    BY <1>4, <2>1
  <2>. QED
    BY <1>5, <2>2
<1>7. dropped \in Nat /\ dropped' \in Nat /\ dropped' + Len(buffer') + Len(batch) <= new
  <2>1. dropped \in Nat /\ dropped + Len(buffer) + Len(batch) <= Len(read)
    BY DEF TInv, TypeOK, Room
  <2>2. dropped' = dropped + Excess(w)
    BY <1>5
  <2>3. Excess(w) \in Nat /\ Len(buffer') = Len(buffer) + 1 - Excess(w)
    BY <1>4, <1>6
  <2>4. Len(read) \in Nat /\ Len(buffer) \in Nat /\ Len(batch) \in Nat
    BY <1>1, <1>3
  <2> HIDE DEF w
  <2>. QED
    BY <2>1, <2>2, <2>3, <2>4, SMTT(30)
<1>8. dropped' \in 0..MaxReads
  <2>1. Len(buffer') \in Nat
    BY <1>6
  <2>. QED
    BY <1>1, <1>3, <1>7, <2>1, BoundsAssumption
<1>9. buffer' \in Seq(Reads) /\ new <= MaxReads
  <2>1. 1..new \subseteq Reads /\ new <= MaxReads
    BY <1>1, BoundsAssumption DEF Reads
  <2>. QED
    BY <1>6, <2>1, WiderSeq
<1> HIDE DEF new, w
<1>10. TypeOK'
  BY <1>2, <1>5, <1>6, <1>8, <1>9 DEF TInv, TypeOK, tables
<1>. QED
  BY <1>2, <1>3, <1>5, <1>6, <1>7, <1>10 DEF TInv, Minted, Room

LEMMA RollUpTypes ==
  ASSUME TInv, RollUp
  PROVE  TInv'
<1>1. PICK old \in SUBSET Reads:
        /\ Folded(old)
        /\ summary' = [r \in Reads |-> IF r \in old THEN Append(summary[r], row[r]) ELSE summary[r]]
        /\ row' = [r \in Reads |-> IF r \in old THEN NoRow ELSE row[r]]
  BY DEF RollUp
<1>2. \A r \in old: row[r] \in Labels
  BY <1>1 DEF Folded, TInv, TypeOK
<1>3. \A r \in Reads: summary'[r] \in Seq(Labels)
  BY <1>1, <1>2 DEF TInv, TypeOK
<1>4. summary' \in [Reads -> Seq(Labels)] /\ row' \in [Reads -> Labels \cup {NoRow}]
  BY <1>1, <1>3 DEF TInv, TypeOK
<1>5. UNCHANGED <<read, buffer, batch, loop, dropped, migrated, day>>
  BY DEF RollUp, memory
<1>. QED
  BY <1>4, <1>5 DEF TInv, TypeOK, Minted, Room

LEMMA StepTypes == TInv /\ [Next]_vars => TInv'
<1> SUFFICES ASSUME TInv, [Next]_vars PROVE TInv'
  OBVIOUS
<1>e. <<>> \in Seq(1..Len(read)) /\ Len(<<>>) = 0 /\ 0 <= BufferMax
  BY EmptyHolds, SizesAssumption
<1>t. /\ buffer \in Seq(1..Len(read)) /\ batch \in Seq(1..Len(read)) /\ Len(buffer) <= BufferMax
      /\ Len(batch) <= BufferMax /\ Len(buffer) \in Nat /\ Len(batch) \in Nat /\ dropped \in Nat
      /\ Len(read) \in Nat /\ dropped + Len(buffer) + Len(batch) <= Len(read)
  BY DEF TInv, TypeOK, Minted, Room
<1>r. ASSUME row' \in {row, Inserted}, UNCHANGED <<read, summary, migrated, day>>,
             buffer' \in Seq(1..Len(read)), batch' \in Seq(1..Len(read)),
             Len(buffer') <= BufferMax, Len(batch') <= BufferMax,
             dropped' \in Nat, dropped' + Len(buffer') + Len(batch') <= Len(read),
             loop' \in {"idle", "writing", "final", "stopped"}
      PROVE  TInv'
  <2>1. row' \in [Reads -> Labels \cup {NoRow}]
    BY <1>r, InsertTypes
  <2>2. 1..Len(read) \subseteq Reads
    BY TypesOfTInv, ReadsAreMinted
  <2>3. buffer' \in Seq(Reads) /\ batch' \in Seq(Reads)
    BY <1>r, <2>2, WiderSeq
  <2>4. dropped' \in 0..MaxReads
    BY <1>r, <1>t, BoundsAssumption DEF TInv, TypeOK
  <2>. QED
    BY <1>r, <2>1, <2>3, <2>4 DEF TInv, TypeOK, Minted, Room
<1>1. ASSUME NEW c \in Clients, RecordRead(c) PROVE TInv'
  BY <1>1, RecordReadTypes
<1>2. CASE StartFlush
  BY <1>2, <1>e, <1>t, MemoryTypes DEF StartFlush
<1>3. CASE FlushCommits
  BY <1>3, <1>e, <1>r, <1>t DEF FlushCommits, FlushEnds
<1>4. CASE FlushUnmigrated
  BY <1>4, <1>e, <1>t, MemoryTypes DEF FlushUnmigrated, FlushEnds
<1>5. CASE FlushFails \/ FlushReplyLost
  <2>1. /\ buffer' = Trimmed(batch \o buffer) /\ dropped' = dropped + Excess(batch \o buffer) /\ batch' = <<>>
        /\ row' \in {row, Inserted} /\ UNCHANGED <<read, summary, migrated, day>>
        /\ loop' \in {"idle", "stopped"}
    BY <1>5 DEF FlushFails, FlushReplyLost, PutBack, FlushEnds, tables
  <2>2. /\ buffer' \in Seq(1..Len(read)) /\ Len(buffer') <= BufferMax /\ dropped' \in Nat
        /\ dropped' + Len(buffer') <= Len(read)
    BY <2>1, WaitingAsOne
  <2>3. dropped' + Len(buffer') + Len(batch') <= Len(read)
    BY <1>e, <2>1, <2>2
  <2>. QED
    BY <1>e, <1>r, <2>1, <2>2, <2>3
<1>6. CASE Shutdown
  <2>1. /\ batch' = Trimmed(batch \o buffer) /\ dropped' = dropped + Excess(batch \o buffer) /\ buffer' = <<>>
        /\ row' \in {row, Inserted} /\ UNCHANGED <<read, summary, migrated, day>>
        /\ loop' \in {"final", "stopped"}
    BY <1>6 DEF Shutdown
  <2>2. /\ batch' \in Seq(1..Len(read)) /\ Len(batch') <= BufferMax /\ dropped' \in Nat
        /\ dropped' + Len(batch') <= Len(read)
    BY <2>1, WaitingAsOne
  <2>3. dropped' + Len(buffer') + Len(batch') <= Len(read)
    BY <1>e, <2>1, <2>2
  <2>. QED
    BY <1>e, <1>r, <2>1, <2>2, <2>3
<1>7. CASE Crash \/ Restart
  <2>1. /\ buffer' = <<>> /\ batch' = <<>> /\ loop' \in {"idle", "stopped"}
        /\ UNCHANGED <<read, dropped, tables, day>>
    BY <1>7 DEF Crash, Restart
  <2>2. dropped + 0 + 0 <= Len(read)
    BY <1>t
  <2>. QED
    BY <1>e, <1>t, <2>1, <2>2, MemoryTypes
<1>8. CASE RollUp
  BY <1>8, RollUpTypes
<1>9. CASE Migrate
  BY <1>9 DEF Migrate, TInv, TypeOK, Minted, Room, memory
<1>10. CASE NextDay
  BY <1>10, BoundsAssumption DEF NextDay, TInv, TypeOK, Minted, Room, memory, tables
<1>11. CASE UNCHANGED vars
  BY <1>11 DEF vars, TInv, TypeOK, Minted, Room
<1>. QED
  BY <1>1, <1>2, <1>3, <1>4, <1>5, <1>6, <1>7, <1>8, <1>9, <1>10, <1>11 DEF Next

LEMMA TInvInit == Init => TInv
<1> SUFFICES ASSUME Init PROVE TInv
  OBVIOUS
<1>1. /\ read \in Seq([client: Clients, day: 0..MaxDay]) /\ Len(read) = 0
      /\ buffer \in Seq(Reads) /\ batch \in Seq(Reads) /\ Len(buffer) = 0 /\ Len(batch) = 0
      /\ Minted
  BY DEF Init, Minted
<1>2. summary \in [Reads -> Seq(Labels)] /\ row \in [Reads -> Labels \cup {NoRow}]
  BY DEF Init
<1>3. dropped = 0 /\ day = 0 /\ loop = "idle" /\ migrated \in BOOLEAN
  BY DEF Init, MayFail
<1>. QED
  BY <1>1, <1>2, <1>3, BoundsAssumption, SizesAssumption DEF TInv, TypeOK, Room

LEMMA TInvAlways == Spec => []TInv
<1>1. Init => TInv
  BY TInvInit
<1>2. TInv /\ [Next]_vars => TInv'
  BY StepTypes
<1>. QED  BY <1>1, <1>2, PTL DEF Spec

\* The buffer, the batch and the count of dropped reads keep their bounds,
\* whatever fails, and what is stored has a label (usage_recorder.py).
THEOREM UsageTypeCorrect == Spec => []TypeOK
<1>1. TInv => TypeOK
  BY DEF TInv
<1>. QED  BY <1>1, TInvAlways, PTL

-----------------------------------------------------------------------------
(* Lost reads *)

\* The reads a trim pushes out.
PushedOut(w) == {w[i]: i \in 1..Excess(w)}

\* They are no more than the excess, and what else waits goes on waiting.
LEMMA FewArePushedOut ==
  ASSUME NEW S, NEW w \in Seq(S)
  PROVE  /\ IsFiniteSet(PushedOut(w)) /\ Cardinality(PushedOut(w)) <= Excess(w)
         /\ ToSet(w) \subseteq PushedOut(w) \cup ToSet(Trimmed(w))
<1> DEFINE n == Excess(w)
           nth == [i \in 1..n |-> w[i]]
<1>1. n \in Nat /\ n <= Len(w)
  BY SizesAssumption DEF Excess
<1>2. nth \in Surjection(1..n, PushedOut(w))
  BY DEF Surjection, PushedOut
<1>3. IsFiniteSet(1..n) /\ Cardinality(1..n) = n
  BY <1>1, FS_Interval
<1>4. IsFiniteSet(PushedOut(w)) /\ Cardinality(PushedOut(w)) <= n
  BY <1>2, <1>3, FS_Surjection
<1>5. ASSUME NEW i \in 1..Len(w), i > n
      PROVE  w[i] \in ToSet(Trimmed(w))
  <2>1. i - n \in 1..(Len(w) - n) /\ n + (i - n) = i
    BY <1>1, <1>5
  <2>2. DOMAIN Trimmed(w) = 1..(Len(w) - n) /\ Trimmed(w)[i - n] = w[i]
    BY <1>1, <2>1 DEF Trimmed
  <2>. QED
    BY <2>1, <2>2 DEF ToSet
<1>6. ASSUME NEW i \in 1..Len(w), ~(i > n)
      PROVE  w[i] \in PushedOut(w)
  <2>1. i \in 1..n
    BY <1>1, <1>6
  <2>. QED
    BY <2>1 DEF PushedOut
<1>. QED
  BY <1>4, <1>5, <1>6 DEF ToSet

Lost == {r \in Reads: Accounted(r) /\ ~Accounted(r)'}

\* A step that loses at most what a trim pushes out.
LEMMA TrimLoses ==
  ASSUME NEW S, NEW w \in Seq(S), dropped \in Nat, dropped' = dropped + Excess(w),
         Lost \subseteq PushedOut(w)
  PROVE  Cardinality(Lost) <= dropped' - dropped
<1>1. Excess(w) \in Nat
  BY TrimmedLength
<1>2. /\ IsFiniteSet(PushedOut(w)) /\ Cardinality(PushedOut(w)) <= Excess(w)
  BY FewArePushedOut
<1>3. /\ Cardinality(Lost) \in Nat /\ Cardinality(PushedOut(w)) \in Nat
      /\ Cardinality(Lost) <= Cardinality(PushedOut(w))
  BY <1>2, FS_Subset, FS_CardinalityType
<1>. QED
  BY <1>1, <1>2, <1>3

\* A step that loses nothing.
LEMMA NothingLost ==
  ASSUME dropped \in Nat, dropped' = dropped, \A r \in Reads: Accounted(r) => Accounted(r)'
  PROVE  Cardinality(Lost) <= dropped' - dropped
<1>1. Lost = {}
  BY DEF Lost
<1>. QED
  BY <1>1, FS_EmptySet

\* A label is never the mark of a free row.
LEMMA LabelsAreRows == ASSUME TInv, NEW r \in ToSet(batch) PROVE LabelOf(r) # NoRow
<1>1. ToSet(batch) \subseteq 1..Len(read) /\ \A q \in 1..Len(read): read[q].client \in Clients
  BY TypesOfTInv, ReadsAreMinted
<1>. QED
  BY <1>1, ClientsAssumption DEF LabelOf, Labels

\* What is stored or counted stays accounted for while a batch is inserted.
LEMMA StoredStays ==
  ASSUME TInv, row' \in {row, Inserted}, UNCHANGED summary, NEW r \in Reads,
         row[r] # NoRow \/ summary[r] # <<>>
  PROVE  Accounted(r)'
BY LabelsAreRows DEF Accounted, Inserted

\* Between flushes there is no batch.
Resting == loop = "idle" => batch = <<>>

LEMMA RestingAlways == Spec => []Resting
<1>1. Init => Resting
  BY DEF Init, Resting
<1>2. ASSUME Resting, [Next]_vars PROVE Resting'
  <2>1. ASSUME NEW c \in Clients, RecordRead(c) PROVE Resting'
    BY <1>2, <2>1 DEF RecordRead, Resting
  <2>2. CASE StartFlush \/ FlushCommits \/ FlushUnmigrated \/ Crash \/ Restart
    BY <2>2 DEF StartFlush, FlushCommits, FlushUnmigrated, Crash, Restart, Resting
  <2>3. CASE FlushFails \/ FlushReplyLost \/ Shutdown
    BY <2>3 DEF FlushFails, FlushReplyLost, Shutdown, PutBack, Resting
  <2>4. CASE RollUp \/ Migrate \/ NextDay \/ UNCHANGED vars
    BY <1>2, <2>4 DEF RollUp, Migrate, NextDay, vars, memory, Resting
  <2>. QED
    BY <1>2, <2>1, <2>2, <2>3, <2>4 DEF Next
<1>. QED  BY <1>1, <1>2, PTL DEF Spec

LEMMA StepLoses ==
  ASSUME TInv, Resting, [Next]_vars, migrated, "stopped" \notin {loop, loop'}
  PROVE  Cardinality(Lost) <= dropped' - dropped
<1>0. dropped \in Nat
  BY DEF TInv, TypeOK
<1>b. buffer \in Seq(1..Len(read)) /\ batch \in Seq(1..Len(read))
  BY DEF TInv, Minted
<1>w. batch \o buffer \in Seq(1..Len(read)) /\ ToSet(batch \o buffer) = Waiting
  <2>1. \A i \in 1..Len(batch): batch[i] = (batch \o buffer)[i] /\ i \in DOMAIN (batch \o buffer)
    BY <1>b
  <2>2. \A i \in 1..Len(buffer): /\ buffer[i] = (batch \o buffer)[Len(batch) + i]
                                 /\ Len(batch) + i \in DOMAIN (batch \o buffer)
    BY <1>b
  <2>3. ASSUME NEW i \in 1..Len(batch) PROVE batch[i] \in ToSet(batch \o buffer)
    BY <2>1 DEF ToSet
  <2>4. ASSUME NEW i \in 1..Len(buffer) PROVE buffer[i] \in ToSet(batch \o buffer)
    BY <2>2 DEF ToSet
  <2>5. ToSet(batch) \subseteq ToSet(batch \o buffer) /\ ToSet(buffer) \subseteq ToSet(batch \o buffer)
    <3>1. ToSet(batch) = {batch[i]: i \in 1..Len(batch)} /\ ToSet(buffer) = {buffer[i]: i \in 1..Len(buffer)}
      BY <1>b DEF ToSet
    <3>. QED
      BY <2>3, <2>4, <3>1
  <2>. QED
    BY <1>b, <2>5, JoinedHolds DEF Waiting
<1>1. ASSUME NEW c \in Clients, RecordRead(c) PROVE Cardinality(Lost) <= dropped' - dropped
  <2> DEFINE w == Append(buffer, Len(read) + 1)
  <2>1. /\ buffer' = Trimmed(w) /\ dropped' = dropped + Excess(w)
        /\ UNCHANGED <<batch, row, summary>>
    BY <1>1 DEF RecordRead, tables
  <2>2. w \in Seq(Nat) /\ ToSet(buffer) \subseteq ToSet(w)
    <3>1. buffer \in Seq(Nat) /\ Len(read) + 1 \in Nat
      BY <1>b, WiderSeq DEF TInv, TypeOK
    <3>2. \A i \in 1..Len(buffer): w[i] = buffer[i] /\ i \in DOMAIN w
      BY <3>1
    <3>. QED
      BY <3>1, <3>2, SMTT(30) DEF ToSet
  <2> HIDE DEF w
  <2>3. ToSet(w) \subseteq PushedOut(w) \cup ToSet(buffer')
    BY <2>1, <2>2, FewArePushedOut
  <2>4. ASSUME NEW r \in Lost PROVE r \in PushedOut(w)
    <3>1. Accounted(r) /\ ~Accounted(r)'
      BY DEF Lost
    <3>2. r \in Waiting /\ r \notin Waiting'
      BY <2>1, <3>1 DEF Accounted
    <3>3. r \in ToSet(w) /\ r \notin ToSet(buffer')
      BY <2>1, <2>2, <3>2 DEF Waiting
    <3>. QED
      BY <2>3, <3>3
  <2>. QED
    BY <1>0, <2>1, <2>2, <2>4, TrimLoses
<1>2. CASE StartFlush
  <2>1. batch' = buffer /\ UNCHANGED <<dropped, row, summary>>
    BY <1>2 DEF StartFlush, tables
  <2>2. Waiting \subseteq Waiting'
    BY <1>2, <2>1, EmptyHolds DEF StartFlush, Resting, Waiting
  <2>. QED
    BY <1>0, <2>1, <2>2, NothingLost DEF Accounted
<1>3. CASE FlushCommits
  <2>1. /\ row' = Inserted /\ UNCHANGED <<buffer, dropped, summary>>
    BY <1>3 DEF FlushCommits
  <2>2. ASSUME NEW r \in Reads, r \in ToSet(batch) PROVE Accounted(r)'
    BY <2>1, <2>2, LabelsAreRows DEF Accounted, Inserted
  <2>3. ASSUME NEW r \in Reads, Accounted(r) PROVE Accounted(r)'
    BY <2>1, <2>2, <2>3, StoredStays DEF Accounted, Waiting
  <2>. QED
    BY <1>0, <2>1, <2>3, NothingLost
<1>4. CASE FlushUnmigrated \/ Crash \/ Restart \/ Migrate
  BY <1>4 DEF FlushUnmigrated, Crash, Restart, Migrate
<1>5. CASE FlushFails \/ FlushReplyLost \/ Shutdown
  <2> DEFINE w == batch \o buffer
  <2>1. /\ dropped' = dropped + Excess(w) /\ row' \in {row, Inserted} /\ UNCHANGED summary
        /\ buffer' = Trimmed(w) \/ batch' = Trimmed(w)
    BY <1>5 DEF FlushFails, FlushReplyLost, Shutdown, PutBack, tables
  <2> HIDE DEF w
  <2>2. ToSet(Trimmed(w)) \subseteq Waiting'
    BY <2>1 DEF Waiting
  <2>3. Waiting \subseteq PushedOut(w) \cup Waiting'
    <3>1. w \in Seq(1..Len(read)) /\ ToSet(w) = Waiting
      BY <1>w DEF w
    <3>. QED
      BY <2>2, <3>1, FewArePushedOut
  <2>4. ASSUME NEW r \in Lost PROVE r \in PushedOut(w)
    <3>1. r \in Reads /\ Accounted(r) /\ ~Accounted(r)'
      BY DEF Lost
    <3>2. ~(row[r] # NoRow \/ summary[r] # <<>>)
      BY <2>1, <3>1, StoredStays
    <3>. QED
      BY <2>3, <3>1, <3>2 DEF Accounted
  <2>5. w \in Seq(1..Len(read))
    BY <1>w DEF w
  <2>. QED
    BY <1>0, <2>1, <2>4, <2>5, TrimLoses
<1>6. CASE RollUp
  <2>1. PICK old \in SUBSET Reads:
          summary' = [r \in Reads |-> IF r \in old THEN Append(summary[r], row[r]) ELSE summary[r]]
          /\ row' = [r \in Reads |-> IF r \in old THEN NoRow ELSE row[r]]
    BY <1>6 DEF RollUp
  <2>2. UNCHANGED <<buffer, batch, dropped>>
    BY <1>6 DEF RollUp, memory
  <2>3. ASSUME NEW r \in Reads, r \in old PROVE summary'[r] # <<>>
    <3>1. summary[r] \in Seq(Labels) /\ summary'[r] = Append(summary[r], row[r])
      BY <2>1, <2>3 DEF TInv, TypeOK
    <3>2. Len(Append(summary[r], row[r])) = Len(summary[r]) + 1 /\ Len(summary[r]) \in Nat
      BY <3>1
    <3>3. Len(<<>>) = 0
      OBVIOUS
    <3>. QED
      BY <3>1, <3>2, <3>3
  <2>4. ASSUME NEW r \in Reads, Accounted(r) PROVE Accounted(r)'
    BY <2>1, <2>2, <2>3, <2>4 DEF Accounted, Waiting
  <2>. QED
    BY <1>0, <2>2, <2>4, NothingLost
<1>7. CASE NextDay \/ UNCHANGED vars
  BY <1>7, <1>0, NothingLost DEF NextDay, vars, memory, tables, Accounted, Waiting
<1>. QED
  BY <1>1, <1>2, <1>3, <1>4, <1>5, <1>6, <1>7 DEF Next

\* While the process lives and the tables are there, no more reads go missing
\* in a step than the step counts as dropped, whether flushes fail, lose their
\* answer or are cancelled at shutdown (flush, record_read).
THEOREM LossesAreCounted == Spec => LostReadsAreCounted
<1>1. TInv /\ Resting /\ [Next]_vars
        => [migrated /\ "stopped" \notin {loop, loop'} =>
              Cardinality({r \in Reads: Accounted(r) /\ ~Accounted(r)'}) <= dropped' - dropped]_vars
  BY StepLoses DEF Lost
<1>. QED  BY <1>1, TInvAlways, RestingAlways, PTL DEF Spec, LostReadsAreCounted

-----------------------------------------------------------------------------
(* The last of some places *)

Less == {p \in Nat \X Nat: p[1] < p[2]}

LEMMA LessWellFounded == IsWellFoundedOn(Less, Nat)
  BY NatLessThanWellFounded, Zenon DEF OpToRel, Less

LEMMA LeastOf ==
  ASSUME NEW S \in SUBSET Nat, S # {}
  PROVE  \E x \in S: \A y \in S: x <= y
<1>1. \E x \in S: \A y \in S: ~(<<y, x>> \in Less)
  BY LessWellFounded, WFMin
<1>2. \A x, y \in S: ~(<<y, x>> \in Less) => x <= y
  <2>1. ASSUME NEW x \in S, NEW y \in S, y < x
        PROVE  <<y, x>> \in Less
    BY <2>1 DEF Less
  <2>. QED
    BY <2>1
<1>. QED
  BY <1>1, <1>2

\* Counted back from the end, the last is the least.
LEMMA LastOf ==
  ASSUME NEW n \in Nat, NEW S \in SUBSET (1..n), S # {}
  PROVE  \E m \in S: \A x \in S: x <= m
<1>1. PICK B: B = {n - x: x \in S}
  OBVIOUS
<1>2. B \in SUBSET Nat /\ B # {}
  <2>1. \A x \in S: n - x \in Nat
    OBVIOUS
  <2>2. PICK x \in S: n - x \in B
    BY <1>1
  <2>. QED
    BY <1>1, <2>1, <2>2
<1>3. PICK b \in B: \A c \in B: b <= c
  BY <1>2, LeastOf
<1>4. PICK m \in S: b = n - m
  BY <1>1, <1>3
<1>5. ASSUME NEW x \in S
      PROVE  x <= m
  <2>1. b <= n - x
    BY <1>1, <1>3
  <2>. QED
    BY <1>4, <2>1
<1>. QED
  BY <1>4, <1>5

-----------------------------------------------------------------------------
(* The cap: whichever way a day's labels get there, they were let in together *)

Ordinary == Clients \ Exempt

\* The labels a day is recorded under, of the clients that count.
OnDay(d) ==
  {c \in Ordinary: \E r \in {q \in 1..Len(read): read[q].day = d}: row[r] = c \/ c \in ToSet(summary[r])}

Known(d) == {p \in KnownClientIds: p[1] = d}
Kept(d)  == {p \in KeptPairs: p[1] = d}

\* What has been folded was old enough.
FoldedIsOld == \A r \in Reads: summary[r] # <<>> => read[r].day + RollupAfter <= day

\* A step preserves the cap if each day's labels are as they were.
CapInv == IInv /\ FoldedIsOld /\ \A d \in 0..MaxDay: Cardinality(OnDay(d)) <= Cap

LEMMA CapIs == CapHolds <=> \A d \in 0..MaxDay: Cardinality(OnDay(d)) <= Cap
<1>1. \A d: {c \in Clients \ Exempt: \E r \in {q \in 1..Len(read): read[q].day = d}: row[r] = c \/ c \in ToSet(summary[r])} = OnDay(d)
  BY DEF OnDay, Ordinary
<1>. QED
  BY <1>1 DEF CapHolds

\* An image of a finite set is finite and no larger.
LEMMA ImageIs ==
  ASSUME NEW S, IsFiniteSet(S), NEW f, NEW T, T = {f[x]: x \in S}
  PROVE  IsFiniteSet(T) /\ Cardinality(T) <= Cardinality(S)
<1>1. PICK g \in [S -> T]: g = [x \in S |-> f[x]]
  OBVIOUS
<1>2. \A t \in T: \E x \in S: g[x] = t
  BY <1>1
<1>3. g \in Surjection(S, T)
  BY <1>2 DEF Surjection
<1>. QED
  BY <1>3, FS_Surjection

\* The stored pairs of a day: as many as the labels it is stored under.
LEMMA KnownIs ==
  ASSUME IInv, NEW d \in 0..MaxDay, \A r \in 1..Len(read): read[r].day = d => summary[r] = <<>>
  PROVE  /\ IsFiniteSet(OnDay(d)) /\ IsFiniteSet(Known(d)) /\ Cardinality(Known(d)) <= Cardinality(OnDay(d))
         /\ \A c: c \in OnDay(d) => <<d, c>> \in Known(d)
<1>1. /\ Len(read) \in Nat /\ 1..Len(read) \subseteq Reads /\ MaxReads \in Nat
      /\ row \in [Reads -> Labels \cup {NoRow}]
      /\ \A r \in 1..Len(read): read[r].client \in Clients /\ read[r].day \in Nat
      /\ \A r \in Reads: r > Len(read) => row[r] = NoRow
  BY ReadsAreMinted, BoundsAssumption DEF IInv, Types, NothingUnread
<1>2. IsFiniteSet(Reads)
  BY <1>1, FS_Interval DEF Reads
<1>3. \A c: c \in OnDay(d) <=> c \in Ordinary /\ \E r \in 1..Len(read): read[r].day = d /\ row[r] = c
  <2>1. ToSet(<<>>) = {}
    BY EmptyHolds
  <2>. QED
    BY <2>1 DEF OnDay
<1>4. PICK U: U = {row[r]: r \in Reads}
  OBVIOUS
<1>5. OnDay(d) \in SUBSET U
  BY <1>1, <1>3, <1>4
<1>6. IsFiniteSet(OnDay(d))
  <2>1. IsFiniteSet(U)
    BY <1>2, <1>4, ImageIs
  <2>. QED
    BY <1>5, <2>1, FS_Subset
<1>7. \A c: c \in OnDay(d) => <<d, c>> \in Known(d)
  <2>1. SUFFICES ASSUME NEW c \in OnDay(d)
                 PROVE  <<d, c>> \in Known(d)
    OBVIOUS
  <2>2. PICK r \in 1..Len(read): read[r].day = d /\ row[r] = c /\ c \in Ordinary
    BY <1>3
  <2>3. c # NoRow /\ c # Overflow /\ Counts(c)
    BY <2>2, ClientsAssumption DEF Ordinary, Labels, Counts
  <2>4. <<read[r].day, row[r]>> \in KnownClientIds
    BY <1>1, <2>2, <2>3 DEF KnownClientIds
  <2>. QED
    BY <2>2, <2>4 DEF Known
<1>8. ASSUME NEW p \in Known(d)
      PROVE  \E c \in OnDay(d): p = <<d, c>>
  <2>1. PICK r \in Reads: p = <<read[r].day, row[r]>> /\ row[r] # NoRow /\ row[r] # Overflow /\ Counts(row[r])
    BY DEF Known, KnownClientIds
  <2>2. p[1] = d
    BY DEF Known
  <2>3. read[r].day = d
    BY <2>1, <2>2
  <2>4. r \in 1..Len(read)
    BY <1>1, <2>1 DEF Reads
  <2>5. row[r] \in Ordinary
    BY <1>1, <2>1 DEF Labels, Counts, Ordinary
  <2>. QED
    BY <1>3, <2>1, <2>3, <2>4, <2>5
<1>9. PICK f: f = [c \in OnDay(d) |-> <<d, c>>]
  OBVIOUS
<1>10. PICK T: T = {f[c]: c \in OnDay(d)}
  OBVIOUS
<1>11. Known(d) = T
  BY <1>7, <1>8, <1>9, <1>10
<1>12. IsFiniteSet(T) /\ Cardinality(T) <= Cardinality(OnDay(d))
  BY <1>6, <1>10, ImageIs
<1>. QED
  BY <1>6, <1>7, <1>11, <1>12

\* What is kept of a day is what was known of it, or within the cap.
LEMMA KeptWithinCap ==
  ASSUME IInv, NEW d \in 0..MaxDay, IsFiniteSet(Known(d)), Cardinality(Known(d)) <= Cap
  PROVE  IsFiniteSet(Kept(d)) /\ Cardinality(Kept(d)) <= Cap
<1> DEFINE Fits(n) == Counts(read[batch[n]].client) /\ Cardinality(Today(KnownClientIds, n)) < Cap
           here == {n \in 1..Len(batch): Fits(n) /\ read[batch[n]].day = d}
<1>1. Len(batch) \in Nat /\ Cap \in Nat
  BY SizesAssumption DEF IInv, Types
<1>2. \A r: Pair(r) = <<read[r].day, read[r].client>> /\ Pair(r)[1] = read[r].day
  BY DEF Pair
<1>3. \A p: p \in KeptPairs <=> p \in KnownClientIds \/ \E n \in 1..Len(batch): Fits(n) /\ p = Pair(batch[n])
  BY DEF KeptPairs, KeptOf
<1>4. \A p: p \in Kept(d) <=> p \in Known(d) \/ \E n \in here: p = Pair(batch[n])
  BY <1>2, <1>3 DEF Kept, Known
<1>5. CASE here = {}
  <2>1. Kept(d) = Known(d)
    BY <1>4, <1>5
  <2>. QED
    BY <2>1
<1>6. CASE here # {}
  <2>1. PICK m \in here: \A n \in here: n <= m
    <3>1. here \in SUBSET (1..Len(batch))
      OBVIOUS
    <3> HIDE DEF here
    <3>. QED
      BY <1>1, <1>6, <3>1, LastOf
  <2>2. m \in 1..Len(batch) /\ read[batch[m]].day = d /\ Cardinality(Today(KnownClientIds, m)) < Cap
    OBVIOUS
  <2>3. \A p: p \in Today(KnownClientIds, m) <=>
             p \in Known(d) \/ \E i \in 1..(m - 1): Counts(read[batch[i]].client) /\ p = Pair(batch[i]) /\ p[1] = d
    BY <2>2 DEF Today, Seen, Known
  <2>4. IsFiniteSet(Today(KnownClientIds, m))
    <3>1. PICK f: f = [i \in 1..(m - 1) |-> Pair(batch[i])]
      OBVIOUS
    <3>2. PICK T: T = {f[i]: i \in 1..(m - 1)}
      OBVIOUS
    <3>3. IsFiniteSet(1..(m - 1))
      BY <1>1, <2>2, FS_Interval
    <3>4. IsFiniteSet(T)
      BY <3>2, <3>3, ImageIs
    <3>5. Today(KnownClientIds, m) \subseteq Known(d) \cup T
      BY <2>3, <3>1, <3>2
    <3>. QED
      BY <3>4, <3>5, FS_Union, FS_Subset
  <2>5. Kept(d) \subseteq Today(KnownClientIds, m) \cup {Pair(batch[m])}
    <3>1. ASSUME NEW p \in Kept(d), p \notin Known(d)
          PROVE  p = Pair(batch[m]) \/ p \in Today(KnownClientIds, m)
      <4>1. PICK n \in here: p = Pair(batch[n])
        BY <1>4, <3>1
      <4>2. n \in 1..Len(batch) /\ Counts(read[batch[n]].client) /\ p[1] = d /\ n <= m
        BY <1>2, <2>1, <4>1
      <4>3. CASE n = m
        BY <4>1, <4>3
      <4>4. CASE n # m
        <5>1. n \in 1..(m - 1)
          BY <1>1, <2>2, <4>2, <4>4
        <5>. QED
          BY <2>3, <4>1, <4>2, <5>1
      <4>. QED
        BY <4>3, <4>4
    <3>. QED
      BY <2>3, <3>1
  <2>6. PICK W: W = Today(KnownClientIds, m) \cup {Pair(batch[m])}
    OBVIOUS
  <2>7. IsFiniteSet(W) /\ Cardinality(W) <= Cap
    <3>1. Cardinality(Today(KnownClientIds, m)) \in Nat
      BY <2>4, FS_CardinalityType
    <3>2. Cardinality(W) <= Cardinality(Today(KnownClientIds, m)) + 1
      <4>1. PICK X: X = Today(KnownClientIds, m)
        OBVIOUS
      <4>2. PICK p: p = Pair(batch[m])
        OBVIOUS
      <4>3. Cardinality(X \cup {p}) = IF p \in X THEN Cardinality(X) ELSE Cardinality(X) + 1
        BY <2>4, <4>1, FS_AddElement
      <4>. QED
        BY <2>6, <3>1, <4>1, <4>2, <4>3
    <3>3. IsFiniteSet(W) /\ Cardinality(W) \in Nat
      BY <2>4, <2>6, FS_AddElement, FS_CardinalityType
    <3>. QED
      BY <1>1, <2>2, <3>1, <3>2, <3>3
  <2>8. Kept(d) \in SUBSET W
    BY <2>5, <2>6
  <2>9. IsFiniteSet(Kept(d)) /\ Cardinality(Kept(d)) <= Cardinality(W)
    BY <2>7, <2>8, FS_Subset
  <2>. QED
    BY <1>1, <2>7, <2>9, FS_CardinalityType
<1>. QED
  BY <1>5, <1>6

-----------------------------------------------------------------------------
(* Each step keeps the cap *)

\* A step that keeps the tables and what has been read.
LEMMA TablesStayCap ==
  ASSUME CapInv, IInv', UNCHANGED <<read, row, summary>>, day' \in Nat, day <= day'
  PROVE  CapInv'
<1>1. \A r \in Reads: summary[r] # <<>> => read[r].day + RollupAfter <= day'
  <2>1. ASSUME NEW r \in Reads, summary[r] # <<>>
        PROVE  read[r].day + RollupAfter <= day'
    <3>1. r \in 1..Len(read) /\ Len(read) \in Nat
      BY <2>1, ReadsAreMinted, BoundsAssumption DEF CapInv, IInv, NothingUnread, Reads
    <3>2. read[r].day \in Nat /\ RollupAfter \in Nat /\ day \in Nat
      BY <3>1, ReadsAreMinted, SizesAssumption DEF CapInv, IInv, Types
    <3>3. read[r].day + RollupAfter <= day
      BY <2>1 DEF CapInv, FoldedIsOld
    <3>. QED
      BY <3>2, <3>3
  <2>. QED
    BY <2>1
<1>2. FoldedIsOld'
  BY <1>1 DEF FoldedIsOld
<1>3. \A d: OnDay(d)' = OnDay(d)
  BY DEF OnDay
<1>. QED
  BY <1>2, <1>3 DEF CapInv

\* A new read is under no label yet.
LEMMA RecordReadCap ==
  ASSUME CapInv, IInv', NEW c \in Clients, RecordRead(c)
  PROVE  CapInv'
<1>1. /\ Len(read) \in Nat /\ read' = Append(read, [client |-> c, day |-> day])
      /\ row' = row /\ summary' = summary /\ day' = day
      /\ read \in Seq([client: Clients, day: 0..MaxDay])
  BY ReadsAreMinted DEF CapInv, IInv, Types, RecordRead, tables
<1>2. PICK new \in Nat: new = Len(read) + 1
  BY <1>1
<1>3. Len(read') = new /\ \A r \in 1..Len(read): read'[r] = read[r]
  BY <1>1, <1>2
<1>4. new \in Reads /\ row[new] = NoRow /\ summary[new] = <<>>
  <2>1. new \in Reads
    BY <1>1, <1>2, BoundsAssumption DEF Reads, RecordRead
  <2>. QED
    BY <1>1, <1>2, <2>1 DEF CapInv, IInv, NothingUnread
<1>5. ToSet(<<>>) = {} /\ NoRow \notin Ordinary
  BY EmptyHolds, ClientsAssumption DEF Ordinary, Labels
<1>6. \A r \in 1..new: r = new \/ r \in 1..Len(read)
  BY <1>1, <1>2
<1>7. \A d: OnDay(d)' \subseteq OnDay(d)
  BY <1>1, <1>3, <1>4, <1>5, <1>6 DEF OnDay
<1>8. \A d: OnDay(d) \subseteq OnDay(d)'
  <2>1. \A r \in 1..Len(read): r \in 1..new
    BY <1>1, <1>2
  <2>. QED
    BY <1>1, <1>3, <2>1 DEF OnDay
<1>9. FoldedIsOld'
  <2>1. ASSUME NEW r \in Reads, summary[r] # <<>>
        PROVE  r \in 1..Len(read)
    BY <1>1, <2>1, BoundsAssumption DEF CapInv, IInv, NothingUnread, Reads
  <2>. QED
    BY <1>1, <1>3, <2>1 DEF CapInv, FoldedIsOld
<1>10. \A d: OnDay(d)' = OnDay(d)
  BY <1>7, <1>8
<1>. QED
  BY <1>9, <1>10 DEF CapInv

\* The fold takes a label from one table to the other.
LEMMA RollUpCap ==
  ASSUME CapInv, IInv', RollUp
  PROVE  CapInv'
<1>1. PICK old \in SUBSET Reads:
        /\ Folded(old)
        /\ summary' = [r \in Reads |-> IF r \in old THEN Append(summary[r], row[r]) ELSE summary[r]]
        /\ row' = [r \in Reads |-> IF r \in old THEN NoRow ELSE row[r]]
  BY DEF RollUp
<1>2. read' = read /\ day' = day
  BY DEF RollUp
<1>3. /\ 1..Len(read) \subseteq Reads
      /\ \A r \in old: row[r] # NoRow /\ summary[r] = <<>> /\ read[r].day + RollupAfter <= day
  <2>1. \A r \in old: r \in Reads /\ row[r] # NoRow /\ read[r].day + RollupAfter <= day
    BY <1>1 DEF Folded
  <2>. QED
    BY <2>1, ReadsAreMinted DEF CapInv, IInv, NoReadCountedTwice
<1>4. NoRow \notin Ordinary
  BY ClientsAssumption DEF Ordinary, Labels
<1>5. ASSUME NEW r \in Reads, NEW c \in Ordinary
      PROVE  (row'[r] = c \/ c \in ToSet(summary'[r])) <=> (row[r] = c \/ c \in ToSet(summary[r]))
  <2>1. CASE r \in old
    <3>1. row'[r] = NoRow /\ summary'[r] = Append(<<>>, row[r])
      BY <1>1, <1>3, <2>1
    <3>2. ToSet(Append(<<>>, row[r])) = {row[r]} /\ ToSet(<<>>) = {}
      BY EmptyHolds DEF ToSet
    <3>. QED
      BY <1>3, <1>4, <2>1, <3>1, <3>2
  <2>2. CASE r \notin old
    BY <1>1, <2>2
  <2>. QED
    BY <2>1, <2>2
<1>6. \A d: OnDay(d)' = OnDay(d)
  BY <1>2, <1>3, <1>5 DEF OnDay
<1>7. FoldedIsOld'
  BY <1>1, <1>2, <1>3 DEF CapInv, FoldedIsOld
<1>. QED
  BY <1>6, <1>7 DEF CapInv

\* The INSERT: on a day that gets rows nothing has been folded, so what the cap counts is all there is.
LEMMA InsertCap ==
  ASSUME CapInv, IInv', row' = Inserted, UNCHANGED <<read, summary, day>>
  PROVE  CapInv'
<1>1. /\ ToSet(batch) \subseteq 1..Len(read) /\ 1..Len(read) \subseteq Reads /\ Len(read) \in Nat
      /\ \A r \in 1..Len(read): read[r].client \in Clients /\ read[r].day \in Nat
      /\ RollupAfter \in Nat /\ day \in Nat /\ Cap \in Nat
  BY ReadsAreMinted, SizesAssumption DEF CapInv, IInv, Types
<1>2. \A r \in Reads: row'[r] = IF r \in ToSet(batch) THEN LabelOf(r) ELSE row[r]
  BY DEF Inserted
<1>3. FoldedIsOld'
  BY DEF CapInv, FoldedIsOld
<1>4. ASSUME NEW d \in 0..MaxDay
      PROVE  Cardinality(OnDay(d)') <= Cap
  <2>1. CASE \A r \in ToSet(batch): read[r].day # d
    <3>1. OnDay(d)' = OnDay(d)
      BY <1>1, <1>2, <2>1 DEF OnDay
    <3>. QED
      BY <3>1 DEF CapInv
  <2>2. CASE ~(\A r \in ToSet(batch): read[r].day # d)
    <3>1. d + RollupAfter > day
      <4>1. PICK b \in ToSet(batch): read[b].day = d
        BY <2>2
      <4>. QED
        BY <4>1 DEF CapInv, IInv, WaitingIsYoung, Waiting
    <3>2. \A r \in 1..Len(read): read[r].day = d => summary[r] = <<>>
      <4>1. ASSUME NEW r \in 1..Len(read), read[r].day = d, summary[r] # <<>>
            PROVE  FALSE
        <5>1. d + RollupAfter <= day
          BY <1>1, <4>1 DEF CapInv, FoldedIsOld
        <5>. QED
          BY <1>1, <3>1, <5>1, BoundsAssumption
      <4>. QED
        BY <4>1
    <3>3. /\ IsFiniteSet(OnDay(d)) /\ IsFiniteSet(Known(d)) /\ Cardinality(Known(d)) <= Cardinality(OnDay(d))
          /\ \A c: c \in OnDay(d) => <<d, c>> \in Known(d)
      BY <3>2, KnownIs DEF CapInv
    <3>4. IsFiniteSet(Kept(d)) /\ Cardinality(Kept(d)) <= Cap
      <4>1. Cardinality(OnDay(d)) \in Nat /\ Cardinality(Known(d)) \in Nat /\ Cardinality(OnDay(d)) <= Cap
        BY <3>3, FS_CardinalityType DEF CapInv
      <4>2. Cardinality(Known(d)) <= Cap
        BY <1>1, <3>3, <4>1
      <4>. QED
        BY <3>3, <4>2, KeptWithinCap DEF CapInv
    <3>5. ASSUME NEW c \in OnDay(d)'
          PROVE  <<d, c>> \in Kept(d)
      <4>1. PICK r \in 1..Len(read): read[r].day = d /\ row'[r] = c /\ c \in Ordinary
        <5>1. ToSet(<<>>) = {}
          BY EmptyHolds
        <5>. QED
          BY <3>2, <5>1 DEF OnDay
      <4>2. CASE r \in ToSet(batch)
        <5>1. c = LabelOf(r) /\ c # Overflow /\ Counts(c)
          BY <1>1, <1>2, <4>1, <4>2, ClientsAssumption DEF Ordinary, Counts
        <5>2. c = read[r].client /\ Pair(r) \in KeptPairs
          BY <5>1 DEF LabelOf
        <5>3. Pair(r) = <<d, c>>
          BY <4>1, <5>2 DEF Pair
        <5>. QED
          BY <5>2, <5>3 DEF Kept
      <4>3. CASE r \notin ToSet(batch)
        <5>1. row[r] = c
          BY <1>1, <1>2, <4>1, <4>3
        <5>2. c \in OnDay(d)
          BY <4>1, <5>1 DEF OnDay
        <5>3. <<d, c>> \in Known(d)
          BY <3>3, <5>2
        <5>. QED
          BY <5>3 DEF Known, Kept, KeptPairs, KeptOf
      <4>. QED
        BY <4>2, <4>3
    <3>6. PICK f: f = [p \in Kept(d) |-> p[2]]
      OBVIOUS
    <3>7. PICK T: T = {f[p]: p \in Kept(d)}
      OBVIOUS
    <3>8. \A c \in OnDay(d)': c \in T
      <4>1. ASSUME NEW c \in OnDay(d)'
            PROVE  c \in T
        <5>1. <<d, c>> \in Kept(d)
          BY <3>5, <4>1
        <5>2. f[<<d, c>>] = c
          BY <3>6, <5>1
        <5>. QED
          BY <3>7, <5>1, <5>2
      <4>. QED
        BY <4>1
    <3>9. IsFiniteSet(T) /\ Cardinality(T) <= Cardinality(Kept(d))
      BY <3>4, <3>7, ImageIs
    <3>10. OnDay(d)' \in SUBSET T
      BY <3>8
    <3>11. IsFiniteSet(OnDay(d)') /\ Cardinality(OnDay(d)') <= Cardinality(T)
      BY <3>9, <3>10, FS_Subset
    <3>12. Cardinality(T) \in Nat /\ Cardinality(Kept(d)) \in Nat /\ Cardinality(OnDay(d)') \in Nat
      BY <3>4, <3>9, <3>11, FS_CardinalityType
    <3>. QED
      BY <1>1, <3>4, <3>9, <3>11, <3>12
  <2>. QED
    BY <2>1, <2>2
<1>. QED
  BY <1>3, <1>4 DEF CapInv

LEMMA InitCap ==
  ASSUME Init
  PROVE  CapInv
<1>1. IInv
  BY InitIInv
<1>2. FoldedIsOld
  BY DEF Init, FoldedIsOld
<1>3. \A d: OnDay(d) = {}
  BY DEF Init, OnDay
<1>. QED
  BY <1>1, <1>2, <1>3, FS_EmptySet, SizesAssumption DEF CapInv

LEMMA StepCap ==
  ASSUME ShortOutages, CapInv, day \in 0..MaxDay, [Next]_vars
  PROVE  CapInv'
<1>1. IInv'
  BY StepKeeps DEF CapInv
<1>2. day \in Nat /\ day <= day /\ day + 1 \in Nat /\ day <= day + 1
  BY DEF CapInv, IInv, Types
<1>3. ASSUME NEW c \in Clients, RecordRead(c) PROVE CapInv'
  BY <1>1, <1>3, RecordReadCap
<1>4. CASE row' = Inserted /\ UNCHANGED <<read, summary, day>>
  BY <1>1, <1>4, InsertCap
<1>5. CASE UNCHANGED <<read, row, summary, day>>
  BY <1>1, <1>2, <1>5, TablesStayCap
<1>6. CASE StartFlush \/ FlushCommits \/ FlushUnmigrated \/ FlushFails \/ FlushReplyLost
  BY <1>4, <1>5, <1>6 DEF StartFlush, FlushCommits, FlushUnmigrated, FlushFails, FlushReplyLost, tables
<1>7. CASE Shutdown \/ Crash \/ Restart \/ Migrate
  BY <1>4, <1>5, <1>7 DEF Shutdown, Crash, Restart, Migrate, memory, tables
<1>8. CASE RollUp
  BY <1>1, <1>8, RollUpCap
<1>9. CASE NextDay
  <2>1. UNCHANGED <<read, row, summary>> /\ day' = day + 1
    BY <1>9 DEF NextDay, tables
  <2>. QED
    BY <1>1, <1>2, <2>1, TablesStayCap
<1>10. CASE UNCHANGED vars
  BY <1>5, <1>10 DEF vars
<1>. QED
  BY <1>3, <1>6, <1>7, <1>8, <1>9, <1>10 DEF Next

\* "At most MAX_IDS_PER_DATASET_DAY distinct client ids are kept per dataset per UTC day", whatever the batches
\* are, whichever fail, lose their answer or are repeated, and across restarts and the fold: a day that still
\* gets rows is too young to have been folded, so the rows the cap counts are all the day has
\* (known_client_ids: "long after any cap decision for it").
THEOREM CapHoldsAlways ==
  ASSUME ShortOutages
  PROVE  Spec => []CapHolds
<1>1. Init => CapInv
  BY InitCap
<1>2. CapInv /\ day \in 0..MaxDay /\ [Next]_vars => CapInv'
  BY StepCap
<1>3. CapInv => CapHolds
  BY CapIs DEF CapInv
<1>. QED
  BY <1>1, <1>2, <1>3, DaysBounded, PTL DEF Spec
=============================================================================
