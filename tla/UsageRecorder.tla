--------------------------- MODULE UsageRecorder ---------------------------
(***************************************************************************)
(* The consumption record (usage_recorder.py, crud/dataset_read.py): bar   *)
(* reads are buffered in memory, flushed to dataset_read as one batch at a *)
(* time, and folded into dataset_read_daily once they are old enough.      *)
(*                                                                         *)
(* One dataset: the cap and the fold treat each dataset on its own.  The   *)
(* flush loop may run whenever it is idle, so its timer and its early wake *)
(* need no state.  A flush has one step that empties the buffer and one    *)
(* that ends it; reads are served, days pass and rows are folded between.  *)
(***************************************************************************)
EXTENDS Integers, Sequences, FiniteSets, SequencesExt

CONSTANTS
  Clients,       \* the labels readers send
  Exempt,        \* those the cap does not count: the operator and the reserved values
  Overflow,      \* the label of reads past the cap
  Cap,           \* MAX_IDS_PER_DATASET_DAY
  BufferMax,     \* USAGE_BUFFER_MAX
  RollupAfter,   \* USAGE_ROLLUP_AFTER_DAYS
  MaxReads,      \* bound: reads served
  MaxDay,        \* bound: days that pass
  Faults,        \* which of AllFaults may happen
  ShortOutages,  \* whether every read leaves memory before it is old enough to be folded
  NoRow

AllFaults == {"database", "reply", "crash", "unmigrated"}
Reads     == 1..MaxReads
Labels    == Clients \cup {Overflow}

ASSUME ClientsAssumption == Exempt \subseteq Clients /\ Overflow \notin Clients /\ NoRow \notin Labels
ASSUME SizesAssumption == Cap \in Nat /\ BufferMax \in Nat \ {0} /\ RollupAfter \in Nat \ {0}
ASSUME BoundsAssumption == MaxReads \in Nat /\ MaxDay \in Nat
ASSUME SettingsAssumption == Faults \subseteq AllFaults /\ ShortOutages \in BOOLEAN

VARIABLES
  read,      \* the reads served so far, in order: [client, day]; a read's id is its place
  buffer,    \* _buffer: the ids not yet in a batch
  batch,     \* the ids the flush in progress took out of the buffer
  loop,      \* the flush loop: "idle", "writing", "final" for the flush at shutdown, or "stopped"
  dropped,   \* how many reads the full buffer pushed out, the ones already logged included
  row,       \* table dataset_read: [Reads -> the label stored, or NoRow]
  summary,   \* table dataset_read_daily: the labels each read was counted under
  migrated,  \* whether the usage tables exist
  day

memory == <<buffer, batch, loop, dropped>>
tables == <<row, summary, migrated>>
vars   == <<read, buffer, batch, loop, dropped, row, summary, migrated, day>>

TypeOK ==
  /\ read \in Seq([client: Clients, day: 0..MaxDay]) /\ Len(read) <= MaxReads
  /\ buffer \in Seq(Reads) /\ Len(buffer) <= BufferMax
  /\ batch \in Seq(Reads) /\ Len(batch) <= BufferMax
  /\ loop \in {"idle", "writing", "final", "stopped"}
  /\ dropped \in 0..MaxReads
  /\ row \in [Reads -> Labels \cup {NoRow}]
  /\ summary \in [Reads -> Seq(Labels)]
  /\ migrated \in BOOLEAN
  /\ day \in 0..MaxDay

Waiting == ToSet(buffer) \cup ToSet(batch)

MayFail(fault) == fault \in Faults

-----------------------------------------------------------------------------
(* The buffer *)

\* How far a sequence of reads is over the bound.
Excess(waiting) == IF Len(waiting) > BufferMax THEN Len(waiting) - BufferMax ELSE 0

\* The newest BufferMax of them, the oldest going first.
Trimmed(waiting) == SubSeq(waiting, Excess(waiting) + 1, Len(waiting))

\* Mutant: the rows go back and the bound is not applied to them.
PutBack_Untrimmed ==
  /\ buffer' = batch \o buffer
  /\ batch' = <<>>
  /\ UNCHANGED dropped

\* Mutant: a failed batch is forgotten.
PutBack_Forgotten ==
  /\ batch' = <<>>
  /\ UNCHANGED <<buffer, dropped>>

\* A failed flush: its rows go back, in front of what was read meanwhile.
PutBack ==
  /\ buffer' = Trimmed(batch \o buffer)
  /\ dropped' = dropped + Excess(batch \o buffer)
  /\ batch' = <<>>

\* A read is served: never an await, never a database call.
RecordRead(c) ==
  /\ loop \in {"idle", "writing"}
  /\ Len(read) < MaxReads
  /\ read' = Append(read, [client |-> c, day |-> day])
  /\ LET waiting == Append(buffer, Len(read) + 1)
     IN buffer' = Trimmed(waiting) /\ dropped' = dropped + Excess(waiting)
  /\ UNCHANGED <<batch, loop, tables, day>>

-----------------------------------------------------------------------------
(* The flush *)

\* The buffer becomes the batch.
StartFlush ==
  /\ loop = "idle"
  /\ buffer # <<>>
  /\ batch' = buffer /\ buffer' = <<>>
  /\ loop' = "writing"
  /\ UNCHANGED <<read, dropped, tables, day>>

Flushing == loop \in {"writing", "final"}

\* What the loop does once a flush is over; the one at shutdown is the last.
FlushEnds == loop' = IF loop = "final" THEN "stopped" ELSE "idle"

Counts(c) == c \notin Exempt

\* The <<day, client>> pairs the stored rows have, of the clients that count.
KnownClientIds ==
  {<<read[r].day, row[r]>>: r \in {q \in Reads: row[q] # NoRow /\ row[q] # Overflow /\ Counts(row[q])}}

Pair(r) == <<read[r].day, read[r].client>>

\* The pairs seen when the n-th of the batch's reads is looked at, and how many of them are of its day.
Seen(known, n)  == known \cup {Pair(batch[i]): i \in {j \in 1..(n - 1): Counts(read[batch[j]].client)}}
Today(known, n) == {p \in Seen(known, n): p[1] = read[batch[n]].day}

\* What is kept: what was known, and each pair that comes, in arrival order, while there is room on its day.
KeptOf(known) ==
  known \cup {Pair(batch[i]): i \in {n \in 1..Len(batch): /\ Counts(read[batch[n]].client)
                                                        /\ Cardinality(Today(known, n)) < Cap}}

\* Mutant: only the batch itself is looked at.
KeptPairs_BatchOnly == KeptOf({})

\* _apply_cap: the pairs kept, the stored ones first, then in arrival order.
KeptPairs == KeptOf(KnownClientIds)

LabelOf(r) ==
  IF Counts(read[r].client) /\ Pair(r) \notin KeptPairs
  THEN Overflow ELSE read[r].client

\* The batch as one INSERT.  Each row's primary key was minted with the read,
\* so a row that is already there fails the whole statement.
Insertable == migrated /\ \A r \in ToSet(batch): row[r] = NoRow
Inserted   == [r \in Reads |-> IF r \in ToSet(batch) THEN LabelOf(r) ELSE row[r]]

FlushCommits ==
  /\ Flushing /\ Insertable
  /\ row' = Inserted
  /\ batch' = <<>>
  /\ FlushEnds
  /\ UNCHANGED <<read, buffer, dropped, summary, migrated, day>>

\* An unmigrated database: one warning, and the rows are dropped.
FlushUnmigrated ==
  /\ Flushing /\ ~migrated
  /\ batch' = <<>>
  /\ FlushEnds
  /\ UNCHANGED <<read, buffer, dropped, tables, day>>

\* The database fails with nothing written, or refuses a duplicate key.
FlushFails ==
  /\ Flushing
  /\ MayFail("database") \/ (migrated /\ ~Insertable)
  /\ PutBack
  /\ FlushEnds
  /\ UNCHANGED <<read, tables, day>>

\* The commit takes effect and its answer is lost: for the recorder a failure.
FlushReplyLost ==
  /\ MayFail("reply")
  /\ Flushing /\ Insertable
  /\ row' = Inserted
  /\ PutBack
  /\ FlushEnds
  /\ UNCHANGED <<read, summary, migrated, day>>

\* stop_usage_loops: a flush in progress is cancelled, before its commit took
\* effect or after, and its rows go back; then one last flush begins.
Shutdown ==
  /\ loop \in {"idle", "writing"}
  /\ \/ UNCHANGED row
     \/ loop = "writing" /\ MayFail("reply") /\ Insertable /\ row' = Inserted
  /\ LET waiting == batch \o buffer
     IN /\ batch' = Trimmed(waiting)
        /\ dropped' = dropped + Excess(waiting)
        /\ loop' = IF waiting = <<>> THEN "stopped" ELSE "final"
  /\ buffer' = <<>>
  /\ UNCHANGED <<read, summary, migrated, day>>

\* The process dies: what was in memory is gone.
Crash ==
  /\ MayFail("crash")
  /\ loop # "stopped"
  /\ buffer' = <<>> /\ batch' = <<>>
  /\ loop' = "stopped"
  /\ UNCHANGED <<read, dropped, tables, day>>

\* A new process, after an orderly stop or a crash; its buffer is a new one.
Restart ==
  /\ loop = "stopped"
  /\ buffer' = <<>> /\ batch' = <<>>
  /\ loop' = "idle"
  /\ UNCHANGED <<read, dropped, tables, day>>

-----------------------------------------------------------------------------
(* The roll-up, and time *)

\* The rows older than the cutoff: those of the cutoff's own day may be on
\* either side of it.
Folded(old) == {r \in Reads: row[r] # NoRow /\ read[r].day + RollupAfter < day} \subseteq old
               /\ old \subseteq {r \in Reads: row[r] # NoRow /\ read[r].day + RollupAfter <= day}

\* Mutant: the fold and the delete are two transactions, and the second fails.
RollUp_KeepsRows ==
  /\ migrated /\ loop # "stopped"
  /\ \E old \in SUBSET Reads:
       /\ old # {} /\ Folded(old)
       /\ summary' = [r \in Reads |-> IF r \in old THEN Append(summary[r], row[r]) ELSE summary[r]]
       /\ UNCHANGED row
  /\ UNCHANGED <<read, memory, migrated, day>>

\* fold_reads_before: one statement moves the rows into the daily counts.
RollUp ==
  /\ migrated /\ loop # "stopped"
  /\ \E old \in SUBSET Reads:
       /\ old # {} /\ Folded(old)
       /\ summary' = [r \in Reads |-> IF r \in old THEN Append(summary[r], row[r]) ELSE summary[r]]
       /\ row' = [r \in Reads |-> IF r \in old THEN NoRow ELSE row[r]]
  /\ UNCHANGED <<read, memory, migrated, day>>

Migrate ==
  /\ ~migrated
  /\ migrated' = TRUE
  /\ UNCHANGED <<read, memory, row, summary, day>>

NextDay ==
  /\ day < MaxDay
  /\ ShortOutages => \A r \in Waiting: read[r].day + RollupAfter > day + 1
  /\ day' = day + 1
  /\ UNCHANGED <<read, memory, tables>>

-----------------------------------------------------------------------------
Init ==
  /\ read = <<>>
  /\ buffer = <<>> /\ batch = <<>>
  /\ loop = "idle"
  /\ dropped = 0
  /\ row = [r \in Reads |-> NoRow]
  /\ summary = [r \in Reads |-> <<>>]
  /\ migrated \in {TRUE} \cup {~MayFail("unmigrated")}
  /\ day = 0

Next ==
  \/ \E c \in Clients: RecordRead(c)
  \/ StartFlush \/ FlushCommits \/ FlushUnmigrated \/ FlushFails \/ FlushReplyLost
  \/ Shutdown \/ Crash \/ Restart
  \/ RollUp \/ Migrate \/ NextDay

Spec == Init /\ [][Next]_vars

-----------------------------------------------------------------------------
(* Properties *)

\* A read is counted once at most, whatever is retried, cancelled or folded,
\* across both tables (fold_reads_before's promise, and the reason a read's
\* primary key is minted with it).
NoReadCountedTwice ==
  \A r \in Reads: IF row[r] = NoRow THEN Len(summary[r]) <= 1 ELSE summary[r] = <<>>

\* "At most MAX_IDS_PER_DATASET_DAY distinct client ids are kept per dataset
\* per UTC day", across batches, restarts and the fold (usage_recorder.py,
\* module docstring).
CapHolds ==
  \A d \in 0..MaxDay:
    LET today == {r \in 1..Len(read): read[r].day = d}
    IN Cardinality({c \in Clients \ Exempt: \E r \in today: row[r] = c \/ c \in ToSet(summary[r])}) <= Cap

Accounted(r) == r \in Waiting \/ row[r] # NoRow \/ summary[r] # <<>>

\* While the process lives and the tables are there, a read goes missing only
\* by the buffer's bound, and is counted as dropped (flush: "a failure puts the
\* rows back for the next flush").
LostReadsAreCounted ==
  [][migrated /\ "stopped" \notin {loop, loop'} =>
       Cardinality({r \in Reads: Accounted(r) /\ ~Accounted(r)'}) <= dropped' - dropped]_vars

\* "the rows go back, so the final flush still writes them" (flush, of a flush
\* that shutdown cancels): with a database that answers, an orderly stop leaves
\* no read of this process unwritten.
FinalFlushWritesThem ==
  loop = "stopped" => \A r \in 1..Len(read): row[r] # NoRow \/ summary[r] # <<>>
=============================================================================
