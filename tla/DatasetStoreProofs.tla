------------------------ MODULE DatasetStoreProofs ------------------------
(***************************************************************************)
(* DatasetStore's types, its row locks and its safety properties, proved   *)
(* for any number of fetches, keys and pages and any set of faults.        *)
(*                                                                         *)
(* What the row locks make true of the tables: fetches store all of their  *)
(* bars or none, a dataset is deleted once, and the reaper, the refresh    *)
(* and the operator's overrides act on what is so when they act.  Of the   *)
(* runs, which no lock protects: what they say of a fetch is so.           *)
(***************************************************************************)
EXTENDS DatasetStore, FiniteSetTheorems, TLAPS

USE DEF Ids, NoTx, OpenTx

-----------------------------------------------------------------------------
(* The overlap check *)

\* What _find_own_overlap selects, "no end" stored as 1970 included, are the rows that have an instant in
\* common with the request's range, other than those of that very range.
THEOREM OwnOverlapIsCommon ==
  ASSUME NEW row, NEW new, IsRange(row.start, row.end), IsRange(new.start, new.end)
  PROVE  OwnOverlap(row, new) <=>
           /\ row.series = new.series /\ <<row.start, row.end>> # <<new.start, new.end>>
           /\ \E t \in Nat: Covers(row, t) /\ Covers(new, t)
<1>1. ASSUME row.end = Epoch \/ row.end > new.start, new.end # Epoch => row.start < new.end
      PROVE  \E t \in Nat: Covers(row, t) /\ Covers(new, t)
  <2>1. CASE row.start <= new.start
    BY <1>1, <2>1 DEF IsRange, Covers, Epoch
  <2>2. CASE new.start <= row.start
    BY <1>1, <2>2 DEF IsRange, Covers, Epoch
  <2>. QED
    BY <2>1, <2>2 DEF IsRange
<1>2. ASSUME NEW t \in Nat, Covers(row, t), Covers(new, t)
      PROVE  /\ row.end = Epoch \/ row.end > new.start
             /\ new.end # Epoch => row.start < new.end
  BY <1>2 DEF IsRange, Covers, Epoch
<1>. QED
  BY <1>1, <1>2 DEF OwnOverlap

-----------------------------------------------------------------------------
(* Type correctness *)

\* What the reaper and the operator count is a number of bar positions.
LEMMA CountInRange == ASSUME NEW id PROVE CountOf(id) \in 0..MaxPages
<1> DEFINE stored == {s \in Slots: bars[id][s] # NoBar}
<1>1. MaxPages \in Nat
  BY BoundsAssumption
<1>2. IsFiniteSet(Slots) /\ Cardinality(Slots) = MaxPages
  <2>1. Cardinality(1..MaxPages) = IF 1 > MaxPages THEN 0 ELSE MaxPages - 1 + 1
    BY <1>1, FS_Interval
  <2>. QED
    BY <1>1, <2>1, FS_Interval DEF Slots
<1>3. stored \subseteq Slots
  OBVIOUS
<1>4. Cardinality(stored) \in Nat /\ Cardinality(stored) <= Cardinality(Slots)
  BY <1>2, <1>3, FS_Subset, FS_CardinalityType
<1>. QED
  BY <1>1, <1>2, <1>4 DEF CountOf

\* A best-effort recording leaves every run row well formed.
LEMMA RecordedType ==
  ASSUME FetchesOK, NEW f \in Fetches, NEW row \in [state: RunStates, dataset: Ids \cup {NoId}], Recorded(f, row)
  PROVE run' \in [Fetches -> [state: RunStates, dataset: Ids \cup {NoId}]]
BY DEF FetchesOK, Recorded

\* So does the startup sweep.
LEMMA SweptType ==
  ASSUME NEW rows \in [Fetches -> [state: RunStates, dataset: Ids \cup {NoId}]]
  PROVE  [f \in Fetches |-> IF rows[f].state = "RUNNING" THEN [rows[f] EXCEPT !.state = "FAILED"] ELSE rows[f]]
           \in [Fetches -> [state: RunStates, dataset: Ids \cup {NoId}]]
<1>1. ASSUME NEW row \in [state: RunStates, dataset: Ids \cup {NoId}]
      PROVE  [row EXCEPT !.state = "FAILED"] \in [state: RunStates, dataset: Ids \cup {NoId}]
  BY DEF RunStates
<1>. QED
  BY <1>1

LEMMA RowsAreIds == ASSUME NEW i PROVE RowsOf(i) \subseteq Ids
BY DEF RowsOf

\* What a fetch's upsert leaves in its row is a row.
LEMMA UpsertedRowType ==
  ASSUME TablesOK, NEW f \in Fetches, request[f] \in Request, tx[f].id \in Ids
  PROVE  UpsertedRow(f) \in Entry
<1>1. request[f].identity \in Identities /\ request[f].expiry \in Expiries /\ request[f].collect \in Explicit
  BY DEF Request
<1>2. InsertedRow(request[f]) \in Entry
  BY <1>1 DEF InsertedRow, ResolvedCollect, UpdateType, Explicit, Collects, Entry
<1>3. ASSUME NEW row \in Entry PROVE RepeatedRow(row, request[f]) \in Entry
  BY <1>1 DEF RepeatedRow, Entry, Explicit, Collects
<1>4. Live(tx[f].id) => entry[tx[f].id] \in Entry
  BY DEF TablesOK, Live
<1>. QED
  BY <1>2, <1>3, <1>4 DEF UpsertedRow

\* A fetch under way has its request, and from its upsert on its dataset.
InFlightOK ==
  \A f \in Fetches:
    /\ phase[f] \notin {"idle", "closed"} => request[f] \in Request
    /\ phase[f] \in {"upserted", "writing", "served"} => tx[f].id \in Ids

\* The operator write under way has its dataset.
OperOK == oper.op # "none" => oper.id \in Ids

TypeInv == TypeOK /\ InFlightOK /\ OperOK

LEMMA TypeInit == Init => TypeInv
<1> SUFFICES ASSUME Init PROVE TypeInv
  OBVIOUS
<1>1. MaxPages \in Nat /\ MaxClock \in Nat /\ 0 \in 0..MaxPages /\ 0 \in 0..MaxClock
  BY BoundsAssumption
<1>2. TablesOK
  BY DEF Init, TablesOK, NoBars
<1>3. FetchesOK
  BY DEF Init, FetchesOK, NoRun, RunStates, Phases, Collects
<1>4. TasksOK
  BY <1>1 DEF Init, TasksOK, NoReap, NoOper, Expiries, Collects
<1>5. InFlightOK /\ OperOK
  BY DEF Init, InFlightOK, NoOper, OperOK
<1>. QED
  BY <1>2, <1>3, <1>4, <1>5 DEF TypeInv, TypeOK

TxRows == [id: Ids \cup {NoId}, before: Collects, written: SUBSET Slots, done: BOOLEAN, dropped: BOOLEAN]

\* A step that only moves one fetch and its transaction keeps the fetches
\* well formed.
LEMMA TxStepType ==
  ASSUME FetchesOK, InFlightOK, NEW f \in Fetches, NEW p \in Phases, NEW row \in TxRows,
         request[f] \in Request,
         p \in {"upserted", "writing", "served"} => row.id \in Ids,
         phase' = [phase EXCEPT ![f] = p], tx' = [tx EXCEPT ![f] = row], UNCHANGED <<run, request>>
  PROVE  FetchesOK' /\ InFlightOK'
BY DEF FetchesOK, InFlightOK, TxRows

\* The steps of one fetch that read or write no table.
LEMMA TypeFetch ==
  ASSUME TypeInv, NEW f \in Fetches,
         \/ LockStoredCollect(f) \/ LockActiveEntry(f) \/ UpsertEntry(f) \/ FetchDone(f)
         \/ (\E s \in Slots: Page(f, s)) \/ Abort(f)
  PROVE  TypeInv'
<1> USE DEF TypeInv, TypeOK
<1>1. TablesOK' /\ TasksOK' /\ OperOK'
  BY DEF LockStoredCollect, LockActiveEntry, UpsertEntry, FetchDone, Page, Abort, tables, TablesOK, TasksOK, OperOK
<1>2. /\ request[f] \in Request
      /\ tx[f] \in TxRows
      /\ tx = [tx EXCEPT ![f] = tx[f]] /\ phase = [phase EXCEPT ![f] = phase[f]]
      /\ phase[f] \in Phases
  BY DEF LockStoredCollect, LockActiveEntry, UpsertEntry, FetchDone, Page, Abort, FetchesOK, InFlightOK, TxRows
<1>3. NoTx \in TxRows
  BY DEF TxRows, Collects
<1>4. CASE LockStoredCollect(f)
  <2>1. ASSUME NEW id \in RowsOf(request[f].identity) PROVE OpenTx(id, entry[id].collect) \in TxRows
    BY DEF RowsOf, Live, TablesOK, Entry, TxRows
  <2>2. PICK row \in TxRows: tx' = [tx EXCEPT ![f] = row]
    BY <1>2, <1>4, <2>1 DEF LockStoredCollect
  <2>. QED
    BY <1>1, <1>2, <1>4, <2>2, TxStepType DEF LockStoredCollect, Phases
<1>5. CASE LockActiveEntry(f)
  <2>1. ASSUME NEW id \in RowsOf(request[f].identity) PROVE OpenTx(id, "none") \in TxRows
    BY DEF RowsOf, TxRows, Collects
  <2>2. PICK row \in TxRows, p \in {"dropped", "locked"}:
          tx' = [tx EXCEPT ![f] = row] /\ phase' = [phase EXCEPT ![f] = p]
    <3>1. [tx[f] EXCEPT !.dropped = TRUE] \in TxRows
      BY <1>2 DEF TxRows
    <3>. QED
      BY <1>2, <1>5, <2>1, <3>1 DEF LockActiveEntry
  <2>. QED
    BY <1>1, <1>2, <1>5, <2>2, TxStepType DEF LockActiveEntry, Phases
<1>6. CASE UpsertEntry(f)
  <2>1. PICK id \in Ids: tx' = [tx EXCEPT ![f].id = id]
    BY <1>6, RowsAreIds DEF UpsertEntry
  <2> DEFINE row == [tx[f] EXCEPT !.id = id]
  <2>2. row \in TxRows /\ row.id = id
    BY <1>2 DEF TxRows
  <2>3. tx' = [tx EXCEPT ![f] = row]
    BY <2>1
  <2>4. phase' = [phase EXCEPT ![f] = "upserted"] /\ UNCHANGED <<run, request>>
    BY <1>6 DEF UpsertEntry
  <2> HIDE DEF row
  <2>. QED
    BY <1>1, <1>2, <2>2, <2>3, <2>4, TxStepType DEF Phases
<1>7. CASE FetchDone(f)
  <2>1. [tx[f] EXCEPT !.done = TRUE] \in TxRows /\ [tx[f] EXCEPT !.done = TRUE].id = tx[f].id
    BY <1>2 DEF TxRows
  <2>. QED
    BY <1>1, <1>2, <1>7, <2>1, TxStepType DEF FetchDone, Phases, InFlightOK
<1>8. CASE \E s \in Slots: Page(f, s)
  <2>1. PICK s \in Slots: Page(f, s)
    BY <1>8
  <2> DEFINE row == [tx[f] EXCEPT !.written = @ \cup {s}]
  <2>2. row \in TxRows /\ row.id = tx[f].id
    BY <1>2 DEF TxRows
  <2>3. tx' = [tx EXCEPT ![f] = row] /\ phase[f] = "writing" /\ UNCHANGED <<phase, run, request>>
    BY <2>1 DEF Page
  <2>4. tx[f].id \in Ids
    BY <2>3 DEF InFlightOK
  <2>. QED
    BY <1>1, <1>2, <2>2, <2>3, <2>4, TxStepType
<1>9. CASE Abort(f)
  BY <1>1, <1>2, <1>3, <1>9, TxStepType DEF Abort, Phases
<1>. QED
  BY <1>4, <1>5, <1>6, <1>7, <1>8, <1>9

RunRows == [state: RunStates, dataset: Ids \cup {NoId}]

\* The run a fetch begins with and the outcomes it can be given.
LEMMA RunRowTypes ==
  ASSUME FetchesOK, NEW f \in Fetches
  PROVE  /\ OutcomeRow(f) \in RunRows
         /\ FailedRow(f) \in RunRows
         /\ tx[f].id \in Ids => [run[f] EXCEPT !.dataset = tx[f].id] \in RunRows
<1>1. run[f] \in RunRows
  BY DEF FetchesOK, RunRows
<1>2. ASSUME NEW s \in RunStates PROVE [run[f] EXCEPT !.state = s] \in RunRows
  BY <1>1 DEF RunRows
<1>3. OutcomeRow(f) \in RunRows
  BY <1>2 DEF OutcomeRow, RunStates
<1>4. FailedRow(f) \in RunRows
  BY <1>1 DEF FailedRow, RunRows, RunStates
<1>5. ASSUME NEW id \in Ids PROVE [run[f] EXCEPT !.dataset = id] \in RunRows
  BY <1>1 DEF RunRows
<1>. QED
  BY <1>3, <1>4, <1>5

\* A step that records a run and moves its fetch on.
LEMMA RunStepType ==
  ASSUME FetchesOK, InFlightOK, NEW f \in Fetches, NEW p \in Phases,
         phase' = [phase EXCEPT ![f] = p], UNCHANGED tx,
         request' \in {request, [request EXCEPT ![f] = NoRequest]},
         p \notin {"idle", "closed"} => request'[f] \in Request,
         p \in {"upserted", "writing", "served"} => tx[f].id \in Ids,
         run' \in [Fetches -> RunRows]
  PROVE  FetchesOK' /\ InFlightOK'
BY DEF FetchesOK, InFlightOK, RunRows

\* The steps that begin a fetch.
LEMMA TypeBegin ==
  ASSUME TypeInv, NEW f \in Fetches,
         (\E r \in Requests: Post(f, r)) \/ (\E r \in plan: Refresh(f, r))
  PROVE  TypeInv'
<1> USE DEF TypeInv, TypeOK
<1>1. PICK r \in Request: Begin(f, r)
  BY RequestsAssumption DEF Post, PostRequest, Refresh, TasksOK
<1>2. TablesOK' /\ UNCHANGED tx
  BY DEF Post, Refresh, tables, TablesOK
<1>3. TasksOK' /\ OperOK'
  BY DEF Post, Refresh, TasksOK, OperOK
<1>4. PICK p \in {"failing", "fetching"}:
        phase' = [phase EXCEPT ![f] = p] /\ request' = [request EXCEPT ![f] = r]
  BY <1>1 DEF Begin
<1>5. run' \in [Fetches -> RunRows]
  BY <1>1 DEF Begin, FetchesOK, RunRows, RunStates
<1>. QED
  BY <1>2, <1>3, <1>4, <1>5 DEF FetchesOK, InFlightOK, RunRows, Phases

\* The steps of the run recorder.
LEMMA TypeRecord ==
  ASSUME TypeInv, NEW f \in Fetches,
         Acknowledge(f) \/ Finish(f) \/ CancelLate(f) \/ FinishFailed(f)
  PROVE  TypeInv'
<1> USE DEF TypeInv, TypeOK
<1>1. TablesOK' /\ TasksOK' /\ OperOK' /\ UNCHANGED tx
  BY DEF Acknowledge, Finish, CancelLate, FinishFailed, tables, TablesOK, TasksOK, OperOK
<1>2. request[f] \in Request /\ request = [request EXCEPT ![f] = request[f]]
  BY DEF Acknowledge, Finish, CancelLate, FinishFailed, FetchesOK, InFlightOK
<1>3. ASSUME NEW row \in RunRows, Recorded(f, row) PROVE run' \in [Fetches -> RunRows]
  BY <1>3 DEF Recorded, FetchesOK, RunRows
<1>4. CASE Acknowledge(f)
  <2>1. tx[f].id \in Ids
    BY <1>4 DEF Acknowledge, InFlightOK
  <2>2. run' \in [Fetches -> RunRows]
    BY <1>3, <1>4, <2>1, RunRowTypes DEF Acknowledge
  <2>3. phase' = [phase EXCEPT ![f] = "writing"] /\ UNCHANGED request
    BY <1>4 DEF Acknowledge
  <2>. QED
    BY <1>1, <1>2, <2>1, <2>2, <2>3, RunStepType DEF Phases
<1>5. CASE Finish(f)
  BY <1>1, <1>3, <1>5, RunRowTypes, RunStepType DEF Finish, Phases
<1>6. CASE CancelLate(f)
  <2>1. run' \in [Fetches -> RunRows]
    BY <1>3, <1>6, RunRowTypes DEF CancelLate, FetchesOK, RunRows
  <2>2. phase' = [phase EXCEPT ![f] = "failing"] /\ UNCHANGED request
    BY <1>6 DEF CancelLate
  <2>. QED
    BY <1>1, <1>2, <2>1, <2>2, RunStepType DEF Phases
<1>7. CASE FinishFailed(f)
  BY <1>1, <1>3, <1>7, RunRowTypes, RunStepType DEF FinishFailed, Phases
<1>. QED
  BY <1>4, <1>5, <1>6, <1>7

\* A step that changes one row of the entry table, and only that row's bars.
LEMMA RowStepType ==
  ASSUME TablesOK, NEW id \in Ids, NEW row \in Entry \cup {NoEntry}, NEW kept \in [Slots -> Fetches \cup {NoBar}],
         entry' = [entry EXCEPT ![id] = row], bars' = [bars EXCEPT ![id] = kept],
         deletions' \subseteq [id: Ids, bars: 0..MaxPages, cause: {"OPERATOR", "REAPER"}],
         overrides' \subseteq Ids
  PROVE  TablesOK'
BY DEF TablesOK

LEMMA NoBarsType == NoBars \in [Slots -> Fetches \cup {NoBar}]
BY DEF NoBars

\* The fetch's commit.
LEMMA TypeCommit ==
  ASSUME TypeInv, NEW f \in Fetches, Commit(f)
  PROVE  TypeInv'
<1> USE DEF TypeInv, TypeOK
<1> DEFINE id == tx[f].id
           kept == [s \in Slots |-> IF s \in tx[f].written THEN f ELSE bars[id][s]]
<1>1. id \in Ids /\ request[f] \in Request
  BY DEF Commit, InFlightOK
<1>2. UpsertedRow(f) \in Entry
  BY <1>1, UpsertedRowType
<1>3. kept \in [Slots -> Fetches \cup {NoBar}]
  BY <1>1 DEF TablesOK
<1>4. entry' = [entry EXCEPT ![id] = UpsertedRow(f)] /\ bars' = [bars EXCEPT ![id] = kept]
  BY DEF Commit
<1>5. UNCHANGED <<deletions, overrides>>
  BY DEF Commit
<1>6. TablesOK'
  <2> HIDE DEF id, kept
  <2>. QED
    BY <1>1, <1>2, <1>3, <1>4, <1>5, RowStepType DEF TablesOK
<1>7. TasksOK' /\ OperOK' /\ FetchesOK' /\ InFlightOK'
  BY <1>1 DEF Commit, TasksOK, OperOK, FetchesOK, InFlightOK, Phases
<1>. QED
  BY <1>6, <1>7

\* Deleting a row keeps the tables well formed, with or without a record.
LEMMA DeleteType ==
  ASSUME TablesOK, NEW id \in Ids, DeleteEntryRow(id), overrides' \subseteq Ids,
         \/ UNCHANGED deletions
         \/ \E n \in 0..MaxPages, c \in {"OPERATOR", "REAPER"}: RecordDeletion(id, n, c)
  PROVE  TablesOK'
<1>1. deletions' \subseteq [id: Ids, bars: 0..MaxPages, cause: {"OPERATOR", "REAPER"}]
  BY DEF RecordDeletion, TablesOK
<1>. QED
  BY <1>1, RowStepType, NoBarsType DEF DeleteEntryRow

\* The reaper's steps.
LEMMA TypeReaper ==
  ASSUME TypeInv, ReaperNext
  PROVE  TypeInv'
<1> USE DEF TypeInv, TypeOK
<1>1. ASSUME NEW id \in Ids PROVE Reaped(id) \in [now: 0..MaxClock, todo: SUBSET Ids]
  BY BoundsAssumption DEF Reaped, NoReap, TasksOK
<1>2. CASE StartReap
  <2>1. clock \in 0..MaxClock /\ \A pending \in SUBSET Ids:
          [now |-> clock, todo |-> pending] \in [now: 0..MaxClock, todo: SUBSET Ids]
    BY DEF TasksOK
  <2>2. reap' \in [now: 0..MaxClock, todo: SUBSET Ids]
    BY <1>2, <2>1 DEF StartReap
  <2>. QED
    BY <1>2, <2>2 DEF StartReap, tables, fetchVars, TablesOK, FetchesOK, TasksOK, InFlightOK, OperOK
<1>3. CASE \E id \in Ids: ReaperDelete(id)
  <2>1. PICK id \in Ids: ReaperDelete(id)
    BY <1>3
  <2>2. TablesOK'
    BY <2>1, DeleteType, CountInRange DEF ReaperDelete, TablesOK
  <2>3. reap' \in [now: 0..MaxClock, todo: SUBSET Ids]
    BY <1>1, <2>1 DEF ReaperDelete
  <2>. QED
    BY <2>1, <2>2, <2>3 DEF ReaperDelete, fetchVars, FetchesOK, TasksOK, InFlightOK, OperOK
<1>4. CASE \E id \in Ids: ReaperSkip(id)
  BY <1>1, <1>4 DEF ReaperSkip, tables, fetchVars, TablesOK, FetchesOK, TasksOK, InFlightOK, OperOK
<1>. QED
  BY <1>2, <1>3, <1>4 DEF ReaperNext

OperRows == [op: {"none", "expiry", "collect", "delete"}, id: Ids \cup {NoId},
             expiry: Expiries, collect: Collects, count: 0..MaxPages]

\* The operator's steps.
LEMMA TypeOperator ==
  ASSUME TypeInv, OperatorNext
  PROVE  TypeInv'
<1> USE DEF TypeInv, TypeOK
<1>1. NoOper \in OperRows
  BY BoundsAssumption DEF NoOper, OperRows, Expiries, Collects
<1>2. ASSUME NEW op \in {"expiry", "collect", "delete"}, NEW id \in Ids, NEW e \in Expiries, NEW c \in Collects,
             OperatorRead(op, id, e, c)
      PROVE  TypeInv'
  <2>1. IF op = "delete" THEN CountOf(id) \in 0..MaxPages ELSE 0 \in 0..MaxPages
    BY CountInRange, BoundsAssumption
  <2>2. oper' \in OperRows
    BY <1>2, <2>1 DEF OperatorRead, OperRows
  <2>. QED
    BY <1>2, <2>2 DEF OperatorRead, OperRows, tables, fetchVars, TablesOK, FetchesOK, TasksOK, InFlightOK, OperOK
<1>3. CASE OperatorTooLate
  BY <1>1, <1>3 DEF OperatorTooLate, NoOper, OperRows, tables, fetchVars, TablesOK, FetchesOK, TasksOK, InFlightOK, OperOK
<1>4. ASSUME NEW op \in {"expiry", "collect", "delete"}, OperatorWrites(op)
      PROVE  oper.id \in Ids /\ entry[oper.id] \in Entry /\ overrides' \subseteq Ids
  BY <1>4 DEF OperatorWrites, RecordOverride, Live, TablesOK, OperOK
<1>5. ASSUME NEW op \in {"expiry", "collect", "delete"}, OperatorWrites(op), TablesOK'
      PROVE  TypeInv'
  BY <1>1, <1>5 DEF OperatorWrites, NoOper, OperRows, fetchVars, FetchesOK, TasksOK, InFlightOK, OperOK
<1>6. CASE OperatorSetExpiry
  <2>1. OperatorWrites("expiry")
    BY <1>6 DEF OperatorSetExpiry
  <2> DEFINE id == oper.id
             row == [entry[id] EXCEPT !.expiry = oper.expiry]
  <2>2. id \in Ids /\ row \in Entry
    BY <1>4, <2>1 DEF Entry, TasksOK
  <2>3. entry' = [entry EXCEPT ![id] = row] /\ bars' = [bars EXCEPT ![id] = bars[id]] /\ UNCHANGED deletions
    BY <1>6, <2>2 DEF OperatorSetExpiry, TablesOK
  <2>4. TablesOK'
    <3> HIDE DEF id, row
    <3>1. bars[id] \in [Slots -> Fetches \cup {NoBar}] /\ overrides' \subseteq Ids
      BY <1>4, <2>1, <2>2 DEF TablesOK
    <3>. QED
      BY <2>2, <2>3, <3>1, RowStepType DEF TablesOK
  <2>. QED
    BY <1>5, <2>1, <2>4
<1>7. CASE OperatorSetCollecting
  <2>1. OperatorWrites("collect")
    BY <1>7 DEF OperatorSetCollecting
  <2> DEFINE id == oper.id
             row == [entry[id] EXCEPT !.collect = oper.collect]
  <2>2. id \in Ids /\ row \in Entry
    BY <1>4, <2>1 DEF Entry, TasksOK
  <2>3. entry' = [entry EXCEPT ![id] = row] /\ bars' = [bars EXCEPT ![id] = bars[id]] /\ UNCHANGED deletions
    BY <1>7, <2>2 DEF OperatorSetCollecting, TablesOK
  <2>4. TablesOK'
    <3> HIDE DEF id, row
    <3>1. bars[id] \in [Slots -> Fetches \cup {NoBar}] /\ overrides' \subseteq Ids
      BY <1>4, <2>1, <2>2 DEF TablesOK
    <3>. QED
      BY <2>2, <2>3, <3>1, RowStepType DEF TablesOK
  <2>. QED
    BY <1>5, <2>1, <2>4
<1>8. CASE OperatorDelete
  <2>1. OperatorWrites("delete") /\ DeleteEntryRow(oper.id) /\ RecordDeletion(oper.id, oper.count, "OPERATOR")
    BY <1>8 DEF OperatorDelete
  <2>2. oper.count \in 0..MaxPages
    BY DEF TasksOK
  <2>3. TablesOK'
    BY <1>4, <2>1, <2>2, DeleteType
  <2>. QED
    BY <1>5, <2>1, <2>3
<1>9. CASE OperatorStep
  BY <1>3, <1>6, <1>7, <1>8, <1>9 DEF OperatorStep
<1>10. NoExpiry \in Expiries /\ {"on", "off", "none"} \subseteq Collects
  BY DEF Expiries, Collects
<1>. QED
  BY <1>2, <1>9, <1>10 DEF OperatorNext

\* Every step keeps the state well formed.
LEMMA TypeStep ==
  ASSUME TypeInv, [Next]_vars
  PROVE  TypeInv'
<1> USE DEF TypeInv, TypeOK
<1>1. ASSUME NEW f \in Fetches, FetchNext(f) PROVE TypeInv'
  BY <1>1, TypeBegin, TypeFetch, TypeRecord, TypeCommit DEF FetchNext, FetchStep
<1>2. CASE StartPass
  <2>1. plan' \subseteq Request
    <3>1. ASSUME NEW id \in Ids, Live(id) PROVE RefreshRequest(id) \in Request
      BY <3>1 DEF RefreshRequest, Live, TablesOK, Entry, Request, Explicit
    <3>. QED
      BY <1>2, <3>1 DEF StartPass
  <2>. QED
    BY <1>2, <2>1 DEF StartPass, tables, fetchVars, TablesOK, FetchesOK, TasksOK, InFlightOK, OperOK
<1>3. CASE \E id \in Ids: OwnerDelete(id)
  <2>1. PICK id \in Ids: OwnerDelete(id)
    BY <1>3
  <2>2. TablesOK'
    BY <2>1, DeleteType DEF OwnerDelete, TablesOK
  <2>. QED
    BY <2>1, <2>2 DEF OwnerDelete, fetchVars, FetchesOK, TasksOK, InFlightOK, OperOK
<1>4. CASE Tick
  BY <1>4, BoundsAssumption DEF Tick, tables, fetchVars, TablesOK, FetchesOK, TasksOK, InFlightOK, OperOK
<1>5. CASE Restart
  <2>1. TablesOK'
    BY <1>5 DEF Restart, tables, TablesOK
  <2>2. TasksOK' /\ OperOK'
    BY <1>5, BoundsAssumption DEF Restart, TasksOK, OperOK, NoReap, NoOper, Expiries, Collects
  <2>3. FetchesOK' /\ InFlightOK'
    <3>1. NoTx \in TxRows /\ tx \in [Fetches -> TxRows]
      BY DEF TxRows, Collects, FetchesOK
    <3>2. tx' \in [Fetches -> TxRows]
      BY <1>5, <3>1 DEF Restart
    <3>3. phase' \in [Fetches -> {"idle", "closed"}] /\ request' = [f \in Fetches |-> NoRequest]
      BY <1>5 DEF Restart
    <3>4. run' \in [Fetches -> [state: RunStates, dataset: Ids \cup {NoId}]]
      BY <1>5, SweptType DEF Restart, FetchesOK
    <3>. QED
      BY <3>2, <3>3, <3>4, NullsAssumption DEF FetchesOK, InFlightOK, Phases, TxRows
  <2>. QED
    BY <2>1, <2>2, <2>3
<1>6. CASE UNCHANGED vars
  BY <1>6 DEF vars, TablesOK, FetchesOK, TasksOK, InFlightOK, OperOK
<1>. QED
  BY <1>1, <1>2, <1>3, <1>4, <1>5, <1>6, TypeReaper, TypeOperator DEF Next

\* The store's state is always well formed: each table, each fetch's row and
\* transaction, and what each background pass remembers.
THEOREM TypeCorrect == Spec => []TypeOK
<1>1. TypeInv => TypeOK
  BY DEF TypeInv
<1>. QED
  BY <1>1, TypeInit, TypeStep, PTL DEF Spec

-----------------------------------------------------------------------------
(* Row locks, the unique key and all-or-nothing *)

\* Fetch f holds its identity: what Holds says, without the identity.
Holding(f) == \/ phase[f] \in {"upserted", "writing", "served"}
              \/ phase[f] = "locked" /\ tx[f].id # NoId

Named(id, i) == Live(id) /\ entry[id].identity = i

UniqueKeys == \A a, b \in Ids: Live(a) /\ Live(b) /\ entry[a].identity = entry[b].identity => a = b

Exclusive ==
  \A f, g \in Fetches: Holding(f) /\ Holding(g) /\ request[f].identity = request[g].identity => f = g

\* A fetch with a lock works on the row its key names, or inserts its own
\* where the key names none.
Targets ==
  \A f \in Fetches: Holding(f) =>
    \/ Named(tx[f].id, request[f].identity)
    \/ tx[f].id = f /\ ~Live(f) /\ \A id \in Ids: ~Named(id, request[f].identity)

\* Only a fetch past its commit has inserted its id.
FreshIds == \A f \in Fetches: Live(f) => phase[f] \in {"stored", "failing", "closed"}

\* A fetch that has read nothing yet has nothing in its transaction.
Unopened == \A f \in Fetches: phase[f] \in {"idle", "fetching"} => tx[f] = NoTx

LockInv == UniqueKeys /\ Exclusive /\ Targets /\ FreshIds /\ Unopened

-----------------------------------------------------------------------------
(* The invariant of the locks *)

LEMMA LockInit == Init => LockInv
<1> SUFFICES ASSUME Init PROVE LockInv
  OBVIOUS
<1>1. UniqueKeys
  BY DEF Init, UniqueKeys, RowsOf
<1>2. FreshIds /\ Unopened
  BY DEF Init, FreshIds, Unopened
<1>3. \A f \in Fetches: ~Holding(f)
  BY DEF Init, Holding
<1>. QED
  BY <1>1, <1>2, <1>3 DEF LockInv, Exclusive, Targets

\* A step of one fetch that takes no lock and changes no row.
LEMMA LockQuiet ==
  ASSUME FetchesOK, LockInv, NEW f \in Fetches, NEW p \in Phases, NEW row \in TxRows, UNCHANGED entry,
         phase' = [phase EXCEPT ![f] = p], tx' = [tx EXCEPT ![f] = row],
         \A g \in Fetches: g # f => request'[g] = request[g],
         p \in {"upserted", "writing", "served"} =>
           Holding(f) /\ row.id = tx[f].id /\ request'[f] = request[f],
         p = "locked" => row.id = NoId,
         p \in {"idle", "fetching"} => row = NoTx,
         Live(f) => p \in {"stored", "failing", "closed"}
  PROVE  LockInv'
<1>1. \A g \in Fetches: Holding(g)' => Holding(g) /\ tx'[g].id = tx[g].id /\ request'[g] = request[g]
  BY DEF Holding, FetchesOK
<1>2. UniqueKeys' /\ (\A id, i: Named(id, i)' = Named(id, i)) /\ (\A id: Live(id)' = Live(id))
  BY DEF LockInv, UniqueKeys, Named, Live
<1>3. Exclusive'
  BY <1>1 DEF LockInv, Exclusive
<1>4. Targets'
  BY <1>1, <1>2 DEF LockInv, Targets
<1>5. FreshIds'
  BY <1>2 DEF LockInv, FreshIds, FetchesOK
<1>6. Unopened'
  BY DEF LockInv, Unopened, FetchesOK
<1>. QED
  BY <1>2, <1>3, <1>4, <1>5, <1>6 DEF LockInv

\* A step of one fetch that comes to hold its identity, which nobody held,
\* with the row the key names or, where it names none, the fetch's own id.
LEMMA LockTaken ==
  ASSUME FetchesOK, LockInv, NEW f \in Fetches, NEW p \in {"locked", "upserted"}, NEW row \in TxRows,
         UNCHANGED <<entry, request>>, phase[f] \in {"fetching", "locked"},
         phase' = [phase EXCEPT ![f] = p], tx' = [tx EXCEPT ![f] = row],
         FreeFor(f, request[f].identity),
         \/ Named(row.id, request[f].identity)
         \/ row.id = f /\ ~Live(f) /\ \A id \in Ids: ~Named(id, request[f].identity)
  PROVE  LockInv'
<1>1. \A g \in Fetches: g # f => (Holding(g)' = Holding(g) /\ tx'[g] = tx[g])
  BY DEF Holding, FetchesOK
<1>2. UniqueKeys' /\ (\A id, i: Named(id, i)' = Named(id, i)) /\ (\A id: Live(id)' = Live(id))
  BY DEF LockInv, UniqueKeys, Named, Live
<1>3. Exclusive'
  BY <1>1 DEF LockInv, Exclusive, FreeFor, Holds, Holding
<1>4. tx'[f] = row
  BY DEF FetchesOK
<1>5. Targets'
  BY <1>1, <1>2, <1>4 DEF LockInv, Targets
<1>6. FreshIds'
  <2>1. ~Live(f)
    BY DEF LockInv, FreshIds
  <2>. QED
    BY <1>2, <2>1 DEF LockInv, FreshIds, FetchesOK
<1>7. Unopened'
  BY DEF LockInv, Unopened, FetchesOK
<1>. QED
  BY <1>2, <1>3, <1>5, <1>6, <1>7 DEF LockInv

\* A step that changes no fetch, and of the rows at most one nobody holds:
\* it goes, or stays under its key.
LEMMA LockRow ==
  ASSUME TablesOK, LockInv, NEW id \in Ids, Live(id), Unlocked(entry[id].identity),
         NEW row \in Entry \cup {NoEntry}, row # NoEntry => row.identity = entry[id].identity,
         entry' = [entry EXCEPT ![id] = row], UNCHANGED <<phase, request, tx>>
  PROVE  LockInv'
<1>1. \A a \in Ids: \A i: Named(a, i)' => Named(a, i)
  BY DEF Named, Live, TablesOK
<1>2. \A a \in Ids: Live(a)' => Live(a) /\ entry'[a].identity = entry[a].identity
  BY DEF Live, TablesOK
<1>3. \A f \in Fetches: Holding(f) => request[f].identity # entry[id].identity
  BY DEF Unlocked, Holds, Holding
<1>4. \A f \in Fetches: Holding(f)' = Holding(f)
  BY DEF Holding
<1>5. \A f \in Fetches: Holding(f) /\ Named(tx[f].id, request[f].identity) =>
        Named(tx[f].id, request[f].identity)'
  BY <1>3 DEF Named, Live, TablesOK
<1>6. UniqueKeys'
  BY <1>2 DEF LockInv, UniqueKeys
<1>7. Exclusive'
  BY <1>4 DEF LockInv, Exclusive
<1>8. Targets'
  BY <1>1, <1>2, <1>4, <1>5 DEF LockInv, Targets
<1>9. FreshIds' /\ Unopened'
  BY <1>2 DEF LockInv, FreshIds, Unopened
<1>. QED
  BY <1>6, <1>7, <1>8, <1>9 DEF LockInv

\* A step that touches no row, no fetch and no lock.
LEMMA LockIdle ==
  ASSUME LockInv, UNCHANGED <<entry, phase, request, tx>>
  PROVE  LockInv'
BY DEF LockInv, UniqueKeys, Exclusive, Targets, FreshIds, Unopened, Holding, Named, Live

\* The commit: the one step that can make a key name a row.
LEMMA LockCommit ==
  ASSUME TypeInv, LockInv, NEW f \in Fetches, Commit(f)
  PROVE  LockInv'
<1> USE DEF TypeInv, TypeOK
<1> DEFINE id == tx[f].id
           i  == request[f].identity
           row == UpsertedRow(f)
<1>1. id \in Ids /\ request[f] \in Request /\ row \in Entry
  <2>1. id \in Ids /\ request[f] \in Request
    BY DEF Commit, InFlightOK
  <2>. QED
    BY <2>1, UpsertedRowType
<1>2. Holding(f) /\ phase[f] = "served" /\ phase' = [phase EXCEPT ![f] = "stored"]
  BY DEF Commit, Holding
<1>3. entry' = [entry EXCEPT ![id] = row] /\ UNCHANGED <<request, tx>>
  BY DEF Commit
<1>4. \/ Named(id, i)
      \/ id = f /\ ~Live(f) /\ \A a \in Ids: ~Named(a, i)
  BY <1>2 DEF LockInv, Targets
<1>5. row.identity = i
  BY <1>4 DEF UpsertedRow, InsertedRow, RepeatedRow, Named
<1>6. row # NoEntry
  BY <1>1, NullsAssumption
<1> HIDE DEF id, i, row
<1>7. \A a \in Ids: a # id => (Live(a)' <=> Live(a)) /\ entry'[a] = entry[a]
  BY <1>3 DEF Live, TablesOK
<1>8. entry'[id] = row
  BY <1>1, <1>3 DEF TablesOK
<1>9. \A g \in Fetches: Holding(g)' => g # f /\ Holding(g) /\ request[g].identity # i
  BY <1>2, <1>3 DEF Holding, LockInv, Exclusive, FetchesOK, i
<1>10. UniqueKeys'
  BY <1>1, <1>4, <1>5, <1>7, <1>8 DEF LockInv, UniqueKeys, Named, Live
<1>11. Exclusive'
  BY <1>3, <1>9 DEF LockInv, Exclusive
<1>12. Targets'
  <2> SUFFICES ASSUME NEW g \in Fetches, Holding(g)'
               PROVE  \/ Named(tx[g].id, request[g].identity)'
                      \/ tx[g].id = g /\ ~Live(g)' /\ \A a \in Ids: ~Named(a, request[g].identity)'
    BY <1>3 DEF Targets
  <2>1. g # f /\ Holding(g) /\ request[g].identity # i
    BY <1>9
  <2>2. tx[g].id \in Ids
    BY <2>1 DEF Holding, InFlightOK, FetchesOK
  <2>3. CASE Named(tx[g].id, request[g].identity)
    <3>1. tx[g].id # id
      BY <1>4, <2>1, <2>3 DEF Named
    <3>. QED
      BY <1>3, <1>7, <2>2, <2>3, <3>1 DEF Named
  <2>4. CASE tx[g].id = g /\ ~Live(g) /\ \A a \in Ids: ~Named(a, request[g].identity)
    <3>1. g # id
      BY <1>4, <2>1, <2>4 DEF Named
    <3>2. ~Live(g)'
      BY <1>7, <2>4, <3>1
    <3>3. \A a \in Ids: ~Named(a, request[g].identity)'
      BY <1>3, <1>5, <1>7, <1>8, <2>1, <2>4 DEF Named
    <3>. QED
      BY <2>4, <3>2, <3>3
  <2>. QED
    BY <2>1, <2>3, <2>4 DEF LockInv, Targets
<1>13. FreshIds'
  BY <1>2, <1>4, <1>7 DEF LockInv, FreshIds, FetchesOK, Named
<1>14. Unopened'
  BY <1>2, <1>3 DEF LockInv, Unopened, FetchesOK
<1>. QED
  BY <1>10, <1>11, <1>12, <1>13, <1>14 DEF LockInv

\* The steps of one fetch up to its commit, which it takes alone.
LEMMA LockFetch ==
  ASSUME TypeInv, LockInv, NEW f \in Fetches,
         \/ LockStoredCollect(f) \/ LockActiveEntry(f) \/ UpsertEntry(f)
         \/ Acknowledge(f) \/ FetchDone(f) \/ \E s \in Slots: Page(f, s)
  PROVE  LockInv'
<1> USE DEF TypeInv, TypeOK
<1>1. /\ tx[f] \in TxRows /\ tx = [tx EXCEPT ![f] = tx[f]]
      /\ phase[f] \in Phases /\ phase = [phase EXCEPT ![f] = phase[f]]
  BY DEF FetchesOK, TxRows
<1>2. phase[f] \in {"fetching", "locked"} => ~Live(f)
  BY DEF LockInv, FreshIds
<1>3. CASE LockStoredCollect(f)
  <2>1. phase[f] = "fetching" /\ tx[f] = NoTx /\ phase' = [phase EXCEPT ![f] = "locked"] /\ UNCHANGED <<entry, request>>
    BY <1>3 DEF LockStoredCollect, tables, LockInv, Unopened
  <2>2. CASE UNCHANGED tx
    <3>1. tx[f].id = NoId /\ tx' = [tx EXCEPT ![f] = tx[f]]
      BY <1>1, <2>1, <2>2
    <3>. QED
      BY <1>1, <1>2, <2>1, <3>1, LockQuiet DEF Phases
  <2>3. ASSUME NEW id \in RowsOf(request[f].identity), FreeFor(f, request[f].identity),
               tx' = [tx EXCEPT ![f] = OpenTx(id, entry[id].collect)]
        PROVE  LockInv'
    <3>1. OpenTx(id, entry[id].collect) \in TxRows /\ Named(id, request[f].identity)
      BY DEF RowsOf, Named, Live, TablesOK, Entry, TxRows
    <3>. QED
      BY <2>1, <2>3, <3>1, LockTaken
  <2>. QED
    BY <1>3, <2>2, <2>3 DEF LockStoredCollect
<1>4. CASE LockActiveEntry(f)
  <2>1. phase[f] = "fetching" /\ UNCHANGED <<entry, request>>
    BY <1>4 DEF LockActiveEntry, tables
  <2>2. CASE phase' = [phase EXCEPT ![f] = "dropped"] /\ tx' = [tx EXCEPT ![f].dropped = TRUE]
    <3> DEFINE row == [tx[f] EXCEPT !.dropped = TRUE]
    <3>1. row \in TxRows /\ row.id = tx[f].id /\ tx' = [tx EXCEPT ![f] = row]
      BY <1>1, <2>2 DEF TxRows
    <3>. QED
      BY <1>1, <1>2, <2>1, <2>2, <3>1, LockQuiet DEF Phases
  <2>3. ASSUME NEW id \in RowsOf(request[f].identity), FreeFor(f, request[f].identity),
               phase' = [phase EXCEPT ![f] = "locked"], tx' = [tx EXCEPT ![f] = OpenTx(id, "none")]
        PROVE  LockInv'
    <3>1. OpenTx(id, "none") \in TxRows /\ Named(id, request[f].identity)
      BY DEF RowsOf, Named, TxRows, Collects
    <3>. QED
      BY <2>1, <2>3, <3>1, LockTaken
  <2>. QED
    BY <1>4, <2>2, <2>3 DEF LockActiveEntry
<1>5. CASE UpsertEntry(f)
  <2> DEFINE rows == RowsOf(request[f].identity)
  <2>1. PICK id \in IF rows = {} THEN {f} ELSE rows: tx' = [tx EXCEPT ![f].id = id]
    BY <1>5 DEF UpsertEntry
  <2>2. \/ Named(id, request[f].identity)
        \/ id = f /\ ~Live(f) /\ \A a \in Ids: ~Named(a, request[f].identity)
    BY <1>2, <1>5, <2>1 DEF UpsertEntry, RowsOf, Named
  <2>3. id \in Ids
    BY <2>1, RowsAreIds
  <2> DEFINE row == [tx[f] EXCEPT !.id = id]
  <2>4. row \in TxRows /\ row.id = id /\ tx' = [tx EXCEPT ![f] = row]
    BY <1>1, <2>1, <2>3 DEF TxRows
  <2>5. /\ phase[f] = "locked" /\ phase' = [phase EXCEPT ![f] = "upserted"]
        /\ FreeFor(f, request[f].identity) /\ UNCHANGED <<entry, request>>
    BY <1>5 DEF UpsertEntry, tables
  <2> HIDE DEF row, rows
  <2>. QED
    BY <2>2, <2>4, <2>5, LockTaken
<1>6. CASE Acknowledge(f)
  <2>1. phase[f] = "upserted" /\ phase' = [phase EXCEPT ![f] = "writing"] /\ UNCHANGED <<entry, request, tx>>
    BY <1>6 DEF Acknowledge, tables
  <2>2. ~Live(f) /\ Holding(f)
    BY <2>1 DEF LockInv, FreshIds, Holding
  <2>. QED
    BY <1>1, <2>1, <2>2, LockQuiet DEF Phases
<1>7. CASE FetchDone(f)
  <2> DEFINE row == [tx[f] EXCEPT !.done = TRUE]
  <2>1. row \in TxRows /\ row.id = tx[f].id /\ tx' = [tx EXCEPT ![f] = row]
    BY <1>1, <1>7 DEF FetchDone, TxRows
  <2>2. phase[f] = "writing" /\ phase' = [phase EXCEPT ![f] = "served"] /\ UNCHANGED <<entry, request>>
    BY <1>7 DEF FetchDone, tables
  <2>3. ~Live(f) /\ Holding(f)
    BY <2>2 DEF LockInv, FreshIds, Holding
  <2> HIDE DEF row
  <2>. QED
    BY <2>1, <2>2, <2>3, LockQuiet DEF Phases
<1>8. CASE \E s \in Slots: Page(f, s)
  <2>1. PICK s \in Slots: Page(f, s)
    BY <1>8
  <2> DEFINE row == [tx[f] EXCEPT !.written = @ \cup {s}]
  <2>2. row \in TxRows /\ row.id = tx[f].id /\ tx' = [tx EXCEPT ![f] = row]
    BY <1>1, <2>1 DEF Page, TxRows
  <2>3. phase[f] = "writing" /\ UNCHANGED <<entry, phase, request>>
    BY <2>1 DEF Page, tables
  <2>4. ~Live(f) /\ Holding(f)
    BY <2>3 DEF LockInv, FreshIds, Holding
  <2> HIDE DEF row
  <2>. QED
    BY <1>1, <2>2, <2>3, <2>4, LockQuiet DEF Phases
<1>. QED
  BY <1>3, <1>4, <1>5, <1>6, <1>7, <1>8

\* The steps that end a fetch, and those that begin one.
LEMMA LockEnds ==
  ASSUME TypeInv, LockInv, NEW f \in Fetches,
         \/ (\E r \in Requests: Post(f, r)) \/ (\E r \in plan: Refresh(f, r))
         \/ Finish(f) \/ FinishFailed(f) \/ CancelLate(f) \/ Abort(f)
  PROVE  LockInv'
<1> USE DEF TypeInv, TypeOK
<1>1. tx[f] \in TxRows /\ tx = [tx EXCEPT ![f] = tx[f]] /\ NoTx \in TxRows
  BY DEF FetchesOK, TxRows, Collects
<1>2. ASSUME NEW r, Begin(f, r), UNCHANGED <<entry, tx>> PROVE LockInv'
  <2>1. tx[f] = NoTx /\ ~Live(f)
    BY <1>2 DEF Begin, LockInv, Unopened, FreshIds
  <2>2. \A g \in Fetches: g # f => request'[g] = request[g]
    BY <1>2 DEF Begin, FetchesOK
  <2>3. PICK p \in {"failing", "fetching"}: phase' = [phase EXCEPT ![f] = p]
    BY <1>2 DEF Begin
  <2>. QED
    BY <1>1, <1>2, <2>1, <2>2, <2>3, LockQuiet DEF Phases
<1>3. CASE (\E r \in Requests: Post(f, r)) \/ (\E r \in plan: Refresh(f, r))
  BY <1>2, <1>3 DEF Post, Refresh, tables
<1>4. CASE Finish(f) \/ FinishFailed(f) \/ CancelLate(f)
  <2>1. UNCHANGED <<entry, tx>> /\ \A g \in Fetches: g # f => request'[g] = request[g]
    BY <1>4 DEF Finish, FinishFailed, CancelLate, tables, FetchesOK
  <2>2. PICK p \in {"failing", "closed"}: phase' = [phase EXCEPT ![f] = p]
    BY <1>4 DEF Finish, FinishFailed, CancelLate
  <2>. QED
    BY <1>1, <2>1, <2>2, LockQuiet DEF Phases
<1>5. CASE Abort(f)
  BY <1>1, <1>5, LockQuiet DEF Abort, tables, Phases
<1>. QED
  BY <1>3, <1>4, <1>5

\* Deletes and edits reach only a row nobody holds.
LEMMA LockWrites ==
  ASSUME TypeInv, LockInv, NEW id \in Ids,
         \/ ReaperDelete(id) \/ OwnerDelete(id)
         \/ oper.id = id /\ (OperatorSetExpiry \/ OperatorSetCollecting \/ OperatorDelete)
  PROVE  LockInv'
<1> USE DEF TypeInv, TypeOK
<1>1. Live(id) /\ Unlocked(entry[id].identity) /\ UNCHANGED <<phase, request, tx>>
  BY DEF ReaperDelete, Due, OwnerDelete, OperatorSetExpiry, OperatorSetCollecting, OperatorDelete, OperatorWrites, fetchVars
<1>2. CASE entry' = [entry EXCEPT ![id] = NoEntry]
  BY <1>1, <1>2, LockRow
<1>3. CASE oper.id = id /\ OperatorSetExpiry
  <2> DEFINE row == [entry[id] EXCEPT !.expiry = oper.expiry]
  <2>1. row \in Entry /\ row.identity = entry[id].identity
    BY <1>1 DEF Live, TablesOK, TasksOK, Entry
  <2>2. entry' = [entry EXCEPT ![id] = row]
    BY <1>3 DEF OperatorSetExpiry
  <2> HIDE DEF row
  <2>. QED
    BY <1>1, <2>1, <2>2, LockRow
<1>4. CASE oper.id = id /\ OperatorSetCollecting
  <2> DEFINE row == [entry[id] EXCEPT !.collect = oper.collect]
  <2>1. row \in Entry /\ row.identity = entry[id].identity
    BY <1>1 DEF Live, TablesOK, TasksOK, Entry
  <2>2. entry' = [entry EXCEPT ![id] = row]
    BY <1>4 DEF OperatorSetCollecting
  <2> HIDE DEF row
  <2>. QED
    BY <1>1, <2>1, <2>2, LockRow
<1>. QED
  BY <1>2, <1>3, <1>4 DEF ReaperDelete, OwnerDelete, OperatorDelete, DeleteEntryRow

\* A restart frees every lock.
LEMMA LockRestart ==
  ASSUME TypeInv, LockInv, Restart
  PROVE  LockInv'
<1> USE DEF TypeInv, TypeOK
<1>1. \A f \in Fetches: phase'[f] \in {"idle", "closed"} /\ (phase'[f] = "idle" => phase[f] = "idle")
  BY DEF Restart
<1>2. UNCHANGED entry /\ \A f \in Fetches: tx'[f] \in {tx[f], NoTx}
  BY DEF Restart, tables
<1>3. \A f \in Fetches: ~Holding(f)'
  BY <1>1 DEF Holding
<1>4. UniqueKeys' /\ FreshIds' /\ Unopened'
  <2>1. \A f \in Fetches: Live(f)' => phase'[f] = "closed"
    BY <1>1, <1>2 DEF LockInv, FreshIds, Live
  <2>2. \A f \in Fetches: phase'[f] = "idle" => tx'[f] = NoTx
    BY <1>1, <1>2 DEF LockInv, Unopened
  <2>. QED
    BY <1>1, <1>2, <2>1, <2>2 DEF LockInv, UniqueKeys, FreshIds, Unopened, Live
<1>. QED
  BY <1>3, <1>4 DEF LockInv, Exclusive, Targets

LEMMA LockStep ==
  ASSUME TypeInv, LockInv, [Next]_vars
  PROVE  LockInv'
<1>1. ASSUME NEW f \in Fetches, FetchNext(f) PROVE LockInv'
  BY <1>1, LockFetch, LockCommit, LockEnds DEF FetchNext, FetchStep
<1>2. CASE StartPass \/ StartReap \/ Tick \/ OperatorTooLate \/ UNCHANGED vars
  BY <1>2, LockIdle DEF StartPass, StartReap, Tick, OperatorTooLate, vars, tables, fetchVars
<1>3. CASE ReaperNext
  <2>1. ASSUME NEW id \in Ids, ReaperSkip(id) PROVE LockInv'
    BY <2>1, LockIdle DEF ReaperSkip, tables, fetchVars
  <2>. QED
    BY <1>2, <1>3, <2>1, LockWrites DEF ReaperNext
<1>4. CASE OperatorNext
  <2>1. ASSUME NEW op, NEW id, NEW e, NEW c, OperatorRead(op, id, e, c) PROVE LockInv'
    BY <2>1, LockIdle DEF OperatorRead, tables, fetchVars
  <2>2. ASSUME OperatorStep, ~OperatorTooLate PROVE LockInv'
    <3>1. oper.id \in Ids
      BY <2>2 DEF OperatorStep, OperatorSetExpiry, OperatorSetCollecting, OperatorDelete, OperatorWrites, TypeInv, OperOK
    <3>. QED
      BY <2>2, <3>1, LockWrites DEF OperatorStep
  <2>. QED
    BY <1>2, <1>4, <2>1, <2>2 DEF OperatorNext
<1>. QED
  BY <1>1, <1>2, <1>3, <1>4, LockWrites, LockRestart DEF Next

-----------------------------------------------------------------------------
(* What the locks are for *)

\* From the ack to the commit a fetch's transaction keeps the row it resolved:
\* no delete, reap or second fetch of the key can come between.
THEOREM LocksHold == Spec => []TransactionTargetsHold
<1>1. Init => TypeInv /\ LockInv
  BY TypeInit, LockInit
<1>2. TypeInv /\ LockInv /\ [Next]_vars => TypeInv' /\ LockInv'
  BY TypeStep, LockStep
<1>3. TypeInv /\ LockInv => TransactionTargetsHold
  <2> SUFFICES ASSUME TypeInv, LockInv, NEW f \in Fetches, Holds(f, request[f].identity)
               PROVE  /\ FreeFor(f, request[f].identity)
                      /\ RowsOf(request[f].identity) = IF Live(tx[f].id) THEN {tx[f].id} ELSE {}
                      /\ ~Live(tx[f].id) => tx[f].id = f
    BY DEF TransactionTargetsHold
  <2>1. Holding(f)
    BY DEF Holds, Holding
  <2>2. tx[f].id \in Ids
    BY <2>1 DEF Holding, TypeInv, TypeOK, InFlightOK, FetchesOK
  <2>3. FreeFor(f, request[f].identity)
    BY <2>1 DEF LockInv, Exclusive, FreeFor, Holds, Holding
  <2>4. CASE Named(tx[f].id, request[f].identity)
    BY <2>2, <2>3, <2>4 DEF Named, RowsOf, LockInv, UniqueKeys
  <2>5. CASE tx[f].id = f /\ ~Live(f) /\ \A id \in Ids: ~Named(id, request[f].identity)
    BY <2>3, <2>5 DEF Named, RowsOf
  <2>. QED
    BY <2>1, <2>4, <2>5 DEF LockInv, Targets
<1>. QED
  BY <1>1, <1>2, <1>3, PTL DEF Spec

-----------------------------------------------------------------------------
(* What both invariants say, together *)

StoreInv == TypeInv /\ LockInv

LEMMA StoreInvInit == Init => StoreInv
BY TypeInit, LockInit DEF StoreInv

LEMMA StoreInvStep == StoreInv /\ [Next]_vars => StoreInv'
BY TypeStep, LockStep DEF StoreInv

-----------------------------------------------------------------------------
(* The ways a step can touch the tables *)

\* A delete, with or without its record.
Deleted(id) ==
  /\ Live(id) /\ Unlocked(entry[id].identity)
  /\ DeleteEntryRow(id)
  /\ \/ UNCHANGED deletions
     \/ \E n \in 0..MaxPages, c \in {"OPERATOR", "REAPER"}: RecordDeletion(id, n, c)
  /\ UNCHANGED fetchVars

\* An operator's edit.
Edited(id) ==
  /\ Live(id) /\ Unlocked(entry[id].identity)
  /\ \E row \in Entry: entry' = [entry EXCEPT ![id] = row]
  /\ UNCHANGED <<bars, deletions, fetchVars>>

LEMMA TableSteps ==
  ASSUME TypeInv, [Next]_vars
  PROVE  \/ \E f \in Fetches: Commit(f)
         \/ \E id \in Ids: Deleted(id) \/ Edited(id)
         \/ UNCHANGED <<entry, bars, deletions>>
<1> USE DEF TypeInv, TypeOK
<1>1. ASSUME NEW f \in Fetches, FetchNext(f), ~Commit(f) PROVE UNCHANGED <<entry, bars, deletions>>
  BY <1>1 DEF FetchNext, FetchStep, Post, Refresh, LockStoredCollect, LockActiveEntry, UpsertEntry, Acknowledge,
     FetchDone, Finish, FinishFailed, Page, Abort, CancelLate, tables
<1>2. ASSUME NEW id \in Ids, ReaperDelete(id) PROVE Deleted(id)
  BY <1>2, CountInRange DEF ReaperDelete, Due, Deleted
<1>3. ASSUME NEW id \in Ids, OwnerDelete(id) PROVE Deleted(id)
  BY <1>3 DEF OwnerDelete, Deleted
<1>4. ASSUME OperatorDelete PROVE oper.id \in Ids /\ Deleted(oper.id)
  <2>1. OperatorWrites("delete") /\ oper.id \in Ids /\ oper.count \in 0..MaxPages
    BY <1>4 DEF OperatorDelete, OperatorWrites, OperOK, TasksOK
  <2>. QED
    BY <1>4, <2>1 DEF OperatorDelete, OperatorWrites, Deleted, fetchVars
<1>5. ASSUME OperatorSetExpiry PROVE oper.id \in Ids /\ Edited(oper.id)
  <2>1. OperatorWrites("expiry") /\ oper.id \in Ids
    BY <1>5 DEF OperatorSetExpiry, OperatorWrites, OperOK
  <2>2. [entry[oper.id] EXCEPT !.expiry = oper.expiry] \in Entry
    BY <2>1 DEF OperatorWrites, Live, TablesOK, TasksOK, Entry
  <2>. QED
    BY <1>5, <2>1, <2>2 DEF OperatorSetExpiry, OperatorWrites, Edited, fetchVars
<1>6. ASSUME OperatorSetCollecting PROVE oper.id \in Ids /\ Edited(oper.id)
  <2>1. OperatorWrites("collect") /\ oper.id \in Ids
    BY <1>6 DEF OperatorSetCollecting, OperatorWrites, OperOK
  <2>2. [entry[oper.id] EXCEPT !.collect = oper.collect] \in Entry
    BY <2>1 DEF OperatorWrites, Live, TablesOK, TasksOK, Entry
  <2>. QED
    BY <1>6, <2>1, <2>2 DEF OperatorSetCollecting, OperatorWrites, Edited, fetchVars
<1>7. ASSUME StartPass \/ StartReap \/ (\E id \in Ids: ReaperSkip(id)) \/ OperatorTooLate
             \/ Tick \/ Restart \/ UNCHANGED vars
      PROVE  UNCHANGED <<entry, bars, deletions>>
  BY <1>7 DEF StartPass, StartReap, ReaperSkip, OperatorTooLate, Tick, Restart, vars, tables
<1>8. ASSUME NEW op, NEW id, NEW e, NEW c, OperatorRead(op, id, e, c)
      PROVE  UNCHANGED <<entry, bars, deletions>>
  BY <1>8 DEF OperatorRead, tables
<1>9. CASE OperatorNext
  BY <1>4, <1>5, <1>6, <1>7, <1>8, <1>9 DEF OperatorNext, OperatorStep
<1>. QED
  BY <1>1, <1>2, <1>3, <1>7, <1>9 DEF Next, ReaperNext

-----------------------------------------------------------------------------
(* A fetch that has committed stays so *)

Past == {"stored", "failing", "closed"}

\* A transaction is marked done between its last page and its end only.
DoneInv ==
  \A f \in Fetches: /\ tx[f].done => phase[f] \in Past \cup {"served"}
                    /\ phase[f] \in {"served", "stored"} => tx[f].done

LEMMA PastStays ==
  ASSUME TypeInv, [Next]_vars, NEW f \in Fetches, phase[f] \in Past
  PROVE  phase'[f] \in Past
<1> USE DEF TypeInv, TypeOK, FetchesOK, Past
<1>1. ASSUME NEW g \in Fetches, FetchNext(g) PROVE phase'[f] \in Past
  <2>1. CASE (\E r \in Requests: Post(g, r)) \/ (\E r \in plan: Refresh(g, r))
    BY <2>1 DEF Post, Refresh, Begin
  <2>2. CASE LockStoredCollect(g) \/ LockActiveEntry(g) \/ UpsertEntry(g) \/ Acknowledge(g) \/ FetchDone(g)
    BY <2>2 DEF LockStoredCollect, LockActiveEntry, UpsertEntry, Acknowledge, FetchDone
  <2>3. CASE Commit(g) \/ Finish(g) \/ FinishFailed(g) \/ Abort(g) \/ CancelLate(g) \/ \E s \in Slots: Page(g, s)
    BY <2>3 DEF Commit, Finish, FinishFailed, Abort, CancelLate, Page
  <2>. QED
    BY <1>1, <2>1, <2>2, <2>3 DEF FetchNext, FetchStep
<1>2. CASE StartPass \/ Tick \/ UNCHANGED vars \/ \E id \in Ids: OwnerDelete(id)
  BY <1>2 DEF StartPass, Tick, vars, OwnerDelete, fetchVars
<1>3. CASE ReaperNext
  BY <1>3 DEF ReaperNext, StartReap, ReaperDelete, ReaperSkip, fetchVars
<1>4. CASE OperatorNext
  BY <1>4 DEF OperatorNext, OperatorStep, OperatorRead, OperatorTooLate, OperatorSetExpiry, OperatorSetCollecting,
     OperatorDelete, OperatorWrites, fetchVars
<1>5. CASE Restart
  BY <1>5 DEF Restart
<1>. QED
  BY <1>1, <1>2, <1>3, <1>4, <1>5 DEF Next

\* What each fetch step does to its own transaction, and to no other.
LEMMA DoneFetch ==
  ASSUME FetchesOK, DoneInv, NEW f \in Fetches, FetchNext(f)
  PROVE  DoneInv'
<1> USE DEF FetchesOK, Past
<1>1. tx[f] \in TxRows
  BY DEF TxRows
<1>2. ASSUME NEW p \in Phases, NEW row \in TxRows,
             phase' = [phase EXCEPT ![f] = p], tx' = [tx EXCEPT ![f] = row],
             row.done => p \in Past \cup {"served"}, p \in {"served", "stored"} => row.done
      PROVE  DoneInv'
  BY <1>2 DEF DoneInv
<1>3. ASSUME UNCHANGED tx, NEW p \in Phases, phase' = [phase EXCEPT ![f] = p],
             tx[f].done => p \in Past \cup {"served"}, p \in {"served", "stored"} => tx[f].done
      PROVE  DoneInv'
  BY <1>3 DEF DoneInv
<1>4. CASE (\E r \in Requests: Post(f, r)) \/ (\E r \in plan: Refresh(f, r))
  <2>1. phase[f] = "idle" /\ UNCHANGED tx /\ \E p \in {"failing", "fetching"}: phase' = [phase EXCEPT ![f] = p]
    BY <1>4 DEF Post, Refresh, Begin
  <2>. QED
    BY <1>3, <2>1 DEF DoneInv, Phases
<1>5. CASE LockStoredCollect(f) \/ LockActiveEntry(f)
  <2>1. PICK p \in {"dropped", "locked"}: phase' = [phase EXCEPT ![f] = p]
    BY <1>5 DEF LockStoredCollect, LockActiveEntry
  <2>2. ~tx[f].done
    BY <1>5 DEF LockStoredCollect, LockActiveEntry, DoneInv
  <2>3. \/ UNCHANGED tx
        \/ tx' = [tx EXCEPT ![f] = [tx[f] EXCEPT !.dropped = TRUE]]
        \/ \E id, c: tx' = [tx EXCEPT ![f] = OpenTx(id, c)]
    BY <1>5 DEF LockStoredCollect, LockActiveEntry
  <2>4. [tx[f] EXCEPT !.dropped = TRUE].done = tx[f].done
    BY <1>1 DEF TxRows
  <2>5. tx'[f].done = FALSE /\ \A g \in Fetches \ {f}: tx'[g] = tx[g]
    BY <1>1, <2>2, <2>3, <2>4 DEF TxRows
  <2>. QED
    BY <2>1, <2>5 DEF DoneInv
<1>6. CASE UpsertEntry(f)
  <2>1. PICK id \in Ids: tx' = [tx EXCEPT ![f].id = id]
    BY <1>6, RowsAreIds DEF UpsertEntry
  <2>2. [tx[f] EXCEPT !.id = id] \in TxRows /\ [tx[f] EXCEPT !.id = id].done = tx[f].done
    BY <1>1 DEF TxRows
  <2>3. phase[f] = "locked" /\ phase' = [phase EXCEPT ![f] = "upserted"] /\ ~tx[f].done
    BY <1>6 DEF UpsertEntry, DoneInv
  <2>. QED
    BY <1>2, <2>1, <2>2, <2>3 DEF Phases
<1>7. CASE \E s \in Slots: Page(f, s)
  <2>1. PICK s \in Slots: Page(f, s)
    BY <1>7
  <2> DEFINE row == [tx[f] EXCEPT !.written = @ \cup {s}]
  <2>2. row \in TxRows /\ row.done = tx[f].done
    BY <1>1 DEF TxRows
  <2>3. tx' = [tx EXCEPT ![f] = row] /\ phase[f] = "writing" /\ phase' = [phase EXCEPT ![f] = phase[f]]
    BY <2>1 DEF Page
  <2>4. ~tx[f].done
    BY <2>3 DEF DoneInv
  <2>. QED
    BY <1>2, <2>2, <2>3, <2>4 DEF Phases
<1>8. CASE FetchDone(f)
  <2> DEFINE row == [tx[f] EXCEPT !.done = TRUE]
  <2>1. row \in TxRows /\ row.done /\ tx' = [tx EXCEPT ![f] = row] /\ phase' = [phase EXCEPT ![f] = "served"]
    BY <1>1, <1>8 DEF FetchDone, TxRows
  <2>. QED
    BY <1>2, <2>1 DEF Phases
<1>9. CASE Acknowledge(f) \/ Commit(f) \/ Finish(f) \/ FinishFailed(f) \/ CancelLate(f)
  <2>1. CASE Acknowledge(f)
    BY <1>3, <2>1 DEF Acknowledge, DoneInv, Phases
  <2>2. CASE Commit(f)
    BY <1>3, <2>2 DEF Commit, DoneInv, Phases
  <2>3. CASE Finish(f) \/ FinishFailed(f) \/ CancelLate(f)
    BY <1>3, <2>3 DEF Finish, FinishFailed, CancelLate, Phases
  <2>. QED
    BY <1>9, <2>1, <2>2, <2>3
<1>10. CASE Abort(f)
  <2>1. NoTx \in TxRows
    BY DEF TxRows, Collects
  <2>. QED
    BY <1>2, <1>10, <2>1 DEF Abort, Phases
<1>. QED
  BY <1>4, <1>5, <1>6, <1>7, <1>8, <1>9, <1>10 DEF FetchNext, FetchStep

LEMMA DoneStep ==
  ASSUME TypeInv, DoneInv, [Next]_vars
  PROVE  DoneInv'
<1>1. CASE UNCHANGED <<phase, tx>>
  BY <1>1 DEF DoneInv
<1>2. CASE Restart
  <2>1. \A f \in Fetches: /\ phase'[f] = IF phase[f] = "idle" THEN "idle" ELSE "closed"
                          /\ tx'[f] = IF Committed(f) \/ tx[f].dropped THEN tx[f] ELSE NoTx
    BY <1>2 DEF Restart
  <2>. QED
    BY <2>1 DEF DoneInv, Committed, Past
<1>3. CASE \E f \in Fetches: FetchNext(f)
  BY <1>3, DoneFetch DEF TypeInv, TypeOK
<1>. QED
  BY <1>1, <1>2, <1>3 DEF Next, StartPass, Tick, OwnerDelete, ReaperNext, StartReap, ReaperDelete, ReaperSkip, OperatorNext,
     OperatorStep, OperatorRead, OperatorTooLate, OperatorSetExpiry, OperatorSetCollecting, OperatorDelete,
     OperatorWrites, fetchVars, vars

\* Once a fetch has committed, its record of what it wrote does not change.
LEMMA CommittedStays ==
  ASSUME TypeInv, DoneInv, [Next]_vars, NEW f \in Fetches, Committed(f)
  PROVE  Committed(f)' /\ tx'[f] = tx[f]
<1>1. phase[f] \in Past /\ phase'[f] \in Past
  BY PastStays DEF Committed, DoneInv
<1>2. tx'[f] = tx[f]
  <2>1. ASSUME NEW g \in Fetches, FetchNext(g) PROVE tx'[f] = tx[f]
    <3> USE <1>1 DEF Past, TypeInv, TypeOK, FetchesOK
    <3>1. CASE LockStoredCollect(g) \/ LockActiveEntry(g) \/ UpsertEntry(g) \/ FetchDone(g) \/ Abort(g)
      BY <3>1 DEF LockStoredCollect, LockActiveEntry, UpsertEntry, FetchDone, Abort
    <3>2. CASE \E s \in Slots: Page(g, s)
      BY <3>2 DEF Page
    <3>. QED
      BY <2>1, <3>1, <3>2 DEF FetchNext, FetchStep, Post, Refresh, Acknowledge, Commit, Finish, FinishFailed, CancelLate
  <2>2. CASE Restart
    BY <2>2 DEF Restart
  <2>3. CASE UNCHANGED tx
    BY <2>3
  <2>. QED
    BY <2>1, <2>2, <2>3 DEF Next, StartPass, Tick, OwnerDelete, ReaperNext, StartReap, ReaperDelete, ReaperSkip,
       OperatorNext, OperatorStep, OperatorRead, OperatorTooLate, OperatorSetExpiry, OperatorSetCollecting,
       OperatorDelete, OperatorWrites, fetchVars, vars
<1>. QED
  BY <1>1, <1>2 DEF Committed, Past

-----------------------------------------------------------------------------
(* All or nothing *)

\* A bar in the table, and the committed fetch it came from.
BarOf(id, s, f) ==
  /\ Live(id) /\ Committed(f) /\ tx[f].id = id
  /\ s \in tx[f].written
  /\ \A t \in tx[f].written: bars[id][t] # NoBar

LEMMA BarsCommit ==
  ASSUME TypeInv, LockInv, DoneInv, AllOrNothing, NEW f \in Fetches, Commit(f)
  PROVE  AllOrNothing'
<1> USE DEF TypeInv, TypeOK
<1> DEFINE id == tx[f].id
           kept == [s \in Slots |-> IF s \in tx[f].written THEN f ELSE bars[id][s]]
<1>1. id \in Ids /\ tx[f].done /\ tx[f].written \subseteq Slots /\ phase[f] = "served"
  BY DEF Commit, InFlightOK, DoneInv, FetchesOK
<1>2. entry' = [entry EXCEPT ![id] = UpsertedRow(f)] /\ bars' = [bars EXCEPT ![id] = kept] /\ UNCHANGED tx
  BY DEF Commit
<1>3. UpsertedRow(f) # NoEntry
  BY <1>1, UpsertedRowType, NullsAssumption DEF InFlightOK
<1>4. Committed(f)' /\ \A g \in Fetches: Committed(g) => Committed(g)'
  BY <1>1 DEF Commit, Committed, FetchesOK
<1> HIDE DEF id
<1>5. \A a \in Ids: (Live(a) \/ a = id) => entry'[a] # NoEntry
  BY <1>1, <1>2, <1>3 DEF TablesOK, Live
<1>6. bars'[id] = kept /\ \A a \in Ids: a # id => bars'[a] = bars[a]
  BY <1>1, <1>2 DEF TablesOK
<1>7. NoBar # f
  BY IdsAssumption
<1>8. \A a \in Ids, t \in Slots: bars[a][t] # NoBar => bars'[a][t] # NoBar
  BY <1>6, <1>7
<1>9. tx[f].id = id
  BY DEF id
<1>10. \A g \in Fetches: tx[g].written \subseteq Slots
  BY DEF FetchesOK
<1>11. ASSUME NEW a \in Ids, NEW s \in Slots, NEW g \in Fetches, bars'[a][s] = g
       PROVE  BarOf(a, s, g)'
  <2>1. CASE a = id /\ s \in tx[f].written
    <3>1. g = f /\ \A t \in tx[f].written: bars'[a][t] = f
      BY <1>1, <1>6, <1>11, <2>1
    <3>2. Live(a)'
      BY <1>5, <2>1 DEF Live
    <3>3. Committed(f)' /\ tx' = tx
      BY <1>2, <1>4
    <3>. QED
      BY <1>7, <1>9, <2>1, <3>1, <3>2, <3>3 DEF BarOf
  <2>2. CASE ~(a = id /\ s \in tx[f].written)
    <3>1. bars[a][s] = g /\ g # NoBar
      BY <1>6, <1>11, <2>2, IdsAssumption
    <3>2. BarOf(a, s, g)
      BY <3>1 DEF AllOrNothing, BarOf
    <3>3. Live(a)' /\ Committed(g)' /\ tx' = tx
      BY <1>2, <1>4, <1>5, <3>2 DEF BarOf, Live
    <3>4. \A t \in tx[g].written: bars'[a][t] # NoBar
      BY <1>8, <1>10, <3>2 DEF BarOf
    <3>. QED
      BY <3>2, <3>3, <3>4 DEF BarOf
  <2>. QED
    BY <2>1, <2>2
<1>12. ASSUME NEW a \in Ids, NEW s \in Slots, bars'[a][s] # NoBar PROVE bars'[a][s] \in Fetches
  BY <1>6, <1>12 DEF TablesOK
<1>. QED
  BY <1>11, <1>12 DEF AllOrNothing, BarOf

\* Every other step keeps the bars of the rows it keeps.
LEMMA BarsStep ==
  ASSUME TypeInv, LockInv, DoneInv, AllOrNothing, [Next]_vars
  PROVE  AllOrNothing'
<1>1. ASSUME NEW a \in Ids, NEW s \in Slots, NEW g \in Fetches, BarOf(a, s, g), Live(a)', bars'[a] = bars[a]
      PROVE  BarOf(a, s, g)'
  <2>1. Committed(g)' /\ tx'[g] = tx[g]
    BY <1>1, CommittedStays DEF BarOf
  <2>. QED
    BY <1>1, <2>1 DEF BarOf
<1>2. ASSUME \A a \in Ids: bars'[a] = NoBars \/ (bars'[a] = bars[a] /\ (Live(a) => Live(a)'))
      PROVE  AllOrNothing'
  <2> SUFFICES ASSUME NEW a \in Ids, NEW s \in Slots, bars'[a][s] # NoBar
               PROVE  \E g \in Fetches: bars'[a][s] = g /\ BarOf(a, s, g)'
    BY DEF AllOrNothing, BarOf
  <2>1. bars'[a] = bars[a] /\ (Live(a) => Live(a)')
    BY <1>2 DEF NoBars
  <2>2. PICK g \in Fetches: g = bars[a][s]
    BY <2>1 DEF TypeInv, TypeOK, TablesOK
  <2>3. BarOf(a, s, g)
    BY <2>1, <2>2 DEF AllOrNothing, BarOf
  <2>4. Live(a)'
    BY <2>1, <2>3 DEF BarOf
  <2>. QED
    BY <1>1, <2>1, <2>2, <2>3, <2>4
<1>3. ASSUME NEW id \in Ids, Deleted(id) PROVE AllOrNothing'
  <2>1. bars'[id] = NoBars /\ \A a \in Ids \ {id}: bars'[a] = bars[a] /\ entry'[a] = entry[a]
    BY <1>3 DEF Deleted, DeleteEntryRow, TypeInv, TypeOK, TablesOK
  <2>. QED
    BY <1>2, <2>1 DEF Live
<1>4. ASSUME NEW id \in Ids, Edited(id) PROVE AllOrNothing'
  <2>1. \A a \in Ids: Live(a) => Live(a)'
    BY <1>4, NullsAssumption DEF Edited, Live, TypeInv, TypeOK, TablesOK
  <2>. QED
    BY <1>2, <1>4, <2>1 DEF Edited
<1>5. CASE UNCHANGED <<entry, bars, deletions>>
  BY <1>2, <1>5 DEF Live
<1>. QED
  BY <1>3, <1>4, <1>5, BarsCommit, TableSteps

\* A fetch's bars are stored together or not at all, and only with a dataset
\* that is there, through concurrent deletes, aborts and restarts.
THEOREM FetchesAllOrNothing == Spec => []AllOrNothing
<1>1. Init => StoreInv /\ DoneInv /\ AllOrNothing
  <2>1. Init => DoneInv
    BY DEF Init, DoneInv
  <2>2. Init => AllOrNothing
    BY DEF Init, AllOrNothing, NoBars
  <2>. QED
    BY <2>1, <2>2, StoreInvInit
<1>2. StoreInv /\ DoneInv /\ AllOrNothing /\ [Next]_vars => StoreInv' /\ DoneInv' /\ AllOrNothing'
  BY StoreInvStep, DoneStep, BarsStep DEF StoreInv
<1>. QED
  BY <1>1, <1>2, PTL DEF Spec

-----------------------------------------------------------------------------
(* One deletion per dataset *)

\* What the deletion record names is gone, and cannot come back: an id that a
\* fetch would still insert is not there yet.
DeletionInv ==
  \A d \in deletions:
    /\ ~Live(d.id)
    /\ d.id \in Fetches => phase[d.id] \in Past
    /\ \A e \in deletions: d.id = e.id => d = e

\* A row appears by the commit of the fetch that minted its id.
LEMMA RowsAppear ==
  ASSUME TypeInv, LockInv, [Next]_vars, NEW id \in Ids, ~Live(id), Live(id)'
  PROVE  id \in Fetches /\ phase[id] = "served"
<1> USE DEF TypeInv, TypeOK, TablesOK
<1>1. ASSUME NEW f \in Fetches, Commit(f) PROVE id \in Fetches /\ phase[id] = "served"
  <2>1. tx[f].id = id
    BY <1>1 DEF Commit, Live
  <2>2. Holding(f) /\ phase[f] = "served"
    BY <1>1 DEF Commit, Holding
  <2>. QED
    BY <2>1, <2>2 DEF LockInv, Targets, Named
<1>2. ASSUME NEW a \in Ids, Deleted(a) \/ Edited(a) PROVE FALSE
  BY <1>2 DEF Deleted, DeleteEntryRow, Edited, Live
<1>. QED
  BY <1>1, <1>2, TableSteps DEF Live

LEMMA DeletionStep ==
  ASSUME TypeInv, LockInv, DeletionInv, [Next]_vars
  PROVE  DeletionInv'
<1>1. \A d \in deletions: ~Live(d.id)' /\ (d.id \in Fetches => phase'[d.id] \in Past)
  <2> SUFFICES ASSUME NEW d \in deletions
               PROVE  ~Live(d.id)' /\ (d.id \in Fetches => phase'[d.id] \in Past)
    OBVIOUS
  <2>1. PICK id \in Ids: id = d.id
    BY DEF TypeInv, TypeOK, TablesOK
  <2>2. ~Live(id) /\ (id \in Fetches => phase[id] \in Past)
    BY <2>1 DEF DeletionInv
  <2>3. ~Live(id)' /\ (id \in Fetches => phase'[id] \in Past)
    BY <2>2, RowsAppear, PastStays DEF Past
  <2>. QED
    BY <2>1, <2>3
<1>2. CASE UNCHANGED deletions
  BY <1>1, <1>2 DEF DeletionInv
<1>3. ASSUME NEW id \in Ids, Deleted(id), NEW n \in 0..MaxPages, NEW c, RecordDeletion(id, n, c)
      PROVE  DeletionInv'
  <2>1. ~Live(id)' /\ Live(id)
    BY <1>3 DEF Deleted, DeleteEntryRow, Live, TypeInv, TypeOK, TablesOK
  <2>2. id \in Fetches => phase'[id] \in Past
    BY <2>1, PastStays DEF LockInv, FreshIds, Past
  <2>3. \A d \in deletions: d.id # id
    BY <2>1 DEF DeletionInv
  <2>. QED
    BY <1>1, <1>3, <2>1, <2>2, <2>3 DEF DeletionInv, RecordDeletion
<1>. QED
  BY <1>2, <1>3, TableSteps DEF Deleted, Edited, Commit

\* However many writers race to delete a dataset, its deletion is recorded
\* once, and only if it went.
THEOREM DeletionsRecordedOnce == Spec => []OneRecordPerDeletion
<1>1. Init => StoreInv /\ DeletionInv
  BY StoreInvInit DEF Init, DeletionInv
<1>2. StoreInv /\ DeletionInv /\ [Next]_vars => StoreInv' /\ DeletionInv'
  BY StoreInvStep, DeletionStep DEF StoreInv
<1>3. DeletionInv => OneRecordPerDeletion
  BY DEF DeletionInv, OneRecordPerDeletion
<1>. QED
  BY <1>1, <1>2, <1>3, PTL DEF Spec

-----------------------------------------------------------------------------
(* What the reaper spares *)

\* A pass judges expiry at an instant that has passed.
ReapInv == reap.now <= clock

LEMMA ReapStep ==
  ASSUME TypeInv, ReapInv, [Next]_vars
  PROVE  ReapInv'
<1> USE DEF TypeInv, TypeOK, TasksOK
<1>1. reap.now \in Nat /\ clock \in Nat
  BY BoundsAssumption
<1>2. ASSUME NEW id \in Ids PROVE Reaped(id).now \in {0, reap.now}
  BY DEF Reaped, NoReap
<1>3. CASE UNCHANGED <<reap, clock>>
  BY <1>3 DEF ReapInv
<1>4. CASE Tick
  BY <1>1, <1>4 DEF Tick, ReapInv
<1>5. CASE ReaperNext
  <2>1. CASE StartReap
    BY <1>1, <2>1 DEF StartReap, ReapInv
  <2>2. ASSUME NEW id \in Ids, ReaperDelete(id) \/ ReaperSkip(id) PROVE ReapInv'
    BY <1>1, <1>2, <2>2 DEF ReaperDelete, ReaperSkip, ReapInv
  <2>. QED
    BY <1>5, <2>1, <2>2 DEF ReaperNext
<1>6. CASE Restart
  BY <1>1, <1>6 DEF Restart, NoReap, ReapInv
<1>. QED
  BY <1>3, <1>4, <1>5, <1>6 DEF Next, FetchNext, FetchStep, Post, Refresh, LockStoredCollect, LockActiveEntry, UpsertEntry,
     Acknowledge, FetchDone, Commit, Finish, FinishFailed, Page, Abort, CancelLate, StartPass, OwnerDelete, OperatorNext,
     OperatorStep, OperatorRead, OperatorTooLate, OperatorSetExpiry, OperatorSetCollecting, OperatorDelete,
     OperatorWrites, vars

\* A deletion in the reaper's name is the reaper's.
LEMMA ReaperRecords ==
  ASSUME [Next]_vars, NEW d \in deletions' \ deletions, d.cause = "REAPER"
  PROVE  \E id \in Ids: ReaperDelete(id) /\ d.id = id /\ d.bars = CountOf(id)
<1>1. CASE \E id \in Ids: ReaperDelete(id)
  BY <1>1 DEF ReaperDelete, RecordDeletion
<1>2. CASE OperatorDelete
  BY <1>2 DEF OperatorDelete, RecordDeletion
<1>. QED
  BY <1>1, <1>2 DEF Next, FetchNext, FetchStep, Post, Refresh, LockStoredCollect, LockActiveEntry, UpsertEntry, Acknowledge,
     FetchDone, Commit, Finish, FinishFailed, Page, Abort, CancelLate, StartPass, ReaperNext, StartReap, ReaperSkip,
     OwnerDelete, OperatorNext, OperatorStep, OperatorRead, OperatorTooLate, OperatorSetExpiry, OperatorSetCollecting,
     Tick, Restart, tables, vars

\* The reaper deletes only a dataset whose present expiry has passed, that no
\* acknowledged run and no open transaction is working on, and records exactly
\* the bars that go.
THEOREM ReaperTakesOnlyTheExpired == Spec => ReaperSpares
<1> DEFINE Spared == \A d \in deletions' \ deletions: d.cause = "REAPER" =>
             /\ Due(d.id, clock)
             /\ \A f \in Fetches: ~(run[f].state = "RUNNING" /\ run[f].dataset = d.id)
             /\ \A f \in Fetches: phase[f] \in {"upserted", "writing", "served"} => tx[f].id # d.id
             /\ d.bars = CountOf(d.id)
<1>1. Init => StoreInv /\ ReapInv
  <2>1. ASSUME Init PROVE ReapInv
    <3>1. reap.now = 0 /\ clock = 0
      BY <2>1 DEF Init, NoReap
    <3>. QED
      BY <3>1 DEF ReapInv
  <2>. QED
    BY <2>1, StoreInvInit
<1>2. StoreInv /\ ReapInv /\ [Next]_vars => StoreInv' /\ ReapInv'
  BY StoreInvStep, ReapStep DEF StoreInv
<1>3. StoreInv /\ ReapInv /\ [Next]_vars => Spared
  <2> SUFFICES ASSUME StoreInv, ReapInv, [Next]_vars, NEW d \in deletions' \ deletions, d.cause = "REAPER"
               PROVE  /\ Due(d.id, clock)
                      /\ \A f \in Fetches: ~(run[f].state = "RUNNING" /\ run[f].dataset = d.id)
                      /\ \A f \in Fetches: phase[f] \in {"upserted", "writing", "served"} => tx[f].id # d.id
                      /\ d.bars = CountOf(d.id)
    OBVIOUS
  <2> USE DEF StoreInv, TypeInv, TypeOK
  <2>1. PICK id \in Ids: ReaperDelete(id) /\ d.id = id /\ d.bars = CountOf(id)
    BY ReaperRecords
  <2>2. Due(id, clock)
    <3>1. Due(id, reap.now) /\ reap.now \in Nat /\ clock \in Nat
      BY <2>1, BoundsAssumption DEF ReaperDelete, TasksOK
    <3>2. Live(id) /\ entry[id].expiry # NoExpiry /\ entry[id].expiry \in Expiries
      BY <3>1 DEF Due, Live, TablesOK, Entry
    <3>3. entry[id].expiry \in Nat
      BY <3>2, BoundsAssumption DEF Expiries
    <3>. QED
      BY <3>1, <3>2, <3>3 DEF Due, ReapInv
  <2>3. \A f \in Fetches: ~(run[f].state = "RUNNING" /\ run[f].dataset = id)
    BY <2>1 DEF ReaperDelete, HasRunningRun
  <2>4. ASSUME NEW f \in Fetches, phase[f] \in {"upserted", "writing", "served"} PROVE tx[f].id # id
    <3>1. Holds(f, request[f].identity) /\ Holding(f)
      BY <2>4 DEF Holds, Holding
    <3>2. request[f].identity # entry[id].identity
      BY <2>1, <3>1 DEF ReaperDelete, Unlocked
    <3>3. Live(id)
      BY <2>1 DEF ReaperDelete, Due
    <3>. QED
      BY <3>1, <3>2, <3>3 DEF LockInv, Targets, Named
  <2>. QED
    BY <2>1, <2>2, <2>3, <2>4
<1>. QED
  BY <1>1, <1>2, <1>3, PTL DEF Spec, ReaperSpares

-----------------------------------------------------------------------------
(* What a scheduled refresh honours *)

\* From its ack to its commit a refresh works on a stored dataset whose
\* collection is not stopped.
Active(f) == /\ tx[f].id # NoId
             /\ Named(tx[f].id, request[f].identity)
             /\ entry[tx[f].id].collect # "off"

RefreshInv ==
  \A f \in Fetches:
    phase[f] \in {"locked", "upserted", "writing", "served"} /\ request[f].kind = "refresh" => Active(f)

\* Its own commit apart, nothing changes a row a fetch holds.
LEMMA HeldRowKept ==
  ASSUME TypeInv, LockInv, [Next]_vars, NEW f \in Fetches, ~Commit(f),
         Holding(f), Named(tx[f].id, request[f].identity)
  PROVE  entry'[tx[f].id] = entry[tx[f].id]
<1> USE DEF TypeInv, TypeOK, TablesOK
<1>1. ASSUME NEW id \in Ids, Unlocked(entry[id].identity) PROVE id # tx[f].id
  BY <1>1 DEF Unlocked, Holds, Holding, Named
<1>2. ASSUME NEW g \in Fetches, Commit(g) PROVE entry'[tx[f].id] = entry[tx[f].id]
  <2>1. g # f /\ Holding(g)
    BY <1>2 DEF Commit, Holding
  <2>2. request[g].identity # request[f].identity
    BY <2>1 DEF LockInv, Exclusive
  <2>3. tx[g].id # tx[f].id
    BY <2>1, <2>2 DEF LockInv, Targets, Named
  <2>. QED
    BY <1>2, <2>3 DEF Commit
<1>3. ASSUME NEW id \in Ids, Deleted(id) \/ Edited(id) PROVE entry'[tx[f].id] = entry[tx[f].id]
  <2>1. id # tx[f].id
    BY <1>1, <1>3 DEF Deleted, Edited
  <2>2. tx[f].id \in Ids
    BY DEF Holding, InFlightOK, FetchesOK
  <2>3. \E row: entry' = [entry EXCEPT ![id] = row]
    BY <1>3 DEF Deleted, DeleteEntryRow, Edited
  <2>. QED
    BY <2>1, <2>2, <2>3
<1>. QED
  BY <1>2, <1>3, TableSteps

\* The steps of other actors leave a fetch where it stands.
LEMMA OthersKeep ==
  ASSUME FetchesOK, [Next]_vars, NEW f \in Fetches, ~FetchNext(f), ~Restart
  PROVE  phase'[f] = phase[f] /\ tx'[f] = tx[f] /\ request'[f] = request[f]
<1>1. ASSUME NEW g \in Fetches, g # f, FetchNext(g)
      PROVE  phase'[f] = phase[f] /\ tx'[f] = tx[f] /\ request'[f] = request[f]
  <2> USE DEF FetchesOK
  <2>1. CASE (\E r \in Requests: Post(g, r)) \/ (\E r \in plan: Refresh(g, r))
    BY <1>1, <2>1 DEF Post, Refresh, Begin
  <2>2. CASE LockStoredCollect(g) \/ LockActiveEntry(g) \/ UpsertEntry(g) \/ Acknowledge(g) \/ FetchDone(g)
    BY <1>1, <2>2 DEF LockStoredCollect, LockActiveEntry, UpsertEntry, Acknowledge, FetchDone
  <2>3. CASE Commit(g) \/ Finish(g) \/ FinishFailed(g) \/ Abort(g) \/ CancelLate(g) \/ \E s \in Slots: Page(g, s)
    BY <1>1, <2>3 DEF Commit, Finish, FinishFailed, Abort, CancelLate, Page
  <2>. QED
    BY <1>1, <2>1, <2>2, <2>3 DEF FetchNext, FetchStep
<1>2. CASE UNCHANGED <<phase, tx, request>>
  BY <1>2
<1>. QED
  BY <1>1, <1>2 DEF Next, StartPass, Tick, OwnerDelete, ReaperNext, StartReap, ReaperDelete, ReaperSkip, OperatorNext,
     OperatorStep, OperatorRead, OperatorTooLate, OperatorSetExpiry, OperatorSetCollecting, OperatorDelete,
     OperatorWrites, fetchVars, vars

LEMMA RefreshStep ==
  ASSUME TypeInv, LockInv, RefreshInv, [Next]_vars
  PROVE  RefreshInv'
<1> USE DEF TypeInv, TypeOK
<1> SUFFICES ASSUME NEW f \in Fetches, phase'[f] \in {"locked", "upserted", "writing", "served"},
                    request'[f].kind = "refresh"
             PROVE  Active(f)'
  BY DEF RefreshInv
\* A row it already holds is kept, and so is what the fetch knows of it.
<1>1. ASSUME phase[f] \in {"locked", "upserted", "writing", "served"}, request[f].kind = "refresh", ~Commit(f)
      PROVE  tx[f].id # NoId /\ Active(f) /\ entry'[tx[f].id] = entry[tx[f].id]
  <2>1. Active(f)
    BY <1>1 DEF RefreshInv
  <2>2. Holding(f) /\ Named(tx[f].id, request[f].identity)
    BY <1>1, <2>1 DEF Active, Holding
  <2>. QED
    BY <1>1, <2>1, <2>2, HeldRowKept DEF Active
<1>2. ASSUME Active(f), entry'[tx[f].id] = entry[tx[f].id], tx'[f].id = tx[f].id, request'[f] = request[f]
      PROVE  Active(f)'
  BY <1>2 DEF Active, Named, Live
<1>3. ASSUME tx'[f].id = tx[f].id, request'[f] = request[f], ~Commit(f),
             phase[f] \in {"locked", "upserted", "writing", "served"}
      PROVE  Active(f)'
  BY <1>1, <1>2, <1>3
<1>4. CASE ~FetchNext(f)
  <2>1. ~Restart
    BY DEF Restart
  <2>2. ~Commit(f)
    BY <1>4 DEF FetchNext, FetchStep
  <2>. QED
    BY <1>3, <1>4, <2>1, <2>2, OthersKeep
<1>5. CASE (\E r \in Requests: Post(f, r)) \/ (\E r \in plan: Refresh(f, r))
           \/ Commit(f) \/ Finish(f) \/ FinishFailed(f) \/ Abort(f) \/ CancelLate(f)
  <2>1. phase'[f] \notin {"locked", "upserted", "writing", "served"}
    BY <1>5 DEF Post, Refresh, Begin, Commit, Finish, FinishFailed, Abort, CancelLate, FetchesOK
  <2>. QED
    BY <2>1
<1>6. CASE LockStoredCollect(f)
  BY <1>6 DEF LockStoredCollect
<1>7. CASE LockActiveEntry(f)
  <2>1. PICK id \in RowsOf(request[f].identity):
          entry[id].collect # "off" /\ tx' = [tx EXCEPT ![f] = OpenTx(id, "none")]
    BY <1>7 DEF LockActiveEntry, FetchesOK
  <2>2. tx'[f].id = id /\ id # NoId /\ UNCHANGED <<entry, request>>
    BY <1>7, <2>1, IdsAssumption DEF LockActiveEntry, tables, FetchesOK, RowsOf
  <2>. QED
    BY <2>1, <2>2 DEF Active, Named, RowsOf, Live
<1>8. CASE UpsertEntry(f)
  <2>1. phase[f] = "locked" /\ ~Commit(f) /\ request'[f] = request[f]
    BY <1>8 DEF UpsertEntry, Commit
  <2>2. Active(f) /\ RowsOf(request[f].identity) = {tx[f].id}
    <3>1. Active(f) /\ tx[f].id \in Ids
      BY <1>1, <2>1 DEF Active, FetchesOK
    <3>. QED
      BY <3>1 DEF Active, Named, RowsOf, LockInv, UniqueKeys
  <2>3. tx'[f].id = tx[f].id
    BY <1>8, <2>2 DEF UpsertEntry, FetchesOK
  <2>. QED
    BY <1>3, <2>1, <2>3
<1>9. CASE Acknowledge(f) \/ FetchDone(f) \/ \E s \in Slots: Page(f, s)
  <2>1. phase[f] \in {"upserted", "writing"} /\ ~Commit(f) /\ request'[f] = request[f]
    BY <1>9 DEF Acknowledge, FetchDone, Page, Commit
  <2>2. tx'[f].id = tx[f].id
    BY <1>9 DEF Acknowledge, FetchDone, Page, FetchesOK
  <2>. QED
    BY <1>3, <2>1, <2>2
<1>. QED
  BY <1>4, <1>5, <1>6, <1>7, <1>8, <1>9 DEF FetchNext, FetchStep

\* A refresh adds bars to a dataset that is still there and still collected,
\* and leaves its row as the operator and its owner have it.
THEOREM RefreshLeavesRowsAlone == Spec => RefreshHonoursStop
<1> DEFINE Honoured == \A f \in Fetches:
             phase[f] = "served" /\ phase'[f] = "stored" /\ request[f].kind = "refresh" =>
               Live(tx[f].id) /\ entry[tx[f].id].collect # "off" /\ UNCHANGED entry
<1>1. Init => StoreInv /\ RefreshInv
  BY StoreInvInit DEF Init, RefreshInv
<1>2. StoreInv /\ RefreshInv /\ [Next]_vars => StoreInv' /\ RefreshInv'
  BY StoreInvStep, RefreshStep DEF StoreInv
<1>3. StoreInv /\ RefreshInv /\ [Next]_vars => Honoured
  <2> SUFFICES ASSUME StoreInv, RefreshInv, [Next]_vars, NEW f \in Fetches,
                      phase[f] = "served", phase'[f] = "stored", request[f].kind = "refresh"
               PROVE  Live(tx[f].id) /\ entry[tx[f].id].collect # "off" /\ UNCHANGED entry
    OBVIOUS
  <2> USE DEF StoreInv, TypeInv, TypeOK
  <2>1. Live(tx[f].id) /\ entry[tx[f].id].collect # "off"
    BY DEF RefreshInv, Active, Named
  <2>2. FetchNext(f)
    <3>1. ~Restart
      BY DEF Restart
    <3>. QED
      BY <3>1, OthersKeep
  <2>3. Commit(f)
    BY <2>2 DEF FetchNext, FetchStep, Post, Refresh, Begin, LockStoredCollect, LockActiveEntry, UpsertEntry, Acknowledge,
       FetchDone, Finish, FinishFailed, Page, Abort, CancelLate, FetchesOK
  <2>4. UpsertedRow(f) = entry[tx[f].id]
    BY <2>1 DEF UpsertedRow
  <2>5. entry' = [entry EXCEPT ![tx[f].id] = entry[tx[f].id]]
    BY <2>3, <2>4 DEF Commit
  <2>. QED
    BY <2>1, <2>5 DEF TablesOK
<1>. QED
  BY <1>1, <1>2, <1>3, PTL DEF Spec, RefreshHonoursStop

-----------------------------------------------------------------------------
(* A recorded run is true to its fetch: recordings that fail, cancellations *)
(* after the commit, restarts and their sweep                               *)

Reported == {"SUCCEEDED", "EMPTY"}

\* A fetch in phase p, whose run row is r and whose transaction is t.  An
\* outcome is recorded when the transaction is over; until its ack a run names
\* no dataset, and from then on the one the transaction works on.
RunFits(p, r, t) ==
  /\ r.state \in Reported => p \in {"failing", "closed"}
  /\ p \in {"idle", "fetching", "locked", "upserted", "dropped"} => r.dataset = NoId
  /\ p \in {"writing", "served", "stored"} => r.dataset \in {NoId, t.id}
  /\ p = "dropped" => t.written = {} /\ t.dropped
  /\ r.state = "SUCCEEDED" => t.done /\ t.written # {}
  /\ r.state = "EMPTY" => t.written = {} /\ (t.done \/ t.dropped)
  /\ r.state \in Reported /\ r.dataset # NoId => t.done /\ r.dataset = t.id

RunInv == \A f \in Fetches: RunFits(phase[f], run[f], tx[f])

LEMMA RunInvInit == Init => RunInv
BY DEF Init, RunInv, RunFits, NoRun, Reported

\* A fetch moves, and no other fetch's run, phase or transaction does.
LEMMA OneMoves ==
  ASSUME FetchesOK, RunInv, NEW f \in Fetches,
         NEW p, NEW r, NEW t,
         phase' = [phase EXCEPT ![f] = p], run' = [run EXCEPT ![f] = r], tx' = [tx EXCEPT ![f] = t],
         RunFits(p, r, t)
  PROVE  RunInv'
<1>1. phase'[f] = p /\ run'[f] = r /\ tx'[f] = t
  BY DEF FetchesOK
<1>2. \A g \in Fetches \ {f}: phase'[g] = phase[g] /\ run'[g] = run[g] /\ tx'[g] = tx[g]
  BY DEF FetchesOK
<1>. QED
  BY <1>1, <1>2 DEF RunInv

\* What a recording leaves in a fetch's run: the row, or what was there.
LEMMA RecordedRow ==
  ASSUME FetchesOK, NEW f \in Fetches, NEW row, Recorded(f, row)
  PROVE  \E r \in {run[f], row}: run' = [run EXCEPT ![f] = r] /\ (r = run[f] \/ run[f].state # "none")
BY DEF FetchesOK, Recorded

\* The outcome a committed or dropped fetch is given.
LEMMA OutcomeFits ==
  ASSUME FetchesOK, DoneInv, RunInv, NEW f \in Fetches, phase[f] \in {"stored", "dropped"},
         NEW r \in {run[f], OutcomeRow(f)}, NEW p \in {"failing", "closed"}
  PROVE  RunFits(p, r, tx[f])
<1>1. phase[f] = "stored" => tx[f].done
  BY DEF DoneInv
<1>2. RunFits(phase[f], run[f], tx[f])
  BY DEF RunInv
<1>3. OutcomeRow(f).state = (IF tx[f].written = {} THEN "EMPTY" ELSE "SUCCEEDED")
      /\ OutcomeRow(f).dataset = run[f].dataset
  BY DEF OutcomeRow, FetchesOK
<1>. QED
  BY <1>1, <1>2, <1>3 DEF RunFits, Reported

LEMMA RunFetch ==
  ASSUME FetchesOK, LockInv, DoneInv, RunInv, NEW f \in Fetches, FetchNext(f)
  PROVE  RunInv'
<1> USE DEF FetchesOK
<1>0. /\ RunFits(phase[f], run[f], tx[f])
      /\ run = [run EXCEPT ![f] = run[f]] /\ tx = [tx EXCEPT ![f] = tx[f]]
      /\ phase = [phase EXCEPT ![f] = phase[f]]
  BY DEF RunInv
<1>1. CASE (\E r \in Requests: Post(f, r)) \/ (\E r \in plan: Refresh(f, r))
  <2>1. PICK p \in {"failing", "fetching"}, r \in {run[f], [state |-> "RUNNING", dataset |-> NoId]}:
          phase' = [phase EXCEPT ![f] = p] /\ run' = [run EXCEPT ![f] = r]
    BY <1>0, <1>1 DEF Post, Refresh, Begin
  <2>2. phase[f] = "idle" /\ UNCHANGED tx
    BY <1>1 DEF Post, Refresh, Begin
  <2>3. RunFits(p, r, tx[f])
    BY <1>0, <2>1, <2>2 DEF RunFits, Reported
  <2>. QED
    BY <1>0, <2>1, <2>2, <2>3, OneMoves
<1>2. CASE LockStoredCollect(f) \/ LockActiveEntry(f)
  <2> DEFINE row == [NoTx EXCEPT !.dropped = TRUE]
  <2>1. phase[f] = "fetching" /\ tx[f] = NoTx /\ UNCHANGED run
    BY <1>2 DEF LockStoredCollect, LockActiveEntry, LockInv, Unopened
  <2>2. tx' = [tx EXCEPT ![f].dropped = TRUE] => tx' = [tx EXCEPT ![f] = row]
    BY <2>1
  <2>3. \/ phase' = [phase EXCEPT ![f] = "locked"] /\ UNCHANGED tx
        \/ phase' = [phase EXCEPT ![f] = "locked"] /\ \E id, c: tx' = [tx EXCEPT ![f] = OpenTx(id, c)]
        \/ phase' = [phase EXCEPT ![f] = "dropped"] /\ tx' = [tx EXCEPT ![f] = row]
    BY <1>2, <2>2 DEF LockStoredCollect, LockActiveEntry
  <2>4. CASE phase' = [phase EXCEPT ![f] = "locked"] /\ UNCHANGED tx
    <3>1. RunFits("locked", run[f], tx[f])
      BY <1>0, <2>1 DEF RunFits, Reported
    <3>2. tx' = [tx EXCEPT ![f] = tx[f]] /\ run' = [run EXCEPT ![f] = run[f]]
      BY <1>0, <2>1, <2>4
    <3>. QED
      BY <2>4, <3>1, <3>2, OneMoves
  <2>5. ASSUME NEW id, NEW c, phase' = [phase EXCEPT ![f] = "locked"], tx' = [tx EXCEPT ![f] = OpenTx(id, c)]
        PROVE  RunInv'
    <3>1. RunFits("locked", run[f], OpenTx(id, c))
      BY <1>0, <2>1 DEF RunFits, Reported
    <3>. QED
      BY <1>0, <2>1, <2>5, <3>1, OneMoves
  <2>6. CASE phase' = [phase EXCEPT ![f] = "dropped"] /\ tx' = [tx EXCEPT ![f] = row]
    <3>1. row.written = {} /\ row.dropped /\ ~row.done
      OBVIOUS
    <3>2. RunFits("dropped", run[f], row)
      BY <1>0, <2>1, <3>1 DEF RunFits, Reported
    <3>3. run' = [run EXCEPT ![f] = run[f]]
      BY <1>0, <2>1
    <3> HIDE DEF row
    <3>. QED
      BY <2>6, <3>2, <3>3, OneMoves
  <2>. QED
    BY <2>3, <2>4, <2>5, <2>6
<1>3. CASE UpsertEntry(f)
  <2>1. PICK id: tx' = [tx EXCEPT ![f] = [tx[f] EXCEPT !.id = id]]
    BY <1>3 DEF UpsertEntry
  <2>2. phase[f] = "locked" /\ phase' = [phase EXCEPT ![f] = "upserted"] /\ UNCHANGED run
    BY <1>3 DEF UpsertEntry
  <2>3. RunFits("upserted", run[f], [tx[f] EXCEPT !.id = id])
    BY <1>0, <2>2 DEF RunFits, Reported
  <2>. QED
    BY <1>0, <2>1, <2>2, <2>3, OneMoves
<1>4. CASE Acknowledge(f)
  <2> DEFINE row == [run[f] EXCEPT !.dataset = tx[f].id]
  <2>1. phase[f] = "upserted" /\ phase' = [phase EXCEPT ![f] = "writing"] /\ UNCHANGED tx
    BY <1>4 DEF Acknowledge
  <2>2. PICK r \in {run[f], row}: run' = [run EXCEPT ![f] = r]
    BY <1>4, RecordedRow DEF Acknowledge
  <2>3. row.state = run[f].state /\ row.dataset = tx[f].id
    OBVIOUS
  <2>4. RunFits("writing", r, tx[f])
    BY <1>0, <2>1, <2>2, <2>3 DEF RunFits, Reported
  <2>. QED
    BY <1>0, <2>1, <2>2, <2>4, OneMoves
<1>5. CASE \E s \in Slots: Page(f, s)
  <2>1. PICK s \in Slots: Page(f, s)
    BY <1>5
  <2> DEFINE longer == [tx[f] EXCEPT !.written = @ \cup {s}]
  <2>2. phase[f] = "writing" /\ tx' = [tx EXCEPT ![f] = longer] /\ UNCHANGED <<run, phase>>
    BY <2>1 DEF Page
  <2>3. longer.id = tx[f].id
    OBVIOUS
  <2>4. RunFits(phase[f], run[f], longer)
    BY <1>0, <2>2, <2>3 DEF RunFits, Reported
  <2>. QED
    BY <1>0, <2>2, <2>4, OneMoves
<1>6. CASE FetchDone(f)
  <2> DEFINE whole == [tx[f] EXCEPT !.done = TRUE]
  <2>1. /\ phase[f] = "writing" /\ phase' = [phase EXCEPT ![f] = "served"]
        /\ tx' = [tx EXCEPT ![f] = whole] /\ UNCHANGED run
    BY <1>6 DEF FetchDone
  <2>2. whole.id = tx[f].id
    OBVIOUS
  <2>3. RunFits("served", run[f], whole)
    BY <1>0, <2>1, <2>2 DEF RunFits, Reported
  <2>. QED
    BY <1>0, <2>1, <2>3, OneMoves
<1>7. CASE Commit(f)
  <2>1. phase[f] = "served" /\ phase' = [phase EXCEPT ![f] = "stored"] /\ UNCHANGED <<run, tx>>
    BY <1>7 DEF Commit
  <2>2. RunFits("stored", run[f], tx[f])
    BY <1>0, <2>1 DEF RunFits, Reported
  <2>3. /\ phase' = [phase EXCEPT ![f] = "stored"]
        /\ run' = [run EXCEPT ![f] = run[f]] /\ tx' = [tx EXCEPT ![f] = tx[f]]
    BY <1>0, <2>1
  <2>. QED
    BY <2>2, <2>3, OneMoves
<1>8. CASE Finish(f)
  <2>1. /\ phase[f] \in {"stored", "dropped"} /\ phase' = [phase EXCEPT ![f] = "closed"]
        /\ UNCHANGED tx /\ Recorded(f, OutcomeRow(f))
    BY <1>8 DEF Finish
  <2>2. PICK r \in {run[f], OutcomeRow(f)}: run' = [run EXCEPT ![f] = r]
    BY <2>1, RecordedRow
  <2>. QED
    BY <1>0, <2>1, <2>2, OutcomeFits, OneMoves
<1>9. CASE CancelLate(f)
  <2>1. /\ phase[f] \in {"stored", "dropped"} /\ phase' = [phase EXCEPT ![f] = "failing"]
        /\ UNCHANGED tx /\ (Recorded(f, OutcomeRow(f)) \/ UNCHANGED run)
    BY <1>9 DEF CancelLate
  <2>2. PICK r \in {run[f], OutcomeRow(f)}: run' = [run EXCEPT ![f] = r]
    BY <1>0, <2>1, RecordedRow
  <2>. QED
    BY <1>0, <2>1, <2>2, OutcomeFits, OneMoves
<1>10. CASE FinishFailed(f)
  <2>1. phase[f] = "failing" /\ phase' = [phase EXCEPT ![f] = "closed"] /\ UNCHANGED tx
    BY <1>10 DEF FinishFailed
  <2>2. PICK r \in {run[f], FailedRow(f)}: run' = [run EXCEPT ![f] = r]
    BY <1>10, RecordedRow DEF FinishFailed
  <2>3. FailedRow(f).state = "FAILED"
    BY DEF FailedRow
  <2>4. RunFits("closed", r, tx[f])
    BY <1>0, <2>1, <2>2, <2>3 DEF RunFits, Reported
  <2>. QED
    BY <1>0, <2>1, <2>2, <2>4, OneMoves
<1>11. CASE Abort(f)
  <2>1. /\ phase[f] \notin {"failing", "closed"} /\ phase' = [phase EXCEPT ![f] = "failing"]
        /\ tx' = [tx EXCEPT ![f] = NoTx] /\ UNCHANGED run
    BY <1>11 DEF Abort
  <2>2. run[f].state \notin Reported
    BY <1>0, <2>1 DEF RunFits
  <2>3. RunFits("failing", run[f], NoTx)
    BY <2>2 DEF RunFits, Reported
  <2>4. run' = [run EXCEPT ![f] = run[f]]
    BY <1>0, <2>1
  <2>. QED
    BY <2>1, <2>3, <2>4, OneMoves
<1>. QED
  BY <1>1, <1>2, <1>3, <1>4, <1>5, <1>6, <1>7, <1>8, <1>9, <1>10, <1>11 DEF FetchNext, FetchStep

\* The process dies: a transaction that was open is undone, and no run has
\* reported it yet.
LEMMA RunRestart ==
  ASSUME FetchesOK, LockInv, DoneInv, RunInv, Restart
  PROVE  RunInv'
<1> SUFFICES ASSUME NEW f \in Fetches PROVE RunFits(phase'[f], run'[f], tx'[f])
  BY DEF RunInv
<1>1. RunFits(phase[f], run[f], tx[f])
  BY DEF RunInv
<1>2. /\ phase'[f] = IF phase[f] = "idle" THEN "idle" ELSE "closed"
      /\ tx'[f] = IF Committed(f) \/ tx[f].dropped THEN tx[f] ELSE NoTx
      /\ run'[f] \in {run[f], [run[f] EXCEPT !.state = "FAILED"]}
      /\ run'[f] = run[f] \/ run[f].state = "RUNNING"
  BY DEF Restart, FetchesOK
<1>3. run[f].state \in Reported => phase[f] # "served"
  BY <1>1 DEF RunFits
<1>4. CASE run'[f] = run[f]
  <2>1. run[f].state \in Reported /\ tx[f].done => Committed(f)
    BY <1>3 DEF Committed
  <2>. QED
    BY <1>1, <1>2, <1>4, <2>1 DEF RunFits, Reported
<1>5. CASE run[f].state = "RUNNING" /\ run'[f] = [run[f] EXCEPT !.state = "FAILED"]
  <2>1. run'[f].state = "FAILED" /\ run'[f].dataset = run[f].dataset
    BY <1>5 DEF FetchesOK
  <2>. QED
    BY <1>1, <1>2, <2>1 DEF RunFits, Reported
<1>. QED
  BY <1>2, <1>4, <1>5

LEMMA RunStep ==
  ASSUME TypeInv, LockInv, DoneInv, RunInv, [Next]_vars
  PROVE  RunInv'
<1> USE DEF TypeInv, TypeOK
<1>1. CASE UNCHANGED fetchVars
  BY <1>1 DEF RunInv, fetchVars
<1>2. CASE \E f \in Fetches: FetchNext(f)
  BY <1>2, RunFetch
<1>3. CASE Restart
  BY <1>3, RunRestart
<1>. QED
  BY <1>1, <1>2, <1>3 DEF Next, StartPass, Tick, OwnerDelete, ReaperNext, StartReap, ReaperDelete, ReaperSkip,
     OperatorNext, OperatorStep, OperatorRead, OperatorTooLate, OperatorSetExpiry, OperatorSetCollecting,
     OperatorDelete, OperatorWrites, fetchVars, vars

\* A run that says it stored bars had its fetch commit them, one that says it
\* stored none had its fetch commit none or its answer dropped for a dataset
\* that was gone or stopped, never a failure; and the dataset it names is the
\* one its fetch committed to: the recorder's outcomes against late
\* cancellations, recordings that fail and restarts (run_recording.py,
\* data_action_request.py, daily_refresh.py).
THEOREM RunsTellTheTruth == Spec => []RunOutcomeTrue
<1>1. Init => StoreInv /\ DoneInv /\ RunInv
  <2>1. Init => DoneInv
    BY DEF Init, DoneInv
  <2>. QED
    BY <2>1, StoreInvInit, RunInvInit
<1>2. StoreInv /\ DoneInv /\ RunInv /\ [Next]_vars => StoreInv' /\ DoneInv' /\ RunInv'
  BY StoreInvStep, DoneStep, RunStep DEF StoreInv
<1>3. RunInv => RunOutcomeTrue
  BY DEF RunInv, RunFits, RunOutcomeTrue, Committed, Reported
<1>. QED
  BY <1>1, <1>2, <1>3, PTL DEF Spec

-----------------------------------------------------------------------------
(* The override log *)

\* Whatever happened while an operator's write waited for its row, a new row
\* of the override log names a dataset of another owner that is there as the
\* write takes effect.
THEOREM OverridesNameWhatWasThere == Spec => OverridesNameLiveDatasets
<1> DEFINE Grounded == \A id \in overrides' \ overrides: Live(id) /\ IsForeign(id)
<1>1. ASSUME [Next]_vars PROVE Grounded
  <2>1. CASE OperatorStep
    BY <2>1 DEF OperatorStep, OperatorTooLate, OperatorSetExpiry, OperatorSetCollecting, OperatorDelete, OperatorWrites,
       RecordOverride, tables
  <2>2. CASE UNCHANGED overrides
    BY <2>2
  <2>. QED
    BY <1>1, <2>1, <2>2 DEF Next, FetchNext, FetchStep, Post, Refresh, LockStoredCollect, LockActiveEntry, UpsertEntry,
       Acknowledge, FetchDone, Commit, Finish, FinishFailed, Page, Abort, CancelLate, StartPass, ReaperNext, StartReap,
       ReaperDelete, ReaperSkip, OwnerDelete, OperatorNext, OperatorRead, Tick, Restart, tables, vars
<1>. QED
  BY <1>1, PTL DEF Spec, OverridesNameLiveDatasets

-----------------------------------------------------------------------------
(***************************************************************************)
(* The store implements the ledger, for any number of fetches, keys, pages *)
(* and any set of faults: a fetch's commit is one Create or Change of its  *)
(* dataset, an edit one Change, each delete one of the three ways out, and *)
(* everything else, the whole of a fetch's open transaction included, is   *)
(* not seen.                                                               *)
(***************************************************************************)

\* What the ledger has of the store.
Seen == [id \in Ids |-> IF Live(id) THEN LedgerDataset(id) ELSE NoEntry]

\* Only a subscription has a collect intent, and it always has one.
CollectsFit ==
  \A id \in Ids: Live(id) => (entry[id].collect = "none" <=> entry[id].identity.series \notin Subscribed)

\* Nobody asks for an intent where there is none.
AsksFit ==
  /\ \A r \in plan: r.collect = "omitted"
  /\ \A f \in Fetches: phase[f] \notin {"idle", "closed"} /\ request[f].identity.series \notin Subscribed
                         => request[f].collect = "omitted"

\* What the operator read still holds of the dataset, unless it went: an id is
\* not used again.
OperFits ==
  oper.op # "none" =>
    /\ oper.id \in Fetches => phase[oper.id] \in Past
    /\ Live(oper.id) =>
         /\ oper.op = "collect" => oper.collect \in {"on", "off"} /\ entry[oper.id].identity.series \in Subscribed
         /\ oper.op = "delete" => oper.count <= CountOf(oper.id)

LedgerInv == CollectsFit /\ AsksFit /\ OperFits

-----------------------------------------------------------------------------
(* The steps that change what the ledger sees *)

LEMMA TableChanges ==
  ASSUME [Next]_vars
  PROVE  \/ \E f \in Fetches: Commit(f)
         \/ \E id \in Ids: OwnerDelete(id) \/ ReaperDelete(id)
         \/ OperatorDelete \/ OperatorSetExpiry \/ OperatorSetCollecting
         \/ Tick
         \/ UNCHANGED <<entry, bars, deletions, clock>>
<1>1. ASSUME NEW f \in Fetches, FetchNext(f), ~Commit(f) PROVE UNCHANGED <<entry, bars, deletions, clock>>
  BY <1>1 DEF FetchNext, FetchStep, Post, Refresh, LockStoredCollect, LockActiveEntry, UpsertEntry, Acknowledge,
     FetchDone, Finish, FinishFailed, Page, Abort, CancelLate, tables
<1>2. ASSUME StartPass \/ StartReap \/ (\E id \in Ids: ReaperSkip(id)) \/ OperatorTooLate \/ Restart \/ UNCHANGED vars
      PROVE  UNCHANGED <<entry, bars, deletions, clock>>
  BY <1>2 DEF StartPass, StartReap, ReaperSkip, OperatorTooLate, Restart, vars, tables
<1>3. ASSUME NEW op, NEW id, NEW e, NEW c, OperatorRead(op, id, e, c)
      PROVE  UNCHANGED <<entry, bars, deletions, clock>>
  BY <1>3 DEF OperatorRead, tables
<1>. QED
  BY <1>1, <1>2, <1>3 DEF Next, ReaperNext, OperatorNext, OperatorStep

\* A commit, as the committed tables show it: into a row under the key, whose
\* identity stays, or a row of a key that had none.
LEMMA CommitSeen ==
  ASSUME TypeInv, LockInv, CollectsFit, AsksFit, NEW f \in Fetches, Commit(f)
  PROVE  \E id \in Ids, row \in Entry, kept \in [Slots -> Fetches \cup {NoBar}]:
           /\ entry' = [entry EXCEPT ![id] = row] /\ bars' = [bars EXCEPT ![id] = kept]
           /\ \A s \in Slots: bars[id][s] # NoBar => kept[s] # NoBar
           /\ row.collect = "none" <=> row.identity.series \notin Subscribed
           /\ IF Live(id) THEN row.identity = entry[id].identity
              ELSE id \in Fetches /\ phase[id] = "served" /\ \A a \in Ids: ~Named(a, row.identity)
           /\ UNCHANGED <<deletions, clock, oper>>
<1> USE DEF TypeInv, TypeOK
<1> DEFINE id == tx[f].id
           r == request[f]
           row == UpsertedRow(f)
           kept == [s \in Slots |-> IF s \in tx[f].written THEN f ELSE bars[id][s]]
<1>1. id \in Ids /\ r \in Request /\ phase[f] = "served" /\ Holding(f)
  BY DEF Commit, InFlightOK, Holding
<1>2. row \in Entry
  BY <1>1, UpsertedRowType
<1>3. kept \in [Slots -> Fetches \cup {NoBar}] /\ \A s \in Slots: bars[id][s] # NoBar => kept[s] # NoBar
  BY <1>1, IdsAssumption DEF TablesOK
<1>4. /\ entry' = [entry EXCEPT ![id] = row] /\ bars' = [bars EXCEPT ![id] = kept]
      /\ UNCHANGED <<deletions, clock, oper>>
  BY <1>1 DEF Commit, TablesOK
<1>5. r.identity.series \notin Subscribed => r.collect = "omitted"
  BY <1>1 DEF AsksFit
<1>6. r.collect \in Explicit
  BY <1>1 DEF Request
<1>7. CASE Live(id)
  <2>1. entry[id] \in Entry /\ entry[id].identity = r.identity
    BY <1>1, <1>7 DEF TablesOK, Live, LockInv, Targets, Named
  <2>2. entry[id].collect = "none" <=> r.identity.series \notin Subscribed
    BY <1>1, <1>7, <2>1 DEF CollectsFit
  <2>3. row \in {entry[id], RepeatedRow(entry[id], r)}
    BY <1>7 DEF UpsertedRow
  <2>4. row.identity = entry[id].identity /\ row.collect \in {entry[id].collect, r.collect}
    BY <2>3 DEF RepeatedRow
  <2>5. row.collect = entry[id].collect \/ (row.collect = r.collect /\ r.collect # "omitted")
    BY <2>3 DEF RepeatedRow
  <2>6. row.collect = "none" <=> row.identity.series \notin Subscribed
    BY <1>5, <1>6, <2>1, <2>2, <2>4, <2>5 DEF Explicit
  <2>. QED
    BY <1>1, <1>2, <1>3, <1>4, <1>7, <2>4, <2>6
<1>8. CASE ~Live(id)
  <2>1. id = f /\ \A a \in Ids: ~Named(a, r.identity)
    BY <1>1, <1>8 DEF LockInv, Targets, Named
  <2>2. row = InsertedRow(r)
    BY <1>8 DEF UpsertedRow
  <2>3. row.identity = r.identity /\ row.collect = ResolvedCollect(UpdateType(r.identity.series), r.collect)
    BY <2>2 DEF InsertedRow
  <2>4. row.collect = "none" <=> row.identity.series \notin Subscribed
    BY <1>6, <2>3 DEF ResolvedCollect, UpdateType, Explicit
  <2>. QED
    BY <1>1, <1>2, <1>3, <1>4, <1>8, <2>1, <2>3, <2>4
<1>. QED
  BY <1>7, <1>8

\* An operator's edit, as the committed tables show it.
LEMMA EditSeen ==
  ASSUME TypeInv, CollectsFit, OperFits, OperatorSetExpiry \/ OperatorSetCollecting
  PROVE  /\ Live(oper.id) /\ oper.id \in Ids /\ oper' = NoOper
         /\ \E row \in Entry:
              /\ entry' = [entry EXCEPT ![oper.id] = row]
              /\ row.identity = entry[oper.id].identity
              /\ row.collect = "none" <=> row.identity.series \notin Subscribed
         /\ UNCHANGED <<bars, deletions, clock, phase>>
<1> USE DEF TypeInv, TypeOK
<1>1. /\ Live(oper.id) /\ oper.id \in Ids /\ oper' = NoOper /\ UNCHANGED <<bars, deletions, clock, phase>>
      /\ oper.op = "expiry" \/ oper.op = "collect"
  BY DEF OperatorSetExpiry, OperatorSetCollecting, OperatorWrites, OperOK, fetchVars
<1>2. entry[oper.id] \in Entry /\ (entry[oper.id].collect = "none" <=> entry[oper.id].identity.series \notin Subscribed)
  BY <1>1 DEF TablesOK, Live, CollectsFit
<1>3. CASE OperatorSetExpiry
  <2> DEFINE row == [entry[oper.id] EXCEPT !.expiry = oper.expiry]
  <2>1. row \in Entry /\ row.identity = entry[oper.id].identity /\ row.collect = entry[oper.id].collect
    BY <1>2 DEF TasksOK, Entry
  <2>2. entry' = [entry EXCEPT ![oper.id] = row]
    BY <1>3 DEF OperatorSetExpiry
  <2>. QED
    BY <1>1, <1>2, <2>1, <2>2
<1>4. CASE OperatorSetCollecting
  <2> DEFINE row == [entry[oper.id] EXCEPT !.collect = oper.collect]
  <2>1. row \in Entry /\ row.identity = entry[oper.id].identity /\ row.collect = oper.collect
    BY <1>2 DEF TasksOK, Entry
  <2>2. entry' = [entry EXCEPT ![oper.id] = row]
    BY <1>4 DEF OperatorSetCollecting
  <2>3. oper.collect \in {"on", "off"} /\ entry[oper.id].identity.series \in Subscribed
    BY <1>1, <1>4 DEF OperatorSetCollecting, OperatorWrites, OperFits
  <2>. QED
    BY <1>1, <2>1, <2>2, <2>3
<1>. QED
  BY <1>3, <1>4

\* Any delete, as the committed tables show it.
Gone(id) ==
  /\ Live(id) /\ DeleteEntryRow(id) /\ UNCHANGED <<clock, phase>>
  /\ UNCHANGED oper \/ oper' = NoOper

LEMMA DeleteSeen ==
  ASSUME TypeInv
  PROVE  /\ \A id \in Ids: OwnerDelete(id) \/ ReaperDelete(id) => Gone(id)
         /\ OperatorDelete => oper.id \in Ids /\ Gone(oper.id)
<1>1. ASSUME NEW id \in Ids, OwnerDelete(id) \/ ReaperDelete(id) PROVE Gone(id)
  BY <1>1 DEF OwnerDelete, ReaperDelete, Due, Gone, fetchVars
<1>2. ASSUME OperatorDelete PROVE oper.id \in Ids /\ Gone(oper.id)
  BY <1>2 DEF OperatorDelete, OperatorWrites, Gone, TypeInv, OperOK, fetchVars
<1>. QED
  BY <1>1, <1>2

-----------------------------------------------------------------------------
(* The invariant *)

LEMMA CollectsStep ==
  ASSUME TypeInv, LockInv, LedgerInv, [Next]_vars
  PROVE  CollectsFit'
<1> USE DEF LedgerInv
<1>1. ASSUME NEW id \in Ids, NEW row \in Entry, entry' = [entry EXCEPT ![id] = row],
             row.collect = "none" <=> row.identity.series \notin Subscribed
      PROVE  CollectsFit'
  BY <1>1 DEF CollectsFit, Live, TypeInv, TypeOK, TablesOK
<1>2. ASSUME NEW f \in Fetches, Commit(f) PROVE CollectsFit'
  BY <1>1, <1>2, CommitSeen
<1>3. ASSUME NEW id \in Ids, Gone(id) PROVE CollectsFit'
  BY <1>3 DEF Gone, DeleteEntryRow, CollectsFit, Live, TypeInv, TypeOK, TablesOK
<1>4. CASE OperatorSetExpiry \/ OperatorSetCollecting
  BY <1>1, <1>4, EditSeen
<1>5. CASE UNCHANGED entry
  BY <1>5 DEF CollectsFit, Live
<1>. QED
  BY <1>2, <1>3, <1>4, <1>5, TableChanges, DeleteSeen DEF Tick, tables

LEMMA AsksStep ==
  ASSUME TypeInv, LedgerInv, [Next]_vars
  PROVE  AsksFit'
<1> USE DEF LedgerInv, TypeInv, TypeOK, FetchesOK
<1>1. CASE UNCHANGED <<plan, phase, request>>
  BY <1>1 DEF AsksFit
<1>2. ASSUME NEW f \in Fetches, NEW p, phase' = [phase EXCEPT ![f] = p], phase[f] \notin {"idle", "closed"},
             request' = request \/ (p = "closed" /\ request' = [request EXCEPT ![f] = NoRequest]),
             plan' \subseteq plan
      PROVE  AsksFit'
  BY <1>2 DEF AsksFit
<1>3. ASSUME NEW f \in Fetches, NEW p, NEW r, phase' = [phase EXCEPT ![f] = p],
             request' = [request EXCEPT ![f] = r], r.identity.series \notin Subscribed => r.collect = "omitted",
             plan' \subseteq plan
      PROVE  AsksFit'
  BY <1>3 DEF AsksFit
<1>4. ASSUME NEW f \in Fetches, FetchNext(f) PROVE AsksFit'
  <2>1. ASSUME NEW r \in Requests, Post(f, r) PROVE AsksFit'
    <3>1. PICK p: phase' = [phase EXCEPT ![f] = p] /\ request' = [request EXCEPT ![f] = PostRequest(r)] /\ plan' = plan
      BY <2>1 DEF Post, Begin
    <3>2. PostRequest(r).identity.series \notin Subscribed => PostRequest(r).collect = "omitted"
      BY RequestsAssumption DEF PostRequest
    <3>. QED
      BY <1>3, <3>1, <3>2
  <2>2. ASSUME NEW r \in plan, Refresh(f, r) PROVE AsksFit'
    <3>1. PICK p: phase' = [phase EXCEPT ![f] = p] /\ request' = [request EXCEPT ![f] = r] /\ plan' = plan \ {r}
      BY <2>2 DEF Refresh, Begin
    <3>2. r.collect = "omitted"
      BY DEF AsksFit
    <3>. QED
      BY <1>3, <3>1, <3>2
  <2>3. CASE LockStoredCollect(f) \/ UpsertEntry(f) \/ Acknowledge(f) \/ FetchDone(f) \/ Commit(f)
             \/ Abort(f) \/ CancelLate(f)
    <3>1. phase[f] \notin {"idle", "closed"} /\ UNCHANGED <<request, plan>> /\ \E p: phase' = [phase EXCEPT ![f] = p]
      BY <2>3 DEF LockStoredCollect, UpsertEntry, Acknowledge, FetchDone, Commit, Abort, CancelLate
    <3>. QED
      BY <1>2, <3>1
  <2>4. CASE LockActiveEntry(f)
    <3>1. phase[f] \notin {"idle", "closed"} /\ UNCHANGED <<request, plan>> /\ \E p: phase' = [phase EXCEPT ![f] = p]
      BY <2>4 DEF LockActiveEntry
    <3>. QED
      BY <1>2, <3>1
  <2>5. CASE Finish(f) \/ FinishFailed(f)
    <3>1. /\ phase[f] \notin {"idle", "closed"} /\ phase' = [phase EXCEPT ![f] = "closed"]
          /\ request' = [request EXCEPT ![f] = NoRequest] /\ plan' \subseteq plan
      BY <2>5 DEF Finish, FinishFailed
    <3>. QED
      BY <1>2, <3>1
  <2>6. CASE \E s \in Slots: Page(f, s)
    BY <1>1, <2>6 DEF Page
  <2>. QED
    BY <1>4, <2>1, <2>2, <2>3, <2>4, <2>5, <2>6 DEF FetchNext, FetchStep
<1>5. CASE StartPass
  BY <1>5 DEF StartPass, RefreshRequest, AsksFit, fetchVars
<1>6. CASE Restart
  BY <1>6 DEF Restart, AsksFit
<1>. QED
  BY <1>1, <1>4, <1>5, <1>6 DEF Next, Tick, OwnerDelete, ReaperNext, StartReap, ReaperDelete, ReaperSkip, OperatorNext,
     OperatorStep, OperatorRead, OperatorTooLate, OperatorSetExpiry, OperatorSetCollecting, OperatorDelete,
     OperatorWrites, fetchVars, vars

\* Bars only come while a row stays.
LEMMA CountGrows ==
  ASSUME NEW id, NEW jd, \A s \in Slots: bars[id][s] # NoBar => bars'[jd][s] # NoBar
  PROVE  CountOf(id) <= CountOf(jd)' /\ CountOf(jd)' \in Nat
<1> DEFINE before == {s \in Slots: bars[id][s] # NoBar}
           after  == {s \in Slots: bars'[jd][s] # NoBar}
<1>1. IsFiniteSet(Slots)
  <2>1. 1 \in Int /\ MaxPages \in Int
    BY BoundsAssumption
  <2>2. IsFiniteSet(1 .. MaxPages)
    BY <2>1, FS_Interval
  <2>. QED
    BY <2>2 DEF Slots
<1>2. IsFiniteSet(after) /\ before \subseteq after
  BY <1>1, FS_Subset
<1>3. Cardinality(before) <= Cardinality(after) /\ Cardinality(after) \in Nat
  BY <1>2, FS_Subset, FS_CardinalityType
<1>. QED
  BY <1>3 DEF CountOf

\* What was said of the dataset an operator's write is about stays so, for a
\* write that is still under way.
LEMMA OperKept ==
  ASSUME TypeInv, LockInv, OperFits, [Next]_vars, UNCHANGED oper, oper.op # "none",
         ~Live(oper.id) => ~Live(oper.id)',
         Live(oper.id)' => /\ entry'[oper.id].identity = entry[oper.id].identity
                           /\ \A s \in Slots: bars[oper.id][s] # NoBar => bars'[oper.id][s] # NoBar
  PROVE  OperFits'
<1>1. oper.id \in Fetches => phase'[oper.id] \in Past
  BY PastStays DEF OperFits
<1>2. ASSUME Live(oper.id)', oper.op = "delete" PROVE oper.count <= CountOf(oper.id)'
  <2>1. oper.count <= CountOf(oper.id)
    BY <1>2 DEF OperFits
  <2>2. CountOf(oper.id) <= CountOf(oper.id)' /\ CountOf(oper.id)' \in Nat
    BY <1>2, CountGrows
  <2>3. CountOf(oper.id) \in 0..MaxPages /\ oper.count \in 0..MaxPages
    BY CountInRange DEF TypeInv, TypeOK, TasksOK
  <2>. QED
    BY <2>1, <2>2, <2>3, BoundsAssumption
<1>3. ASSUME Live(oper.id)', oper.op = "collect"
      PROVE  oper.collect \in {"on", "off"} /\ entry'[oper.id].identity.series \in Subscribed
  BY <1>3 DEF OperFits
<1>. QED
  BY <1>1, <1>2, <1>3 DEF OperFits

\* What the operator read is so as it is read.
LEMMA OperRead ==
  ASSUME TypeInv, LockInv, NEW op, NEW id \in Ids, NEW e \in Expiries, NEW c, OperatorRead(op, id, e, c),
         op = "collect" => c \in {"on", "off"}
  PROVE  OperFits'
<1>1. Live(id) /\ oper'.op = op /\ oper'.id = id /\ oper'.collect = c /\ UNCHANGED <<entry, bars, phase>>
  BY DEF OperatorRead, tables, fetchVars
<1>2. id \in Fetches => phase'[id] \in Past
  BY <1>1 DEF LockInv, FreshIds, Past
<1>3. op = "collect" => oper'.collect \in {"on", "off"} /\ entry'[id].identity.series \in Subscribed
  BY <1>1 DEF OperatorRead
<1>4. op = "delete" => oper'.count <= CountOf(id)'
  <2>1. ASSUME op = "delete" PROVE oper'.count = CountOf(id)
    BY <2>1 DEF OperatorRead
  <2>2. CountOf(id) <= CountOf(id)'
    BY <1>1, CountGrows
  <2>. QED
    BY <2>1, <2>2
<1>. QED
  BY <1>1, <1>2, <1>3, <1>4 DEF OperFits

LEMMA OperStep ==
  ASSUME TypeInv, LockInv, LedgerInv, [Next]_vars
  PROVE  OperFits'
<1> USE DEF LedgerInv
<1>1. CASE oper' = NoOper
  BY <1>1 DEF NoOper, OperFits
<1>2. CASE OperatorNext
  BY <1>1, <1>2, OperRead DEF OperatorNext, OperatorStep, OperatorTooLate, OperatorSetExpiry, OperatorSetCollecting,
     OperatorDelete, OperatorWrites, Expiries
<1>3. CASE UNCHANGED oper /\ oper.op = "none"
  BY <1>3 DEF OperFits
<1>4. CASE UNCHANGED oper /\ oper.op # "none"
  <2> DEFINE o == oper.id
  <2>1. o \in Ids
    BY <1>4 DEF TypeInv, OperOK
  <2>2. ~Live(o) => ~Live(o)'
    BY <1>4, <2>1, RowsAppear DEF OperFits, Past
  <2>3. ASSUME Live(o)'
        PROVE  entry'[o].identity = entry[o].identity /\ \A s \in Slots: bars[o][s] # NoBar => bars'[o][s] # NoBar
    <3>1. Live(o)
      BY <2>2, <2>3
    <3>2. ASSUME NEW f \in Fetches, Commit(f) PROVE
            entry'[o].identity = entry[o].identity /\ \A s \in Slots: bars[o][s] # NoBar => bars'[o][s] # NoBar
      <4>1. PICK id \in Ids, row \in Entry, kept \in [Slots -> Fetches \cup {NoBar}]:
                   /\ entry' = [entry EXCEPT ![id] = row] /\ bars' = [bars EXCEPT ![id] = kept]
                   /\ \A s \in Slots: bars[id][s] # NoBar => kept[s] # NoBar
                   /\ Live(id) => row.identity = entry[id].identity
        BY <3>2, CommitSeen
      <4>. QED
        BY <2>1, <3>1, <4>1 DEF TypeInv, TypeOK, TablesOK
    <3>3. ASSUME NEW id \in Ids, Gone(id) PROVE
            entry'[o].identity = entry[o].identity /\ \A s \in Slots: bars[o][s] # NoBar => bars'[o][s] # NoBar
      <4>1. id # o
        BY <1>4, <2>3, <3>3 DEF Gone, DeleteEntryRow, Live, TypeInv, TypeOK, TablesOK
      <4>2. entry'[o] = entry[o] /\ bars'[o] = bars[o]
        BY <2>1, <3>3, <4>1 DEF Gone, DeleteEntryRow, TypeInv, TypeOK, TablesOK
      <4>. QED
        BY <4>2
    <3>4. ~(OperatorSetExpiry \/ OperatorSetCollecting)
      BY <1>4, EditSeen DEF NoOper
    <3>. QED
      BY <3>2, <3>3, <3>4, TableChanges, DeleteSeen DEF Tick, tables
  <2>. QED
    BY <1>4, <2>2, <2>3, OperKept
<1>. QED
  BY <1>1, <1>2, <1>3, <1>4 DEF Next, FetchNext, FetchStep, Post, Refresh, LockStoredCollect, LockActiveEntry, UpsertEntry,
     Acknowledge, FetchDone, Commit, Finish, FinishFailed, Page, Abort, CancelLate, StartPass, ReaperNext, StartReap,
     ReaperDelete, ReaperSkip, OwnerDelete, Tick, Restart, vars

LEMMA LedgerInvStep ==
  ASSUME StoreInv, LedgerInv, [Next]_vars
  PROVE  LedgerInv'
BY CollectsStep, AsksStep, OperStep DEF StoreInv, LedgerInv

LEMMA LedgerInvInit == Init => LedgerInv
<1> SUFFICES ASSUME Init PROVE LedgerInv
  OBVIOUS
<1>1. CollectsFit
  BY DEF Init, CollectsFit
<1>2. AsksFit /\ OperFits
  BY DEF Init, AsksFit, OperFits, NoOper
<1>. QED
  BY <1>1, <1>2 DEF LedgerInv

-----------------------------------------------------------------------------
(* The refinement *)

\* One row of the ledger is the row of the store with its bars.
LEMMA SeenOne ==
  ASSUME TypeInv, TypeInv', NEW id \in Ids,
         \A a \in Ids \ {id}: entry'[a] = entry[a] /\ bars'[a] = bars[a]
  PROVE  Seen' = [Seen EXCEPT ![id] = Seen'[id]]
BY DEF Seen, Live, LedgerDataset, Ids

LEMMA SeenNow ==
  ASSUME TypeInv, NEW id \in Ids
  PROVE  IF Live(id) THEN Seen[id] = LedgerDataset(id) /\ Seen[id] \in Ledger!Datasets /\ Seen[id] # NoEntry
                     ELSE Seen[id] = NoEntry
<1>1. ASSUME Live(id) PROVE LedgerDataset(id) \in Ledger!Datasets
  BY <1>1 DEF LedgerDataset, Live, TypeInv, TypeOK, TablesOK, Entry, Collects, Ledger!Datasets
<1>. QED
  BY <1>1, AbsentAssumption DEF Seen, Ledger!Datasets, Collects

LEMMA SeenNext ==
  ASSUME TypeInv', NEW id \in Ids
  PROVE  IF Live(id)' THEN Seen'[id] = LedgerDataset(id)' /\ Seen'[id] \in Ledger!Datasets /\ Seen'[id] # NoEntry
                      ELSE Seen'[id] = NoEntry
<1>1. ASSUME Live(id)' PROVE LedgerDataset(id)' \in Ledger!Datasets
  BY <1>1 DEF LedgerDataset, Live, TypeInv, TypeOK, TablesOK, Entry, Collects, Ledger!Datasets
<1>. QED
  BY <1>1, AbsentAssumption DEF Seen, Ledger!Datasets, Collects

\* The ledger's actions, of the map the store shows.
LEMMA SeenActions ==
  ASSUME NEW id
  PROVE  /\ Ledger!Present(id) <=> Seen[id] # NoEntry
         /\ Ledger!OnlyAt(id) <=> Seen' = [Seen EXCEPT ![id] = Seen'[id]]
         /\ Ledger!vars = <<Seen, deletions, clock>>
         /\ Ledger!Create(id) <=>
              /\ Seen[id] = NoEntry
              /\ Seen'[id] \in Ledger!Datasets
              /\ Seen'[id].collect # "none" <=> Seen'[id].identity.series \in Subscribed
              /\ \A other \in Ids: Seen[other] # NoEntry => Seen[other].identity # Seen'[id].identity
              /\ Ledger!OnlyAt(id)
              /\ UNCHANGED <<deletions, clock>>
         /\ Ledger!Change(id) <=>
              /\ Seen[id] # NoEntry
              /\ Seen'[id] \in Ledger!Datasets
              /\ Seen'[id].identity = Seen[id].identity
              /\ Seen[id].bars \subseteq Seen'[id].bars
              /\ Seen'[id].collect # Seen[id].collect =>
                   Seen'[id].collect # "none" /\ Seen[id].identity.series \in Subscribed
              /\ Ledger!OnlyAt(id)
              /\ UNCHANGED <<deletions, clock>>
         /\ Ledger!Remove(id) <=>
              /\ Seen[id] # NoEntry
              /\ Seen' = [Seen EXCEPT ![id] = NoEntry]
              /\ UNCHANGED clock
         /\ Ledger!Delete(id) <=>
              /\ Ledger!Remove(id)
              /\ \E counted \in 0..Cardinality(Seen[id].bars): RecordDeletion(id, counted, "OPERATOR")
         /\ Ledger!Reap(id) <=>
              /\ Ledger!Remove(id)
              /\ Seen[id].expiry # NoExpiry
              /\ Seen[id].expiry <= clock
              /\ RecordDeletion(id, Cardinality(Seen[id].bars), "REAPER")
         /\ Ledger!Withdraw(id) <=> Ledger!Remove(id) /\ UNCHANGED deletions
<1>1. Ledger!Present(id) <=> Seen[id] # NoEntry
  BY DEF Seen, Ledger!Present
<1>2. Ledger!OnlyAt(id) <=> Seen' = [Seen EXCEPT ![id] = Seen'[id]]
  BY DEF Seen, Ledger!OnlyAt
<1>3. Ledger!vars = <<Seen, deletions, clock>>
  BY DEF Seen, Ledger!vars
<1>4. Ledger!Create(id) <=>
        /\ Seen[id] = NoEntry
        /\ Seen'[id] \in Ledger!Datasets
        /\ Seen'[id].collect # "none" <=> Seen'[id].identity.series \in Subscribed
        /\ \A other \in Ids: Seen[other] # NoEntry => Seen[other].identity # Seen'[id].identity
        /\ Ledger!OnlyAt(id)
        /\ UNCHANGED <<deletions, clock>>
  BY DEF Seen, Ledger!Create, Ledger!Present
<1>5. Ledger!Change(id) <=>
        /\ Seen[id] # NoEntry
        /\ Seen'[id] \in Ledger!Datasets
        /\ Seen'[id].identity = Seen[id].identity
        /\ Seen[id].bars \subseteq Seen'[id].bars
        /\ Seen'[id].collect # Seen[id].collect =>
             Seen'[id].collect # "none" /\ Seen[id].identity.series \in Subscribed
        /\ Ledger!OnlyAt(id)
        /\ UNCHANGED <<deletions, clock>>
  BY DEF Seen, Ledger!Change, Ledger!Present
<1>6. Ledger!Remove(id) <=>
        /\ Seen[id] # NoEntry
        /\ Seen' = [Seen EXCEPT ![id] = NoEntry]
        /\ UNCHANGED clock
  BY DEF Seen, Ledger!Remove, Ledger!Present
<1>7. Ledger!Delete(id) <=>
        /\ Ledger!Remove(id)
        /\ \E counted \in 0..Cardinality(Seen[id].bars): RecordDeletion(id, counted, "OPERATOR")
  BY DEF Seen, Ledger!Delete, Ledger!Record, RecordDeletion, Cardinality, Ledger!Cardinality
<1>8. Ledger!Reap(id) <=>
        /\ Ledger!Remove(id)
        /\ Seen[id].expiry # NoExpiry
        /\ Seen[id].expiry <= clock
        /\ RecordDeletion(id, Cardinality(Seen[id].bars), "REAPER")
  BY DEF Seen, Ledger!Reap, Ledger!Record, RecordDeletion, Cardinality, Ledger!Cardinality
<1>9. Ledger!Withdraw(id) <=> Ledger!Remove(id) /\ UNCHANGED deletions
  BY DEF Seen, Ledger!Withdraw
<1>. QED
  BY <1>1, <1>2, <1>3, <1>4, <1>5, <1>6, <1>7, <1>8, <1>9

\* A row that stays under its key is one changed dataset.
LEMMA ChangeSeen ==
  ASSUME TypeInv, TypeInv', CollectsFit, CollectsFit', NEW id \in Ids, Live(id), Live(id)',
         \A a \in Ids \ {id}: entry'[a] = entry[a] /\ bars'[a] = bars[a],
         entry'[id].identity = entry[id].identity,
         \A s \in Slots: bars[id][s] # NoBar => bars'[id][s] # NoBar,
         UNCHANGED <<deletions, clock>>
  PROVE  Ledger!Change(id)
<1>1. Seen[id] = LedgerDataset(id) /\ Seen[id] # NoEntry
  BY SeenNow
<1>2. Seen'[id] = LedgerDataset(id)' /\ Seen'[id] \in Ledger!Datasets
  BY SeenNext
<1>3. Ledger!OnlyAt(id)
  BY SeenOne, SeenActions
<1>4. Seen'[id].identity = Seen[id].identity /\ Seen[id].bars \subseteq Seen'[id].bars
  BY <1>1, <1>2 DEF LedgerDataset
<1>5. Seen'[id].collect # Seen[id].collect => Seen'[id].collect # "none" /\ Seen[id].identity.series \in Subscribed
  BY <1>1, <1>2 DEF LedgerDataset, CollectsFit
<1>. QED
  BY <1>1, <1>2, <1>3, <1>4, <1>5, SeenActions

\* A row that appears is one created dataset.
LEMMA CreateSeen ==
  ASSUME TypeInv, TypeInv', CollectsFit', NEW id \in Ids, ~Live(id), Live(id)',
         \A a \in Ids \ {id}: entry'[a] = entry[a] /\ bars'[a] = bars[a],
         \A a \in Ids: ~Named(a, entry'[id].identity),
         UNCHANGED <<deletions, clock>>
  PROVE  Ledger!Create(id)
<1>1. Seen[id] = NoEntry
  BY SeenNow
<1>2. Seen'[id] = LedgerDataset(id)' /\ Seen'[id] \in Ledger!Datasets
  BY SeenNext
<1>3. Ledger!OnlyAt(id)
  BY SeenOne, SeenActions
<1>4. Seen'[id].collect # "none" <=> Seen'[id].identity.series \in Subscribed
  BY <1>2 DEF LedgerDataset, CollectsFit
<1>5. ASSUME NEW other \in Ids, Seen[other] # NoEntry PROVE Seen[other].identity # Seen'[id].identity
  <2>1. Live(other) /\ Seen[other] = LedgerDataset(other)
    BY <1>5, SeenNow
  <2>. QED
    BY <1>2, <2>1 DEF LedgerDataset, Named
<1>. QED
  BY <1>1, <1>2, <1>3, <1>4, <1>5, SeenActions

\* A row that goes is one removed dataset.
LEMMA RemoveSeen ==
  ASSUME TypeInv, TypeInv', NEW id \in Ids, Gone(id)
  PROVE  Ledger!Remove(id) /\ Seen[id] = LedgerDataset(id) /\ Cardinality(Seen[id].bars) = CountOf(id)
<1>1. Seen[id] = LedgerDataset(id) /\ Seen[id] # NoEntry
  BY SeenNow DEF Gone
<1>2. \A a \in Ids \ {id}: entry'[a] = entry[a] /\ bars'[a] = bars[a]
  BY DEF Gone, DeleteEntryRow, TypeInv, TypeOK, TablesOK
<1>3. Seen'[id] = NoEntry
  BY SeenNext DEF Gone, DeleteEntryRow, Live, TypeInv, TypeOK, TablesOK
<1>4. Seen' = [Seen EXCEPT ![id] = NoEntry]
  BY <1>2, <1>3, SeenOne
<1>5. Cardinality(Seen[id].bars) = CountOf(id)
  BY <1>1 DEF LedgerDataset, CountOf
<1>. QED
  BY <1>1, <1>4, <1>5, SeenActions DEF Gone

LEMMA LedgerStep ==
  ASSUME StoreInv, ReapInv, LedgerInv, [Next]_vars
  PROVE  Ledger!Next \/ UNCHANGED <<Seen, deletions, clock>>
<1> USE DEF StoreInv, LedgerInv
<1>1. TypeInv' /\ LedgerInv'
  BY TypeStep, LedgerInvStep
<1>2. ASSUME NEW f \in Fetches, Commit(f)
      PROVE  \E id \in Ids: Ledger!Create(id) \/ Ledger!Change(id)
  <2>1. PICK id \in Ids, row \in Entry, kept \in [Slots -> Fetches \cup {NoBar}]:
               /\ entry' = [entry EXCEPT ![id] = row] /\ bars' = [bars EXCEPT ![id] = kept]
               /\ \A s \in Slots: bars[id][s] # NoBar => kept[s] # NoBar
               /\ IF Live(id) THEN row.identity = entry[id].identity ELSE \A a \in Ids: ~Named(a, row.identity)
               /\ UNCHANGED <<deletions, clock>>
    BY <1>2, CommitSeen
  <2>2. /\ entry'[id] = row /\ bars'[id] = kept /\ row # NoEntry
        /\ \A a \in Ids \ {id}: entry'[a] = entry[a] /\ bars'[a] = bars[a]
    BY <2>1, NullsAssumption DEF TypeInv, TypeOK, TablesOK
  <2>3. Live(id)'
    BY <2>2 DEF Live
  <2>4. CASE Live(id)
    BY <1>1, <2>1, <2>2, <2>3, <2>4, ChangeSeen
  <2>5. CASE ~Live(id)
    BY <1>1, <2>1, <2>2, <2>3, <2>5, CreateSeen
  <2>. QED
    BY <2>4, <2>5
<1>3. CASE OperatorSetExpiry \/ OperatorSetCollecting
  <2> DEFINE id == oper.id
  <2>1. PICK row \in Entry:
               /\ Live(id) /\ id \in Ids /\ entry' = [entry EXCEPT ![id] = row]
               /\ row.identity = entry[id].identity /\ UNCHANGED <<bars, deletions, clock>>
    BY <1>3, EditSeen
  <2>2. entry'[id] = row /\ row # NoEntry /\ \A a \in Ids \ {id}: entry'[a] = entry[a]
    BY <2>1, NullsAssumption DEF TypeInv, TypeOK, TablesOK
  <2>3. \E a \in Ids: a = id /\ Live(a)'
    BY <2>1, <2>2 DEF Live
  <2>4. \E a \in Ids: Ledger!Change(a)
    BY <1>1, <2>1, <2>2, <2>3, ChangeSeen
  <2>. QED
    BY <2>4 DEF Ledger!Next
<1>4. ASSUME NEW id \in Ids, OwnerDelete(id) PROVE Ledger!Withdraw(id)
  BY <1>1, <1>4, DeleteSeen, RemoveSeen, SeenActions DEF OwnerDelete
<1>5. ASSUME NEW id \in Ids, ReaperDelete(id) PROVE Ledger!Reap(id)
  <2>1. Due(id, reap.now) /\ RecordDeletion(id, CountOf(id), "REAPER")
    BY <1>5 DEF ReaperDelete
  <2>2. entry[id].expiry # NoExpiry /\ entry[id].expiry <= clock
    <3>1. reap.now \in Nat /\ clock \in Nat
      BY BoundsAssumption DEF TypeInv, TypeOK, TasksOK
    <3>2. entry[id].expiry \in Nat
      BY <2>1, BoundsAssumption DEF Due, Live, TypeInv, TypeOK, TablesOK, Entry, Expiries
    <3>. QED
      BY <2>1, <3>1, <3>2 DEF Due, ReapInv
  <2>3. Ledger!Remove(id) /\ Seen[id] = LedgerDataset(id) /\ Cardinality(Seen[id].bars) = CountOf(id)
    BY <1>1, <1>5, DeleteSeen, RemoveSeen
  <2>4. Seen[id].expiry = entry[id].expiry
    BY <2>3 DEF LedgerDataset
  <2>. QED
    BY <2>1, <2>2, <2>3, <2>4, SeenActions
<1>6. CASE OperatorDelete
  <2>1. PICK id \in Ids: id = oper.id /\ Gone(id)
    BY <1>6, DeleteSeen
  <2>2. oper.op = "delete" /\ RecordDeletion(id, oper.count, "OPERATOR")
    BY <1>6, <2>1 DEF OperatorDelete, OperatorWrites
  <2>3. oper.count <= CountOf(id)
    BY <2>1, <2>2 DEF OperFits, Gone
  <2>4. oper.count \in 0..CountOf(id)
    BY <2>3, CountInRange, BoundsAssumption DEF TypeInv, TypeOK, TasksOK
  <2>5. Ledger!Delete(id)
    BY <1>1, <2>1, <2>2, <2>4, RemoveSeen, SeenActions
  <2>. QED
    BY <2>5 DEF Ledger!Next
<1>7. CASE Tick
  BY <1>7 DEF Tick, tables, Seen, Live, LedgerDataset, Ledger!Next, Ledger!Tick
<1>8. CASE UNCHANGED <<entry, bars, deletions, clock>>
  BY <1>8 DEF Seen, Live, LedgerDataset
<1>9. ASSUME NEW id \in Ids, Ledger!Create(id) \/ Ledger!Change(id) \/ Ledger!Withdraw(id) \/ Ledger!Reap(id)
      PROVE  Ledger!Next
  BY <1>9 DEF Ledger!Next
<1>. QED
  BY <1>2, <1>3, <1>4, <1>5, <1>6, <1>7, <1>8, <1>9, TableChanges

LEMMA LedgerInit == Init => Ledger!Init
<1> SUFFICES ASSUME Init PROVE Ledger!Init
  OBVIOUS
<1>1. TypeInv /\ LockInv
  BY StoreInvInit DEF StoreInv
<1>2. Seen \in [Ids -> Ledger!Datasets \cup {NoEntry}]
  BY <1>1, SeenNow DEF Seen
<1>3. ASSUME NEW i \in Ids, NEW j \in Ids, Seen[i] # NoEntry, Seen[j] # NoEntry, Seen[i].identity = Seen[j].identity
      PROVE  i = j
  <2>1. Live(i) /\ Seen[i] = LedgerDataset(i) /\ Live(j) /\ Seen[j] = LedgerDataset(j)
    BY <1>1, <1>3, SeenNow
  <2>2. Seen[i].identity = entry[i].identity /\ Seen[j].identity = entry[j].identity
    BY <2>1 DEF LedgerDataset
  <2>. QED
    BY <1>1, <1>3, <2>1, <2>2 DEF LockInv, UniqueKeys
<1>4. deletions = {} /\ clock = 0
  BY DEF Init
<1>5. \A i, j \in Ids: Ledger!Present(i) /\ Ledger!Present(j) /\ Seen[i].identity = Seen[j].identity => i = j
  BY <1>3, SeenActions
<1>. QED
  BY <1>2, <1>4, <1>5 DEF Ledger!Init, Seen

\* Every behaviour of the store, whatever interleaves, waits, rolls back or
\* restarts, is one of whole operations on its datasets.
THEOREM StoreImplementsLedger == Spec => ImplementsLedger
<1> DEFINE Inv == StoreInv /\ ReapInv /\ LedgerInv
<1>1. Init => Inv
  <2>1. ASSUME Init PROVE ReapInv
    <3>1. reap.now = 0 /\ clock = 0
      BY <2>1 DEF Init, NoReap
    <3>. QED
      BY <3>1 DEF ReapInv
  <2>. QED
    BY <2>1, StoreInvInit, LedgerInvInit
<1>2. Inv /\ [Next]_vars => Inv'
  BY StoreInvStep, ReapStep, LedgerInvStep DEF StoreInv
<1>3. Inv /\ [Next]_vars => [Ledger!Next]_(Ledger!vars)
  BY LedgerStep DEF Ledger!vars, Seen
<1>. QED
  BY <1>1, <1>2, <1>3, LedgerInit, PTL DEF Spec, ImplementsLedger, Ledger!Spec
=============================================================================
