--------------------------- MODULE DatasetStore ---------------------------
(***************************************************************************)
(* The data store's write paths over its PostgreSQL tables: fetches that   *)
(* create or extend a dataset inside one transaction, the run recorder     *)
(* that describes them from the outside, the scheduled refresh, the expiry *)
(* reaper, the operator's and the owner's writes, and a process restart.   *)
(*                                                                         *)
(* A committed transaction is one step; a fetch's transaction is open over *)
(* many, so its uncommitted work sits in `tx` and its row lock is derived  *)
(* from where it stands (Holds).  Isolation is READ COMMITTED: every other *)
(* statement reads the committed tables at its own step, and one that      *)
(* writes or locks a row waits until no other transaction holds it.        *)
(***************************************************************************)
EXTENDS DatasetIdentity, FiniteSets

CONSTANTS
  Fetches,        \* fetch attempts, each run once; one that inserts mints its own name as the dataset id
  Existing,       \* ids of the datasets that may be stored at the start
  Identities,     \* natural keys: [series, feed, start, end]
  Requests,       \* the POST bodies callers may send: [identity, expiry, collect]
  Subscribed,     \* series whose update type is DAILY; the others are STATIC
  Foreign,        \* series whose owner is not the operator
  MaxPages,       \* bound: bar positions, and so pages of one stream
  MaxClock,       \* bound: the clock and every deletion date
  Faults,         \* which of AllFaults may happen
  ReaperDeletes,  \* the reaper's enabling setting; FALSE is its dry run
  AuditTables,    \* whether the audit tables have been migrated in
  NoEntry, NoBar, NoId, NoExpiry, NoRequest

AllFaults == {"recorder", "stream", "cancel", "crash", "reaper"}

Ids      == Fetches \cup Existing
Slots    == 1..MaxPages
Expiries == {NoExpiry} \cup 1..MaxClock
Collects == {"on", "off", "none"}
Explicit == {"on", "off", "omitted"}

UpdateType(series) == IF series \in Subscribed THEN "DAILY" ELSE "STATIC"

Entry   == [identity: Identities, expiry: Expiries, collect: Collects]
Request == [kind: {"post", "refresh"}, identity: Identities, expiry: Expiries, collect: Explicit]

ASSUME IdsAssumption == Fetches \cap Existing = {} /\ NoId \notin Ids /\ NoBar \notin Fetches
ASSUME IdentitiesAssumption == \A i \in Identities: IsRange(i.start, i.end)
ASSUME RequestsAssumption ==
  \A r \in Requests:
    /\ [kind |-> "post", identity |-> r.identity, expiry |-> r.expiry, collect |-> r.collect] \in Request
    /\ r.identity.series \notin Subscribed => r.collect = "omitted"
ASSUME BoundsAssumption == MaxPages \in Nat /\ MaxClock \in Nat /\ IsFiniteSet(Ids)
ASSUME SettingsAssumption == Faults \subseteq AllFaults /\ ReaperDeletes \in BOOLEAN /\ AuditTables \in BOOLEAN
ASSUME NullsAssumption == NoEntry \notin Entry /\ NoRequest \notin Request /\ NoExpiry \notin Nat

VARIABLES
  entry,      \* table store_dataset_entry: [Ids -> Entry or NoEntry]
  bars,       \* table stock_market_activity: [Ids -> [Slots -> the fetch that wrote the bar, or NoBar]]
  deletions,  \* table dataset_deletion: records [id, bars, cause]
  overrides,  \* table dataset_override_log: the ids its rows name
  run,        \* table ingest_run, one row at most per fetch: [state, dataset]
  phase,      \* where each fetch stands
  request,    \* what each fetch was asked for
  tx,         \* each fetch's own transaction and locals: [id, before, written, done, dropped]
  plan,       \* the refresh pass's snapshot: requests still to send
  reap,       \* the reaper pass's snapshot: [now, todo]
  oper,       \* the operator write in flight: [op, id, expiry, collect, count]
  clock

fetchVars == <<run, phase, request, tx>>
tables    == <<entry, bars, deletions, overrides>>
vars      == <<entry, bars, deletions, overrides, run, phase, request, tx, plan, reap, oper, clock>>

Phases == {"idle", "fetching", "locked", "upserted", "writing", "served",
           "stored", "dropped", "failing", "closed"}
RunStates == {"none", "RUNNING", "SUCCEEDED", "EMPTY", "FAILED"}

OpenTx(id, before) == [id |-> id, before |-> before, written |-> {}, done |-> FALSE, dropped |-> FALSE]
NoTx     == OpenTx(NoId, "none")
NoRun    == [state |-> "none", dataset |-> NoId]
NoReap   == [now |-> 0, todo |-> {}]
NoOper   == [op |-> "none", id |-> NoId, expiry |-> NoExpiry, collect |-> "none", count |-> 0]
NoBars   == [s \in Slots |-> NoBar]

TablesOK ==
  /\ entry \in [Ids -> Entry \cup {NoEntry}]
  /\ bars \in [Ids -> [Slots -> Fetches \cup {NoBar}]]
  /\ deletions \subseteq [id: Ids, bars: 0..MaxPages, cause: {"OPERATOR", "REAPER"}]
  /\ overrides \subseteq Ids

FetchesOK ==
  /\ run \in [Fetches -> [state: RunStates, dataset: Ids \cup {NoId}]]
  /\ phase \in [Fetches -> Phases]
  /\ request \in [Fetches -> Request \cup {NoRequest}]
  /\ tx \in [Fetches -> [id: Ids \cup {NoId}, before: Collects, written: SUBSET Slots,
                       done: BOOLEAN, dropped: BOOLEAN]]

TasksOK ==
  /\ plan \subseteq Request
  /\ reap \in [now: 0..MaxClock, todo: SUBSET Ids]
  /\ oper \in [op: {"none", "expiry", "collect", "delete"}, id: Ids \cup {NoId},
               expiry: Expiries, collect: Collects, count: 0..MaxPages]
  /\ clock \in 0..MaxClock

TypeOK == TablesOK /\ FetchesOK /\ TasksOK

-----------------------------------------------------------------------------
(* Rows, locks and transactions *)

Live(id) == entry[id] # NoEntry

\* The rows a unique-key lookup returns: one at most, by the natural key.
RowsOf(i) == {id \in Ids: Live(id) /\ entry[id].identity = i}

\* A fetch locks its identity's row when it reads it FOR UPDATE, and from the
\* upsert on, row or not: a second INSERT of an uncommitted key waits for it.
Holds(f, i) ==
  /\ \/ phase[f] \in {"upserted", "writing", "served"}
     \/ phase[f] = "locked" /\ tx[f].id # NoId
  /\ request[f].identity = i

Unlocked(i) == \A f \in Fetches: ~Holds(f, i)
FreeFor(f, i) == \A g \in Fetches \ {f}: ~Holds(g, i)

Committed(f) == tx[f].done /\ phase[f] # "served"

CountOf(id) == Cardinality({s \in Slots: bars[id][s] # NoBar})

\* DELETE of the entry row; its bars go by ON DELETE CASCADE.
DeleteEntryRow(id) ==
  /\ entry' = [entry EXCEPT ![id] = NoEntry]
  /\ bars' = [bars EXCEPT ![id] = NoBars]

\* The datasets an acknowledged RUNNING run names.
HasRunningRun(id) == \E f \in Fetches: run[f].state = "RUNNING" /\ run[f].dataset = id

MayFail(fault) == fault \in Faults

-----------------------------------------------------------------------------
(* The run recorder: a short transaction of its own around each fetch      *)

\* Every recording is best effort: it may fail, be logged and change nothing.
Recorded(f, row) ==
  \/ run' = [run EXCEPT ![f] = IF @.state = "none" THEN @ ELSE row]
  \/ MayFail("recorder") /\ UNCHANGED run

\* A fetch begins: its RUNNING row is committed, and then step 0 refuses an
\* own overlap on the committed rows, before the stream is opened.  The check
\* compares the series and the range only: no tape is resolved yet.  The row
\* names no dataset, so nothing can tell the two steps apart.
Begin(f, r) ==
  /\ phase[f] = "idle"
  /\ LET refused == \E id \in Ids: Live(id) /\ OwnOverlap(entry[id].identity, r.identity)
     IN phase' = [phase EXCEPT ![f] = IF refused THEN "failing" ELSE "fetching"]
  /\ request' = [request EXCEPT ![f] = r]
  /\ \/ run' = [run EXCEPT ![f] = [state |-> "RUNNING", dataset |-> NoId]]
     \/ MayFail("recorder") /\ UNCHANGED run

\* on_ack, after the upsert and inside the fetch's still open transaction.
Acknowledge(f) ==
  /\ phase[f] = "upserted"
  /\ Recorded(f, [run[f] EXCEPT !.dataset = tx[f].id])
  /\ phase' = [phase EXCEPT ![f] = "writing"]
  /\ UNCHANGED <<tables, request, tx, plan, reap, oper, clock>>

\* What succeed writes, after the fetch's commit, or with no bars for a
\* dropped refresh.
OutcomeRow(f) == [run[f] EXCEPT !.state = IF tx[f].written = {} THEN "EMPTY" ELSE "SUCCEEDED"]

Finish(f) ==
  /\ phase[f] \in {"stored", "dropped"}
  /\ Recorded(f, OutcomeRow(f))
  /\ phase' = [phase EXCEPT ![f] = "closed"]
  /\ request' = [request EXCEPT ![f] = NoRequest]
  /\ UNCHANGED <<tables, tx, plan, reap, oper, clock>>

\* A cancellation after the fetch's commit, before its outcome is recorded or
\* just after: the same exception path as any failure.
CancelLate(f) ==
  /\ MayFail("cancel")
  /\ phase[f] \in {"stored", "dropped"}
  /\ Recorded(f, OutcomeRow(f)) \/ UNCHANGED run
  /\ phase' = [phase EXCEPT ![f] = "failing"]
  /\ UNCHANGED <<tables, request, tx, plan, reap, oper, clock>>

\* A FAILED run keeps its dataset only when the entry exists as it is recorded.
FailedRow(f) ==
  [state |-> "FAILED",
   dataset |-> IF run[f].dataset # NoId /\ Live(run[f].dataset) THEN run[f].dataset ELSE NoId]

\* Mutant: the failure is swallowed and the run closed with what was counted.
FinishFailed_Swallowed(f) ==
  /\ phase[f] = "failing"
  /\ Recorded(f, OutcomeRow(f))
  /\ phase' = [phase EXCEPT ![f] = "closed"]
  /\ request' = [request EXCEPT ![f] = NoRequest]
  /\ plan' \in IF request[f].kind = "refresh" THEN {plan, {}} ELSE {plan}
  /\ UNCHANGED <<tables, tx, reap, oper, clock>>

\* fail, for any exception and for a cancellation, whose recording is shielded.
\* A refresh pass goes on with its next dataset, or stops after a rate limit,
\* too many failures in a row or its own cancellation.
FinishFailed(f) ==
  /\ phase[f] = "failing"
  /\ Recorded(f, FailedRow(f))
  /\ phase' = [phase EXCEPT ![f] = "closed"]
  /\ request' = [request EXCEPT ![f] = NoRequest]
  /\ plan' \in IF request[f].kind = "refresh" THEN {plan, {}} ELSE {plan}
  /\ UNCHANGED <<tables, tx, reap, oper, clock>>

-----------------------------------------------------------------------------
(* A fetch: one stream, one transaction *)

PostRequest(r) == [kind |-> "post", identity |-> r.identity, expiry |-> r.expiry, collect |-> r.collect]

\* POST /store.
Post(f, r) ==
  /\ Begin(f, PostRequest(r))
  /\ UNCHANGED <<tables, tx, plan, reap, oper, clock>>

\* The ack of a request: lock_stored_collect.  With no committed row there is
\* nothing to lock and it does not wait.
LockStoredCollect(f) ==
  /\ phase[f] = "fetching" /\ request[f].kind = "post"
  /\ \/ RowsOf(request[f].identity) = {} /\ UNCHANGED tx
     \/ /\ FreeFor(f, request[f].identity)
        /\ \E id \in RowsOf(request[f].identity):
             tx' = [tx EXCEPT ![f] = OpenTx(id, entry[id].collect)]
  /\ phase' = [phase EXCEPT ![f] = "locked"]
  /\ UNCHANGED <<tables, run, request, plan, reap, oper, clock>>

\* Mutant: the refresh locks the entry without judging whether it is stopped.
LockActiveEntry_Unjudged(f) ==
  /\ phase[f] = "fetching" /\ request[f].kind = "refresh"
  /\ FreeFor(f, request[f].identity)
  /\ \E id \in RowsOf(request[f].identity): tx' = [tx EXCEPT ![f].id = id]
  /\ phase' = [phase EXCEPT ![f] = "locked"]
  /\ UNCHANGED <<tables, run, request, plan, reap, oper, clock>>

\* The ack of a refresh: lock_active_entry.  A dataset that went, or whose
\* collection was stopped, while the vendor call was out drops the answer.
LockActiveEntry(f) ==
  /\ phase[f] = "fetching" /\ request[f].kind = "refresh"
  /\ \/ /\ RowsOf(request[f].identity) = {}
        /\ phase' = [phase EXCEPT ![f] = "dropped"]
        /\ tx' = [tx EXCEPT ![f].dropped = TRUE]
     \/ /\ FreeFor(f, request[f].identity)
        /\ \E id \in RowsOf(request[f].identity):
             IF entry[id].collect = "off"
             THEN phase' = [phase EXCEPT ![f] = "dropped"] /\ tx' = [tx EXCEPT ![f].dropped = TRUE]
             ELSE phase' = [phase EXCEPT ![f] = "locked"] /\ tx' = [tx EXCEPT ![f] = OpenTx(id, "none")]
  /\ UNCHANGED <<tables, run, request, plan, reap, oper, clock>>

\* Mutant: insert or update is decided by the earlier read, not by the key.
UpsertEntry_TrustsRead(f) ==
  /\ phase[f] = "locked"
  /\ tx' = [tx EXCEPT ![f].id = IF @ = NoId THEN f ELSE @]
  /\ phase' = [phase EXCEPT ![f] = "upserted"]
  /\ UNCHANGED <<tables, run, request, plan, reap, oper, clock>>

\* Mutant: the lock was taken on another session, and the upsert waits for it.
UpsertEntry_SelfBlocked(f) ==
  /\ phase[f] = "locked"
  /\ Unlocked(request[f].identity)
  /\ LET rows == RowsOf(request[f].identity)
     IN \E id \in IF rows = {} THEN {f} ELSE rows: tx' = [tx EXCEPT ![f].id = id]
  /\ phase' = [phase EXCEPT ![f] = "upserted"]
  /\ UNCHANGED <<tables, run, request, plan, reap, oper, clock>>

\* INSERT ... ON CONFLICT DO UPDATE RETURNING id: the row the key names, or a
\* new one; it waits for a transaction that holds the key.
UpsertEntry(f) ==
  /\ phase[f] = "locked"
  /\ FreeFor(f, request[f].identity)
  /\ LET rows == RowsOf(request[f].identity)
     IN \E id \in IF rows = {} THEN {f} ELSE rows: tx' = [tx EXCEPT ![f].id = id]
  /\ phase' = [phase EXCEPT ![f] = "upserted"]
  /\ UNCHANGED <<tables, run, request, plan, reap, oper, clock>>

\* One page, written as it arrives; a stream's pages come in bar order.
Page(f, s) ==
  /\ phase[f] = "writing"
  /\ \A earlier \in tx[f].written: earlier < s
  /\ tx' = [tx EXCEPT ![f].written = @ \cup {s}]
  /\ UNCHANGED <<tables, run, phase, request, plan, reap, oper, clock>>

FetchDone(f) ==
  /\ phase[f] = "writing"
  /\ tx' = [tx EXCEPT ![f].done = TRUE]
  /\ phase' = [phase EXCEPT ![f] = "served"]
  /\ UNCHANGED <<tables, run, request, plan, reap, oper, clock>>

\* Mutant: the body's collect is written as it came, unresolved.
UpsertedRow_Unresolved(f) ==
  LET r == request[f]
  IN IF ~Live(tx[f].id) THEN [identity |-> r.identity, expiry |-> r.expiry, collect |-> r.collect]
     ELSE [entry[tx[f].id] EXCEPT !.expiry = r.expiry, !.collect = r.collect]

\* The row as f's upsert leaves it: a new one; a stored one, which a refresh
\* leaves as it is; or a stored one that takes a repeat's expiry and, when the
\* body names one, its collect.
InsertedRow(r) ==
  [identity |-> r.identity, expiry |-> r.expiry,
   collect |-> ResolvedCollect(UpdateType(r.identity.series), r.collect)]

RepeatedRow(row, r) ==
  [identity |-> row.identity, expiry |-> r.expiry,
   collect |-> IF r.collect = "omitted" THEN row.collect ELSE r.collect]

UpsertedRow(f) ==
  LET row == entry[tx[f].id]
  IN IF ~Live(tx[f].id) THEN InsertedRow(request[f])
     ELSE IF request[f].kind = "refresh" THEN row
     ELSE RepeatedRow(row, request[f])

\* Mutant: pages are committed as they arrive.
Commit_PerPage(f) ==
  /\ phase[f] \in {"writing", "served"} /\ tx[f].written # {}
  /\ entry' = [entry EXCEPT ![tx[f].id] = UpsertedRow(f)]
  /\ bars' = [bars EXCEPT ![tx[f].id] = [s \in Slots |-> IF s \in tx[f].written THEN f ELSE @[s]]]
  /\ phase' = [phase EXCEPT ![f] = IF @ = "served" THEN "stored" ELSE @]
  /\ UNCHANGED <<deletions, overrides, run, request, tx, plan, reap, oper, clock>>

\* The block's exit: the entry and every page become visible together.
Commit(f) ==
  /\ phase[f] = "served"
  /\ entry' = [entry EXCEPT ![tx[f].id] = UpsertedRow(f)]
  /\ bars' = [bars EXCEPT ![tx[f].id] = [s \in Slots |-> IF s \in tx[f].written THEN f ELSE @[s]]]
  /\ phase' = [phase EXCEPT ![f] = "stored"]
  /\ UNCHANGED <<deletions, overrides, run, request, tx, plan, reap, oper, clock>>

\* A refused ack, a broken or late stream, a database error or a cancellation
\* before the commit: the transaction rolls back.
Abort(f) ==
  /\ MayFail("stream")
  /\ phase[f] \in {"fetching", "locked", "upserted", "writing", "served"}
  /\ phase' = [phase EXCEPT ![f] = "failing"]
  /\ tx' = [tx EXCEPT ![f] = NoTx]
  /\ UNCHANGED <<tables, run, request, plan, reap, oper, clock>>

-----------------------------------------------------------------------------
(* The scheduled refresh: serial, working from the list its pass read *)

RefreshActive == \E f \in Fetches: phase[f] \notin {"idle", "closed"} /\ request[f].kind = "refresh"

RefreshRequest(id) ==
  [kind |-> "refresh", identity |-> entry[id].identity, expiry |-> entry[id].expiry, collect |-> "omitted"]

\* A pass lists DAILY datasets that are collected and not running; which of
\* them are behind is the calendar's answer.
StartPass ==
  /\ plan = {} /\ ~RefreshActive
  /\ \E f \in Fetches: phase[f] = "idle"
  /\ LET rows == {id \in Ids: /\ Live(id) /\ entry[id].identity.series \in Subscribed
                              /\ entry[id].collect # "off" /\ ~HasRunningRun(id)}
     IN \E behind \in SUBSET rows: behind # {} /\ plan' = {RefreshRequest(id): id \in behind}
  /\ UNCHANGED <<tables, fetchVars, reap, oper, clock>>

Refresh(f, r) ==
  /\ r \in plan /\ ~RefreshActive
  /\ Begin(f, r)
  /\ plan' = plan \ {r}
  /\ UNCHANGED <<tables, tx, reap, oper, clock>>

-----------------------------------------------------------------------------
(* The expiry reaper *)

Due(id, now) == Live(id) /\ entry[id].expiry # NoExpiry /\ entry[id].expiry <= now

\* A pass lists what is past its expiry and not running, at one instant.
StartReap ==
  /\ ReaperDeletes /\ AuditTables
  /\ reap.todo = {}
  /\ LET pending == {id \in Ids: Due(id, clock) /\ ~HasRunningRun(id)}
     IN pending # {} /\ reap' = [now |-> clock, todo |-> pending]
  /\ UNCHANGED <<tables, fetchVars, plan, oper, clock>>

\* The rest of the pass after `id`; a finished pass forgets its instant.
Reaped(id) == IF reap.todo = {id} THEN NoReap ELSE [reap EXCEPT !.todo = @ \ {id}]

RecordDeletion(id, counted, cause) ==
  deletions' = deletions \cup {[id |-> id, bars |-> counted, cause |-> cause]}

\* Mutant: a run that started since the listing is not looked for again.
ReaperDelete_NoRunCheck(id) ==
  /\ id \in reap.todo
  /\ Due(id, reap.now) /\ Unlocked(entry[id].identity)
  /\ DeleteEntryRow(id)
  /\ RecordDeletion(id, CountOf(id), "REAPER")
  /\ reap' = Reaped(id)
  /\ UNCHANGED <<overrides, fetchVars, plan, oper, clock>>

\* Mutant: the expiry is not judged again under the lock.
ReaperDelete_StaleExpiry(id) ==
  /\ id \in reap.todo
  /\ Live(id) /\ Unlocked(entry[id].identity)
  /\ ~HasRunningRun(id)
  /\ DeleteEntryRow(id)
  /\ RecordDeletion(id, CountOf(id), "REAPER")
  /\ reap' = Reaped(id)
  /\ UNCHANGED <<overrides, fetchVars, plan, oper, clock>>

\* Mutant: an expiry that is exactly now counts as due when listed, not when
\* deleted.
ReaperDelete_Strict(id) ==
  /\ id \in reap.todo
  /\ Due(id, reap.now - 1) /\ Unlocked(entry[id].identity)
  /\ ~HasRunningRun(id)
  /\ DeleteEntryRow(id)
  /\ RecordDeletion(id, CountOf(id), "REAPER")
  /\ reap' = Reaped(id)
  /\ UNCHANGED <<overrides, fetchVars, plan, oper, clock>>

\* The row is locked, judged again under the lock, counted and deleted, with
\* its deletion record, in one transaction.
ReaperDelete(id) ==
  /\ id \in reap.todo
  /\ Due(id, reap.now) /\ Unlocked(entry[id].identity)
  /\ ~HasRunningRun(id)
  /\ DeleteEntryRow(id)
  /\ RecordDeletion(id, CountOf(id), "REAPER")
  /\ reap' = Reaped(id)
  /\ UNCHANGED <<overrides, fetchVars, plan, oper, clock>>

\* Already gone, moved or running when its turn comes, or the database fails.
ReaperSkip(id) ==
  /\ id \in reap.todo
  /\ \/ ~Live(id)
     \/ Live(id) /\ Unlocked(entry[id].identity) /\ (~Due(id, reap.now) \/ HasRunningRun(id))
     \/ MayFail("reaper")
  /\ reap' = Reaped(id)
  /\ UNCHANGED <<tables, fetchVars, plan, oper, clock>>

-----------------------------------------------------------------------------
(* The operator's writes: read the row, then write it, in one transaction; *)
(* the write waits for the row and may find it gone                        *)

IsForeign(id) == entry[id].identity.series \in Foreign

\* The read half: not found, not a subscription, an override required and
\* audit tables missing are refusals that change nothing.
OperatorRead(op, id, expiry, collect) ==
  /\ oper.op = "none"
  /\ Live(id)
  /\ op = "collect" => entry[id].identity.series \in Subscribed
  /\ op = "delete" \/ IsForeign(id) => AuditTables
  /\ oper' = [op |-> op, id |-> id, expiry |-> expiry, collect |-> collect,
              count |-> IF op = "delete" THEN CountOf(id) ELSE 0]
  /\ UNCHANGED <<tables, fetchVars, plan, reap, clock>>

\* Mutant: the row count of the DELETE is not looked at.
OperatorTooLate_RecordsDeletion ==
  /\ oper.op # "none" /\ ~Live(oper.id)
  /\ oper' = NoOper
  /\ IF oper.op = "delete" THEN RecordDeletion(oper.id, oper.count, "OPERATOR") ELSE UNCHANGED deletions
  /\ UNCHANGED <<entry, bars, overrides, fetchVars, plan, reap, clock>>

\* Mutant: the row count of the UPDATE is not looked at.
OperatorTooLate_RecordsOverride ==
  /\ oper.op # "none" /\ ~Live(oper.id)
  /\ oper' = NoOper
  /\ overrides' = overrides \cup {oper.id}
  /\ UNCHANGED <<entry, bars, deletions, fetchVars, plan, reap, clock>>

\* The write found no row: EntryNotFound, nothing is recorded.
OperatorTooLate ==
  /\ oper.op # "none" /\ ~Live(oper.id)
  /\ oper' = NoOper
  /\ UNCHANGED <<tables, fetchVars, plan, reap, clock>>

\* The override row of a write on another owner's dataset.
RecordOverride(id) == overrides' = IF IsForeign(id) THEN overrides \cup {id} ELSE overrides

OperatorWrites(op) ==
  /\ oper.op = op /\ Live(oper.id) /\ Unlocked(entry[oper.id].identity)
  /\ RecordOverride(oper.id)
  /\ oper' = NoOper
  /\ UNCHANGED <<fetchVars, plan, reap, clock>>

OperatorSetExpiry ==
  /\ OperatorWrites("expiry")
  /\ entry' = [entry EXCEPT ![oper.id].expiry = oper.expiry]
  /\ UNCHANGED <<bars, deletions>>

OperatorSetCollecting ==
  /\ OperatorWrites("collect")
  /\ entry' = [entry EXCEPT ![oper.id].collect = oper.collect]
  /\ UNCHANGED <<bars, deletions>>

\* The count the record carries was taken before the DELETE waited.
OperatorDelete ==
  /\ OperatorWrites("delete")
  /\ DeleteEntryRow(oper.id)
  /\ RecordDeletion(oper.id, oper.count, "OPERATOR")

\* DELETE /store/{id} by the declared owner.
OwnerDelete(id) ==
  /\ Live(id) /\ Unlocked(entry[id].identity)
  /\ DeleteEntryRow(id)
  /\ UNCHANGED <<deletions, overrides, fetchVars, plan, reap, oper, clock>>

-----------------------------------------------------------------------------
(* Process death, restart and its startup sweep *)

Tick ==
  /\ clock < MaxClock
  /\ clock' = clock + 1
  /\ UNCHANGED <<tables, fetchVars, plan, reap, oper>>

\* Every open transaction rolls back and every task is gone; the sweep fails
\* the runs left RUNNING and keeps the dataset each one names.
Restart ==
  /\ MayFail("crash")
  /\ phase' = [f \in Fetches |-> IF phase[f] = "idle" THEN "idle" ELSE "closed"]
  /\ request' = [f \in Fetches |-> NoRequest]
  /\ tx' = [f \in Fetches |-> IF Committed(f) \/ tx[f].dropped THEN tx[f] ELSE NoTx]
  /\ plan' = {} /\ reap' = NoReap /\ oper' = NoOper
  /\ \/ run' = [f \in Fetches |-> IF run[f].state = "RUNNING"
                                  THEN [run[f] EXCEPT !.state = "FAILED"] ELSE run[f]]
     \/ MayFail("recorder") /\ UNCHANGED run
  /\ UNCHANGED <<tables, clock>>

-----------------------------------------------------------------------------
\* A store at startup: some datasets, bars not yet fetched, distinct keys, no own overlap.
Init ==
  /\ entry \in [Ids -> Entry \cup {NoEntry}]
  /\ \A f \in Fetches: ~Live(f)
  /\ \A id \in Existing: Live(id) =>
       /\ RowsOf(entry[id].identity) = {id}
       /\ entry[id].collect = "none" <=> entry[id].identity.series \notin Subscribed
       /\ \A other \in Existing: Live(other) => ~OwnOverlap(entry[id].identity, entry[other].identity)
  /\ bars = [id \in Ids |-> NoBars]
  /\ deletions = {} /\ overrides = {}
  /\ run = [f \in Fetches |-> NoRun]
  /\ phase = [f \in Fetches |-> "idle"]
  /\ request = [f \in Fetches |-> NoRequest]
  /\ tx = [f \in Fetches |-> NoTx]
  /\ plan = {} /\ reap = NoReap /\ oper = NoOper
  /\ clock = 0

FetchStep(f) ==
  \/ LockStoredCollect(f) \/ LockActiveEntry(f) \/ UpsertEntry(f)
  \/ Acknowledge(f) \/ FetchDone(f) \/ Commit(f)
  \/ Finish(f) \/ FinishFailed(f)

FetchNext(f) ==
  \/ \E r \in Requests: Post(f, r)
  \/ \E r \in plan: Refresh(f, r)
  \/ FetchStep(f)
  \/ \E s \in Slots: Page(f, s)
  \/ Abort(f) \/ CancelLate(f)

ReaperNext == StartReap \/ \E id \in Ids: ReaperDelete(id) \/ ReaperSkip(id)

OperatorStep == OperatorTooLate \/ OperatorSetExpiry \/ OperatorSetCollecting \/ OperatorDelete

OperatorNext ==
  \/ \E id \in Ids:
       \/ \E e \in Expiries: OperatorRead("expiry", id, e, "none")
       \/ \E c \in {"on", "off"}: OperatorRead("collect", id, NoExpiry, c)
       \/ OperatorRead("delete", id, NoExpiry, "none")
  \/ OperatorStep

Next ==
  \/ \E f \in Fetches: FetchNext(f)
  \/ StartPass
  \/ ReaperNext
  \/ OperatorNext
  \/ \E id \in Ids: OwnerDelete(id)
  \/ Tick
  \/ Restart

Spec == Init /\ [][Next]_vars

-----------------------------------------------------------------------------
(* Safety *)

\* At most one committed row per natural key (UniqueConstraint on the model).
OneRowPerKey == \A i \in Identities: Cardinality(RowsOf(i)) <= 1

\* The dataset a fetch's open transaction resolved is still the one it will
\* commit to: its row is there, under the same key, or, when the fetch is
\* inserting it, no other transaction has committed that key meanwhile; and
\* nobody else is inside a transaction on the key.  No delete, reap or second
\* fetch can pull the row away between the ack and the commit.
TransactionTargetsHold ==
  \A f \in Fetches: Holds(f, request[f].identity) =>
    /\ FreeFor(f, request[f].identity)
    /\ RowsOf(request[f].identity) = IF Live(tx[f].id) THEN {tx[f].id} ELSE {}
    /\ ~Live(tx[f].id) => tx[f].id = f

\* All-or-nothing per fetch (data_action_request.py, module docstring): a bar
\* in the table was written by a fetch whose stream ran to its FetchDone and
\* whose transaction committed; the other bars of that fetch are in the table
\* too; and they belong to a dataset that is still there.
AllOrNothing ==
  \A id \in Ids, s \in Slots: bars[id][s] # NoBar =>
    LET f == bars[id][s]
    IN /\ Live(id)
       /\ Committed(f) /\ tx[f].id = id
       /\ s \in tx[f].written
       /\ \A t \in tx[f].written: bars[id][t] # NoBar

\* A run that says it stored bars is right: its fetch committed, with bars.  So
\* is one that says it stored none: its fetch committed with none, or it is a
\* refresh whose answer was dropped because its dataset had gone or had been
\* stopped; a fetch that was refused, broke off or was rolled back is neither.
\* And the dataset such a run names is the one its fetch committed to.
RunOutcomeTrue ==
  \A f \in Fetches:
    /\ run[f].state = "SUCCEEDED" => Committed(f) /\ tx[f].written # {}
    /\ run[f].state = "EMPTY" => tx[f].written = {} /\ (Committed(f) \/ tx[f].dropped)
    /\ run[f].state \in {"SUCCEEDED", "EMPTY"} /\ run[f].dataset # NoId =>
         Committed(f) /\ run[f].dataset = tx[f].id

\* The deletion record has one row per deleted dataset, whoever raced to
\* delete it, and none for a dataset that is still there.
OneRecordPerDeletion ==
  \A d \in deletions: ~Live(d.id) /\ \A e \in deletions: d.id = e.id => d = e

\* The operator's override log never names a write that did not happen: the
\* dataset a new row names was there, under another owner, as the write took
\* effect.
OverridesNameLiveDatasets ==
  [][\A id \in overrides' \ overrides: Live(id) /\ IsForeign(id)]_vars

\* A scheduled refresh commits only into a dataset that is still stored and
\* still being collected, and leaves its expiry and collect intent as they
\* are, whatever it read when its pass began.
RefreshHonoursStop ==
  [][\A f \in Fetches:
        phase[f] = "served" /\ phase'[f] = "stored" /\ request[f].kind = "refresh" =>
          Live(tx[f].id) /\ entry[tx[f].id].collect # "off" /\ UNCHANGED entry]_vars

\* The reaper takes a dataset only when its expiry, as it stands at the
\* delete, has passed, no acknowledged run is collecting it and no fetch has
\* an open transaction on it; and it counts exactly the bars that go.
ReaperSpares ==
  [][\A d \in deletions' \ deletions: d.cause = "REAPER" =>
        /\ Due(d.id, clock)
        /\ \A f \in Fetches: ~(run[f].state = "RUNNING" /\ run[f].dataset = d.id)
        /\ \A f \in Fetches: phase[f] \in {"upserted", "writing", "served"} => tx[f].id # d.id
        /\ d.bars = CountOf(d.id)]_vars

\* The committed tables, seen as the ledger of DatasetLedger.
LedgerDataset(id) ==
  [identity |-> entry[id].identity, expiry |-> entry[id].expiry, collect |-> entry[id].collect,
   bars |-> {s \in Slots: bars[id][s] # NoBar}]

ASSUME AbsentAssumption ==
  NoEntry \notin [identity: Identities, expiry: Expiries, collect: Collects, bars: SUBSET Slots]

Ledger == INSTANCE DatasetLedger
  WITH Absent <- NoEntry, time <- clock,
       dataset <- [id \in Ids |-> IF Live(id) THEN LedgerDataset(id) ELSE NoEntry]

\* Every behaviour of the store, its concurrency and restarts included, is one
\* of whole operations on the ledger.
ImplementsLedger == Ledger!Spec

-----------------------------------------------------------------------------
(* What comments of the code claim and its behaviour does not bear out: the *)
(* README has each one with the run that refutes it                         *)

\* An instant of a declared range, whose end is not one of them.
Covers(range, t) == range.start <= t /\ (range.end = Epoch \/ t < range.end)

\* check_own_overlap's purpose: two datasets of one owner have no instant in common, unless they are one
\* range on two tapes.  (Of two ranges that have one, one covers the other's start.)
NoOwnOverlap ==
  \A i, j \in Ids: Live(i) /\ Live(j) =>
    LET a == entry[i].identity
        b == entry[j].identity
    IN  a.series = b.series /\ <<a.start, a.end>> # <<b.start, b.end>> => ~Covers(a, b.start)

\* "a run never points at a dataset that was never committed" (finish_run).
FinishedRunsNameStoredDatasets ==
  \A f \in Fetches: run[f].state = "FAILED" /\ run[f].dataset \in Fetches =>
    Committed(run[f].dataset)

\* "How many bars went with the entry." (append_deletion)
DeletionsCountEveryBar ==
  [][\A d \in deletions' \ deletions: d.bars = CountOf(d.id)]_vars

\* A request's commit that flips a stored collect reports the flip
\* (StoredDataset.collect_changed_to), so the route can publish it.
FlipsAreReported ==
  [][\A f \in Fetches:
        phase[f] = "served" /\ phase'[f] = "stored" /\ request[f].kind = "post" /\ Live(tx[f].id)
          /\ entry'[tx[f].id].collect # entry[tx[f].id].collect =>
             CollectChange(tx[f].before, request[f].collect) = entry'[tx[f].id].collect]_vars

-----------------------------------------------------------------------------
(* Liveness *)

\* Every task that runs gets to run, a statement whose row comes free
\* proceeds, and a reaper pass goes on: the event loop and PostgreSQL's lock
\* queue.  Nothing is assumed of the callers.
Fairness ==
  /\ \A f \in Fetches: WF_vars(FetchStep(f))
  /\ WF_vars(ReaperNext)
  /\ WF_vars(OperatorStep)

LiveSpec == Spec /\ Fairness

\* Every fetch that starts ends, whatever rows it has to wait for.
FetchesEnd == \A f \in Fetches: phase[f] = "fetching" ~> phase[f] = "closed"

\* A dataset past its expiry does not stay: it is deleted or given more time.
ExpiredDatasetsGo == \A id \in Ids: Due(id, clock) ~> ~Due(id, clock)
=============================================================================
