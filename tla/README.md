# Trader Joe in TLA+

This directory models Trader Joe: the `data_store` service
(`src/server/data/store`), which fetches market data, stores it in PostgreSQL as
*datasets*, keeps it current, deletes it when it expires and answers questions
about it; the gate of the `data_ingest` service through which every fetch goes;
the parts of the web client that keep state across answers; and the agent bridge
that runs the developer's stack. TLC checks the modules on small instances;
TLAPS proves the main safety properties for any number of fetches, keys, pages,
reads, callers and snapshots.

Paths below are relative to `src/server/` unless they start with `src/`.

## 1. The system

| Component | Keeps | Does | Hard because |
|---|---|---|---|
| **Dataset write path** (`data/store/app/ingest/data_action_request.py`, `database/crud/stock/store_dataset_entry.py`, `asset_market_activity.py`, `database/transaction.py`, `routers/data_store/asset_dataset_store.py`) | tables `store_dataset_entry`, `stock_market_activity` | `POST /store`: check own overlap, open the stream, on its ack lock and upsert the entry, write pages, commit. `DELETE /store/{id}` by the owner. | one transaction stays open over a whole vendor stream while everybody else reads and writes the same rows |
| **Run recorder** (`ingest/run_recording.py`, `crud/ingest_run.py`) | table `ingest_run` | RUNNING before a fetch, its dataset at the ack, its outcome after it; a startup sweep fails what a dead process left | each record is a transaction on another session, best effort, around and inside the fetch's own |
| **Daily refresh** (`daily_refresh.py`, `common/scheduling.py`) | nothing: works from the tables and a timer | per vendor calendar, after a close, fetches the missing tail of each DAILY dataset, a few at a time, serially | acts on a list read before slow vendor calls; derives what it asked before from the runs, those included that never knew their dataset |
| **Expiry reaper** (`reaper.py`, `crud/stock/dataset_catalog.py`) | the last pending set, for its event | lists what is past expiry and idle, deletes each in its own transaction | judges a snapshot; fetches, edits and deletes race with each turn |
| **Operator writes** (`routers/data_store/ui_dataset_writes.py`, `crud/dataset_override.py`) | tables `dataset_deletion`, `dataset_override_log` | set or clear an expiry, stop or restart collection, delete; foreign owners need an override | reads the row, then writes it; the write may wait, and find it gone |
| **Usage recorder** (`usage_recorder.py`, `crud/dataset_read.py`) | in-memory buffer; tables `dataset_read`, `dataset_read_daily` | buffer a read, flush batches, fold old rows into days | the batch is in neither place while it is being written; commits whose answer is lost |
| **Ingest gate** (`data/ingest/app/brokers/`, `routers/data_ingest/`) | calls in flight, tokens | one vendor call for identical requests; a token bucket per vendor with a reserve for live calls | shared futures and cancellation; waiting under a deadline |
| **Fetch stream seam** (`common/rpc/clients/ingest_fetch.py`, `common/rpc/mapping/`) | the reader's grammar state | one ack, pages of one tape, one FetchDone | a stream that merely stops must not read as complete; the peer may be of another release |
| **Event hub** (`events.py`, `routers/data_store/ui_events.py`) | bounded queue per client | publish after commit, drop a slow client | publishers never wait; a client must notice what it missed |
| **Read models** (`dataset_catalog.py`, `completeness.py`, `trading_calendar.py`, `health.py`, `routers/data_store/ui_*.py`) | nothing | freshness, coverage, gaps, listings, facets, usage figures, storage shares | many answers to one question, computed apart over calendars, day rules and two usage tables |
| **Web client** (`src/web/src/{api,stores,viewer,catalog}`) | what each screen fetched, requests in flight, timers | live detail screen, paged bar viewer, infinite grid | answers, events and the operator's moves in any order |
| **Error vocabulary and boundaries** (`common/errors/vocabulary.py`, `common/rpc/errors.py`, `routers/common/errors.py`) | the table of reasons | turn a failure into a status, a problem+json answer, a log line and a run's record | two services log and answer the same failure |
| **Agent stack** (`src/tools/agent_mcp/`) | a rolling budget, snapshot directories, the compose project | fixed verbs: build, up, down, restart, migrate, suites | checks of a project that changes under minutes-long steps; a thread that outlives its verb |
| **Periodic loops and lifespan** (`common/scheduling.py`, `app_depends.py`) | next fire, wake event | run a job, never overlapping itself; start and stop in order | cancellation in the middle of any of the above |
| **Configuration, migrations, development tools, generated code** | - | - | no concurrent state of their own |

How they meet: all of the data store is **one process and one event loop**
(`app_depends.py:39`, "data_store runs ONE process"), many coroutines, each
with its own database session. They never call each other; they meet in the
tables, under READ COMMITTED, through row locks and the natural key's unique
constraint. What they share in memory is the event hub and the usage buffer.
Towards `data_ingest` there is one gRPC call per fetch, towards the browser
HTTP and one WebSocket.

What makes them correct, in a sentence each:

* **write path**: a fetch is stored whole or not at all, in the dataset its
  acknowledgement resolved, and a natural key names one dataset;
* **run recorder**: a run never claims an outcome that is not so;
* **refresh**: what is due is asked for, once per close, and nothing an operator
  stopped or deleted is written, and nothing but bars is;
* **reaper**: takes only what is expired, idle and unlocked *at the delete*,
  and records it once with the right count; everything expired goes in the end;
* **operator**: each log has exactly the writes that happened;
* **usage recorder**: a read is counted once, or, within the declared bound
  and faults, not at all, and no figure changes when its reads are folded;
* **gate and seam**: nobody who waits is forgotten, live calls keep their
  reserve, nothing starts late, and only a whole answer reads as complete;
* **screens**: they show what they are at, and when nothing is on its way it is
  what is committed, or they say that it may not be;
* **answers**: a count beside a filter is the length of the list, strip, gaps
  and status tell one story, and time alone makes nothing better;
* **errors**: the caller gets the reason, an id that finds the cause, and a wait
  that is long enough;
* **agent stack**: what is built, written or migrated is what was looked at.

The full list of places where this can go wrong, with lines, is under
`hazards` in `PROJECT.json`.

## 2. Modules

```
DatasetIdentity           pure operators: natural key, overlap, collect rules
  DatasetStore            tables, transactions, recorder, refresh, reaper, operator, restart
    INSTANCE DatasetLedger   what all of that promises (abstract)
    MCDatasetStore        instances for TLC
    DatasetStoreProofs    type correctness, who holds which row, the safety properties

UsageRecorder             buffer, flush, cap, roll-up, shutdown, crash
  MCUsageRecorder, UsageRecorderProofs

IngestGate                single flight, token bucket, encoder, wire, reader, deadline
  INSTANCE FetchContract     what a fetch promises (abstract)
  MCIngestGate
  IngestGateProofs          types, the gate and the bucket
    IngestGateFetchProofs   what is stored is whole; the gate implements the contract

AgentStack                verbs, budget, snapshots, compose project
  MCAgentStack, AgentStackProofs

Surroundings              the parts around the write path, one followed per behaviour:
  LiveEvents                hub, socket, events client
    DetailScreen            the live detail screen
  ChartPages                the bar viewer's page cache
  CatalogGrid               list_page walked by the grid
  SessionHealth             calendar, completeness, freshness
  UsageFigures              figures over reads and their daily summaries
    CatalogReads            list, facets, summary, buckets, stale page, shares
  RefreshLoop               run_periodic and the daily refresh's pass
  ErrorAnswers              a failure's way to its caller
  MCSurroundings            instances for TLC
  SurroundingsProofs        the detail screen, the once-per-close rule, a failure's way
    SurroundingsAnswersProofs  types, the viewer's pages, a dataset's status, usage figures, the grid,
                               who is asked for
      SurroundingsReadsProofs  the coverage strip; list, sidebar, usage and storage pages
```

The trees share nothing, as in the code: the usage tables have no foreign key to
the datasets, each loop has its own sessions, and the guards of `DatasetStore`'s
`Page` and `FetchDone` are what `IngestGate`'s `StoredIsComplete` shows of the
stream. `RefreshLoop` decides which datasets `DatasetStore`'s `StartPass` may
take: it takes any.

### DatasetStore and the code

*Tables.* `entry`, `bars`, `deletions`, `overrides` and `run` are the committed
tables. A dataset id is the name of the fetch that minted it, or one of
`Existing`. `bars[id][slot]` says which fetch wrote a bar; its price is nothing
the properties can tell apart. Of a deletion record we keep the id, the count
and the cause; of the override log, the ids its rows name.

*A fetch* is a coroutine in `store_market_activity_worker`, and `phase` is
where it stands:

| `phase` | in the code |
|---|---|
| `idle` | not called yet (each name in `Fetches` runs once) |
| `fetching` | RUNNING row written, overlap check passed, stream requested, no ack yet |
| `locked` | `lock_stored_collect` or `lock_active_entry` has returned |
| `upserted` | `upsert_entry_in_transaction` has returned an id |
| `writing` | `on_ack` has recorded the dataset in the run; pages arrive |
| `served` | FetchDone seen, the commit not yet issued |
| `stored` | committed; the outcome not yet recorded |
| `dropped` | refresh only: `DatasetRetiredDuringFetch` |
| `failing` | an exception or a cancellation is on its way to `RunHandle.fail` |
| `closed` | the run recorder's context has exited |

*Its transaction* is `tx`: the id it resolved, the collect it locked, the slots
it has written, whether its stream finished. Uncommitted work is invisible
until `Commit` moves it to the tables in one step. After the commit `tx` is
kept as history, which is what `Committed` reads; `tx.dropped` says of a refresh
that its answer was dropped because the dataset had gone or been stopped. A fetch
that was refused or rolled back has neither, so `RunOutcomeTrue` tells it from one
that came to nothing.

*Locks* are not a variable. `Holds(f, i)` says from `phase` alone when a
fetch's transaction makes others wait for key `i`: from the moment it locked an
existing row, and from the upsert on whether the row existed or not. The
difference is the code's own: `SELECT ... FOR UPDATE` of a row that is not
there locks nothing. A statement that writes or locks a row has
`Unlocked`/`FreeFor` as a guard. The operator's, owner's and reaper's
transactions have one locking statement each and are one step from it on; the
operator's earlier read is a step of its own (`OperatorRead`), because its
answer is used after a wait.

*Steps that are merged.* `Begin` is the RUNNING row's commit followed by the
overlap check: the row names no dataset yet, so nothing reads a difference
between the two. `Restart` is the death of the process, its restart and the
startup sweep, since nothing else runs before the sweep has finished
(`app_depends.py:38-40`).

*Inputs.* `Requests` are the bodies callers may post. `request.identity` is the
identity the ack will resolve: the eleven key columns, eight of them as one
`series`, because the code only compares them together. The overlap check uses
the series and range only, as `_find_own_overlap` does.

### DatasetLedger

What a reader of the tables may rely on: a dataset appears whole, keeps its
identity, only ever gains bars, and leaves by the owner (unrecorded), the
operator (recorded, with a count that is never too high) or the reaper
(recorded exactly, and only past its deletion date). `ImplementsLedger` checks
that `DatasetStore`, with `LedgerDataset` as the refinement mapping, does only
that.

### UsageRecorder and the code

A read is its place in `read`, which is also the primary key minted with it
(`NewRead.id`); of its columns we keep the client and the UTC day. `buffer` is
`_buffer`, `batch` what a flush has taken out of it, `row[r]` the label stored
for a read in `dataset_read` or `NoRow`, `summary[r]` the labels under which
`fold_reads_before` added it to a day, so that a read added twice shows.

`loop` is the flush task: `idle` between flushes (`run_periodic` never overlaps
its job), `writing` from the swap of the buffer to the flush's end, `final` for
the flush of `stop_usage_loops`, `stopped` when the process is gone or going.
A flush ends in one of four ways: it commits; the tables are missing and the
rows are dropped; it fails with nothing written (the database, or a key already
stored); or its commit takes effect and the answer is lost, which the recorder
cannot tell from a failure. `Shutdown` is the cancellation of a flush at any of
these points. Reading the stored ids for the cap and the INSERT are one step:
only this loop inserts, and the roll-up takes days the cap no longer looks at.

`Cap` counts the clients outside `Exempt`: the operator's label and those that
start with `_` are never replaced. One dataset is enough, because the cap and
the fold treat each on its own. The bound on the buffer is common to all
datasets, and is modelled on the one.

`dropped` adds up what the code logs and resets at each flush. A row of the
cutoff's own day may be on either side of it, so `RollUp` folds any part of
that day and all of the earlier ones.

### IngestGate and FetchContract

A *caller* is one fetch of the store; its record is where it stands, from the
call through the gate (`leading`, `following`, `waiting` for a token, the vendor
call) to the messages it has sent, read and stored. `flights` is `SingleFlight`'s
table; `tokens` the bucket, in units: a call takes `Token` of them, a tick brings as
many, and the reserve is any number of units that leaves room for a token, zero
included (`rate_budget.py:79-84`: a burst of one, a fractional one and a configured
zero all end there). `wire` is the gRPC stream, `WireCap`
messages before the sender waits. A cancelled leader's vendor call runs on in its
executor thread and its result is dropped. A restart of ingest empties the gate.
The rate `None` (no budget) is not modelled; neither is the comparison of a
page's `bar_count`, which the store never makes. `FetchContract` has one step per
fetch: it ends complete with all of the vendor's bars, refused or failed with
nothing; `ImplementsFetch` checks it, with liveness `FetchesEnd`.

*Fairness*: weak, of the clock's tick, of a waiter's wake, of the deadline and of
a cancellation on its way. All four are timers and callbacks of the event loop.

### AgentStack

A verb is a program: the sequence of its checks and docker steps, as the handler
makes them (`runner.py`). `call` is the verb under way and its place. Verbs run
one at a time under the server's lock; a busy caller changes nothing. `copies` is
the threads of `refresh_snapshot`, `dirs` the directories they rename under the
lock file. A time-out ends the verb and leaves its thread; a cancellation that
comes after the copy's last look lets the orphan swap in, under the lock, which
`SnapshotIsOwn` survives because the later verb swaps after it. An `OSError` breaks a
copy at any point (`CopyBroken`), between the renames with no snapshot left live.
`project` is what the compose project runs: modes, services, database mount, image
stamp. A step that fails or is killed leaves any of what it may have done by then
(`LeftByUp`, `LeftByBuild`, `LeftByRestart`); two images of which one was built are
stamped `Mixed`. A seed's write is done or failed.

The owner launches, stops, builds and edits at any time, during a verb as well.
`call.seen` is a history variable: what the running call has looked at (the project's
mode and mount, the image's stamp) with no launch or build of the owner's since. What
a verb writes or migrates is claimed as far as that goes. A digest is of the checkout
as it was at the call's own digest step, whatever is edited afterwards.

### The web client's parts

`LiveEvents` has the hub's bounded queue with its sentinel, one socket and the one
shared client. `DetailScreen` has what the store behind the screen fetched, the
requests in flight with their answers once the server has read, writes, the
refresh timer. A *version* stands for all facts of an overview. `missed` is a
history variable: it names the four ways by which the code lets a change pass
unnoticed (section 6); `QuietIsCurrent` is about every behaviour without them. An
aborted read is a read removed.

`ChartPages` has integers for bar positions. Eviction order is insertion order,
as in the code's `Map`. `CatalogGrid` has the keyset list on the server, a memo of
blocks per walk and what the grid got under the current walk; the rows an older
walk left on screen are not followed. AG Grid is external: it asks for one block
at a time, in any order, and keeps what it has.

### Answers

`SessionHealth` has one dataset over a calendar of quarter days (midnight, open,
close, settled) with holidays; `UsageFigures` one table of reads and one of daily
summaries in half days, a read told apart by its instant; `CatalogReads` a few
rows with everything the filters look at. Order and cursor of the list are
`CatalogGrid`'s. Their properties compare an answer with another, or with what it
would be had nothing been folded: none restates a query.

### RefreshLoop

`history` keeps, of the finished scheduled runs, the last of each dataset and of each
request that failed before it had one, which is all `_plan` reads, and all that are
not finished. The record is best effort, as in the code (`run_recording.py`): a
request may leave no run, one that does not show its dataset, or one that stays
RUNNING (`Recorded`, `Unfinished`). A RUNNING run that shows its dataset makes it
look busy (`Running`) and keeps it out of every pass until a restart's sweep. The
batch of a
pass is a set, each dataset with its turn: those of its class that go before it.
`Lookback` is at least a session: `ATTEMPT_LOOKBACK` is seven days. A tick is half
a trading day. `loop` is `run_periodic`'s task: asking the schedule, sleeping,
retrying after a schedule that raised, running. A request takes no tick unless it
is one of the `MaxTroubles`, and so is each hole in the record. A dropped answer is
recorded EMPTY under its request, since the dataset is found retired before the
acknowledgement is recorded; so a dataset resumed afterwards waits for the next close; an EMPTY inside the settle window
skips the settle pass; a fire that passes while a pass runs or the schedule fails
is not replayed (`overran`). `waited` and `answered` are history variables.
`answered` is a dataset's own last answer, on the record or not, with whether its run's
end was written. `waited` counts the passes that left a due dataset out. A pass with a
request that did not get on the record whole does not count: what is not on the record
keeps its place, and takes it again in the next pass. It counts anew when the look-back
has passed; when such a request stored a bar; and when a fetch that is not the
refresh's moves a tail that unnamed runs asked for: their dataset no longer has these
runs and goes first again.

### ErrorAnswers

One request fails: in ingest, on the hop, or in the store. `lines` is both
services' logs, a line its service, its id and whether it has the cause chain.
The two tables of reasons are the code's `REASONS`, row by row; outcome,
gRPC status and HTTP status are kept, dispositions, log levels and texts are not.

## 3. Runs

| Run | Asks | Instance |
|---|---|---|
| `store_core` | do locks, snapshots and races keep `TransactionTargetsHold`, `OneRecordPerDeletion`, `RefreshHonoursStop`, `ReaperSpares` and the refinement `ImplementsLedger`? | 2 fetches, one key, one dataset that may exist, 2 bodies, 1 page, 1 tick, streams fail, the process restarts |
| `store_faults` | do `AllOrNothing`, `RunOutcomeTrue` and `OverridesNameLiveDatasets` survive every fault? | 1 fetch of up to 2 pages, a subscription and a STATIC key, foreign owner, all five faults |
| `store_liveness` | does every fetch end, and every expired dataset go (`FetchesEnd`, `ExpiredDatasetsGo`)? | 2 fetches creating one key, streams may fail |
| `usage_core` | is a read counted once at most (`NoReadCountedTwice`), does the daily cap hold (`CapHolds`), and does only the declared bound lose reads of a living process (`LostReadsAreCounted`)? | 4 reads, 2 clients and the operator, 3 days, buffer of 2, cap of 1, all faults, tables perhaps migrated late |
| `usage_final_flush` | does the final flush write what it holds? (section 6) | 3 reads of one client, replies may be lost |
| `store_overlap_race`, `store_swept_run`, `store_stale_count`, `store_unreported_flip` | the four disagreements of section 6 | as small as shows each |
| `ingest_gate` | is nobody stranded, is the reserve kept, does nothing start late, is only a whole stream complete, does every fetch end, and does it all implement `FetchContract`? | 2 fetches, one perhaps to a foreign peer, 2 vendor requests, bucket of 2 with 1 reserved, deadline of 1 tick, 0 or 3 bars in pages of 2 |
| `agent_stack` | is what a verb builds, migrates or writes what it looked at (`SnapshotIsOwn`, `MigratesWhatRuns`, `SuiteWritesOnlyTest`), and are refusals clean and stops undone? | all verbs in groups, 3 snapshot threads, 2 source versions, a budget of 2 in a window of 1, an owner at any time |
| `surroundings` | one question per part: `ShowsItsOwn`, `QuietIsCurrent`; `ViewerShowsTheWindow`; `WalkIsConsistent`; `CoverageAgrees`, `TimeOnlyWorsens`; `UsageOutlivesTheRollup`; `CatalogAgrees`; `DueIsAsked`, `OncePerClose`; `FailuresAreTold` | below |

*Why the bounds are enough.* Every interference in this code is between a
fetch and one other writer of the same row, so two fetches, one key and one
operator write show every pair; the third party a refresh or a reaper pass adds
is there too, as snapshots. Two pages are the least at which "some of a
fetch's bars" differs from none and all. One tick is the least at which
something expires after it was listed. `Existing` datasets start without bars:
a bar of an earlier life is not distinguished from one a first fetch wrote.
`Faults` selects what may fail so that a run without a fault says more about
liveness: with a recorder that fails, a run may stay RUNNING and shield its
dataset from the reaper until the next restart, which the code accepts
(`run_recording.py`, module docstring) and `store_liveness` therefore leaves out.

*The usage runs.* Four reads fill a buffer of two while a batch of two is out,
the least at which a returned batch overflows. Three days and a window of one
day let a read be stored, folded and followed by reads of a later day. With a
cap of one, the second of two clients is the first past it.
`ShortOutages = TRUE` says that no read waits in memory until its day is old
enough to fold: 90 days by default, against a flush every 5 seconds. It is an
assumption about the installation, not a guarantee of the code: a batch whose
reply was lost is refused on its own key until the bound pushes it out, and if
that took 90 days the roll-up would fold the stored rows and the retry would
count them again.

*The gate's run.* One token a tick and a deadline of one tick are the least at
which a waiter may be served or too late. Three bars in pages of two make a full
and a short page; a wire of one message makes the sender wait. `MaxForeign` bounds
the bars a foreign peer sends, and nothing else it says.

*The agent stack's run.* Three threads are the running verb's copy and two that
outlived theirs; two versions are the least that can differ. The owner has no bound.

*The surroundings' run.* Detail: two datasets, a queue and a wire of one, one
change of each, three inputs, one fault. Viewer: nine bars in five pages that
overlap by one, a cache of three, two opens, one error, every window and
direction. Grid: three rows of two keys in pages of one, two walks, one change and
one failure. Coverage: eight sessions with holidays over two four-day weeks, daily
and weekly, seventeen datasets that start before, in and after the calendar.
Usage and sidebar: three reads by two clients over two and a half days, a cutoff
inside a day, five kinds of rows, filters in pairs. Refresh: three datasets, of
which two look alike in a request, two per pass, two failures in a row; two
datasets hold for three ticks and for two troubles, too (1.7 and 4.3 million states).
Failures: every reason that can be raised at either place, delays of up to a
second and a half read at half seconds. No fairness is stated in this run.

*Deadlock* is not checked: fetches are used once and the clocks are bounded, so
these instances do come to rest. That nobody waits for ever is `FetchesEnd`.

*Symmetry* on fetches, and on clients that count towards the cap, is used in
safety runs only.

*Fairness* of `DatasetStore` (`LiveSpec`): weak fairness of each fetch's own steps, of the
reaper's pass and of the operator's write once its read is done. The event loop
runs every ready coroutine and PostgreSQL queues lock waiters in order, so a
step that stays enabled is taken. Nothing is assumed of callers: no POST, no
operator request, no refresh need ever come. A stream is assumed to end:
`FetchDone` stands for it or for the call's deadline
(`common/rpc/clients/ingest_fetch.py:262`), which `Abort` covers.

Each property has a mutant in `PROJECT.json`, a plausible slip in the code
(a check dropped, a read trusted after a wait, an outcome recorded too early)
under which TLC finds it violated.

## 4. Proofs

All theorems are `Spec => []P` or `Spec => [][A]_vars` for arbitrary
constants satisfying the named assumptions of their module; for `DatasetStore`
there are seven (ids minted are new, ranges are not empty, STATIC bodies carry no
collect, bounds are naturals and ids are finitely many, settings are of their kind,
null values differ from values, the mark of an absent dataset is no dataset).

1. `TypeCorrect`. `TypeOK` is not inductive: that `tx[f].written` moves into
   `bars`, or that an operator's id is a row's, needs to know where a fetch or
   a write stands. `InFlightOK` (an active fetch has a request; from `upserted`
   on its `tx.id` is an id) and `OperOK` (a pending write has an id) close it.
2. `LocksHold`. The heart is that from the ack to the commit the row a
   transaction resolved cannot go away or fork. The inductive `LockInv` adds
   `UniqueKeys` (one row per key), `Exclusive` (two fetches never hold the same
   key), `Targets` (what a holder resolved is what the key names), `FreshIds` (an
   id a fetch would mint is unused until that fetch commits) and `Unopened`
   (a fetch that has not got to its lock has an empty transaction). Each writer
   of a row is shown to need the lock that a holder has: `LockTaken`, `LockRow`
   and `LockCommit` are those three cases, `LockStep` puts the actions together.
3. `FetchesAllOrNothing`. `StoreInv` says which committed fetch wrote each bar
   and that a deletion takes all bars with it. That a later fetch *overwrites*
   part of an earlier one's bars is the case to mind; `tx` of a committed fetch
   never changes again (`PastStays`, `CommittedStays`), and pages of one fetch
   are overwritten per slot, so the claim is that each of its slots holds some
   bar.
4. `DeletionsRecordedOnce`. A record's id is gone, and can only come back if it
   were minted again, which `FreshIds` excludes.
5. `ReaperTakesOnlyTheExpired`, `RefreshLeavesRowsAlone`: action properties,
   from `LockInv` and the snapshots' relation to the clock (a pass's instant is
   never ahead of it).

6. `ReadsCountedOnce` (`UsageRecorder`, assuming `ShortOutages`).
   `NoReadCountedTwice` is not inductive: a row that was folded could be
   inserted again from memory. `IInv` adds that what waits is too young to fold
   (`WaitingIsYoung`), that it therefore has not been folded
   (`WaitingIsUnfolded`), and that nothing is stored under a key not yet minted
   (`NothingUnread`). Every step either lets nothing new wait (`MemoryStep`),
   inserts keys that are free (`InsertStep`), serves a read, or folds. What the
   cap decides plays no part, so `KeptPairs` stays closed.

7. `IngestGateProofs`. `NobodyStranded` is closed by `Keyed` (a call in the gate
   has a key, an idle caller has no call): each flight under way has one leader,
   and its end moves every follower in the same step. The two claims about the
   bucket need `SleepersDue` (a sleep ends by the deadline it was granted under,
   and an interactive leader sleeps just what is missing of a token) and
   `LastToken` (where the reserve is a token or more, the last token is never a
   backfill's: a bucket with less was emptied by interactive calls since the last tick).
   `BackfillLeavesTheRest` is those two together; `NoStartPastDeadline`, an action property, follows from the first.
   `IngestGateFetchProofs` adds that each caller's call, reader and wire agree
   (`Coherent`). How many bars are under way is a sum over the wire, which would be
   induction over data; so `Totals` only says that running totals exist, from what
   the reader has to what was sent. Sending appends one total, reading drops the
   first (`CallSends`, `ReaderTakes`), and nothing has to be computed. `Meant` adds
   that a done, a refusal or a failure on the wire is the call's last word and the
   answer it heard. A commit then finds all of the answer: `StoredIsCompleteAlways`.
   For `GateImplementsFetch` a settled flight is one `Answered` step for those of
   its callers whose stores still listen, or nothing when there is none
   (`AnswerSeen`); a reader's end is `Store` or `Fail`, where `Meant` gives the
   reason; a cancellation or a restart of ingest shows nothing. `ReasonAssumption`
   (the failures `classify()` names are none of the words the model has of its own)
   is what tells a gate's reason from the hop's.
8. `SnapshotIsOwnAlways` (`AgentStackProofs`). An unfinished copy whose call is
   gone has been cancelled (`OrphansCancelled`), a cancelled copy is not completed
   any more, and a copy that may still be swapped in is inside the
   lock its holder's threads share (`LockHeld`), for which the running call's own
   copy had to wait. So from then on the live tree is the call's (`OwnIsLive`).
9. `RunsTellTheTruth`. `RunInv` ties a run's row to where its fetch stands
   (`RunFits`): an outcome is only there once the transaction is over, a run names
   no dataset before the ack and after it the one its transaction resolved. What tells
   an EMPTY run of a dropped answer from one of a fetch that broke off is that only a
   drop sets `tx.dropped`, and that a rollback leaves an empty transaction.
   A recording that fails leaves the row as it was, which `RunFits` allows.
   `OverridesNameWhatWasThere` is an action property that needs no invariant:
   the row is inserted only where the waiting write matched its dataset.
   `OwnOverlapIsCommon` is of the overlap check alone: its condition, with "no end" kept
   as a date before all others, is that the two ranges have an instant in common.
10. `StoreImplementsLedger`. `Seen` is what the ledger has of the store. Each step
   leaves `Seen` alone or is one operation of the ledger, which takes three facts
   beside the lock invariant: only subscriptions have a collect intent
   (`CollectsFit`) and nobody asks for another (`AsksFit`), so that a commit keeps
   the identity's kind; and the bars the operator counted are still there when its
   delete takes effect, because an id is not used again and a dataset only gains
   bars (`OperFits`).
11. `UsageTypeCorrect`, `LossesAreCounted`. `Room` counts each read once: dropped,
   buffered or in the batch, together no more than were made; so a returned batch
   and the buffer never need more than was read, and what trimming takes is
   exactly what `dropped` grows by. Between flushes there is no batch (`Resting`).
12. The verbs (`AgentStackProofs`), with no assumption about the owner.
   `SuiteWritesOnlyTestAlways`: the inductive `SInv` says what a verb has established
   by its place in its program, as long as `call.seen` still has the project:
   `SuiteRailed` for the two suites, `LauncherRailed` for the verbs that stop, start
   or migrate. `SuitePath`, `LauncherPath` and `OtherPath` say where the checks are
   in each program; `ProjectMoves` and `ImageMoves` that project and image change by the
   call's own steps or are no longer seen; `StepSInv` that no step after a check undoes
   it, the threads, a restart of the server and a time-out included.
   `MigratesWhatRunsAlways` goes the same way (`MigrateRailed`). Of the call,
   `CallSteps` says what any step does to it, and `ChargePath` that after the charge a
   program has no check left and after the stop only the network and the up. `Committed`
   keeps that of the steps still before the call (`Rest`), which gives `KInv`,
   `StoppedIsRestartedAlways`, `RefusalIsCleanAlways` (an action property: only checks
   and the seed producer refuse) and, with the copies of item 8, `TypeOKAlways`.

13. `ShowsItsOwnAlways`, `QuietIsCurrentAlways` (`SurroundingsProofs`, assuming that
   `None` is no dataset and no version). `QuietIsCurrent` speaks of the end, when
   nothing is on its way; `ScreenInv` says what is on its way until then. For the
   facts (`OverviewCatchesUp`): an event about the dataset, the timer it sets, the
   request that timer or a reload makes, provided its answer is to come or is
   what is committed, or the reload that a lost stream brings when it opens again
   (`Reopening`). For the newest run's row (`RowCatchesUp`) an event is the row
   itself, so behind an event of an older run there must be one of a newer:
   `RunsInOrder`, in the queue and on the wire, from `ServerTyped` (no event is
   ahead of the store). Sequences appear as the set of what they carry (`Items`);
   a full queue is replaced by the sentinel and owes a reload. `ShowsItsOwn` needs
   that requests and owned writes are of the dataset the screen is at (`AsksTyped`,
   `WritesTyped`). One lemma per action; TLC found `ScreenInv` to hold before.
14. `FailuresAreToldAlways` (`SurroundingsProofs`; `ErrorAssumption`: a second has
   parts, delays are naturals, no instant is the mark of none). `FailureInv`
   says of the error at the store, and on the hop of what the store will rebuild
   from the reply (`Rebuilt`), that it is `Faithful`: reason and reset are those of
   the failure, or of the transport; its id is `Traced` already, or it has none
   and the store's own line is all there will be. `LoggedInStore` is the step to
   the answer, `Table` what the argument reads in the table of reasons,
   `WaitPasses` the rounding.
15. `OncePerCloseAlways` (`SurroundingsProofs`; `RefreshAssumption`, of which it
   needs that the look-back of seven days reaches the last close, and that what a
   request shows is no dataset id). Whose a run without an id was is found by its
   request and the start of its tail, so a run may be missed once the dataset has
   moved on; and a run may be missing, for the recorder. `RefreshInv` says that this
   misleads nobody: `TailsRise` (a later run asked for no earlier start than an older
   one that was in vain, and none beyond what is needed now), `LastIsAnswer` (if the end
   of the run of its last answer was written, the last of the runs that are the
   dataset's, found or not, is that answer), `SkipIsTrue` (a finished run in vain for the
   tail that is needed now is of the last answer, and nothing has been asked since),
   `HistoryInOrder`. If the plan finds an older run instead of the last, the last one's
   tail is behind what is needed now and the older one's is what is needed: against
   `TailsRise` (`SkippedIs`). Every step keeps this because a stored bar never lowers
   `TailStart` (`TailRises`, `BarStored`), because a new run replaces at most the last
   one of its own dataset or request (`AddedKeeps`), in each of the ways it may get on
   the record (`RunKeeps`, `RecordedKeeps`), and because what a restart's sweep finishes
   claims nothing: a run it fails was not in vain (`RestartKeeps`).
16. `ViewerShowsTheWindowAlways` (`SurroundingsAnswersProofs`; `PagesAssumption`).
   The cache is a list in the order of last use; what forgetting, evicting and
   aborting leave of it is the entries at some places, in their order (`Only`,
   `RankIs`). Evicting passes over the current page, its neighbours and what is
   loading, so it makes room only if these are few: `PagesInv` says that nothing
   but the current page and its neighbours is loading, at most three (`NearIsThree`,
   `EvictOK`), which is why the capacity has to be three. Each action keeps it, an
   answer for a page that has been left included (`PageLandsKeeps`). The second
   half needs no invariant: pages tile the dataset (`BarsAddUp`), neighbours agree
   on what they share (`NeighboursAgree`) and a seek's window is where the bar is
   (`PlaceIs`), from quotient and remainder (`ModIs`).
17. `TimeOnlyWorsensAlways` (`SurroundingsAnswersProofs`; `CalendarAssumption`: days are
   naturals and there is a session after the bound on time), for datasets whose newest
   bar was not written before its session settled. The rules of
   `SessionHealth` are restated of a dataset, what it holds and an instant
   (`DailyAt`, `MissingAt`), to compare two instants. Walking a weekly dataset takes
   whole periods, so a period expected now has the same sessions later
   (`WalkedGrows`, `ExpectedGrows`); hence what is owed and what is missing only
   grow. For the deadline (`DailyWorsens`): with nothing stored the first period
   owed can only get earlier, and behind a stored one the first period missed is
   the next session's, which later periods do not move. Behind a newest bar written too
   early they do, and the code returns from OVERDUE to LATE (section 6); for LATE and
   for gaps it is harmless.
18. `CapHoldsAlways` (`UsageRecorderProofs`, assuming `ShortOutages`). `_apply_cap` goes
   through a batch and counts as it goes; `KeptOf` says what comes of that without
   the loop: a pair is kept if fewer than `Cap` of its day come before it, since
   while there is room none of those is turned away. So of a day's pairs all but
   the last kept one are among those seen before it, fewer than `Cap`
   (`KeptWithinCap`). The cap reads `dataset_read` only, so it also has to be shown
   that this is all the day has: `FoldedIsOld` beside `WaitingIsYoung` (`InsertCap`).
19. `UsageOutlivesTheRollupAlways` (`SurroundingsAnswersProofs`). `UsageInv`: a day's row
   is the summary of those reads of its day that are no longer kept one by one
   (`FoldedAway`), because the upsert of two disjoint sets of reads is the summary of
   both (`PlusIs`, `FoldedIs`). A figure adds a sum over days to a count of reads. What
   `MapThenSumSet` computes of an arbitrary table would be induction over data; here
   the recursion it is defined by has a solution that can be named, the number of
   reads whose key is among these days (`CountsAddUp`), and no other solution agrees
   with its own recursion but disagrees with it on a smallest set (`OneSum`).

20. `WalkIsConsistentAlways` (`SurroundingsAnswersProofs`; `GridAssumption`: finitely many
   rows, and no key sorts before the start). `GridInv` follows the current walk only:
   its pages rise in the list's order, each beginning behind the last row of the one
   before (`PagesRise`); of the rows that did not change since its first page was read
   they show what the list has (`AreRows`), and all of it up to the walk's cursor
   (`NoneLeftOut`). The page still on its way counts, since the server has read it. A
   row that changes leaves the claim, so the list may move at any time; a page read
   later adds what is behind the cursor then (`AppendFits`), a failed one adds nothing,
   and a refresh starts with nothing read and nothing on screen. A block on screen is a
   page of this walk (`ShownFits`), so the end on screen means that there is no cursor
   any more (`AllOnScreen`). The order is `InOrder`: the n-th row is the one behind n - 1
   others, of which there is one each (`AheadIs`), from cardinalities, without
   induction over sequences.
21. `TypeOKAlways` (`SurroundingsAnswersProofs`; `CalendarAssumption`, `RefreshAssumption`: the
   bound on stops is a natural, and the datasets to refresh are finitely many). `TypesInv` is the parts'
   invariants and what the shapes need besides: what the screen missed is one of
   the four ways (`MissedTyped`), what was opened is within its bound and
   has an index (`PagesTyped`), the newest bar was not written later than now (`HealthTyped`), a failure
   carries a reset exactly if its reason has one, wherever it is (`ResetFits`). That a
   pass stays within its cap is a count: a class is numbered by `Turn` without gaps
   or repetition (`OrderIs`, `TurnIs`), so `First` and `Again` are as many as their
   bounds say (`FirstFew`, `TakenFits`).
22. `DueIsAskedAlways` (`SurroundingsAnswersProofs`; `RefreshAssumption`). For a dataset that
   waits, `WaitInv` counts the others of which a run lies behind its own last one:
   half a cap for each pass that left it out. A pass that leaves it out asks for half a
   cap of others that go before it: of the class it is in, since `_take` keeps that
   much for either (`FirstAll`, `TakenBefore`). None of these was counted yet, because
   who was asked for since goes behind it (`WentIsLater`), and each is counted once its
   request has ended on the record, in whatever way (`RequestWent`, from `AddedKeeps`).
   One that is not on it is counted by nobody, and so its pass is not either
   (`LostWaits`); a restart may finish runs and thereby only adds attempts
   (`RestartWaits`). Since there are not more others than datasets, the wait ends. `NoFireMissed` says of the runner
   that no fire lies between its last start and the one it sleeps until.

23. `CoverageAgreesAlways` (`SurroundingsReadsProofs`; `CalendarAssumption`). The listed
   gaps are the runs of missing sessions that none extends: each missing session is in
   one (`GapOf`, from the first and last session that it can be reached from), two that
   overlap are one (`RunsJoin`, `GapsApart`), so their counts add up to the missing
   sessions (`GapsAddUp`). A bucket's members are the sessions at consecutive places
   of the range (`StripIs`); the places at which it is cut rise from 0 to their number,
   since quotient and remainder do (`UptoIs`), hence the buckets tile the range
   (`StripTiles`) and each session is a member of one, so what they leave out adds up
   to the missing sessions too (`StripAddsUp`, with `CountsAddUp` and `OneSum` of 19).
   `StampsInv`: a bar is stamped with the first session of a period, hence none lies on
   a day off between the sessions of a gap.

24. `CatalogAgreesAlways` (`SurroundingsReadsProofs`; `CatalogAssumption`,
   `UsageAssumption`). The invariant is `UsageInv /\ RowsInv /\ FewReads`: that of 19,
   with each row one the catalog can hold, and no more reads than there may be. List and
   sidebar ask the same questions of a dataset, clause by clause, except the one that
   the facet is of (`ListIs`, `MatchesIs`, `FacetsCount`). A read within the window
   makes its dataset recent, since the last read covers every read made
   (`ReadIsRecent`). A day's count is the reads of that client on that day, live or
   folded, and the days add up to the window (`OnDayIs`, `DaysAddUp`). The buckets
   partition the datasets ever read (`BucketsAddUp`, `BelowIs`). A sum of bar counts is
   the number of as many pairs (`UnitsAre`, `BarsAre`, `HeldIs`), and shares rounded
   down fall short by less than one each (`SharesFallShort`, by a smallest
   counterexample, `ShortBy`).

Every invariant and every safety action property of the passing runs is thereby
stated by a theorem. Only model-checked: liveness (`FetchesEnd`,
`ExpiredDatasetsGo`), which needs `ENABLED` and is out of the prover's reach, and the
five disagreements of section 6, which are counterexamples.

## 5. Not modelled, and the plan

Next, in this order:

1. **Usage recorder**: progress of the flush loop under its fairness, with and
   without a lost reply; stream sessions once a route calls them; the window
   assumption `ShortOutages` weakened to what the roll-up needs.
2. **Lifespan**: the order in which channel, pool, loops and database open and
   close, composed with the loops' cancellation.

Not modelled, by part:

* *web client*: the coverage strip's store, "Load more" of the history and its
  per-day reads, filters in the address bar; the grid and the viewer reload at
  any time instead of following events; a load's memo of row counts
  (`loadedByBlock`) shows nothing but a number;
* *read models*: the internal bar read, storage history, the path where the usage
  tables are missing, reads dated ahead of now;
* *errors*: reasons the other release does not know, foreign domains, blank ids,
  metadata other than the id and the reset;
* *loops*: `Every` and `Once`, which are arithmetic with jitter;
* *agent stack*: what Docker does inside a step, source edited between the digest
  and the end of a build, work of the daemon after its client was killed (other
  than as an outcome of a time-out);
* *left out for good*: migrations and seeds, configuration, rendering, the
  development dataset helper (`src/tools/dev_datasets`, a script over HTTP and
  psql), generated code. `upsert_entry`, `update_entry`, `update_entry_lifecycle`
  and the batch-create helpers have no caller in the running service.

## 6. What the code does that its documents do not say

Checked, with a run each (`findings` in `PROJECT.json`):

* `usage_final_flush`: a flush cancelled at shutdown after its commit took
  effect makes the final flush fail on its keys, and a read never written goes
  with it; the comment at `usage_recorder.py:176` says the final flush still
  writes the rows, and `src/README.md:393` that a batch may be counted twice.
  The same refusal meets every retry after a lost reply until the buffer
  overflows, where `src/README.md:389` says a failed write is retried.
* `store_overlap_race`: two overlapping POSTs of one owner, sent together, are
  both stored. `src/README.md:408` says the second is refused.
* `store_swept_run`: after a crash between ack and commit, the swept run names
  a dataset that was never committed; `finish_run` says a run never does.
* `store_stale_count`: the operator's delete may record fewer bars than went.
* `store_unreported_flip`: two POSTs create one key; the later flips `collect`
  and reports no flip.

Noted while reading, without a run:

* the owner's `DELETE /store/{id}` writes no deletion record, although
  `models/dataset_deletion.py:9` reads as one row per deleted dataset;
* a cancellation just after the commit records the run FAILED though its bars
  are stored;
* `src/README.md:353-355` says a dataset with a fetch in flight waits for the
  reaper's next pass; a fetch that has no ack yet is not seen (the code says so,
  `store_dataset_entry.py:1003`), and its dataset may be reaped under it. The
  fetch then creates it anew or, a refresh, drops its answer;
* with `DAILY_REFRESH_MAX_PER_PASS=1`, `cap // 2` reserves nothing, so
  datasets due again can wait for as long as productive ones keep coming;
* `daily_refresh.py:39` says that neither class starves the other, and line 119 that
  a dataset whose last attempt is older than the look-back is "only" put earlier.
  It is put before datasets that were attempted since. With more datasets that are
  always refused than a look-back's passes go round, the forgotten ones take the
  productive places of every pass, having the oldest bars, and a dataset with bars
  is not asked for again: `RefreshLoop` gets there with five refused datasets, a cap of
  two and a look-back of two sessions. `DueIsAsked` holds within the look-back.
* **live screens**: `events.py` and `api/events.ts:3-7` promise that an event is
  never the only copy of anything and nothing is missed across a break. Four ways
  to miss a change remain, each reached in the model: a change published before
  the first socket opened is not reloaded after (*unheard*: only a re-open
  reloads); a refresh that falls due while the first load's already-read answer
  is in flight is dropped (*ignored*, `datasetDetail.ts:350`); an older answer of
  the history or of a write replaces newer state (*overwritten*); and a failed
  refetch of the history is forgotten when the overview's succeeds (*unsaid*,
  `datasetDetail.ts:160,288`). Also, the busy flag falls with any write's answer:
  after a move and back, a second write can start under the first;
* **health**: a newest bar written before its session settled reads OVERDUE from
  the next open, and LATE again from the next close, although the comment at
  `health.py:241` says it must not read LATE again. `TimeOnlyWorsens` leaves such
  a bar out; without that TLC violates it;
* **gate**: `rate_budget.py:57` says that a live call always finds headroom. With a
  burst of one, a fractional one or a configured reserve of zero the reserve is less
  than a token (`rate_budget.py:79-84`), and a backfill may take the last one:
  `BackfillLeavesTheRest` says who took it only where the reserve is a token or more.
  And the request key has no priority, so a live call may join a backfill's flight that
  waits for the reserve. A follower whose leader is cancelled sees a cancellation
  of its own. The leader's deadline decides for followers (documented);
* **refresh**: two owners' equal requests share a key (`_request_key`), so one's
  refusal skips the other until the next close. `DueIsAsked` and `OncePerClose`
  are stated for datasets without such a twin. The plan is derived from a record that
  is best effort (`run_recording.py:28-31`), which `daily_refresh.py` does not mention:
  a request whose run was not started or not finished (`run_recording.py:126-136`,
  `206-211`) keeps its place, is asked again within the same close whatever the answer
  was, and goes before those that wait. One that was acknowledged and not finished stays
  RUNNING, and its dataset is neither refreshed nor reaped until the next restart. The
  two properties except exactly these;
* **agent stack**: mode, mount and stamps are looked at once. An owner who relaunches
  the project by hand after that, behind a running suite, has it write the development
  database, which the docstring of `_run_system_tests` excludes; one who rebuilds the
  :test images behind `migrate` has another code migrate. `SuiteWritesOnlyTest` and
  `MigratesWhatRuns` leave out just what was launched or built after the last look.
  `migrate` in TEST mode does not look at the postgres mount;
* **errors**: the id of a refusal inside an ack names no line of ingest's log,
  only the store's; a run's `error_id` stays NULL when the edge mints the id
  afterwards; a database error that cannot be classified is logged with its chain
  twice (documented as accepted);
* **deployment window**: `usage` figures keep a client's kind per client; a fold's
  key has no kind, so a client that changes kind within a day is summed under one.

## 7. Running

```
tlc -workers 2 -config store_core.cfg MCDatasetStore
tlc -workers 2 -config usage_core.cfg MCUsageRecorder
tlc -workers 2 -config ingest_gate.cfg MCIngestGate
tlc -workers 2 -config agent_stack.cfg MCAgentStack
tlc -workers 2 -config surroundings.cfg MCSurroundings
tlapm DatasetStoreProofs.tla
tlapm UsageRecorderProofs.tla
tlapm IngestGateProofs.tla
tlapm AgentStackProofs.tla
tlapm SurroundingsProofs.tla
tlapm SurroundingsAnswersProofs.tla
tlapm SurroundingsReadsProofs.tla
```
