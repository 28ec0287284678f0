--------------------------- MODULE DatasetLedger ---------------------------
(***************************************************************************)
(* What the data store promises about its datasets: each one is changed    *)
(* by whole operations only, never seen half-written, and leaves by one of *)
(* three doors. DatasetStore, with its transactions, locks, retries and    *)
(* crashes, implements this module.                                        *)
(***************************************************************************)
EXTENDS Integers, FiniteSets

CONSTANTS
  Ids,          \* dataset ids, each used at most once
  Identities,   \* the natural keys
  Subscribed,   \* series of DAILY datasets, which carry a collect intent
  Slots,        \* bar positions
  Expiries,     \* deletion dates, NoExpiry among them
  NoExpiry,
  Absent

VARIABLES
  dataset,      \* [Ids -> a dataset or Absent]
  deletions,    \* the deletion record
  time

vars == <<dataset, deletions, time>>

Datasets ==
  [identity: Identities, expiry: Expiries, collect: {"on", "off", "none"}, bars: SUBSET Slots]

Present(id) == dataset[id] # Absent

Init == /\ dataset \in [Ids -> Datasets \cup {Absent}]
        /\ \A i, j \in Ids: Present(i) /\ Present(j) /\ dataset[i].identity = dataset[j].identity => i = j
        /\ deletions = {}
        /\ time = 0

\* Only dataset `id` changes; what it may become is the action's business.
OnlyAt(id) == dataset' = [dataset EXCEPT ![id] = dataset'[id]]

\* A served fetch of a new identity creates its dataset, bars and all.
Create(id) ==
  /\ ~Present(id)
  /\ dataset'[id] \in Datasets
  /\ dataset'[id].collect # "none" <=> dataset'[id].identity.series \in Subscribed
  /\ \A other \in Ids: Present(other) => dataset[other].identity # dataset'[id].identity
  /\ OnlyAt(id)
  /\ UNCHANGED <<deletions, time>>

\* A repeat, a refresh or an operator's edit changes a dataset in place: its
\* identity stays, its bars only grow, and only a subscription has an intent
\* to change.
Change(id) ==
  /\ Present(id)
  /\ dataset'[id] \in Datasets
  /\ dataset'[id].identity = dataset[id].identity
  /\ dataset[id].bars \subseteq dataset'[id].bars
  /\ dataset'[id].collect # dataset[id].collect =>
       dataset'[id].collect # "none" /\ dataset[id].identity.series \in Subscribed
  /\ OnlyAt(id)
  /\ UNCHANGED <<deletions, time>>

Record(id, bars, cause) == deletions' = deletions \cup {[id |-> id, bars |-> bars, cause |-> cause]}

Remove(id) == /\ Present(id)
              /\ dataset' = [dataset EXCEPT ![id] = Absent]
              /\ UNCHANGED time

\* The owner's own delete leaves no deletion record.
Withdraw(id) == Remove(id) /\ UNCHANGED deletions

\* The operator's delete is recorded. Its count may miss bars that arrived
\* while it waited, never count one that did not go.
Delete(id) ==
  /\ Remove(id)
  /\ \E counted \in 0..Cardinality(dataset[id].bars): Record(id, counted, "OPERATOR")

\* The reaper deletes what is past its deletion date and counts exactly.
Reap(id) ==
  /\ Remove(id)
  /\ dataset[id].expiry # NoExpiry
  /\ dataset[id].expiry <= time
  /\ Record(id, Cardinality(dataset[id].bars), "REAPER")

Tick == time' = time + 1 /\ UNCHANGED <<dataset, deletions>>

Next == (\E id \in Ids: Create(id) \/ Change(id) \/ Withdraw(id) \/ Delete(id) \/ Reap(id)) \/ Tick

Spec == Init /\ [][Next]_vars
=============================================================================
