-------------------------- MODULE DatasetIdentity --------------------------
(***************************************************************************)
(* What makes two store entries the same dataset, and when two different   *)
(* ones of one owner may not coexist                                       *)
(* (crud/stock/store_dataset_entry.py).                                    *)
(*                                                                         *)
(* An identity is the eleven-column natural key of store_dataset_entry.    *)
(* `series` stands for its eight equality columns other than the tape and  *)
(* the range (owner, asset, data type, source, granularity, expiry type    *)
(* and update type): the code only ever compares them all together.        *)
(***************************************************************************)
EXTENDS Integers

\* The column value of "no end": 1970-01-01, a date before every real one.
Epoch == 0

\* A declared range [start, end), open-ended when end is Epoch.
IsRange(start, end) == start \in Nat \ {Epoch} /\ (end = Epoch \/ (end \in Nat /\ start < end))

\* The rows _find_own_overlap selects against a request: the same series
\* whatever the tape, ranges that meet as half-open intervals, and not the
\* request's exact range, which ON CONFLICT resolves instead.
OwnOverlap(row, new) ==
  /\ row.series = new.series
  /\ row.end = Epoch \/ row.end > new.start
  /\ new.end # Epoch => row.start < new.end
  /\ ~(row.start = new.start /\ row.end = new.end)

\* The collect column an insert writes: an intent for a subscription, NULL
\* for a STATIC dataset.
ResolvedCollect(updateType, collect) ==
  IF updateType = "STATIC" THEN "none" ELSE IF collect = "omitted" THEN "on" ELSE collect

\* The collect value a write reports it flipped the entry to, or "none".
CollectChange(before, explicit) ==
  IF before = "none" \/ explicit = "omitted" \/ before = explicit THEN "none" ELSE explicit
=============================================================================
