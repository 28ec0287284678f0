-------------------------- MODULE MCDatasetStore --------------------------
(* Instances of DatasetStore for TLC. *)
EXTENDS DatasetStore, TLC

\* A DAILY series over two overlapping ranges, one of them open-ended.
Morning == [series |-> "daily", feed |-> "iex", start |-> 1, end |-> 3]
OpenEnd == [series |-> "daily", feed |-> "iex", start |-> 2, end |-> Epoch]
\* The first range again on another tape, and a STATIC series.
Tape    == [series |-> "daily", feed |-> "sip", start |-> 1, end |-> 3]
Static  == [series |-> "static", feed |-> "iex", start |-> 1, end |-> 3]

OneKey    == {Morning}
TwoTypes  == {Morning, Static}
ThreeKeys == {Morning, OpenEnd, Tape}

Body(i, e, c) == [identity |-> i, expiry |-> e, collect |-> c]

\* A plain body, and one that sets an expiry and stops the subscription.
PlainBodies == {Body(Morning, NoExpiry, "omitted"), Body(Morning, 1, "off")}
TypedBodies == PlainBodies \cup {Body(Static, 1, "omitted")}
OneBody     == {Body(Morning, 1, "omitted")}
RangeBodies == {Body(Morning, NoExpiry, "omitted"), Body(OpenEnd, NoExpiry, "omitted"),
                Body(Tape, NoExpiry, "omitted")}

FetchSymmetry == Permutations(Fetches)
=============================================================================
