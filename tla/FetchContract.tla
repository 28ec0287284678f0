----------------------------- MODULE FetchContract -----------------------------
(***************************************************************************)
(* What a dataset fetch promises the store that asks for it, whatever      *)
(* shares its vendor call and whatever fails on the way: it is answered    *)
(* once, by a vendor answer for its own key given while it waits, and it   *)
(* ends stored with all of that answer or with none of it.                 *)
(***************************************************************************)
EXTENDS Naturals

CONSTANTS
    Callers,      \* the fetches that may be under way at one time
    Keys,         \* the contents that may be asked for
    GateReasons,  \* the failures ingest names
    OtherReasons, \* the failures of the hop itself, and the store's own end of it
    Counts,       \* how many bars a fetch may bring
    None

VARIABLE fetch    \* per caller: where it is, what it asked, what it heard, how it ended

\* An answer, or a fetch's outcome: so many bars, or why there are none.
Served(n)  == [bars |-> n, why |-> "served"]
Failed(r)  == [bars |-> 0, why |-> r]
Nothing    == Failed("nothing")

Idle == [st |-> "idle", key |-> None, ours |-> TRUE, heard |-> Nothing, out |-> Nothing]

Init == fetch = [c \in Callers |-> Idle]

\* A fetch is asked of our own ingest, or of a peer of another release.
Ask(c) ==
    /\ fetch[c].st = "idle"
    /\ \E k \in Keys, ours \in BOOLEAN :
         fetch' = [fetch EXCEPT ![c] = [Idle EXCEPT !.st = "open", !.key = k, !.ours = ours]]

\* One answer reaches fetches that wait for the same key and have heard nothing yet.
Answered(S) ==
    /\ S # {}
    /\ \A c \in S : fetch[c].st = "open" /\ fetch[c].ours /\ fetch[c].heard = Nothing
    /\ \A c, d \in S : fetch[c].key = fetch[d].key
    /\ \E a \in {Served(n) : n \in Counts} \cup {Failed(r) : r \in GateReasons} :
         fetch' = [c \in Callers |-> IF c \in S THEN [fetch[c] EXCEPT !.heard = a, !.key = None] ELSE fetch[c]]

\* Stored: of our own ingest's answer, every bar.
Store(c) ==
    /\ fetch[c].st = "open"
    /\ \E n \in Counts :
         /\ fetch[c].ours => fetch[c].heard = Served(n)
         /\ fetch' = [fetch EXCEPT ![c] = [Idle EXCEPT !.st = "stored", !.out = Served(n)]]

\* Failed, with nothing stored: for the reason ingest gave, or for one of the hop's own.
Fail(c) ==
    /\ fetch[c].st = "open"
    /\ \E r \in GateReasons \cup OtherReasons :
         /\ fetch[c].ours /\ r \in GateReasons => fetch[c].heard = Failed(r)
         /\ fetch' = [fetch EXCEPT ![c] = [Idle EXCEPT !.st = "failed", !.out = Failed(r)]]

Forget(c) ==
    /\ fetch[c].st \in {"stored", "failed"}
    /\ fetch' = [fetch EXCEPT ![c] = Idle]

Next ==
    \/ \E c \in Callers : Ask(c) \/ Store(c) \/ Fail(c) \/ Forget(c)
    \/ \E S \in SUBSET Callers : Answered(S)

Spec == Init /\ [][Next]_fetch
=============================================================================
