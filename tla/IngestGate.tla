------------------------------ MODULE IngestGate ------------------------------
(***************************************************************************)
(* A dataset fetch from end to end: the store asks, ingest collapses       *)
(* identical vendor calls into one (SingleFlight), admits the leader       *)
(* through the vendor's token bucket (RateBudget), streams the shared      *)
(* answer back as an ack, pages and a done, and the store reads that       *)
(* stream inside one transaction.  Time passes in ticks; the bucket        *)
(* refills one unit a tick, a call costs Token units (a burst and a        *)
(* reserve need not be whole tokens), and timers fire in the tick they     *)
(* are due.                                                                *)
(***************************************************************************)
EXTENDS Integers, Sequences, FiniteSets

CONSTANTS
    Callers,        \* the fetches that may be under way at one time
    ForeignCallers, \* those that may reach a peer of another release, which may say anything
    Keys,           \* the vendor requests, as VendorRequestKey tells them apart
    Token,          \* the units that make one token
    Burst,          \* the bucket's size, in units
    Reserve,        \* the units backfill leaves
    Deadline,       \* ticks a fetch may take
    VendorReasons,  \* the failures classify() names
    BarCounts,      \* how many bars a vendor answer may hold
    PageBars,       \* bars a page holds
    WireCap,        \* messages in flight before the sender waits
    MaxForeign,     \* bound on the bars a foreign peer sends
    None

\* The bucket holds one token at least, and one beyond the reserve, which may be nothing.
ASSUME BucketAssumption ==
    /\ Token \in Nat \ {0} /\ Burst \in Nat /\ Reserve \in Nat
    /\ Token + Reserve <= Burst
ASSUME PageAssumption == PageBars \in Nat \ {0} /\ BarCounts \subseteq Nat
ASSUME DeadlineAssumption == Deadline \in Nat
ASSUME ForeignAssumption == ForeignCallers \subseteq Callers /\ MaxForeign \in Nat
ASSUME NoneAssumption == None \notin Callers \cup {"entitled", "other"}
\* What classify() names is a vendor's failure, and none of the words this module has of its own.
ASSUME ReasonAssumption ==
    VendorReasons \cap {"DEADLINE", "PEER_UNAVAILABLE", "PEER_INTERNAL", "PEER_PROTOCOL_ERROR", "STORE", "INTERNAL",
                        "FEED_NOT_AVAILABLE", "OK", "UNAVAILABLE", "CANCELLED", "served", "nothing"} = {}

VARIABLES
    call,    \* per caller: the call as ingest holds it
    flights, \* SingleFlight: per key the caller that leads its vendor call, or None
    tokens,  \* the bucket, in units
    spent,   \* history: a call that is not backfill took the last token, and none has come since
    wire,    \* per caller: the messages on their way to the store
    client   \* per caller: the stream reader and the transaction around it

vars == <<call, flights, tokens, spent, wire, client>>

GateReasons   == VendorReasons \cup {"INTERNAL", "RATE_BUDGET", "REFUSED", "FEED_NOT_AVAILABLE"}
OtherReasons  == {"DEADLINE", "PEER_UNAVAILABLE", "PEER_INTERNAL", "PEER_PROTOCOL_ERROR", "STORE"}
Priorities    == {"INTERACTIVE", "BACKFILL"}
Feeds         == {"entitled", "other"}

\* What a call hears of its vendor call, or how its fetch ends: so many bars, or why there are none.
Served(n) == [bars |-> n, why |-> "served"]
Failed(r) == [bars |-> 0, why |-> r]
Nothing   == Failed("nothing")

\* What a vendor call may end with: bars, a failure classify() names, or one that is re-raised.
VendorAnswer == {Served(n) : n \in BarCounts}
                \cup {Failed(r) : r \in VendorReasons \cup {"INTERNAL"}}

\* The statuses from_rpc_error turns into a reason of the hop.
StatusReason(code) ==
    IF code = "INTERNAL" THEN "PEER_INTERNAL"
    ELSE IF code = "UNAVAILABLE" THEN "PEER_UNAVAILABLE"
    ELSE IF code = "CANCELLED" THEN "PEER_PROTOCOL_ERROR"
    ELSE code

NoCall == [st |-> "none", key |-> None, prio |-> "INTERACTIVE", ours |-> TRUE, left |-> 0, nap |-> 0,
           heard |-> Nothing, sent |-> 0]

Quiet == [st |-> "idle", acc |-> None, done |-> FALSE, rows |-> 0, feeds |-> {}, out |-> Nothing]

Active(c)  == call[c].st \notin {"none", "over"}
InGate(c)  == call[c].st \in {"sent", "sleeping", "vendor", "attached"}
Leading(c) == call[c].st \in {"sleeping", "vendor"}

\* The stream's last message is out: a status ends it.
Closed(c) == wire[c] # <<>> /\ wire[c][Len(wire[c])].t = "status"

Ack(feed)     == [t |-> "ack", feed |-> feed, n |-> 0]
Page(feed, n) == [t |-> "page", feed |-> feed, n |-> n]
Done          == [t |-> "done", feed |-> None, n |-> 0]
Refused(why)  == [t |-> "refused", feed |-> why, n |-> 0]
Status(code)  == [t |-> "status", feed |-> code, n |-> 0]
Unreadable    == [t |-> "unreadable", feed |-> None, n |-> 0]

\* What may be on the wire.
Codes == GateReasons \cup {"OK", "UNAVAILABLE", "CANCELLED"}

Message ==
    [t : {"ack", "page"}, feed : Feeds, n : Nat]
    \cup [t : {"done", "unreadable"}, feed : {None}, n : {0}]
    \cup [t : {"refused"}, feed : {"FEED_NOT_AVAILABLE", "unknown"}, n : {0}]
    \cup [t : {"status"}, feed : Codes, n : {0}]

Init ==
    /\ call = [c \in Callers |-> NoCall]
    /\ flights = [k \in Keys |-> None]
    /\ tokens = Burst
    /\ spent = FALSE
    /\ wire = [c \in Callers |-> <<>>]
    /\ client = [c \in Callers |-> Quiet]

-----------------------------------------------------------------------------
(* The store asks. *)

\* A fetch opens its transaction and sends the request with a finite deadline.
Ask(c) ==
    /\ client[c].st = "idle"
    /\ \E k \in Keys, p \in Priorities, ours \in BOOLEAN :
         /\ ours \/ (c \in ForeignCallers /\ p = "INTERACTIVE" /\ k = CHOOSE x \in Keys : TRUE)
         /\ call' = [call EXCEPT ![c] = [NoCall EXCEPT
                !.st = IF ours THEN "sent" ELSE "foreign", !.key = k, !.prio = p, !.ours = ours,
                !.left = Deadline]]
    /\ client' = [client EXCEPT ![c].st = "open"]
    /\ UNCHANGED <<flights, tokens, spent, wire>>

-----------------------------------------------------------------------------
(* The gate: SingleFlight around RateBudget around the vendor. *)

\* A caller hears its answer; the key and the priority were the vendor call's own.  One whose
\* store has gone has nothing left to do: what it would send has no reader.
Hears(d, answer) ==
    IF client[d].st = "open"
    THEN [call[d] EXCEPT !.st = "told", !.heard = answer, !.nap = 0, !.key = None, !.prio = "INTERACTIVE"]
    ELSE NoCall

\* Mutant: the range is left out of the request key.
RangelessKey(c) == CHOOSE k \in Keys : TRUE

FlightKey(c) == call[c].key

Followers(k) == {d \in Callers : call[d].st = "attached" /\ FlightKey(d) = k}

\* The flight of c ends: the key is released, and the leader and all who attached hear the answer.
Settle(c, answer) ==
    /\ call' = [d \in Callers |-> IF d \in {c} \cup Followers(FlightKey(c))
                                  THEN Hears(d, answer) ELSE call[d]]
    /\ flights' = [flights EXCEPT ![FlightKey(c)] = None]

\* Mutant: the reserve is held back from no one.
NoFloor(prio) == 0

Floor(prio) == IF prio = "BACKFILL" THEN Reserve ELSE 0

\* How long until this priority may spend a token, if nobody else does.
WaitFor(prio) == Token + Floor(prio) - tokens

\* Mutant: a token is taken whatever the bucket holds.
OverdrawnToken(c) ==
    /\ tokens' = tokens - Token
    /\ spent' = (tokens' < Token /\ call[c].prio # "BACKFILL")
    /\ call' = [call EXCEPT ![c].st = "vendor"]
    /\ flights' = [flights EXCEPT ![FlightKey(c)] = c]

\* A token is taken and the blocking vendor call goes to the executor.
TakeToken(c) ==
    /\ WaitFor(call[c].prio) <= 0
    /\ tokens' = tokens - Token
    /\ spent' = (tokens' < Token /\ call[c].prio # "BACKFILL")
    /\ call' = [call EXCEPT ![c].st = "vendor"]
    /\ flights' = [flights EXCEPT ![FlightKey(c)] = c]

Sleep(c) ==
    /\ WaitFor(call[c].prio) > 0
    /\ call' = [call EXCEPT ![c].st = "sleeping", ![c].nap = WaitFor(call[c].prio)]
    /\ flights' = [flights EXCEPT ![FlightKey(c)] = c]
    /\ UNCHANGED <<tokens, spent>>

\* Mutant: the deadline is checked on the first pass only.
FirstPassAcquire(c) ==
    \/ TakeToken(c)
    \/ (call[c].st = "sent" => WaitFor(call[c].prio) <= call[c].left) /\ Sleep(c)
    \/ /\ call[c].st = "sent"
       /\ WaitFor(call[c].prio) > 0 /\ WaitFor(call[c].prio) > call[c].left
       /\ Settle(c, Failed("RATE_BUDGET"))
       /\ UNCHANGED <<tokens, spent>>

\* One pass of acquire: take a token, sleep until one is due, or refuse a wait past the deadline.
Acquire(c) ==
    \/ TakeToken(c)
    \/ WaitFor(call[c].prio) <= call[c].left /\ Sleep(c)
    \/ /\ WaitFor(call[c].prio) > 0 /\ WaitFor(call[c].prio) > call[c].left
       /\ Settle(c, Failed("RATE_BUDGET"))
       /\ UNCHANGED <<tokens, spent>>

\* Refused before any vendor call: by the handler, by the adapter, or for its missing credentials.
RefuseTyped(c) ==
    /\ call[c].st = "sent"
    /\ \E r \in {"REFUSED", "FEED_NOT_AVAILABLE"} :
         call' = [call EXCEPT ![c] = Hears(c, Failed(r))]
    /\ UNCHANGED <<flights, tokens, spent, wire, client>>

\* The request finds its key in flight and attaches, at whatever priority the leader runs.
Attach(c) ==
    /\ call[c].st = "sent"
    /\ flights[FlightKey(c)] # None
    /\ call' = [call EXCEPT ![c].st = "attached"]
    /\ UNCHANGED <<flights, tokens, spent, wire, client>>

\* The request leads a new flight; nothing awaits before its first try at the bucket.
Lead(c) ==
    /\ call[c].st = "sent"
    /\ flights[FlightKey(c)] = None
    /\ Acquire(c)
    /\ UNCHANGED <<wire, client>>

\* The sleep ends, and the bucket is tried again.
Wake(c) ==
    /\ call[c].st = "sleeping"
    /\ call[c].nap = 0
    /\ Acquire(c)
    /\ UNCHANGED <<wire, client>>

VendorAnswers(c) ==
    /\ call[c].st = "vendor"
    /\ \E a \in VendorAnswer : Settle(c, a)
    /\ UNCHANGED <<tokens, spent, wire, client>>

-----------------------------------------------------------------------------
(* The handler and the servicer stream the answer. *)

CanSend(c) == client[c].st = "open" /\ ~Closed(c) /\ Len(wire[c]) < WireCap

Say(c, msgs) == wire' = [wire EXCEPT ![c] = @ \o msgs]

\* An answer with bars is acknowledged first.
Accept(c) ==
    /\ call[c].st = "told"
    /\ call[c].heard.why = "served"
    /\ CanSend(c)
    /\ Say(c, <<Ack("entitled")>>)
    /\ call' = [call EXCEPT ![c].st = "streaming"]
    /\ UNCHANGED <<flights, tokens, spent, client>>

\* An unservable feed is refused in the ack; every other failure is the call's status.
Refuse(c) ==
    /\ call[c].st = "told"
    /\ call[c].heard.why \in GateReasons
    /\ CanSend(c)
    /\ Say(c, IF call[c].heard.why = "FEED_NOT_AVAILABLE" THEN <<Refused("FEED_NOT_AVAILABLE"), Status("OK")>>
                                                      ELSE <<Status(call[c].heard.why)>>)
    /\ call' = [call EXCEPT ![c].st = "over"]
    /\ UNCHANGED <<flights, tokens, spent, client>>

\* A follower whose leader was cancelled looks cancelled itself: gRPC sends CANCELLED, or nothing.
LeaderLeft(c) ==
    /\ call[c].st = "told"
    /\ call[c].heard.why = "CANCELLED"
    /\ \/ CanSend(c) /\ Say(c, <<Status("CANCELLED")>>)
       \/ UNCHANGED wire
    /\ call' = [call EXCEPT ![c].st = "over"]
    /\ UNCHANGED <<flights, tokens, spent, client>>

\* The bars of the next page: a full one, or what is left.
NextPage(c) ==
    IF call[c].heard.bars - call[c].sent < PageBars THEN call[c].heard.bars - call[c].sent ELSE PageBars

SendPage(c) ==
    /\ call[c].st = "streaming"
    /\ NextPage(c) > 0
    /\ CanSend(c)
    /\ Say(c, <<Page("entitled", NextPage(c))>>)
    /\ call' = [call EXCEPT ![c].sent = @ + NextPage(c)]
    /\ UNCHANGED <<flights, tokens, spent, client>>

SendDone(c) ==
    /\ call[c].st = "streaming"
    /\ NextPage(c) = 0
    /\ CanSend(c)
    /\ Say(c, <<Done, Status("OK")>>)
    /\ call' = [call EXCEPT ![c].st = "over"]
    /\ UNCHANGED <<flights, tokens, spent, client>>

\* A peer of another release sends anything at all, and ends when it likes.
ForeignSends(c) ==
    /\ call[c].st = "foreign"
    /\ CanSend(c)
    /\ \E m \in {Ack("entitled")} \cup {Page(f, 1) : f \in IF call[c].sent < MaxForeign THEN Feeds ELSE {}}
                \cup {Done, Unreadable, Refused("FEED_NOT_AVAILABLE"), Refused("unknown")}
                \cup {Status(s) : s \in {"OK", "RATE_BUDGET"}} :
         /\ Say(c, <<m>>)
         /\ call' = [call EXCEPT ![c].st = IF m.t = "status" THEN "over" ELSE @, ![c].sent = @ + m.n]
    /\ UNCHANGED <<flights, tokens, spent, client>>

\* What is left of a cancelled call: nothing, once the store has ended too.
Dropped(c) ==
    IF client[c].st = "open" THEN [call[c] EXCEPT !.st = "over", !.nap = 0, !.prio = "INTERACTIVE"]
                             ELSE NoCall

\* Mutant: a cancelled leader leaves its key behind.
LeaveCall(c) ==
    /\ call' = [call EXCEPT ![c] = Dropped(c)]
    /\ UNCHANGED flights

\* A cancelled leader releases its key and cancels what its followers wait for.
DropCall(c) ==
    IF Leading(c)
    THEN /\ call' = [d \in Callers |->
                CASE d = c -> Dropped(c)
                  [] d \in Followers(FlightKey(c)) ->
                        IF client[d].st = "open"
                        THEN [call[d] EXCEPT !.st = "told", !.heard = Failed("CANCELLED")] ELSE NoCall
                  [] OTHER -> call[d]]
         /\ flights' = [flights EXCEPT ![FlightKey(c)] = None]
    ELSE /\ call' = [call EXCEPT ![c] = Dropped(c)]
         /\ UNCHANGED flights

\* Ingest learns that nobody listens: the store cancelled, its deadline passed, or the line is cut.
CancelCall(c) ==
    /\ Active(c)
    /\ client[c].st # "open" \/ Closed(c)
    /\ DropCall(c)
    /\ UNCHANGED <<tokens, spent, wire, client>>

-----------------------------------------------------------------------------
(* The store reads the stream inside its transaction. *)

\* The transaction rolls back and the call is cancelled: one that is past the gate just ends, one
\* still in it goes on until ingest learns of it.
Fail(c, reason) ==
    /\ client' = [client EXCEPT ![c] = [Quiet EXCEPT !.st = "failed", !.out = Failed(reason)]]
    /\ wire' = [wire EXCEPT ![c] = <<>>]
    /\ call' = [call EXCEPT ![c] = IF InGate(c) THEN @ ELSE NoCall]

\* Whether the reader's grammar admits message m.
Admits(c, m) ==
    /\ m.t # "unreadable"
    /\ ~client[c].done
    /\ m.t \in {"ack", "refused"} => client[c].acc = None
    /\ m.t \in {"page", "done"} => client[c].acc # None
    /\ m.t = "page" => m.feed = client[c].acc

\* Mutant: a stream that merely stops counts as one that finished.
EndedAnyhow(c) == client[c].acc # None

Ended(c) == client[c].done

\* What an admitted message does: the ack writes the entry, a page its rows, the done ends the data.
Take(c, m) ==
    /\ UNCHANGED call
    /\ client' = [client EXCEPT
           ![c].acc = IF m.t = "ack" THEN m.feed ELSE @,
           ![c].done = (m.t = "done"),
           ![c].rows = @ + m.n,
           ![c].feeds = IF m.t = "page" THEN @ \cup {m.feed} ELSE @]
    /\ wire' = [wire EXCEPT ![c] = Tail(@)]

Commit(c) ==
    /\ UNCHANGED call
    /\ client' = [client EXCEPT ![c].st = "stored"]
    /\ wire' = [wire EXCEPT ![c] = <<>>]

Receive(c) ==
    /\ client[c].st = "open"
    /\ wire[c] # <<>>
    /\ LET m == Head(wire[c]) IN
         \/ m.t = "status" /\ m.feed = "OK" /\ Ended(c) /\ Commit(c)
         \/ m.t = "status" /\ m.feed = "OK" /\ ~Ended(c) /\ Fail(c, "PEER_PROTOCOL_ERROR")
         \/ m.t = "status" /\ m.feed # "OK" /\ Fail(c, StatusReason(m.feed))
         \/ m.t # "status" /\ ~Admits(c, m) /\ Fail(c, "PEER_PROTOCOL_ERROR")
         \/ m.t = "refused" /\ Admits(c, m)
            /\ Fail(c, IF m.feed = "unknown" THEN "PEER_PROTOCOL_ERROR" ELSE m.feed)
         \/ m.t \in {"ack", "page", "done"} /\ Admits(c, m) /\ Take(c, m)
    /\ UNCHANGED <<flights, tokens, spent>>

\* The store gives the fetch up: a database failure, a retired dataset, a shutdown.
StoreFails(c) ==
    /\ client[c].st = "open"
    /\ Fail(c, "STORE")
    /\ UNCHANGED <<flights, tokens, spent>>

\* Mutant: the client sets no deadline.
NoDeadline(c) == FALSE

DeadlineDue(c) == call[c].left = 0

DeadlinePasses(c) ==
    /\ client[c].st = "open"
    /\ DeadlineDue(c)
    /\ Fail(c, "DEADLINE")
    /\ UNCHANGED <<flights, tokens, spent>>

\* The caller has its outcome, and a later fetch may follow.
Forget(c) ==
    /\ client[c].st \in {"stored", "failed"}
    /\ ~Active(c)
    /\ client' = [client EXCEPT ![c] = Quiet]
    /\ call' = [call EXCEPT ![c] = NoCall]
    /\ UNCHANGED <<flights, tokens, spent, wire>>

-----------------------------------------------------------------------------
(* Failures and time. *)

\* The line is cut behind what was already sent.
PeerLost(c) ==
    /\ client[c].st = "open"
    /\ call[c].st # "sent"
    /\ ~Closed(c)
    /\ Say(c, <<Status("UNAVAILABLE")>>)
    /\ UNCHANGED <<call, flights, tokens, spent, client>>

\* Ingest restarts: every call in it is lost, and its gate starts empty.
IngestRestart ==
    LET lost == {c \in Callers : Active(c) /\ call[c].st \notin {"sent", "foreign"}} IN
    /\ lost # {}
    /\ call' = [c \in Callers |-> IF c \in lost THEN Dropped(c) ELSE call[c]]
    /\ wire' = [c \in Callers |-> IF c \in lost /\ client[c].st = "open" /\ ~Closed(c)
                                  THEN Append(wire[c], Status("UNAVAILABLE")) ELSE wire[c]]
    /\ flights' = [k \in Keys |-> None]
    /\ tokens' = Burst
    /\ spent' = FALSE
    /\ UNCHANGED client

TimerDue == \E c \in Callers : \/ call[c].st = "sleeping" /\ call[c].nap = 0
                               \/ client[c].st = "open" /\ DeadlineDue(c)

\* A tick: the bucket refills, sleeps and deadlines come nearer.
Tick ==
    /\ ~TimerDue
    /\ tokens' = IF tokens < Burst THEN tokens + 1 ELSE Burst
    /\ spent' = (spent /\ tokens' < Token)
    /\ call' = [c \in Callers |-> [call[c] EXCEPT
           !.nap = IF @ > 0 THEN @ - 1 ELSE 0,
           !.left = IF @ >= 0 /\ (Active(c) \/ client[c].st = "open") THEN @ - 1 ELSE @]]
    /\ UNCHANGED <<flights, wire, client>>

Step(c) ==
    \/ Ask(c) \/ RefuseTyped(c) \/ Attach(c) \/ Lead(c) \/ Wake(c) \/ VendorAnswers(c)
    \/ Accept(c) \/ Refuse(c) \/ LeaderLeft(c) \/ SendPage(c) \/ SendDone(c) \/ ForeignSends(c)
    \/ CancelCall(c) \/ Receive(c) \/ StoreFails(c) \/ DeadlinePasses(c) \/ Forget(c) \/ PeerLost(c)

Next == IngestRestart \/ Tick \/ \E c \in Callers : Step(c)

\* Time passes, the bucket's and the deadline's timers fire, and a cancellation reaches ingest.
Fairness ==
    /\ WF_vars(Tick)
    /\ \A c \in Callers : WF_vars(Wake(c)) /\ WF_vars(DeadlinePasses(c)) /\ WF_vars(CancelCall(c))

Spec == Init /\ [][Next]_vars /\ Fairness

-----------------------------------------------------------------------------
(* Properties. *)

CallRecords ==
    [st : {"none", "sent", "sleeping", "vendor", "attached", "told", "streaming", "over", "foreign"},
     key : Keys \cup {None}, prio : Priorities, ours : BOOLEAN,
     left : -1 .. Deadline, nap : 0 .. Burst,
     heard : VendorAnswer \cup {Failed(r) : r \in GateReasons \cup {"CANCELLED", "nothing"}},
     sent : Nat]

ClientRecords ==
    [st : {"idle", "open", "stored", "failed"}, acc : Feeds \cup {None}, done : BOOLEAN,
     rows : Nat, feeds : SUBSET Feeds,
     out : {Failed(r) : r \in GateReasons \cup OtherReasons \cup {"nothing"}}]

TypeOK ==
    /\ call \in [Callers -> CallRecords]
    /\ flights \in [Keys -> Callers \cup {None}]
    /\ tokens \in 0 .. Burst
    /\ spent \in BOOLEAN
    /\ wire \in [Callers -> Seq(Message)]
    /\ client \in [Callers -> ClientRecords]

\* A request that attached waits on a call that is still under way for its own key, led by one
\* caller alone: however leaders end, nobody is left waiting on a future no task will resolve.
NobodyStranded ==
    /\ \A c \in Callers : call[c].st = "attached" => flights[call[c].key] # None
    /\ \A k \in Keys : flights[k] # None => Leading(flights[k]) /\ call[flights[k]].key = k
    /\ \A c \in Callers : Leading(c) => flights[call[c].key] = c

\* The reserve: an interactive leader waits for what is missing of one token, whatever history is
\* pulled beside it; and where the reserve is a token or more, it waits only because other
\* interactive calls took the last one and none has come since.  (With a smaller reserve, which the
\* code allows, backfill may have taken it.)
BackfillLeavesTheRest ==
    \A c \in Callers :
        call[c].st = "sleeping" /\ call[c].prio # "BACKFILL" /\ call[c].nap > 0
            => /\ call[c].nap = Token - tokens
               /\ Reserve >= Token => spent

\* What commits is one entry on the acknowledged feed with rows of that feed only, from a stream that
\* reached its done; from our own ingest it is every bar of the vendor's answer.
StoredIsComplete ==
    \A c \in Callers :
        client[c].st = "stored" =>
            /\ client[c].acc # None /\ client[c].done
            /\ client[c].feeds \subseteq {client[c].acc}
            /\ call[c].ours => Served(client[c].rows) = call[c].heard

\* A call that waited for a token never starts at the vendor after its deadline.
NoStartPastDeadline ==
    [][\A c \in Callers : call[c].st = "sleeping" /\ call'[c].st = "vendor" => call[c].left >= 0]_vars

\* The refinement: the reader's outcome is the fetch's, and an answer counts once its caller heard it.
FetchState(c) ==
    [st |-> client[c].st,
     key |-> IF client[c].st = "open" THEN call[c].key ELSE None,
     ours |-> client[c].st = "open" => call[c].ours,
     heard |-> IF client[c].st = "open" /\ call[c].heard.why \in GateReasons \cup {"served"}
               THEN call[c].heard ELSE Nothing,
     out |-> IF client[c].st = "stored" THEN Served(client[c].rows) ELSE client[c].out]

Contract == INSTANCE FetchContract WITH
    Counts <- BarCounts \cup 0 .. MaxForeign, fetch <- [c \in Callers |-> FetchState(c)]

\* Every fetch keeps FetchContract: answered once, by an answer for its own key given while it
\* waited, and stored whole or not at all.
ImplementsFetch == Contract!Spec

\* A fetch ends, at the store and with everything it started in ingest, however often leaders leave,
\* the line is cut or ingest restarts: no wait outlives its deadline.
FetchesEnd ==
    \A c \in Callers : client[c].st = "open" \/ Active(c) ~> client[c].st # "open" /\ ~Active(c)
=============================================================================
