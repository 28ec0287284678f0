------------------------------ MODULE LiveEvents ------------------------------
(***************************************************************************)
(* The store's event hub, one WebSocket of it, and the browser's one       *)
(* shared events client: publications that never wait, a bounded queue, a  *)
(* slow client that is dropped, a socket that breaks and is reopened.      *)
(***************************************************************************)
EXTENDS Integers, Sequences, FiniteSets

CONSTANTS
    QueueSize,  \* events a subscriber may hold undelivered
    WireCap,    \* frames in flight before the handler's send waits
    MaxFaults   \* bound on broken connections and failed attempts

ASSUME FeedAssumption == QueueSize \in Nat \ {0} /\ WireCap \in Nat \ {0} /\ MaxFaults \in Nat

VARIABLES
    sub,    \* the handler's subscription: none, on, or dropped by the hub
    queue,  \* its bounded queue
    wire,   \* frames on their way to the browser
    sock,   \* the browser's socket: connecting, open or retrying
    opened, \* hasOpened: a first open has been heard
    faults  \* how often the connection failed

feedVars == <<sub, queue, wire, sock, opened, faults>>

Sentinel == [t |-> "dropped"]
Opened   == [t |-> "opened"]
Closed   == [t |-> "closed"]

\* What is neither an event nor lost with one.
Signals == {Sentinel, Opened, Closed}

FeedInit ==
    /\ sub = "none" /\ queue = <<>>
    /\ wire = <<>>
    /\ sock = "connecting" /\ opened = FALSE /\ faults = 0

\* Mutant: a full queue loses the event and nothing else.
OfferOrLose(e) ==
    /\ queue' = IF sub = "on" /\ Len(queue) < QueueSize THEN Append(queue, e) ELSE queue
    /\ UNCHANGED <<sub, wire, sock, opened, faults>>

\* The hub hands an event to the subscriber; a full queue is emptied and ends with the sentinel.
Offer(e) ==
    /\ \/ sub # "on" /\ UNCHANGED <<sub, queue>>
       \/ sub = "on" /\ Len(queue) < QueueSize /\ queue' = Append(queue, e) /\ UNCHANGED sub
       \/ sub = "on" /\ Len(queue) = QueueSize /\ queue' = <<Sentinel>> /\ sub' = "dropped"
    /\ UNCHANGED <<wire, sock, opened, faults>>

\* The handler accepts the socket and subscribes; it awaits nothing else between the two.
Accept ==
    /\ sock = "connecting" /\ sub = "none" /\ wire = <<>>
    /\ sub' = "on"
    /\ wire' = <<Opened>>
    /\ UNCHANGED <<queue, sock, opened, faults>>

\* The handler sends the next event, or closes a dropped client's socket with 1013.
Forward ==
    /\ queue # <<>>
    /\ Len(wire) < WireCap
    /\ IF Head(queue) = Sentinel
       THEN wire' = Append(wire, Closed) /\ sub' = "none"
       ELSE wire' = Append(wire, Head(queue)) /\ UNCHANGED sub
    /\ queue' = Tail(queue)
    /\ UNCHANGED <<sock, opened, faults>>

\* The connection breaks: the handler ends, and what was queued or in flight is lost.
Break ==
    /\ faults < MaxFaults
    /\ sock = "open" \/ wire # <<>>
    /\ sub' = "none" /\ queue' = <<>> /\ wire' = <<>>
    /\ sock' = "retrying" /\ faults' = faults + 1
    /\ UNCHANGED opened

\* An attempt that never opens.
ConnectFails ==
    /\ faults < MaxFaults
    /\ sock = "connecting" /\ wire = <<>>
    /\ sock' = "retrying" /\ faults' = faults + 1
    /\ UNCHANGED <<sub, queue, wire, opened>>

\* The one retry timer fires.
Retry ==
    /\ sock = "retrying"
    /\ sock' = "connecting"
    /\ UNCHANGED <<sub, queue, wire, opened, faults>>

\* The browser hears that its socket is closed.
HearClose ==
    /\ wire # <<>> /\ Head(wire) = Closed
    /\ wire' = Tail(wire)
    /\ sock' = "retrying"
    /\ UNCHANGED <<sub, queue, opened, faults>>

\* The browser hears that its socket is open; the screens reload unless it is the first time.
HearOpen ==
    /\ wire # <<>> /\ Head(wire) = Opened
    /\ wire' = Tail(wire)
    /\ sock' = "open" /\ opened' = TRUE
    /\ UNCHANGED <<sub, queue, faults>>

\* The browser hears an event.
HearEvent ==
    /\ wire # <<>> /\ Head(wire) \notin Signals
    /\ wire' = Tail(wire)
    /\ UNCHANGED <<sub, queue, sock, opened, faults>>

FeedStep == Accept \/ Forward \/ ConnectFails \/ Retry \/ HearClose

\* Events that a break now would lose.
InFlight == ({queue[i] : i \in 1 .. Len(queue)} \cup {wire[i] : i \in 1 .. Len(wire)}) \ Signals
=============================================================================
