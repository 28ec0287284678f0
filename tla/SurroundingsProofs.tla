--------------------------- MODULE SurroundingsProofs ---------------------------
(***************************************************************************)
(* Three of the parts that stand around the write path, for every value of *)
(* the constants.                                                          *)
(*                                                                         *)
(* The detail screen.  ShowsItsOwn: each request and write carries the     *)
(* dataset it is for, and leaving a dataset disowns them.  QuietIsCurrent: *)
(* from a commit on, something is always on its way to a screen that does  *)
(* not show it: the event, behind which no older one of the run can come;  *)
(* the timer or the request the event has set off; or the reload that an   *)
(* open stream, once it has been lost, brings with it.  ScreenInv names    *)
(* what that is, for the facts and for the newest run's row.               *)
(*                                                                         *)
(* A failed request.  FailuresAreTold: wherever the failure is, what the   *)
(* store knows of it, or will rebuild from the reply, is enough for the    *)
(* answer: its reason, its reset, and an id that the log of the service    *)
(* where it arose can be searched for, or none, and then the store's own   *)
(* line is that.                                                           *)
(*                                                                         *)
(* The daily refresh.  OncePerClose: the last of the runs that are a       *)
(* dataset's is its last answer (LastIsAnswer), and where the plan cannot  *)
(* tell that a run is the dataset's, the dataset has moved on from the     *)
(* tail it asked for, and from all it asked for before (TailsRise).        *)
(***************************************************************************)
EXTENDS Surroundings, WellFoundedInduction, TLAPS

Messages == Signals \cup [t : {"changed", "deleted"}, id : Datasets] \cup [t : {"run"}, id : Datasets, v : Nat]
Versions == [id : Datasets, v : Nat]
Replied  == [kind : {"ok", "missing", "failed"}, v : Nat]

\* What a sequence carries, whatever its order.
Items(s) == {s[i] : i \in 1 .. Len(s)}

\* The events that have not reached the screen: not yet published, queued, or on the wire.
Coming == due \cup Items(queue) \cup Items(wire)

About(e, d) == e \notin Signals /\ e.id = d
RunOf(e, d) == e.t = "run" /\ e.id = d

\* The socket is open, or the browser will hear that it is.
Connected == sock = "open" \/ (wire # <<>> /\ wire[1] = Opened)

\* A connection that is open, or that the browser will find open, is subscribed or will close; a
\* dropped one keeps only the sentinel, and the open comes first.
FeedShape ==
    /\ sub \in {"none", "on", "dropped"}
    /\ sock \in {"connecting", "open", "retrying"}
    /\ opened \in BOOLEAN
    /\ queue \in Seq(Messages)
    /\ wire \in Seq(Messages)
    /\ sock = "open" => opened
    /\ Connected \/ (sub = "none" /\ wire = <<>>)
    /\ sub = "none" => queue = <<>>
    /\ sub = "dropped" => queue = <<Sentinel>>
    /\ Connected /\ sub = "none" => wire # <<>> /\ wire[Len(wire)] = Closed
    /\ sub = "on" => \A i \in 1 .. Len(queue) : queue[i] \notin Signals
    /\ \A i \in 1 .. Len(wire) :
         /\ wire[i] # Sentinel
         /\ wire[i] = Opened => i = 1 /\ sock = "connecting"
         /\ wire[i] = Closed => i = Len(wire) /\ sub = "none"

\* No event is ahead of the store: what it says of a deletion is so, and the newest run's is the newest.
ServerTyped ==
    /\ store \in [Datasets -> [ver : Nat, run : Nat, gone : BOOLEAN]]
    /\ due \subseteq Messages \ Signals
    /\ \A e \in Coming : e.t = "deleted" => store[e.id].gone
    /\ \A e \in due : e.t = "run" => e.v = store[e.id].run

\* The events of one dataset's run are on their way in order: behind an older one there is a newer.
RunsInOrder ==
    \A d \in Datasets :
      sub = "on" /\ (\A e \in due : ~RunOf(e, d)) =>
        /\ \A i \in 1 .. Len(queue) :
             RunOf(queue[i], d) /\ queue[i].v # store[d].run => \E j \in i + 1 .. Len(queue) : RunOf(queue[j], d)
        /\ \A i \in 1 .. Len(wire) :
             RunOf(wire[i], d) /\ wire[i].v # store[d].run =>
               \/ \E j \in i + 1 .. Len(wire) : RunOf(wire[j], d)
               \/ \E j \in 1 .. Len(queue) : RunOf(queue[j], d)

ScreenRecords ==
    [shown : {None} \cup Versions, row : {None} \cup Versions,
     status : {"idle", "loading", "ready", "not-found", "error"}, rows : {"idle", "loading", "ready", "error"},
     deleted : BOOLEAN, problem : BOOLEAN, timer : BOOLEAN, writing : BOOLEAN]

\* What the screen waits for has been asked.
ScreenTyped ==
    /\ at \in Datasets \cup {None}
    /\ scr \in ScreenRecords
    /\ at = None => /\ scr.shown = None /\ scr.row = None /\ scr.status = "idle" /\ scr.rows = "idle"
                    /\ ~scr.deleted /\ ~scr.timer
    /\ at # None /\ scr.row = None => scr.rows \in {"loading", "error"}
    /\ at # None => scr.status # "idle" /\ scr.rows # "idle"
    /\ scr.status = "loading" => \E a \in asks : a.what = "overview" /\ ~a.soft
    /\ scr.rows = "loading" => \E a \in asks : a.what = "runs"

\* One request of each kind, for the dataset the screen is at; no answer is ahead of the store.
AsksTyped ==
    /\ asks \subseteq [what : {"overview", "runs"}, id : Datasets, soft : BOOLEAN, got : {None} \cup Replied]
    /\ \A a, b \in asks : a.what = b.what => a = b
    /\ \A a \in asks : a.id = at
    /\ \A a \in asks : a.got # None =>
         /\ a.got.kind = "missing" => store[at].gone
         /\ a.got.kind = "ok" => a.got.v <= IF a.what = "runs" THEN store[at].run ELSE store[at].ver

\* A write that the screen still owns is of its dataset.
WritesTyped ==
    /\ inputs \in Nat
    /\ writes \subseteq [n : Nat, own : BOOLEAN, id : Datasets, kind : {"patch", "delete"}, got : {None} \cup Replied]
    /\ \A w \in writes : w.own => w.id = at
    /\ \A w \in writes : w.got # None /\ w.got.kind = "ok" => w.got.v <= store[w.id].ver

\* After the first open, a reload is on its way.
Reopening == opened /\ (sock # "open" \/ sub # "on")

\* The answer is still to come, will not be shown, or is what is committed.
NewestFacts(a) == a.got = None \/ a.got.kind # "ok" \/ (a.got.v = store[at].ver /\ ~store[at].gone)
NewestRun(a)   == a.got = None \/ a.got.kind # "ok" \/ a.got.v = store[at].run

\* The facts shown are those committed, or say that they may not be, or something is on its way
\* that will have them fetched.
OverviewCatchesUp ==
    at # None /\ missed = {} =>
      \/ Reopening
      \/ \E e \in Coming : About(e, at)
      \/ scr.timer
      \/ scr.deleted
      \/ \E a \in asks : a.what = "overview" /\ NewestFacts(a)
      \/ /\ \A a \in asks : a.what # "overview"
         /\ \/ scr.shown = [id |-> at, v |-> store[at].ver] /\ ~store[at].gone
            \/ scr.problem
            \/ scr.status \in {"not-found", "error"}

\* The newest run's row likewise: an event is the row itself.
RowCatchesUp ==
    at # None /\ missed = {} =>
      \/ Reopening
      \/ \E e \in Coming : RunOf(e, at)
      \/ scr.row = [id |-> at, v |-> store[at].run]
      \/ \E a \in asks : a.what = "runs" /\ NewestRun(a)
      \/ /\ \A a \in asks : a.what # "runs"
         /\ scr.problem \/ scr.rows = "error"

ScreenInv == FeedShape /\ ServerTyped /\ RunsInOrder /\ ScreenTyped /\ AsksTyped /\ WritesTyped
             /\ ShowsItsOwn /\ OverviewCatchesUp /\ RowCatchesUp

---------------------------------------------------------------------------
(* Sequences. *)

LEMMA AppendItems ==
  ASSUME NEW S, NEW s \in Seq(S), NEW e \in S
  PROVE  /\ Append(s, e) \in Seq(S)
         /\ Len(Append(s, e)) = Len(s) + 1
         /\ \A i \in 1 .. Len(s) : Append(s, e)[i] = s[i]
         /\ Append(s, e)[Len(s) + 1] = e
         /\ Items(Append(s, e)) = Items(s) \cup {e}
<1>1. /\ Append(s, e) \in Seq(S)
      /\ Len(Append(s, e)) = Len(s) + 1
      /\ \A i \in 1 .. Len(s) : Append(s, e)[i] = s[i]
      /\ Append(s, e)[Len(s) + 1] = e
      /\ Len(s) \in Nat
  OBVIOUS
<1>2. \A i \in 1 .. Len(s) + 1 : i \in 1 .. Len(s) \/ i = Len(s) + 1
  BY <1>1
<1>3. \A i \in 1 .. Len(s) : i \in 1 .. Len(s) + 1
  BY <1>1
<1>4. Len(s) + 1 \in 1 .. Len(s) + 1
  BY <1>1
<1> QED
  BY <1>1, <1>2, <1>3, <1>4 DEF Items

LEMMA TailItems ==
  ASSUME NEW S, NEW s \in Seq(S), s # <<>>
  PROVE  /\ Tail(s) \in Seq(S)
         /\ Len(s) \in Nat \ {0}
         /\ Len(Tail(s)) = Len(s) - 1
         /\ \A i \in 1 .. Len(s) - 1 : Tail(s)[i] = s[i + 1]
         /\ Head(s) = s[1] /\ Head(s) \in S
         /\ Items(s) = Items(Tail(s)) \cup {Head(s)}
<1>1. /\ Tail(s) \in Seq(S)
      /\ Len(s) \in Nat \ {0}
      /\ Len(Tail(s)) = Len(s) - 1
      /\ \A i \in 1 .. Len(s) - 1 : Tail(s)[i] = s[i + 1]
      /\ Head(s) = s[1] /\ Head(s) \in S
  OBVIOUS
<1>2. ASSUME NEW x \in Items(s) PROVE x \in Items(Tail(s)) \cup {Head(s)}
  <2>1. PICK i \in 1 .. Len(s) : x = s[i]
    BY DEF Items
  <2>2. CASE i = 1
    BY <1>1, <2>1, <2>2
  <2>3. CASE i # 1
    <3>1. i - 1 \in 1 .. Len(s) - 1 /\ (i - 1) + 1 = i
      BY <1>1, <2>3
    <3> QED
      BY <1>1, <2>1, <3>1 DEF Items
  <2> QED
    BY <2>2, <2>3
<1>3. ASSUME NEW x \in Items(Tail(s)) PROVE x \in Items(s)
  <2>1. PICK i \in 1 .. Len(s) - 1 : x = Tail(s)[i]
    BY <1>1, <1>3 DEF Items
  <2>2. i + 1 \in 1 .. Len(s)
    BY <1>1
  <2> QED
    BY <1>1, <2>1, <2>2 DEF Items
<1>4. Head(s) \in Items(s)
  BY <1>1 DEF Items
<1> QED
  BY <1>1, <1>2, <1>3, <1>4

LEMMA OneItem ==
  ASSUME NEW x
  PROVE  Len(<<x>>) = 1 /\ <<x>>[1] = x /\ Items(<<x>>) = {x} /\ <<x>> # <<>> /\ Items(<<>>) = {} /\ Len(<<>>) = 0
<1>1. Len(<<x>>) = 1 /\ <<x>>[1] = x /\ <<x>> # <<>> /\ Len(<<>>) = 0
  OBVIOUS
<1>2. \A i \in 1 .. 1 : i = 1
  OBVIOUS
<1> QED
  BY <1>1, <1>2 DEF Items

LEMMA SignalKinds ==
  /\ Signals \subseteq Messages
  /\ Sentinel # Opened /\ Sentinel # Closed /\ Opened # Closed
  /\ \A e \in Messages : e \in Signals <=> e.t \in {"dropped", "opened", "closed"}
  /\ \A e \in Messages \ Signals : e.t \in {"changed", "deleted", "run"} /\ e.id \in Datasets /\ (e.t = "run" => e.v \in Nat)
BY DEF Messages, Signals, Sentinel, Opened, Closed

---------------------------------------------------------------------------
(* The feed. *)

\* A step of the connection keeps its shape, loses no event and no reload.
LEMMA ConnectionKeeps ==
  ASSUME FeedAssumption, FeedShape, FeedStep
  PROVE  /\ FeedShape'
         /\ (Items(queue') \cup Items(wire')) \ Signals = (Items(queue) \cup Items(wire)) \ Signals
         /\ Reopening => Reopening'
<1> USE SignalKinds, OneItem
<1>1. CASE Accept
  <2>1. FeedShape'
    <3>1. wire' \in Seq(Messages)
      <4>1. Opened \in Messages
        BY DEF Signals
      <4> QED
        BY <1>1, <4>1 DEF Accept
    <3> QED
      BY <1>1, <3>1 DEF Accept, FeedShape, Connected
  <2>2. Opened \in Signals
    BY DEF Signals
  <2> QED
    BY <1>1, <2>1, <2>2 DEF Accept, FeedShape, Reopening
<1>2. CASE Forward
  <2>1. /\ queue \in Seq(Messages) /\ queue # <<>> /\ wire \in Seq(Messages)
        /\ queue' = Tail(queue)
    BY <1>2 DEF Forward, FeedShape
  <2> DEFINE e == IF Head(queue) = Sentinel THEN Closed ELSE Head(queue)
  <2>2. e \in Messages /\ wire' = Append(wire, e)
    BY <1>2, <2>1, TailItems DEF Forward, Signals
  <2>3. /\ Tail(queue) \in Seq(Messages) /\ Len(queue) \in Nat \ {0} /\ Len(Tail(queue)) = Len(queue) - 1
        /\ \A i \in 1 .. Len(queue) - 1 : Tail(queue)[i] = queue[i + 1]
        /\ Head(queue) = queue[1] /\ Items(queue) = Items(Tail(queue)) \cup {Head(queue)}
    BY <2>1, TailItems
  <2>4. /\ wire' \in Seq(Messages) /\ Len(wire') = Len(wire) + 1
        /\ \A i \in 1 .. Len(wire) : wire'[i] = wire[i]
        /\ wire'[Len(wire) + 1] = e
        /\ Items(wire') = Items(wire) \cup {e}
        /\ Len(wire) \in Nat /\ wire' # <<>>
    BY <2>1, <2>2, AppendItems
  <2>5. Connected /\ sub # "none"
    BY <1>2, <2>1 DEF FeedShape
  <2>6. Connected'
    <3>1. CASE sock = "open"
      BY <1>2, <3>1 DEF Forward, Connected
    <3>2. CASE wire # <<>> /\ wire[1] = Opened
      <4>1. 1 \in 1 .. Len(wire)
        BY <2>1, <3>2
      <4> QED
        BY <2>4, <3>2, <4>1 DEF Connected
    <3> QED
      BY <2>5, <3>1, <3>2 DEF Connected
  <2>7. CASE sub = "dropped"
    <3>1. queue = <<Sentinel>> /\ Head(queue) = Sentinel /\ queue' = <<>> /\ e = Closed
      BY <2>1, <2>7 DEF FeedShape
    <3>2. sub' = "none" /\ UNCHANGED <<sock, opened, faults>>
      BY <1>2, <3>1 DEF Forward
    <3>3. \A i \in 1 .. Len(wire') : i \in 1 .. Len(wire) \/ i = Len(wire')
      BY <2>4
    <3>4. \A i \in 1 .. Len(wire) : wire[i] # Closed
      BY <2>7 DEF FeedShape
    <3>5. FeedShape'
      BY <2>3, <2>4, <2>6, <3>1, <3>2, <3>3, <3>4 DEF FeedShape
    <3> QED
      BY <2>3, <2>4, <3>1, <3>2, <3>5 DEF Signals, Reopening
  <2>8. CASE sub = "on"
    <3>1. Head(queue) \notin Signals /\ e = Head(queue) /\ sub' = "on"
      <4>1. 1 \in 1 .. Len(queue)
        BY <2>3
      <4> QED
        BY <1>2, <2>3, <2>8, <4>1 DEF Forward, FeedShape, Signals
    <3>2. UNCHANGED <<sock, opened, faults>>
      BY <1>2 DEF Forward
    <3>3. \A i \in 1 .. Len(wire') : i \in 1 .. Len(wire) \/ i = Len(wire')
      BY <2>4
    <3>4. \A i \in 1 .. Len(wire) : wire[i] # Closed
      BY <2>8 DEF FeedShape
    <3>5. \A i \in 1 .. Len(queue') : queue'[i] \notin Signals
      <4>1. \A i \in 1 .. Len(queue) - 1 : i + 1 \in 1 .. Len(queue)
        BY <2>3
      <4> QED
        BY <2>1, <2>3, <2>8, <4>1 DEF FeedShape
    <3>6. e # Sentinel /\ e # Opened /\ e # Closed
      BY <3>1 DEF Signals
    <3>7. FeedShape'
      <4>1. \A i \in 1 .. Len(wire)' :
              /\ wire'[i] # Sentinel
              /\ wire'[i] = Opened => i = 1 /\ sock' = "connecting"
              /\ wire'[i] = Closed => i = Len(wire') /\ sub' = "none"
        BY <2>4, <3>2, <3>3, <3>4, <3>6 DEF FeedShape
      <4> QED
        BY <2>1, <2>3, <2>4, <2>6, <2>8, <3>1, <3>2, <3>5, <4>1 DEF FeedShape
    <3> QED
      BY <2>1, <2>3, <2>4, <2>8, <3>1, <3>2, <3>7 DEF Reopening
  <2> QED
    BY <2>5, <2>7, <2>8 DEF FeedShape
<1>3. CASE ConnectFails
  BY <1>3 DEF ConnectFails, FeedShape, Connected, Reopening
<1>4. CASE Retry
  <2>1. ~Connected
    <3>1. wire # <<>> => 1 \in 1 .. Len(wire)
      BY DEF FeedShape
    <3> QED
      BY <1>4, <3>1 DEF Retry, FeedShape, Connected
  <2> QED
    BY <1>4, <2>1 DEF Retry, FeedShape, Connected, Reopening
<1>5. CASE HearClose
  <2>1. /\ wire \in Seq(Messages) /\ wire # <<>> /\ wire[1] = Closed /\ wire' = Tail(wire)
    BY <1>5 DEF HearClose, FeedShape
  <2>2. Len(wire) = 1 /\ sub = "none" /\ wire' = <<>>
    <3>1. 1 \in 1 .. Len(wire)
      BY <2>1
    <3>2. Len(wire) = 1 /\ sub = "none"
      BY <2>1, <3>1 DEF FeedShape
    <3>3. wire' \in Seq(Messages) /\ Len(wire') = 0
      BY <2>1, <3>2, TailItems
    <3> QED
      BY <3>2, <3>3
  <2>3. Items(wire) = Items(wire') \cup {Closed}
    BY <2>1, TailItems
  <2>4. FeedShape'
    BY <1>5, <2>1, <2>2 DEF HearClose, FeedShape, Connected
  <2> QED
    BY <1>5, <2>3, <2>4 DEF HearClose, Signals, Reopening
<1> QED
  BY <1>1, <1>2, <1>3, <1>4, <1>5 DEF FeedStep

\* An event is queued, or the client is dropped, or there is no client to queue it for.
LEMMA OfferKeeps ==
  ASSUME FeedAssumption, FeedShape, NEW e \in Messages \ Signals, Offer(e)
  PROVE  /\ FeedShape'
         /\ UNCHANGED <<wire, sock, opened>>
         /\ \/ sub # "on" /\ UNCHANGED <<sub, queue>>
            \/ sub = "on" /\ sub' = "on" /\ queue' = Append(queue, e)
            \/ sub = "on" /\ sub' = "dropped" /\ queue' = <<Sentinel>>
<1>1. CASE sub # "on" /\ UNCHANGED <<sub, queue, wire, sock, opened>>
  BY <1>1 DEF FeedShape, Connected
<1>2. CASE sub = "on" /\ sub' = "on" /\ queue' = Append(queue, e) /\ UNCHANGED <<wire, sock, opened>>
  <2>1. /\ queue' \in Seq(Messages)
        /\ Len(queue') = Len(queue) + 1 /\ Len(queue) \in Nat
        /\ \A i \in 1 .. Len(queue) : queue'[i] = queue[i]
        /\ queue'[Len(queue) + 1] = e
    BY <1>2, AppendItems DEF FeedShape
  <2>2. \A i \in 1 .. Len(queue') : i \in 1 .. Len(queue) \/ i = Len(queue) + 1
    BY <2>1
  <2>3. \A i \in 1 .. Len(queue') : queue'[i] \notin Signals
    BY <1>2, <2>1, <2>2 DEF FeedShape
  <2> QED
    BY <1>2, <2>1, <2>3 DEF FeedShape, Connected
<1>3. CASE sub = "on" /\ sub' = "dropped" /\ queue' = <<Sentinel>> /\ UNCHANGED <<wire, sock, opened>>
  <2>1. Sentinel \in Messages
    BY SignalKinds DEF Signals
  <2>2. queue' \in Seq(Messages)
    BY <1>3, <2>1
  <2> QED
    BY <1>3, <2>2 DEF FeedShape, Connected
<1> QED
  BY <1>1, <1>2, <1>3 DEF Offer

LEMMA HearOpenKeeps ==
  ASSUME FeedShape, HearOpen
  PROVE  FeedShape' /\ Items(wire) = Items(wire') \cup {Opened} /\ UNCHANGED <<sub, queue>> /\ sock' = "open" /\ opened'
<1>1. wire \in Seq(Messages) /\ wire # <<>> /\ wire' = Tail(wire) /\ wire[1] = Opened
  BY DEF HearOpen, FeedShape
<1>2. /\ wire' \in Seq(Messages) /\ Len(wire) \in Nat \ {0} /\ Len(wire') = Len(wire) - 1
      /\ \A i \in 1 .. Len(wire) - 1 : wire'[i] = wire[i + 1] /\ i + 1 \in 1 .. Len(wire)
      /\ Items(wire) = Items(wire') \cup {Opened}
  BY <1>1, TailItems
<1>3. sub = "none" => wire' # <<>> /\ wire'[Len(wire')] = Closed
  <2>1. CASE sub = "none"
    <3>1. wire[Len(wire)] = Closed
      BY <1>1, <2>1 DEF FeedShape, Connected
    <3>2. Len(wire) # 1
      BY <1>1, <3>1, SignalKinds
    <3>3. Len(wire) - 1 \in 1 .. Len(wire) - 1
      BY <1>2, <3>2
    <3> QED
      BY <1>2, <3>1, <3>3
  <2> QED
    BY <2>1
<1>4. \A i \in 1 .. Len(wire') :
        wire'[i] # Sentinel /\ wire'[i] # Opened /\ (wire'[i] = Closed => i = Len(wire') /\ sub = "none")
  BY <1>2 DEF FeedShape
<1>5. FeedShape'
  BY <1>2, <1>3, <1>4 DEF HearOpen, FeedShape, Connected
<1> QED
  BY <1>2, <1>5 DEF HearOpen

LEMMA HearEventKeeps ==
  ASSUME FeedShape, HearEvent
  PROVE  /\ FeedShape'
         /\ wire[1] \in Messages \ Signals /\ Head(wire) = wire[1]
         /\ Items(wire) = Items(wire') \cup {wire[1]}
         /\ Len(wire) \in Nat \ {0} /\ Len(wire') = Len(wire) - 1
         /\ \A i \in 1 .. Len(wire) - 1 : wire'[i] = wire[i + 1]
         /\ opened
         /\ UNCHANGED <<sub, queue, sock, opened>>
<1>1. wire \in Seq(Messages) /\ wire # <<>> /\ wire' = Tail(wire) /\ wire[1] \notin Signals /\ Head(wire) = wire[1]
  BY DEF HearEvent, FeedShape
<1>2. /\ wire' \in Seq(Messages) /\ Len(wire) \in Nat \ {0} /\ Len(wire') = Len(wire) - 1
      /\ \A i \in 1 .. Len(wire) - 1 : wire'[i] = wire[i + 1] /\ i + 1 \in 1 .. Len(wire)
      /\ Items(wire) = Items(wire') \cup {wire[1]}
      /\ wire[1] \in Messages
  BY <1>1, TailItems
<1>3. wire[1] # Opened /\ wire[1] # Closed
  BY <1>1 DEF Signals
<1>4. sock = "open" /\ opened
  BY <1>1, <1>3 DEF FeedShape, Connected
<1>5. sub = "none" => wire' # <<>> /\ wire'[Len(wire')] = Closed
  <2>1. CASE sub = "none"
    <3>1. wire[Len(wire)] = Closed
      BY <1>1, <1>4, <2>1 DEF FeedShape, Connected
    <3>2. Len(wire) # 1
      BY <1>3, <3>1
    <3>3. Len(wire) - 1 \in 1 .. Len(wire) - 1
      BY <1>2, <3>2
    <3> QED
      BY <1>2, <3>1, <3>3
  <2> QED
    BY <2>1
<1>6. \A i \in 1 .. Len(wire') :
        wire'[i] # Sentinel /\ wire'[i] # Opened /\ (wire'[i] = Closed => i = Len(wire') /\ sub = "none")
  BY <1>2, <1>4 DEF FeedShape
<1>7. FeedShape'
  BY <1>2, <1>4, <1>5, <1>6 DEF HearEvent, FeedShape, Connected
<1> QED
  BY <1>1, <1>2, <1>4, <1>7 DEF HearEvent

LEMMA BreakKeeps ==
  ASSUME FeedShape, Break
  PROVE  FeedShape' /\ queue' = <<>> /\ wire' = <<>> /\ sock' = "retrying" /\ sub' = "none" /\ UNCHANGED opened
BY DEF FeedShape, Break, Connected

---------------------------------------------------------------------------
(* What does not touch the server or the feed leaves their part as it is. *)

LEMMA ServerUntouched ==
  ASSUME FeedShape, ServerTyped, RunsInOrder, UNCHANGED <<serverVars, feedVars>>
  PROVE  FeedShape' /\ ServerTyped' /\ RunsInOrder' /\ Coming' = Coming /\ (Reopening <=> Reopening')
<1> USE DEF serverVars, feedVars
<1>1. Coming' = Coming
  BY DEF Coming, Items
<1>2. FeedShape' /\ (Reopening <=> Reopening')
  BY DEF FeedShape, Connected, Reopening
<1>3. ServerTyped'
  BY <1>1 DEF ServerTyped
<1>4. RunsInOrder'
  BY DEF RunsInOrder, RunOf
<1> QED
  BY <1>1, <1>2, <1>3, <1>4

\* The connection moves events on, and the screen does not change.
LEMMA OrderOnTheWire ==
  ASSUME FeedAssumption, FeedShape, RunsInOrder, FeedStep, UNCHANGED <<store, due>>
  PROVE  RunsInOrder'
<1> DEFINE Ordered(d) ==
      sub = "on" /\ (\A e \in due : ~RunOf(e, d)) =>
        /\ \A i \in 1 .. Len(queue) :
             RunOf(queue[i], d) /\ queue[i].v # store[d].run => \E j \in i + 1 .. Len(queue) : RunOf(queue[j], d)
        /\ \A i \in 1 .. Len(wire) :
             RunOf(wire[i], d) /\ wire[i].v # store[d].run =>
               \/ \E j \in i + 1 .. Len(wire) : RunOf(wire[j], d)
               \/ \E j \in 1 .. Len(queue) : RunOf(queue[j], d)
<1>1. SUFFICES ASSUME NEW d \in Datasets, sub' = "on", \A e \in due : ~RunOf(e, d)
               PROVE  Ordered(d)'
  BY DEF RunsInOrder, RunOf
<1>2. CASE Accept
  <2>1. queue' = <<>> /\ wire' = <<Opened>>
    BY <1>2 DEF Accept, FeedShape
  <2>2. Len(queue') = 0 /\ Len(wire') = 1 /\ wire'[1] = Opened
    BY <2>1
  <2>3. ~RunOf(Opened, d)
    BY DEF RunOf, Opened
  <2> QED
    BY <2>2, <2>3 DEF RunOf
<1>3. CASE Forward
  <2>1. sub = "on" /\ Head(queue) # Sentinel
    BY <1>1, <1>3 DEF Forward, FeedShape
  <2>2. queue # <<>> /\ queue' = Tail(queue) /\ wire' = Append(wire, Head(queue)) /\ sub' = "on"
    BY <1>1, <1>3, <2>1 DEF Forward
  <2>3. /\ Len(queue) \in Nat \ {0} /\ Len(queue') = Len(queue) - 1
        /\ \A i \in 1 .. Len(queue) - 1 : queue'[i] = queue[i + 1]
        /\ Head(queue) = queue[1] /\ Head(queue) \in Messages
    BY <2>2, TailItems DEF FeedShape
  <2>4. /\ Len(wire) \in Nat /\ Len(wire') = Len(wire) + 1
        /\ \A i \in 1 .. Len(wire) : wire'[i] = wire[i]
        /\ wire'[Len(wire) + 1] = queue[1]
    BY <2>2, <2>3, AppendItems DEF FeedShape
  <2>5. Ordered(d)
    BY DEF RunsInOrder
  <2> HIDE DEF Ordered
  <2>6. ASSUME NEW i \in 1 .. Len(queue'), RunOf(queue'[i], d), queue'[i].v # store[d].run
        PROVE  \E j \in i + 1 .. Len(queue') : RunOf(queue'[j], d)
    <3>1. i + 1 \in 1 .. Len(queue) /\ queue'[i] = queue[i + 1]
      BY <2>3
    <3>2. PICK j \in i + 2 .. Len(queue) : RunOf(queue[j], d)
      BY <1>1, <2>1, <2>3, <2>5, <2>6, <3>1 DEF Ordered
    <3>3. j - 1 \in i + 1 .. Len(queue') /\ queue'[j - 1] = queue[j]
      BY <2>3
    <3> QED
      BY <3>2, <3>3
  <2>7. ASSUME NEW i \in 1 .. Len(wire'), RunOf(wire'[i], d), wire'[i].v # store[d].run
        PROVE  \/ \E j \in i + 1 .. Len(wire') : RunOf(wire'[j], d)
               \/ \E j \in 1 .. Len(queue') : RunOf(queue'[j], d)
    <3>0. ASSUME NEW j \in 1 .. Len(queue), j # 1, RunOf(queue[j], d)
          PROVE  \E k \in 1 .. Len(queue') : RunOf(queue'[k], d)
      <4>1. j - 1 \in 1 .. Len(queue') /\ queue'[j - 1] = queue[j]
        BY <2>3, <3>0
      <4> QED
        BY <3>0, <4>1
    <3>1. CASE i = Len(wire) + 1
      <4>1. RunOf(queue[1], d) /\ queue[1].v # store[d].run /\ 1 \in 1 .. Len(queue)
        BY <2>3, <2>4, <2>7, <3>1
      <4>2. PICK j \in 2 .. Len(queue) : RunOf(queue[j], d)
        BY <1>1, <2>1, <2>5, <4>1 DEF Ordered
      <4> QED
        BY <2>3, <3>0, <4>2
    <3>2. CASE i \in 1 .. Len(wire)
      <4>1. RunOf(wire[i], d) /\ wire[i].v # store[d].run
        BY <2>4, <2>7, <3>2
      <4>2. CASE \E j \in i + 1 .. Len(wire) : RunOf(wire[j], d)
        <5>1. PICK j \in i + 1 .. Len(wire) : RunOf(wire[j], d)
          BY <4>2
        <5>2. j \in i + 1 .. Len(wire') /\ wire'[j] = wire[j]
          BY <2>4
        <5> QED
          BY <5>1, <5>2
      <4>3. CASE \E j \in 1 .. Len(queue) : RunOf(queue[j], d)
        <5>1. PICK j \in 1 .. Len(queue) : RunOf(queue[j], d)
          BY <4>3
        <5>2. CASE j = 1
          <6>1. Len(wire) + 1 \in i + 1 .. Len(wire') /\ RunOf(wire'[Len(wire) + 1], d)
            BY <2>4, <3>2, <5>1, <5>2
          <6> QED
            BY <6>1
        <5> QED
          BY <3>0, <5>1, <5>2
      <4> QED
        BY <1>1, <2>1, <2>5, <3>2, <4>1, <4>2, <4>3 DEF Ordered
    <3> QED
      BY <2>4, <3>1, <3>2
  <2>8. UNCHANGED store
    OBVIOUS
  <2> QED
    BY <2>6, <2>7, <2>8 DEF Ordered, RunOf
<1>4. CASE ConnectFails
  BY <1>1, <1>4 DEF ConnectFails, RunsInOrder, RunOf
<1>5. CASE Retry
  BY <1>1, <1>5 DEF Retry, RunsInOrder, RunOf
<1>6. CASE HearClose
  <2>1. 1 \in 1 .. Len(wire) /\ wire[1] = Closed /\ UNCHANGED sub
    BY <1>6 DEF HearClose, FeedShape
  <2> QED
    BY <1>1, <2>1 DEF FeedShape
<1> QED
  BY <1>2, <1>3, <1>4, <1>5, <1>6 DEF FeedStep

LEMMA ConnectionScreen ==
  ASSUME FeedAssumption, ScreenInv, Connection
  PROVE  ScreenInv'
<1> USE DEF ScreenInv
<1>1. UNCHANGED <<store, due, at, scr, asks, writes, missed, inputs>> /\ FeedStep
  BY DEF Connection, detailVars
<1>2. /\ FeedShape'
      /\ (Items(queue') \cup Items(wire')) \ Signals = (Items(queue) \cup Items(wire)) \ Signals
      /\ Reopening => Reopening'
  BY <1>1, ConnectionKeeps
<1>3. Coming' \ Signals = Coming \ Signals
  BY <1>1, <1>2 DEF Coming
<1>4. \A e \in Signals : e.t \notin {"run", "deleted"}
  BY DEF Signals, Sentinel, Opened, Closed
<1>5. ServerTyped'
  <2>1. \A e \in Coming' : e.t = "deleted" => store[e.id].gone
    BY <1>3, <1>4 DEF ServerTyped
  <2> QED
    BY <1>1, <2>1 DEF ServerTyped
<1>6. RunsInOrder'
  BY <1>1, OrderOnTheWire
<1>7. ScreenTyped' /\ AsksTyped' /\ WritesTyped' /\ ShowsItsOwn'
  BY <1>1 DEF ScreenTyped, ScreenRecords, AsksTyped, WritesTyped, ShowsItsOwn
<1>8. OverviewCatchesUp'
  <2>1. (\E e \in Coming : About(e, at)) => (\E e \in Coming' : About(e, at'))
    BY <1>1, <1>3 DEF About
  <2> QED
    BY <1>1, <1>2, <2>1 DEF OverviewCatchesUp, NewestFacts
<1>9. RowCatchesUp'
  <2>1. (\E e \in Coming : RunOf(e, at)) => (\E e \in Coming' : RunOf(e, at'))
    BY <1>1, <1>3, <1>4 DEF RunOf
  <2> QED
    BY <1>1, <1>2, <2>1 DEF RowCatchesUp, NewestRun
<1> QED
  BY <1>2, <1>5, <1>6, <1>7, <1>8, <1>9

---------------------------------------------------------------------------
(* The server. *)

\* A commit that moves a dataset on and owes an event about it.
LEMMA StoreMoves ==
  ASSUME ScreenInv, NEW d \in Datasets, NEW e \in Messages \ Signals, e.id = d, due' = due \cup {e},
         store' \in [Datasets -> [ver : Nat, run : Nat, gone : BOOLEAN]],
         \A x \in Datasets : x # d => store'[x] = store[x],
         store'[d].ver >= store[d].ver, store'[d].run >= store[d].run, store[d].gone => store'[d].gone,
         e.t = "deleted" => store'[d].gone,
         e.t = "run" => e.v = store'[d].run,
         store'[d].run # store[d].run => e.t = "run" /\ \A x \in due : ~RunOf(x, d),
         UNCHANGED <<feedVars, at, scr, asks, missed>>
  PROVE  /\ FeedShape' /\ ServerTyped' /\ RunsInOrder' /\ ScreenTyped' /\ AsksTyped' /\ ShowsItsOwn'
         /\ OverviewCatchesUp' /\ RowCatchesUp'
<1> USE DEF ScreenInv, feedVars
<1>1. FeedShape' /\ (Reopening => Reopening')
  BY DEF FeedShape, Connected, Reopening
<1>2. Coming' = Coming \cup {e}
  BY DEF Coming, Items
<1>3. \A x \in Datasets : /\ store[x].gone => store'[x].gone
                          /\ store[x].ver <= store'[x].ver
                          /\ store[x].run <= store'[x].run
  BY DEF ServerTyped
<1>4. Items(queue) \subseteq Messages /\ Items(wire) \subseteq Messages
  BY DEF FeedShape, Items
<1>5. ServerTyped'
  <2>1. \A x \in Coming' : x.t = "deleted" => store'[x.id].gone
    <3>1. \A x \in Coming : x.t = "deleted" => x.id \in Datasets
      BY <1>4, SignalKinds DEF Coming, ServerTyped
    <3> QED
      BY <1>2, <1>3, <3>1 DEF ServerTyped
  <2>2. \A x \in due' : x.t = "run" => x.v = store'[x.id].run
    <3>1. SUFFICES ASSUME NEW x \in due, x.t = "run" PROVE x.v = store'[x.id].run
      OBVIOUS
    <3>2. x.id \in Datasets /\ x.v = store[x.id].run
      BY <3>1, SignalKinds DEF ServerTyped
    <3> QED
      BY <3>1, <3>2 DEF RunOf
  <2> QED
    BY <2>1, <2>2 DEF ServerTyped
<1>6. RunsInOrder'
  <2>1. SUFFICES ASSUME NEW x \in Datasets, sub = "on", \A y \in due' : ~RunOf(y, x)
                 PROVE  /\ \A i \in 1 .. Len(queue) :
                             RunOf(queue[i], x) /\ queue[i].v # store'[x].run =>
                               \E j \in i + 1 .. Len(queue) : RunOf(queue[j], x)
                        /\ \A i \in 1 .. Len(wire) :
                             RunOf(wire[i], x) /\ wire[i].v # store'[x].run =>
                               \/ \E j \in i + 1 .. Len(wire) : RunOf(wire[j], x)
                               \/ \E j \in 1 .. Len(queue) : RunOf(queue[j], x)
    BY DEF RunsInOrder, RunOf
  <2>2. store'[x].run = store[x].run
    BY <2>1 DEF RunOf
  <2>3. \A y \in due : ~RunOf(y, x)
    BY <2>1
  <2> QED
    BY <2>1, <2>2, <2>3 DEF RunsInOrder
<1>7. ScreenTyped' /\ ShowsItsOwn'
  <2>1. scr.deleted => at \in Datasets
    BY DEF ScreenTyped, ScreenRecords
  <2> QED
    BY <1>3, <2>1 DEF ScreenTyped, ScreenRecords, ShowsItsOwn
<1>8. AsksTyped'
  <2>1. ASSUME NEW a \in asks, a.got # None
        PROVE  /\ a.got.kind = "missing" => store'[at].gone
               /\ a.got.kind = "ok" => a.got.v <= IF a.what = "runs" THEN store'[at].run ELSE store'[at].ver
    <3>1. at \in Datasets /\ a.got \in Replied
      BY <2>1 DEF AsksTyped
    <3>2. a.got.v \in Nat /\ {store[at].run, store[at].ver, store'[at].run, store'[at].ver} \subseteq Nat
      BY <3>1 DEF Replied, ServerTyped
    <3> QED
      BY <1>3, <2>1, <3>1, <3>2 DEF AsksTyped
  <2> QED
    BY <2>1 DEF AsksTyped
<1>9. OverviewCatchesUp'
  <2>1. CASE at = d
    BY <1>2, <2>1 DEF OverviewCatchesUp, About
  <2>2. CASE at # d /\ at \in Datasets
    BY <1>1, <1>2, <2>2 DEF OverviewCatchesUp, NewestFacts
  <2> QED
    BY <2>1, <2>2 DEF OverviewCatchesUp, ScreenTyped, ScreenRecords
<1>10. RowCatchesUp'
  <2>1. CASE at \in Datasets /\ store'[at].run = store[at].run
    BY <1>1, <1>2, <2>1 DEF RowCatchesUp, NewestRun
  <2>2. CASE at = d /\ e.t = "run"
    BY <1>2, <2>2 DEF RowCatchesUp, RunOf
  <2> QED
    BY <2>1, <2>2 DEF RowCatchesUp, ScreenTyped, ScreenRecords
<1> QED
  BY <1>1, <1>5, <1>6, <1>7, <1>8, <1>9, <1>10

LEMMA CommitScreen ==
  ASSUME ScreenInv, NEW d \in Datasets, Commit(d)
  PROVE  ScreenInv'
<1> USE DEF ScreenInv
<1>1. /\ ~store[d].gone /\ store \in [Datasets -> [ver : Nat, run : Nat, gone : BOOLEAN]]
      /\ UNCHANGED <<feedVars, at, scr, asks, missed, writes, inputs>>
  BY DEF Commit, ServerTyped, screenVars
<1>2. WritesTyped' /\ FeedShape' /\ ServerTyped' /\ RunsInOrder' /\ ScreenTyped' /\ AsksTyped' /\ ShowsItsOwn'
      /\ OverviewCatchesUp' /\ RowCatchesUp'
  <2>1. CASE store' = [store EXCEPT ![d].ver = @ + 1] /\ due' = due \cup {Changed(d)}
    <3>1. Changed(d) \in Messages \ Signals
      BY DEF Changed, Messages, Signals, Sentinel, Opened, Closed
    <3>2. /\ store' \in [Datasets -> [ver : Nat, run : Nat, gone : BOOLEAN]]
          /\ \A x \in Datasets : x # d => store'[x] = store[x]
          /\ store'[d].ver = store[d].ver + 1 /\ store'[d].run = store[d].run /\ store'[d].gone = store[d].gone
          /\ store[d].ver \in Nat /\ store[d].run \in Nat
      BY <1>1, <2>1
    <3>3. Changed(d).id = d /\ Changed(d).t = "changed"
      BY DEF Changed
    <3>4. WritesTyped'
      <4>1. \A x \in Datasets : store[x].ver \in Nat /\ store'[x].ver \in Nat /\ store[x].ver <= store'[x].ver
        BY <1>1, <3>2
      <4>2. \A w \in writes : w.got # None => w.got.v \in Nat /\ w.id \in Datasets
        BY DEF WritesTyped, Replied
      <4> QED
        BY <1>1, <4>1, <4>2 DEF WritesTyped
    <3> HIDE DEF ScreenInv
    <3>5. store'[d].ver >= store[d].ver /\ store'[d].run >= store[d].run
      BY <3>2
    <3> QED
      BY <1>1, <2>1, <3>1, <3>2, <3>3, <3>4, <3>5, StoreMoves
  <2>2. CASE /\ \A e \in due : e.t = "run" => e.id # d
             /\ store' = [store EXCEPT ![d].run = @ + 1]
             /\ due' = due \cup {RunMoved(d, store[d].run + 1)}
    <3> DEFINE e == RunMoved(d, store[d].run + 1)
    <3>1. e \in Messages \ Signals
      BY <1>1 DEF RunMoved, Messages, Signals, Sentinel, Opened, Closed
    <3>2. /\ store' \in [Datasets -> [ver : Nat, run : Nat, gone : BOOLEAN]]
          /\ \A x \in Datasets : x # d => store'[x] = store[x]
          /\ store'[d].ver = store[d].ver /\ store'[d].run = store[d].run + 1 /\ store'[d].gone = store[d].gone
          /\ store[d].ver \in Nat /\ store[d].run \in Nat
      BY <1>1, <2>2
    <3>3. e.id = d /\ e.t = "run" /\ e.v = store'[d].run
      BY <3>2 DEF RunMoved
    <3>4. WritesTyped'
      BY <1>1, <3>2 DEF WritesTyped
    <3>5. \A x \in due : ~RunOf(x, d)
      BY <2>2 DEF RunOf
    <3>6. store'[d].ver >= store[d].ver /\ store'[d].run >= store[d].run
      BY <3>2
    <3>7. due' = due \cup {e}
      BY <2>2
    <3> HIDE DEF ScreenInv, e
    <3> QED
      BY <1>1, <3>1, <3>2, <3>3, <3>4, <3>5, <3>6, <3>7, StoreMoves
  <2>3. CASE store' = [store EXCEPT ![d].gone = TRUE] /\ due' = due \cup {Deleted(d)}
    <3>1. Deleted(d) \in Messages \ Signals
      BY DEF Deleted, Messages, Signals, Sentinel, Opened, Closed
    <3>2. /\ store' \in [Datasets -> [ver : Nat, run : Nat, gone : BOOLEAN]]
          /\ \A x \in Datasets : x # d => store'[x] = store[x]
          /\ store'[d].ver = store[d].ver /\ store'[d].run = store[d].run /\ store'[d].gone
          /\ store[d].ver \in Nat /\ store[d].run \in Nat
      BY <1>1, <2>3
    <3>3. Deleted(d).id = d /\ Deleted(d).t = "deleted"
      BY DEF Deleted
    <3>4. WritesTyped'
      BY <1>1, <3>2 DEF WritesTyped
    <3> HIDE DEF ScreenInv
    <3>5. store'[d].ver >= store[d].ver /\ store'[d].run >= store[d].run
      BY <3>2
    <3> QED
      BY <1>1, <2>3, <3>1, <3>2, <3>3, <3>4, <3>5, StoreMoves
  <2> QED
    BY <2>1, <2>2, <2>3 DEF Commit
<1> QED
  BY <1>2

\* A loss is either one that a reload makes up for, or of nothing about the dataset, or it is noted.
LEMMA LossIsNoted ==
  ASSUME NEW lost, missed' = missed \cup Unheard(lost), missed' = {}
  PROVE  missed = {} /\ (opened \/ \A e \in lost : ~About(e, at))
BY DEF Unheard, About

LEMMA PublishScreen ==
  ASSUME FeedAssumption, ScreenInv, NEW e \in due, Publish(e)
  PROVE  ScreenInv'
<1> USE DEF ScreenInv
<1>1. /\ due' = due \ {e} /\ Offer(e) /\ UNCHANGED <<store, at, scr, asks, writes, inputs>>
      /\ e \in Messages \ Signals
  BY DEF Publish, ServerTyped
<1>2. /\ FeedShape'
      /\ UNCHANGED <<wire, sock, opened>>
      /\ \/ sub # "on" /\ UNCHANGED <<sub, queue>>
         \/ sub = "on" /\ sub' = "on" /\ queue' = Append(queue, e)
         \/ sub = "on" /\ sub' = "dropped" /\ queue' = <<Sentinel>>
  BY <1>1, OfferKeeps
<1> DEFINE lost == CASE sub # "on" -> {e} [] sub = "on" /\ sub' = "dropped" -> Queued \cup {e} [] OTHER -> {}
<1>3. missed' = missed \cup Unheard(lost)
  BY DEF Publish
<1>4. /\ sub = "on" /\ sub' = "on" => Items(queue') = Items(queue) \cup {e}
      /\ sub' = "dropped" => Items(queue') = {Sentinel}
      /\ sub = "dropped" => Items(queue) = {Sentinel}
  <2>1. sub = "on" /\ sub' = "on" => Items(queue') = Items(queue) \cup {e}
    <3>1. Items(Append(queue, e)) = Items(queue) \cup {e}
      BY <1>1, AppendItems DEF FeedShape
    <3>2. sub = "on" /\ sub' = "on" => queue' = Append(queue, e)
      BY <1>2
    <3> QED
      BY <3>1, <3>2
  <2>2. Items(<<Sentinel>>) = {Sentinel}
    BY OneItem
  <2>3. /\ sub = "dropped" => queue = <<Sentinel>>
        /\ sub' = "dropped" => queue' = <<Sentinel>>
    BY <1>2 DEF FeedShape
  <2> QED
    BY <2>1, <2>2, <2>3
<1>5. \A x \in Coming : x \in Coming' \/ (x \in lost /\ sub' # "on")
  <2>1. CASE sub # "on"
    BY <1>1, <1>2, <2>1 DEF Coming
  <2>2. CASE sub = "on" /\ sub' = "on"
    BY <1>1, <1>2, <1>4, <2>2 DEF Coming
  <2>3. CASE sub = "on" /\ sub' = "dropped"
    <3>1. lost = Items(queue) \cup {e}
      BY <2>3 DEF Queued, Items
    <3> QED
      BY <1>1, <1>2, <2>3, <3>1 DEF Coming
  <2> QED
    BY <1>2, <2>1, <2>2, <2>3
<1>6. Reopening => Reopening'
  BY <1>2 DEF Reopening
<1>7. ServerTyped'
  <2>1. \A x \in Coming' : x \in Coming \/ x = Sentinel
    BY <1>1, <1>2, <1>4 DEF Coming
  <2>2. Sentinel.t # "deleted"
    BY DEF Sentinel
  <2> QED
    BY <1>1, <2>1, <2>2 DEF ServerTyped
<1>8. RunsInOrder'
  <2>1. SUFFICES ASSUME NEW d \in Datasets, sub' = "on", \A x \in due' : ~RunOf(x, d)
                 PROVE  /\ \A i \in 1 .. Len(queue') :
                             RunOf(queue'[i], d) /\ queue'[i].v # store[d].run =>
                               \E j \in i + 1 .. Len(queue') : RunOf(queue'[j], d)
                        /\ \A i \in 1 .. Len(wire) :
                             RunOf(wire[i], d) /\ wire[i].v # store[d].run =>
                               \/ \E j \in i + 1 .. Len(wire) : RunOf(wire[j], d)
                               \/ \E j \in 1 .. Len(queue') : RunOf(queue'[j], d)
    BY <1>1, <1>2 DEF RunsInOrder, RunOf
  <2>2. sub = "on" /\ queue' = Append(queue, e)
    BY <1>2, <2>1
  <2>3. /\ Len(queue) \in Nat /\ Len(queue') = Len(queue) + 1
        /\ \A i \in 1 .. Len(queue) : queue'[i] = queue[i]
        /\ queue'[Len(queue) + 1] = e
    BY <1>1, <2>2, AppendItems DEF FeedShape
  <2>4. CASE RunOf(e, d)
    <3>1. e.v = store[d].run
      BY <2>4 DEF RunOf, ServerTyped
    <3>2. ASSUME NEW i \in 1 .. Len(queue'), queue'[i].v # store[d].run
          PROVE  Len(queue) + 1 \in i + 1 .. Len(queue')
      <4>1. i # Len(queue) + 1
        BY <2>3, <3>1, <3>2
      <4> QED
        BY <2>3, <4>1
    <3>3. Len(queue) + 1 \in 1 .. Len(queue') /\ RunOf(queue'[Len(queue) + 1], d)
      BY <2>3, <2>4
    <3> QED
      BY <3>2, <3>3
  <2>5. CASE ~RunOf(e, d)
    <3>1. \A x \in due : ~RunOf(x, d)
      BY <1>1, <2>1, <2>5
    <3>2. ASSUME NEW i \in 1 .. Len(queue'), RunOf(queue'[i], d), queue'[i].v # store[d].run
          PROVE  \E j \in i + 1 .. Len(queue') : RunOf(queue'[j], d)
      <4>1. i \in 1 .. Len(queue) /\ queue'[i] = queue[i]
        <5>1. i # Len(queue) + 1
          BY <2>3, <2>5, <3>2
        <5> QED
          BY <2>3, <5>1
      <4>2. PICK j \in i + 1 .. Len(queue) : RunOf(queue[j], d)
        BY <2>2, <3>1, <3>2, <4>1 DEF RunsInOrder
      <4>3. j \in i + 1 .. Len(queue') /\ queue'[j] = queue[j]
        BY <2>3
      <4> QED
        BY <4>2, <4>3
    <3>3. ASSUME NEW i \in 1 .. Len(wire), RunOf(wire[i], d), wire[i].v # store[d].run
          PROVE  \/ \E j \in i + 1 .. Len(wire) : RunOf(wire[j], d)
                 \/ \E j \in 1 .. Len(queue') : RunOf(queue'[j], d)
      <4>1. CASE \E j \in 1 .. Len(queue) : RunOf(queue[j], d)
        <5>1. PICK j \in 1 .. Len(queue) : RunOf(queue[j], d)
          BY <4>1
        <5>2. j \in 1 .. Len(queue') /\ queue'[j] = queue[j]
          BY <2>3
        <5> QED
          BY <5>1, <5>2
      <4> QED
        BY <2>2, <3>1, <3>3, <4>1 DEF RunsInOrder
    <3> QED
      BY <3>2, <3>3
  <2> QED
    BY <2>4, <2>5
<1>9. ScreenTyped' /\ AsksTyped' /\ WritesTyped' /\ ShowsItsOwn'
  BY <1>1 DEF ScreenTyped, ScreenRecords, AsksTyped, WritesTyped, ShowsItsOwn
<1>10. missed' = {} => missed = {} /\ (opened \/ \A x \in lost : ~About(x, at))
  BY <1>3, LossIsNoted
<1> HIDE DEF lost
<1>11. OverviewCatchesUp'
  <2>1. SUFFICES ASSUME at # None, missed' = {}, ~Reopening'
                 PROVE  OverviewCatchesUp'
    BY <1>1 DEF OverviewCatchesUp
  <2>2. (\E x \in Coming : About(x, at)) => (\E x \in Coming' : About(x, at))
    BY <1>2, <1>5, <1>10, <2>1 DEF Reopening
  <2> QED
    BY <1>1, <1>6, <1>10, <2>1, <2>2 DEF OverviewCatchesUp, NewestFacts
<1>12. RowCatchesUp'
  <2>1. SUFFICES ASSUME at # None, missed' = {}, ~Reopening'
                 PROVE  RowCatchesUp'
    BY <1>1 DEF RowCatchesUp
  <2>2. \A x : RunOf(x, at) => About(x, at)
    BY DEF RunOf, About, Signals, Sentinel, Opened, Closed
  <2>3. (\E x \in Coming : RunOf(x, at)) => (\E x \in Coming' : RunOf(x, at))
    BY <1>2, <1>5, <1>10, <2>1, <2>2 DEF Reopening
  <2> QED
    BY <1>1, <1>6, <1>10, <2>1, <2>3 DEF RowCatchesUp, NewestRun
<1> QED
  BY <1>2, <1>7, <1>8, <1>9, <1>11, <1>12

LEMMA DropScreen ==
  ASSUME ScreenInv, Drop
  PROVE  ScreenInv'
<1> USE DEF ScreenInv
<1>1. /\ FeedShape' /\ queue' = <<>> /\ wire' = <<>> /\ sock' = "retrying" /\ sub' = "none" /\ UNCHANGED opened
      /\ UNCHANGED <<store, due, at, scr, asks, writes, inputs>>
      /\ missed' = missed \cup Unheard(InFlight)
  BY BreakKeeps DEF Drop, serverVars
<1>2. Items(queue') = {} /\ Items(wire') = {}
  BY <1>1, OneItem
<1>3. InFlight = (Items(queue) \cup Items(wire)) \ Signals
  BY DEF InFlight, Items
<1>4. \A x \in Coming : x \in Coming' \/ x \in InFlight \/ x \in Signals
  BY <1>1, <1>3 DEF Coming
<1>5. ServerTyped' /\ RunsInOrder'
  BY <1>1, <1>2 DEF ServerTyped, RunsInOrder, Coming
<1>6. ScreenTyped' /\ AsksTyped' /\ WritesTyped' /\ ShowsItsOwn'
  BY <1>1 DEF ScreenTyped, ScreenRecords, AsksTyped, WritesTyped, ShowsItsOwn
<1>7. missed' = {} => missed = {} /\ (opened \/ \A x \in InFlight : ~About(x, at))
  BY <1>1, LossIsNoted
<1>8. opened => Reopening'
  BY <1>1 DEF Reopening
<1>9. Reopening => opened
  BY DEF Reopening
<1>10. OverviewCatchesUp'
  <2>1. ~opened /\ missed' = {} /\ (\E x \in Coming : About(x, at)) => (\E x \in Coming' : About(x, at))
    BY <1>4, <1>7 DEF About
  <2> QED
    BY <1>1, <1>7, <1>8, <1>9, <2>1 DEF OverviewCatchesUp, NewestFacts
<1>11. RowCatchesUp'
  <2>1. \A x : RunOf(x, at) => About(x, at)
    BY DEF RunOf, About, Signals, Sentinel, Opened, Closed
  <2>2. ~opened /\ missed' = {} /\ (\E x \in Coming : RunOf(x, at)) => (\E x \in Coming' : RunOf(x, at))
    BY <1>4, <1>7, <2>1 DEF About
  <2> QED
    BY <1>1, <1>7, <1>8, <1>9, <2>2 DEF RowCatchesUp, NewestRun
<1> QED
  BY <1>1, <1>5, <1>6, <1>10, <1>11

\* A fetch is answered: by what is committed now, or by a failure.
LEMMA AnswerComes ==
  ASSUME ScreenInv, NEW a \in asks, a.got = None, NEW answer0 \in Replied,
         answer0.kind = "missing" => store[at].gone,
         answer0.kind = "ok" => ~store[at].gone /\ answer0.v = IF a.what = "runs" THEN store[at].run ELSE store[at].ver,
         asks' = (asks \ {a}) \cup {[a EXCEPT !.got = answer0]},
         UNCHANGED <<serverVars, sub, queue, wire, sock, opened, at, scr, writes, missed, inputs>>
  PROVE  ScreenInv'
<1> USE DEF ScreenInv, serverVars
<1> DEFINE b == [a EXCEPT !.got = answer0]
<1>1. a \in [what : {"overview", "runs"}, id : Datasets, soft : BOOLEAN, got : {None} \cup Replied]
  BY DEF AsksTyped
<1>2. /\ b \in [what : {"overview", "runs"}, id : Datasets, soft : BOOLEAN, got : {None} \cup Replied]
      /\ b.what = a.what /\ b.id = a.id /\ b.soft = a.soft /\ b.got = answer0
  BY <1>1
<1>3. asks' = (asks \ {a}) \cup {b} /\ at \in Datasets /\ a.id = at
  BY <1>1 DEF AsksTyped
<1> HIDE DEF b
<1>4. Coming' = Coming /\ (Reopening' <=> Reopening)
  BY DEF Coming, Items, Reopening
<1>5. FeedShape' /\ ServerTyped' /\ RunsInOrder'
  <2>1. FeedShape'
    BY DEF FeedShape, Connected
  <2>2. ServerTyped'
    BY <1>4 DEF ServerTyped
  <2>3. RunsInOrder'
    BY DEF RunsInOrder, RunOf
  <2> QED
    BY <2>1, <2>2, <2>3
<1>6. ScreenTyped'
  <2>1. (\E x \in asks : x.what = "overview" /\ ~x.soft) => \E x \in asks' : x.what = "overview" /\ ~x.soft
    BY <1>2, <1>3
  <2>2. (\E x \in asks : x.what = "runs") => \E x \in asks' : x.what = "runs"
    BY <1>2, <1>3
  <2> QED
    BY <2>1, <2>2 DEF ScreenTyped, ScreenRecords
<1>7. AsksTyped'
  <2>1. store[at].run \in Nat /\ store[at].ver \in Nat
    BY <1>3 DEF ServerTyped
  <2>2. \A x \in asks' : x \in asks \/ x = b
    BY <1>3
  <2>3. \A x, y \in asks' : x.what = y.what => x = y
    BY <1>2, <1>3 DEF AsksTyped
  <2>4. \A x \in asks' : x.id = at
    BY <1>2, <1>3 DEF AsksTyped
  <2>5. \A x \in asks' : x.got # None =>
          /\ x.got.kind = "missing" => store[at].gone
          /\ x.got.kind = "ok" => x.got.v <= IF x.what = "runs" THEN store[at].run ELSE store[at].ver
    BY <1>2, <2>1, <2>2 DEF AsksTyped
  <2> QED
    BY <1>2, <1>3, <2>3, <2>4, <2>5 DEF AsksTyped
<1>8. WritesTyped' /\ ShowsItsOwn'
  BY DEF WritesTyped, ShowsItsOwn
<1>9. OverviewCatchesUp'
  <2>1. (\E x \in asks : x.what = "overview" /\ NewestFacts(x)) => \E x \in asks' : x.what = "overview" /\ NewestFacts(x)
    BY <1>2, <1>3 DEF NewestFacts
  <2>2. (\A x \in asks : x.what # "overview") => \A x \in asks' : x.what # "overview"
    BY <1>2, <1>3
  <2> QED
    BY <1>4, <2>1, <2>2 DEF OverviewCatchesUp, NewestFacts
<1>10. RowCatchesUp'
  <2>1. (\E x \in asks : x.what = "runs" /\ NewestRun(x)) => \E x \in asks' : x.what = "runs" /\ NewestRun(x)
    BY <1>2, <1>3 DEF NewestRun
  <2>2. (\A x \in asks : x.what # "runs") => \A x \in asks' : x.what # "runs"
    BY <1>2, <1>3
  <2> QED
    BY <1>4, <2>1, <2>2 DEF RowCatchesUp, NewestRun
<1> QED
  BY <1>5, <1>6, <1>7, <1>8, <1>9, <1>10

LEMMA ServeFetchScreen ==
  ASSUME ScreenInv, NEW a \in asks, ServeFetch(a) \/ FetchFails(a)
  PROVE  ScreenInv'
<1>1. a.id = at /\ at \in Datasets /\ store \in [Datasets -> [ver : Nat, run : Nat, gone : BOOLEAN]]
  BY DEF ScreenInv, AsksTyped, ServerTyped
<1>2. CASE ServeFetch(a)
  <2> DEFINE found == IF store[a.id].gone THEN Answer("missing", 0)
                      ELSE Answer("ok", IF a.what = "runs" THEN store[a.id].run ELSE store[a.id].ver)
  <2>1. a.got = None /\ asks' = (asks \ {a}) \cup {[a EXCEPT !.got = found]}
    BY <1>2 DEF ServeFetch
  <2>2. /\ found \in Replied
        /\ found.kind = "missing" => store[at].gone
        /\ found.kind = "ok" => ~store[at].gone /\ found.v = IF a.what = "runs" THEN store[at].run ELSE store[at].ver
    BY <1>1 DEF Answer, Replied
  <2>3. UNCHANGED <<serverVars, sub, queue, wire, sock, opened, at, scr, writes, missed, inputs>>
    BY <1>2 DEF ServeFetch, feedVars
  <2> HIDE DEF found
  <2> QED
    BY <2>1, <2>2, <2>3, AnswerComes
<1>3. CASE FetchFails(a)
  <2>1. a.got = None /\ asks' = (asks \ {a}) \cup {[a EXCEPT !.got = Answer("failed", 0)]}
    BY <1>3 DEF FetchFails
  <2>2. /\ Answer("failed", 0) \in Replied
        /\ Answer("failed", 0).kind = "failed"
    BY DEF Answer, Replied
  <2>3. UNCHANGED <<serverVars, sub, queue, wire, sock, opened, at, scr, writes, missed, inputs>>
    BY <1>3 DEF FetchFails
  <2> QED
    BY <2>1, <2>2, <2>3, AnswerComes
<1> QED
  BY <1>2, <1>3

LEMMA ServeWriteScreen ==
  ASSUME ScreenInv, NEW w \in writes, ServeWrite(w)
  PROVE  ScreenInv'
<1> DEFINE Write == [n : Nat, own : BOOLEAN, id : Datasets, kind : {"patch", "delete"}, got : {None} \cup Replied]
<1>1. w \in Write /\ w.id \in Datasets /\ store \in [Datasets -> [ver : Nat, run : Nat, gone : BOOLEAN]]
  BY DEF ScreenInv, WritesTyped, ServerTyped
<1>2. UNCHANGED <<at, scr, asks, missed, inputs, feedVars>>
  BY DEF ServeWrite
<1>3. ASSUME NEW r \in Replied, writes' = (writes \ {w}) \cup {[w EXCEPT !.got = r]},
             r.kind = "ok" => r.v <= store'[w.id].ver,
             \A x \in Datasets : store[x].ver <= store'[x].ver /\ store'[x].ver \in Nat
      PROVE  WritesTyped'
  <2> DEFINE u == [w EXCEPT !.got = r]
  <2>1. u \in Write /\ u.own = w.own /\ u.id = w.id /\ u.got = r
    BY <1>1, <1>3
  <2>2. writes' = (writes \ {w}) \cup {u}
    BY <1>3
  <2> HIDE DEF u
  <2>3. ASSUME NEW x \in writes, x.got # None, x.got.kind = "ok" PROVE x.got.v <= store'[x.id].ver
    <3>1. x.got.v \in Nat /\ x.id \in Datasets /\ x.got.v <= store[x.id].ver
      BY <2>3 DEF ScreenInv, WritesTyped, Replied
    <3> QED
      BY <1>1, <1>3, <3>1
  <2> QED
    BY <1>2, <1>3, <2>1, <2>2, <2>3 DEF ScreenInv, WritesTyped
<1>4. CASE store[w.id].gone
  <2>1. writes' = (writes \ {w}) \cup {[w EXCEPT !.got = Answer("missing", 0)]} /\ UNCHANGED serverVars
    BY <1>4 DEF ServeWrite
  <2>2. Answer("missing", 0) \in Replied /\ Answer("missing", 0).kind # "ok"
    BY DEF Answer, Replied
  <2>3. WritesTyped'
    BY <1>1, <1>3, <2>1, <2>2 DEF serverVars
  <2>4. FeedShape' /\ ServerTyped' /\ RunsInOrder' /\ Coming' = Coming /\ (Reopening <=> Reopening')
    BY <1>2, <2>1, ServerUntouched DEF ScreenInv
  <2>5. ScreenTyped' /\ AsksTyped' /\ ShowsItsOwn' /\ OverviewCatchesUp' /\ RowCatchesUp'
    BY <1>2, <2>1, <2>4 DEF ScreenInv, serverVars, ScreenTyped, ScreenRecords, AsksTyped, ShowsItsOwn, OverviewCatchesUp, RowCatchesUp,
                            NewestFacts, NewestRun
  <2> QED
    BY <2>3, <2>4, <2>5 DEF ScreenInv
<1>5. CASE ~store[w.id].gone
  <2> DEFINE d == w.id
             e == IF w.kind = "patch" THEN Changed(d) ELSE Deleted(d)
  <2>1. /\ store' = IF w.kind = "patch" THEN [store EXCEPT ![d].ver = @ + 1] ELSE [store EXCEPT ![d].gone = TRUE]
        /\ due' = due \cup {e}
        /\ writes' = (writes \ {w}) \cup {[w EXCEPT !.got = Answer("ok", store'[d].ver)]}
    BY <1>5 DEF ServeWrite
  <2>2. /\ e \in Messages \ Signals /\ e.id = d /\ e.t # "run" /\ (e.t = "deleted" => w.kind # "patch")
    BY <1>1 DEF Changed, Deleted, Messages, Signals, Sentinel, Opened, Closed
  <2>3. /\ store' \in [Datasets -> [ver : Nat, run : Nat, gone : BOOLEAN]]
        /\ \A x \in Datasets : x # d => store'[x] = store[x]
        /\ store'[d].ver \in {store[d].ver, store[d].ver + 1} /\ store'[d].run = store[d].run
        /\ store[d].ver \in Nat /\ store[d].run \in Nat
        /\ w.kind # "patch" => store'[d].gone
    <3>1. CASE w.kind = "patch"
      BY <1>1, <2>1, <3>1
    <3>2. CASE w.kind # "patch"
      BY <1>1, <2>1, <3>2
    <3> QED
      BY <3>1, <3>2
  <2>4. store'[d].ver >= store[d].ver /\ store'[d].run >= store[d].run /\ store'[d].ver \in Nat
    BY <2>3
  <2>5. WritesTyped'
    <3>1. Answer("ok", store'[d].ver) \in Replied /\ Answer("ok", store'[d].ver).v = store'[d].ver
      BY <2>4 DEF Answer, Replied
    <3>2. \A x \in Datasets : store[x].ver <= store'[x].ver /\ store'[x].ver \in Nat
      BY <1>1, <2>3, <2>4
    <3> QED
      BY <1>3, <2>1, <2>4, <3>1, <3>2
  <2>6. d \in Datasets
    BY <1>1
  <2>7. store[d].gone => store'[d].gone
    BY <1>5
  <2> HIDE DEF d, e
  <2>8. /\ FeedShape' /\ ServerTyped' /\ RunsInOrder' /\ ScreenTyped' /\ AsksTyped' /\ ShowsItsOwn'
        /\ OverviewCatchesUp' /\ RowCatchesUp'
    BY <1>2, <2>1, <2>2, <2>3, <2>4, <2>6, <2>7, StoreMoves
  <2> QED
    BY <2>5, <2>8 DEF ScreenInv
<1> QED
  BY <1>4, <1>5

---------------------------------------------------------------------------
(* The screen. *)

LEMMA FetchIs ==
  ASSUME NEW what \in {"overview", "runs"}, NEW d \in Datasets, NEW soft \in BOOLEAN
  PROVE  /\ Fetch(what, d, soft) \in
              [what : {"overview", "runs"}, id : Datasets, soft : BOOLEAN, got : {None} \cup Replied]
         /\ Fetch(what, d, soft).what = what /\ Fetch(what, d, soft).id = d
         /\ Fetch(what, d, soft).soft = soft /\ Fetch(what, d, soft).got = None
BY DEF Fetch

\* No write counts as the screen's own any more.
LEMMA DisownTyped ==
  ASSUME WritesTyped, NEW some \in SUBSET writes, writes' = {[w EXCEPT !.own = FALSE] : w \in some},
         UNCHANGED store, inputs' \in Nat
  PROVE  WritesTyped'
<1> DEFINE Write == [n : Nat, own : BOOLEAN, id : Datasets, kind : {"patch", "delete"}, got : {None} \cup Replied]
<1>1. ASSUME NEW u \in writes'
      PROVE  u \in Write /\ ~u.own /\ (u.got # None /\ u.got.kind = "ok" => u.got.v <= store[u.id].ver)
  <2>1. PICK w \in some : u = [w EXCEPT !.own = FALSE]
    BY <1>1
  <2>2. w \in Write /\ (w.got # None /\ w.got.kind = "ok" => w.got.v <= store[w.id].ver)
    BY DEF WritesTyped
  <2>3. u \in Write /\ u.own = FALSE /\ u.got = w.got /\ u.id = w.id
    BY <2>1, <2>2
  <2> QED
    BY <2>2, <2>3
<1> QED
  BY <1>1 DEF WritesTyped

LEMMA LoadKeeps ==
  ASSUME DetailAssumption, ScreenInv, NEW d \in Datasets, Load(d), UNCHANGED store, inputs' \in Nat
  PROVE  ScreenTyped' /\ AsksTyped' /\ WritesTyped' /\ ShowsItsOwn' /\ OverviewCatchesUp' /\ RowCatchesUp'
<1> USE DEF ScreenInv
<1>1. at' = d /\ d # None /\ missed' = {} /\ writes' = Disown
  BY DEF Load, DetailAssumption
<1>0. /\ \A what \in {"overview", "runs"} :
           /\ Fetch(what, d, FALSE) \in
                [what : {"overview", "runs"}, id : Datasets, soft : BOOLEAN, got : {None} \cup Replied]
           /\ Fetch(what, d, FALSE).what = what /\ Fetch(what, d, FALSE).id = d
           /\ Fetch(what, d, FALSE).soft = FALSE /\ Fetch(what, d, FALSE).got = None
  BY DEF Fetch
<1>2. /\ Fetch("overview", d, FALSE) \in asks' /\ Fetch("runs", d, FALSE) \in asks'
      /\ \A a \in asks' : a = Fetch("overview", d, FALSE) \/ a = Fetch("runs", d, FALSE)
  <2>1. asks' = Begin(LoadOf(d))
    BY DEF Load
  <2>2. \A a \in asks : ~(\A b \in LoadOf(d) : b.what # a.what)
    <3>1. \A a \in asks : a.what \in {"overview", "runs"}
      BY DEF AsksTyped
    <3> QED
      BY <1>0, <3>1 DEF LoadOf
  <2> QED
    BY <2>1, <2>2 DEF Begin, LoadOf
<1>3. /\ \A a \in asks' : /\ a \in [what : {"overview", "runs"}, id : Datasets, soft : BOOLEAN, got : {None} \cup Replied]
                          /\ a.id = d /\ a.got = None
      /\ \A a, b \in asks' : a.what = b.what => a = b
      /\ \E a \in asks' : a.what = "overview" /\ ~a.soft /\ a.got = None
      /\ \E a \in asks' : a.what = "runs" /\ a.got = None
  BY <1>0, <1>2
<1>4. /\ scr' \in ScreenRecords
      /\ scr'.shown = None /\ scr'.row = None /\ scr'.status = "loading" /\ scr'.rows = "loading" /\ ~scr'.deleted
  BY DEF Load, Loading, Blank, ScreenTyped, ScreenRecords
<1>5. ScreenTyped'
  BY <1>1, <1>3, <1>4 DEF ScreenTyped, ScreenRecords
<1>6. AsksTyped'
  BY <1>1, <1>3 DEF AsksTyped
<1>7. WritesTyped'
  BY <1>1, DisownTyped DEF Disown
<1>8. ShowsItsOwn'
  BY <1>4 DEF ShowsItsOwn
<1>9. OverviewCatchesUp' /\ RowCatchesUp'
  BY <1>3 DEF OverviewCatchesUp, RowCatchesUp, NewestFacts, NewestRun
<1> QED
  BY <1>5, <1>6, <1>7, <1>8, <1>9

LEMMA VisitScreen ==
  ASSUME DetailAssumption, ScreenInv, TryAgain \/ \E d \in Datasets : Visit(d)
  PROVE  ScreenInv'
<1>1. inputs' \in Nat /\ UNCHANGED <<serverVars, feedVars>> /\ \E d \in Datasets : Load(d)
  <2>1. CASE TryAgain
    <3>1. at \in Datasets
      BY <2>1 DEF TryAgain, ScreenInv, ScreenTyped, ScreenRecords
    <3> QED
      BY <2>1, <3>1 DEF TryAgain, Input, ScreenInv, WritesTyped
  <2>2. CASE \E d \in Datasets : Visit(d)
    BY <2>2 DEF Visit, Input, ScreenInv, WritesTyped
  <2> QED
    BY <2>1, <2>2
<1>2. FeedShape' /\ ServerTyped' /\ RunsInOrder'
  BY <1>1, ServerUntouched DEF ScreenInv
<1> QED
  BY <1>1, <1>2, LoadKeeps DEF ScreenInv, serverVars

\* The screen is left, with writes of any number in flight.
LEMMA LeaveKeeps ==
  ASSUME DetailAssumption, ScreenInv, at' = None, scr' = Blank, asks' = {},
         NEW some \in SUBSET writes, writes' = {[w EXCEPT !.own = FALSE] : w \in some},
         UNCHANGED <<serverVars, feedVars>>, inputs' \in Nat
  PROVE  ScreenInv'
<1>1. FeedShape' /\ ServerTyped' /\ RunsInOrder'
  BY ServerUntouched DEF ScreenInv
<1>2. WritesTyped'
  BY DisownTyped DEF ScreenInv, serverVars
<1>3. ScreenTyped' /\ AsksTyped' /\ ShowsItsOwn' /\ OverviewCatchesUp' /\ RowCatchesUp'
  BY DEF Blank, ScreenTyped, ScreenRecords, AsksTyped, ShowsItsOwn, OverviewCatchesUp, RowCatchesUp
<1> QED
  BY <1>1, <1>2, <1>3 DEF ScreenInv

LEMMA UnmountScreen ==
  ASSUME DetailAssumption, ScreenInv, Unmount
  PROVE  ScreenInv'
<1>1. inputs' \in Nat
  BY DEF Unmount, Input, ScreenInv, WritesTyped
<1> QED
  BY <1>1, LeaveKeeps DEF Unmount, Leave, Disown

\* A fetch replaces the one of its kind.
LEMMA BeginKeeps ==
  ASSUME AsksTyped, NEW what \in {"overview", "runs"}, NEW soft \in BOOLEAN, at \in Datasets,
         asks' = Begin({Fetch(what, at, soft)}), UNCHANGED <<store, at>>
  PROVE  /\ AsksTyped'
         /\ \E a \in asks' : a.what = what /\ a.got = None /\ a.soft = soft
         /\ \A a \in asks' : a.what = what => a.got = None
         /\ \A a \in asks : a.what # what => a \in asks'
         /\ \A a \in asks' : a.what # what => a \in asks
<1> DEFINE f == Fetch(what, at, soft)
<1>1. /\ f \in [what : {"overview", "runs"}, id : Datasets, soft : BOOLEAN, got : {None} \cup Replied]
      /\ f.what = what /\ f.id = at /\ f.soft = soft /\ f.got = None
  BY DEF Fetch
<1>2. asks' = {a \in asks : what # a.what} \cup {f}
  BY <1>1 DEF Begin
<1> HIDE DEF f
<1>3. AsksTyped'
  BY <1>1, <1>2 DEF AsksTyped
<1> QED
  BY <1>1, <1>2, <1>3

LEMMA ReloadRunsScreen ==
  ASSUME DetailAssumption, ScreenInv, ReloadRuns
  PROVE  ScreenInv'
<1> USE DEF ScreenInv
<1>1. /\ UNCHANGED <<store, due, feedVars, at, writes, missed>>
      /\ scr.rows = "error" /\ scr' = [scr EXCEPT !.row = None, !.rows = "loading"]
      /\ asks' = Begin({Fetch("runs", at, FALSE)}) /\ inputs' = inputs + 1
  BY DEF ReloadRuns, Input, serverVars
<1>2. at \in Datasets
  BY <1>1 DEF ScreenTyped, ScreenRecords
<1>3. /\ AsksTyped'
      /\ \E a \in asks' : a.what = "runs" /\ a.got = None
      /\ \A a \in asks : a.what # "runs" => a \in asks'
      /\ \A a \in asks' : a.what # "runs" => a \in asks
  BY <1>1, <1>2, BeginKeeps
<1>4. FeedShape' /\ ServerTyped' /\ RunsInOrder' /\ Coming' = Coming /\ (Reopening <=> Reopening')
  BY <1>1, ServerUntouched DEF serverVars
<1>5. /\ scr' \in ScreenRecords
      /\ scr'.shown = scr.shown /\ scr'.row = None /\ scr'.status = scr.status /\ scr'.rows = "loading"
      /\ scr'.deleted = scr.deleted /\ scr'.problem = scr.problem /\ scr'.timer = scr.timer
  BY <1>1 DEF ScreenTyped, ScreenRecords
<1>6. ScreenTyped'
  <2>1. scr.status = "loading" => \E a \in asks' : a.what = "overview" /\ ~a.soft
    BY <1>3 DEF ScreenTyped, ScreenRecords
  <2> QED
    BY <1>1, <1>2, <1>3, <1>5, <2>1, DetailAssumption DEF ScreenTyped, ScreenRecords
<1>7. WritesTyped' /\ ShowsItsOwn'
  BY <1>1, <1>5 DEF WritesTyped, ShowsItsOwn
<1>8. OverviewCatchesUp'
  <2>1. (\E a \in asks : a.what = "overview" /\ NewestFacts(a)) => \E a \in asks' : a.what = "overview" /\ NewestFacts(a)
    BY <1>3
  <2>2. (\A a \in asks : a.what # "overview") => \A a \in asks' : a.what # "overview"
    BY <1>3
  <2> QED
    BY <1>1, <1>4, <1>5, <2>1, <2>2 DEF OverviewCatchesUp, NewestFacts
<1>9. RowCatchesUp'
  BY <1>3 DEF RowCatchesUp, NewestRun
<1> QED
  BY <1>3, <1>4, <1>6, <1>7, <1>8, <1>9

\* Asking for the overview's facts again.
LEMMA RefetchKeeps ==
  ASSUME DetailAssumption, ScreenInv, at \in Datasets, scr.status # "loading",
         asks' = Begin({Fetch("overview", at, TRUE)}),
         scr' = scr \/ scr' = [scr EXCEPT !.timer = FALSE],
         UNCHANGED <<store, due, feedVars, at, writes>>, inputs' \in Nat, missed' = {} => missed = {}
  PROVE  ScreenInv'
<1> USE DEF ScreenInv
<1>1. /\ AsksTyped'
      /\ \E a \in asks' : a.what = "overview" /\ a.got = None
      /\ \A a \in asks : a.what # "overview" => a \in asks'
      /\ \A a \in asks' : a.what # "overview" => a \in asks
  BY BeginKeeps
<1>2. FeedShape' /\ ServerTyped' /\ RunsInOrder' /\ Coming' = Coming /\ (Reopening <=> Reopening')
  BY ServerUntouched DEF serverVars
<1>3. /\ scr' \in ScreenRecords
      /\ scr'.shown = scr.shown /\ scr'.row = scr.row /\ scr'.status = scr.status /\ scr'.rows = scr.rows
      /\ scr'.deleted = scr.deleted /\ scr'.problem = scr.problem
  BY DEF ScreenTyped, ScreenRecords
<1>4. at # None
  BY DetailAssumption
<1>5. ScreenTyped'
  <2>1. scr.rows = "loading" => \E a \in asks' : a.what = "runs"
    BY <1>1 DEF ScreenTyped, ScreenRecords
  <2> QED
    BY <1>3, <1>4, <2>1 DEF ScreenTyped, ScreenRecords
<1>6. WritesTyped' /\ ShowsItsOwn'
  BY <1>3 DEF WritesTyped, ShowsItsOwn
<1>7. OverviewCatchesUp'
  BY <1>1 DEF OverviewCatchesUp, NewestFacts
<1>8. RowCatchesUp'
  <2>1. (\E a \in asks : a.what = "runs" /\ NewestRun(a)) => \E a \in asks' : a.what = "runs" /\ NewestRun(a)
    BY <1>1
  <2>2. (\A a \in asks : a.what # "runs") => \A a \in asks' : a.what # "runs"
    BY <1>1
  <2> QED
    BY <1>2, <1>3, <2>1, <2>2 DEF RowCatchesUp, NewestRun
<1> QED
  BY <1>1, <1>2, <1>5, <1>6, <1>7, <1>8

LEMMA ReadByScreen ==
  ASSUME DetailAssumption, ScreenInv, ReadByChanges
  PROVE  ScreenInv'
<1>1. scr.status = "ready" /\ at \in Datasets
  BY DEF ReadByChanges, ScreenInv, ScreenTyped, ScreenRecords
<1>2. inputs' \in Nat
  BY DEF ReadByChanges, Input, ScreenInv, WritesTyped
<1> QED
  BY <1>1, <1>2, RefetchKeeps DEF ReadByChanges, serverVars

LEMMA FlushScreen ==
  ASSUME DetailAssumption, ScreenInv, Flush
  PROVE  ScreenInv'
<1>1. /\ UNCHANGED <<store, due, feedVars, at, writes, inputs>>
      /\ scr.timer /\ scr' = [scr EXCEPT !.timer = FALSE]
      /\ missed' = {} => missed = {} /\ ~\E a \in asks : a.what = "overview" /\ a.got # None /\ ~a.soft
  BY DEF Flush, serverVars
<1>2. at \in Datasets /\ inputs' \in Nat
  BY <1>1 DEF ScreenInv, ScreenTyped, ScreenRecords, WritesTyped
<1>3. CASE ~(scr.deleted \/ scr.status = "loading")
  <2>1. asks' = Begin({Fetch("overview", at, TRUE)})
    BY <1>3 DEF Flush
  <2> QED
    BY <1>1, <1>2, <1>3, <2>1, RefetchKeeps
<1>4. CASE scr.deleted \/ scr.status = "loading"
  <2> USE DEF ScreenInv
  <2>1. UNCHANGED asks
    BY <1>4 DEF Flush
  <2>2. FeedShape' /\ ServerTyped' /\ RunsInOrder' /\ Coming' = Coming /\ (Reopening <=> Reopening')
    BY <1>1, ServerUntouched DEF serverVars
  <2>3. /\ scr' \in ScreenRecords
        /\ scr'.shown = scr.shown /\ scr'.row = scr.row /\ scr'.status = scr.status /\ scr'.rows = scr.rows
        /\ scr'.deleted = scr.deleted /\ scr'.problem = scr.problem /\ scr'.timer = FALSE
    BY <1>1 DEF ScreenTyped, ScreenRecords
  <2>4. ScreenTyped' /\ AsksTyped' /\ WritesTyped' /\ ShowsItsOwn'
    BY <1>1, <2>1, <2>3 DEF ScreenTyped, ScreenRecords, AsksTyped, WritesTyped, ShowsItsOwn
  <2>5. OverviewCatchesUp'
    <3>1. CASE scr.deleted
      BY <2>3, <3>1 DEF OverviewCatchesUp
    <3>2. CASE scr.status = "loading" /\ missed' = {}
      <4>1. PICK a \in asks : a.what = "overview" /\ ~a.soft
        BY <3>2 DEF ScreenTyped, ScreenRecords
      <4>2. a.got = None
        BY <1>1, <3>2, <4>1
      <4> QED
        BY <2>1, <4>1, <4>2 DEF OverviewCatchesUp, NewestFacts
    <3> QED
      BY <1>4, <3>1, <3>2 DEF OverviewCatchesUp
  <2>6. RowCatchesUp'
    BY <1>1, <2>1, <2>2, <2>3 DEF RowCatchesUp, NewestRun
  <2> QED
    BY <2>1, <2>2, <2>4, <2>5, <2>6
<1> QED
  BY <1>3, <1>4

\* Hearing the first frame leaves the others in order.
LEMMA OrderAfterHearing ==
  ASSUME RunsInOrder, wire \in Seq(Messages), wire # <<>>, wire' = Tail(wire), UNCHANGED <<sub, queue, store, due>>
  PROVE  RunsInOrder'
<1>1. /\ Len(wire) \in Nat \ {0} /\ Len(wire') = Len(wire) - 1
      /\ \A i \in 1 .. Len(wire) - 1 : wire'[i] = wire[i + 1]
  BY TailItems
<1>2. ASSUME NEW d \in Datasets, sub = "on", \A e \in due : ~RunOf(e, d),
             NEW i \in 1 .. Len(wire'), RunOf(wire'[i], d), wire'[i].v # store[d].run
      PROVE  \/ \E j \in i + 1 .. Len(wire') : RunOf(wire'[j], d)
             \/ \E j \in 1 .. Len(queue) : RunOf(queue[j], d)
  <2>1. i + 1 \in 1 .. Len(wire) /\ wire'[i] = wire[i + 1]
    BY <1>1
  <2>2. \/ \E j \in i + 2 .. Len(wire) : RunOf(wire[j], d)
        \/ \E j \in 1 .. Len(queue) : RunOf(queue[j], d)
    BY <1>2, <2>1 DEF RunsInOrder
  <2>3. \A j \in i + 2 .. Len(wire) : j - 1 \in i + 1 .. Len(wire') /\ wire'[j - 1] = wire[j]
    BY <1>1
  <2> QED
    BY <2>2, <2>3
<1>3. ASSUME NEW d \in Datasets, sub = "on", \A e \in due : ~RunOf(e, d)
      PROVE  \A i \in 1 .. Len(queue) :
               RunOf(queue[i], d) /\ queue[i].v # store[d].run => \E j \in i + 1 .. Len(queue) : RunOf(queue[j], d)
  BY <1>3 DEF RunsInOrder
<1>4. \A e, d : (RunOf(e, d))' = RunOf(e, d)
  BY DEF RunOf
<1> QED
  BY <1>2, <1>3, <1>4 DEF RunsInOrder

LEMMA HearOpenedScreen ==
  ASSUME DetailAssumption, ScreenInv, HearOpened
  PROVE  ScreenInv'
<1> USE DEF ScreenInv
<1>1. HearOpen /\ UNCHANGED <<store, due, inputs>>
  BY DEF HearOpened, serverVars
<1>2. FeedShape' /\ Items(wire) = Items(wire') \cup {Opened} /\ UNCHANGED <<sub, queue>> /\ sock' = "open" /\ opened'
  BY <1>1, HearOpenKeeps
<1>3. RunsInOrder'
  BY <1>1, OrderAfterHearing DEF HearOpen, FeedShape
<1>4. Coming = Coming' \cup {Opened}
  BY <1>1, <1>2 DEF Coming
<1>5. ServerTyped'
  BY <1>1, <1>4 DEF ServerTyped
<1>6. inputs' \in Nat
  BY <1>1 DEF WritesTyped
<1>7. CASE ~opened \/ at = None
  <2>1. UNCHANGED <<at, scr, asks, writes, missed>>
    BY <1>7 DEF HearOpened
  <2>2. ScreenTyped' /\ AsksTyped' /\ WritesTyped' /\ ShowsItsOwn'
    BY <1>1, <2>1 DEF ScreenTyped, ScreenRecords, AsksTyped, WritesTyped, ShowsItsOwn
  <2>3. Opened \in Signals /\ Opened.t # "run"
    BY DEF Signals, Opened
  <2>4. OverviewCatchesUp'
    <3>1. (\E e \in Coming : About(e, at)) => (\E e \in Coming' : About(e, at))
      BY <1>4, <2>3 DEF About
    <3> QED
      BY <1>1, <1>7, <2>1, <3>1 DEF OverviewCatchesUp, NewestFacts, Reopening
  <2>5. RowCatchesUp'
    <3>1. (\E e \in Coming : RunOf(e, at)) => (\E e \in Coming' : RunOf(e, at))
      BY <1>4, <2>3 DEF RunOf
    <3> QED
      BY <1>1, <1>7, <2>1, <3>1 DEF RowCatchesUp, NewestRun, Reopening
  <2> QED
    BY <1>2, <1>3, <1>5, <2>2, <2>4, <2>5
<1>8. CASE opened /\ at # None /\ scr.status = "ready"
  <2> DEFINE f == Fetch("overview", at, TRUE)
             g == Fetch("runs", at, TRUE)
  <2>1. asks' = Begin({f, g}) /\ UNCHANGED <<at, scr, writes>>
    BY <1>8 DEF HearOpened
  <2>2. at \in Datasets
    BY <1>8 DEF ScreenTyped, ScreenRecords
  <2>3. /\ f \in [what : {"overview", "runs"}, id : Datasets, soft : BOOLEAN, got : {None} \cup Replied]
        /\ g \in [what : {"overview", "runs"}, id : Datasets, soft : BOOLEAN, got : {None} \cup Replied]
        /\ f.what = "overview" /\ g.what = "runs" /\ f.id = at /\ g.id = at /\ f.got = None /\ g.got = None
    BY <2>2 DEF Fetch
  <2>4. asks' = {f, g}
    <3>1. \A a \in asks : a.what = f.what \/ a.what = g.what
      BY <2>3 DEF AsksTyped
    <3> HIDE DEF f, g
    <3> QED
      BY <2>1, <3>1 DEF Begin
  <2> HIDE DEF f, g
  <2>5. AsksTyped'
    BY <2>1, <2>3, <2>4 DEF AsksTyped
  <2>6. ScreenTyped' /\ WritesTyped' /\ ShowsItsOwn'
    BY <1>1, <1>8, <2>1, <2>3, <2>4 DEF ScreenTyped, ScreenRecords, WritesTyped, ShowsItsOwn
  <2>7. OverviewCatchesUp' /\ RowCatchesUp'
    BY <2>3, <2>4 DEF OverviewCatchesUp, RowCatchesUp, NewestFacts, NewestRun
  <2> QED
    BY <1>2, <1>3, <1>5, <2>5, <2>6, <2>7
<1>9. CASE opened /\ at # None /\ scr.status # "ready"
  <2>1. Load(at) /\ at \in Datasets
    BY <1>9 DEF HearOpened, ScreenTyped, ScreenRecords
  <2> HIDE DEF ScreenInv
  <2>2. ScreenTyped' /\ AsksTyped' /\ WritesTyped' /\ ShowsItsOwn' /\ OverviewCatchesUp' /\ RowCatchesUp'
    BY <1>1, <1>6, <2>1, LoadKeeps
  <2> USE DEF ScreenInv
  <2> QED
    BY <1>2, <1>3, <1>5, <2>2
<1> QED
  BY <1>7, <1>8, <1>9

LEMMA HearScreen ==
  ASSUME DetailAssumption, ScreenInv, Hear
  PROVE  ScreenInv'
<1> USE DEF ScreenInv
<1> DEFINE e == wire[1]
<1>1. HearEvent /\ HearOf(Head(wire)) /\ UNCHANGED <<store, due, at, asks, writes, missed, inputs>>
  BY DEF Hear, serverVars
<1>2. /\ FeedShape'
      /\ e \in Messages \ Signals /\ Head(wire) = e
      /\ Items(wire) = Items(wire') \cup {e}
      /\ Len(wire) \in Nat \ {0} /\ Len(wire') = Len(wire) - 1
      /\ \A i \in 1 .. Len(wire) - 1 : wire'[i] = wire[i + 1]
      /\ opened
      /\ UNCHANGED <<sub, queue, sock, opened>>
  BY <1>1, HearEventKeeps
<1>3. RunsInOrder'
  BY <1>1, OrderAfterHearing DEF HearEvent, FeedShape
<1>4. Coming = Coming' \cup {e} /\ (Reopening <=> Reopening')
  BY <1>1, <1>2 DEF Coming, Reopening
<1>5. ServerTyped'
  BY <1>1, <1>4 DEF ServerTyped
<1>6. e.t \in {"changed", "deleted", "run"} /\ e.id \in Datasets /\ (e.t = "run" => e.v \in Nat)
  BY <1>2, SignalKinds
<1>7. e.t = "deleted" => store[e.id].gone
  BY <1>4 DEF ServerTyped
<1>8. AsksTyped' /\ WritesTyped'
  BY <1>1 DEF AsksTyped, WritesTyped
<1>9. CASE e.id # at
  <2>1. UNCHANGED scr
    BY <1>1, <1>2, <1>9 DEF HearOf
  <2>2. ScreenTyped' /\ ShowsItsOwn'
    BY <1>1, <2>1 DEF ScreenTyped, ScreenRecords, ShowsItsOwn
  <2>3. OverviewCatchesUp'
    <3>1. (\E x \in Coming : About(x, at)) => (\E x \in Coming' : About(x, at))
      BY <1>4, <1>9 DEF About
    <3> QED
      BY <1>1, <1>4, <2>1, <3>1 DEF OverviewCatchesUp, NewestFacts
  <2>4. RowCatchesUp'
    <3>1. (\E x \in Coming : RunOf(x, at)) => (\E x \in Coming' : RunOf(x, at))
      BY <1>4, <1>9 DEF RunOf
    <3> QED
      BY <1>1, <1>4, <2>1, <3>1 DEF RowCatchesUp, NewestRun
  <2> QED
    BY <1>2, <1>3, <1>5, <1>8, <2>2, <2>3, <2>4
<1>10. CASE e.id = at
  <2>0. at \in Datasets /\ at # None
    BY <1>6, <1>10, DetailAssumption
  <2>1. scr \in ScreenRecords
    BY DEF ScreenTyped, ScreenRecords
  <2>2. /\ scr' \in ScreenRecords /\ scr'.shown = scr.shown /\ scr'.status = scr.status /\ scr'.problem = scr.problem
        /\ scr'.deleted = (IF e.t = "deleted" THEN TRUE ELSE scr.deleted)
        /\ e.t # "deleted" => scr'.timer = TRUE
        /\ e.t = "run" => scr'.row = [id |-> e.id, v |-> e.v] /\ scr'.rows = "ready"
        /\ e.t # "run" => scr'.row = scr.row /\ scr'.rows = scr.rows
    <3>1. CASE e.t = "run"
      <4>1. scr' = [scr EXCEPT !.row = [id |-> e.id, v |-> e.v], !.rows = "ready", !.timer = TRUE]
        BY <1>1, <1>2, <1>10, <3>1 DEF HearOf
      <4>2. [id |-> e.id, v |-> e.v] \in Versions
        BY <1>6, <3>1 DEF Versions
      <4> QED
        BY <2>1, <3>1, <4>1, <4>2 DEF ScreenRecords
    <3>2. CASE e.t = "deleted"
      <4>1. scr' = [scr EXCEPT !.deleted = TRUE]
        BY <1>1, <1>2, <1>10, <3>2 DEF HearOf
      <4> QED
        BY <2>1, <3>2, <4>1 DEF ScreenRecords
    <3>3. CASE e.t = "changed"
      <4>1. scr' = [scr EXCEPT !.timer = TRUE]
        BY <1>1, <1>2, <1>10, <3>3 DEF HearOf
      <4> QED
        BY <2>1, <3>3, <4>1 DEF ScreenRecords
    <3> QED
      BY <1>6, <3>1, <3>2, <3>3
  <2>3. e.t = "run" => [id |-> e.id, v |-> e.v] # None /\ [id |-> e.id, v |-> e.v].id = at /\ [id |-> e.id, v |-> e.v].v = e.v
    BY <1>6, <1>10, DetailAssumption
  <2>4. ScreenTyped'
    BY <1>1, <2>0, <2>2, <2>3 DEF ScreenTyped, ScreenRecords
  <2>5. ShowsItsOwn'
    BY <1>1, <1>7, <1>10, <2>2, <2>3 DEF ShowsItsOwn
  <2>6. OverviewCatchesUp'
    BY <2>2 DEF OverviewCatchesUp
  <2>7. RowCatchesUp'
    <3>1. CASE e.t # "run"
      <4>1. (\E x \in Coming : RunOf(x, at)) => (\E x \in Coming' : RunOf(x, at))
        BY <1>4, <3>1 DEF RunOf
      <4> QED
        BY <1>1, <1>4, <2>2, <3>1, <4>1 DEF RowCatchesUp, NewestRun
    <3>2. CASE e.t = "run" /\ sub # "on"
      BY <1>2, <1>4, <3>2 DEF RowCatchesUp, Reopening
    <3>3. CASE e.t = "run" /\ sub = "on" /\ e.v = store[at].run
      BY <1>1, <1>10, <2>2, <3>3 DEF RowCatchesUp
    <3>4. CASE e.t = "run" /\ sub = "on" /\ e.v # store[at].run
      <4>1. RunOf(e, at) /\ 1 \in 1 .. Len(wire)
        BY <1>2, <1>10, <3>4 DEF RunOf
      <4>2. \/ \E x \in due : RunOf(x, at)
            \/ \E j \in 2 .. Len(wire) : RunOf(wire[j], at)
            \/ \E j \in 1 .. Len(queue) : RunOf(queue[j], at)
        BY <2>0, <3>4, <4>1 DEF RunsInOrder
      <4>3. \A j \in 2 .. Len(wire) : j - 1 \in 1 .. Len(wire') /\ wire'[j - 1] = wire[j]
        BY <1>2
      <4>4. \E x \in Coming' : RunOf(x, at)
        <5>1. CASE \E x \in due : RunOf(x, at)
          BY <1>1, <5>1 DEF Coming
        <5>2. CASE \E j \in 2 .. Len(wire) : RunOf(wire[j], at)
          BY <4>3, <5>2 DEF Coming, Items
        <5>3. CASE \E j \in 1 .. Len(queue) : RunOf(queue[j], at)
          BY <1>2, <5>3 DEF Coming, Items
        <5> QED
          BY <4>2, <5>1, <5>2, <5>3
      <4> QED
        BY <1>1, <4>4 DEF RowCatchesUp
    <3> QED
      BY <3>1, <3>2, <3>3, <3>4
  <2> QED
    BY <1>2, <1>3, <1>5, <1>8, <2>4, <2>5, <2>6, <2>7
<1> QED
  BY <1>9, <1>10

LEMMA StartWriteScreen ==
  ASSUME DetailAssumption, ScreenInv, NEW kind \in {"patch", "delete"}, StartWrite(kind)
  PROVE  ScreenInv'
<1> USE DEF ScreenInv
<1> DEFINE w == [n |-> inputs, own |-> TRUE, id |-> at, kind |-> kind, got |-> None]
<1>1. /\ UNCHANGED <<store, due, feedVars, at, asks, missed>>
      /\ scr.shown # None /\ scr' = [scr EXCEPT !.writing = TRUE]
      /\ writes' = writes \cup {w} /\ inputs' = inputs + 1
  BY DEF StartWrite, Input, serverVars
<1>2. at \in Datasets
  BY <1>1 DEF ScreenTyped, ScreenRecords
<1>3. FeedShape' /\ ServerTyped' /\ RunsInOrder' /\ Coming' = Coming /\ (Reopening <=> Reopening')
  BY <1>1, ServerUntouched DEF serverVars
<1>4. /\ w \in [n : Nat, own : BOOLEAN, id : Datasets, kind : {"patch", "delete"}, got : {None} \cup Replied]
      /\ w.own = TRUE /\ w.id = at /\ w.got = None
  BY <1>2 DEF WritesTyped
<1> HIDE DEF w
<1>5. WritesTyped'
  <2>1. inputs' \in Nat
    BY <1>1 DEF WritesTyped
  <2> QED
    BY <1>1, <1>4, <2>1 DEF WritesTyped
<1>6. /\ scr' \in ScreenRecords
      /\ scr'.shown = scr.shown /\ scr'.row = scr.row /\ scr'.status = scr.status /\ scr'.rows = scr.rows
      /\ scr'.deleted = scr.deleted /\ scr'.problem = scr.problem /\ scr'.timer = scr.timer
  BY <1>1 DEF ScreenTyped, ScreenRecords
<1>7. ScreenTyped' /\ AsksTyped' /\ ShowsItsOwn' /\ OverviewCatchesUp' /\ RowCatchesUp'
  BY <1>1, <1>3, <1>6 DEF ScreenTyped, ScreenRecords, AsksTyped, ShowsItsOwn, OverviewCatchesUp, RowCatchesUp,
                          NewestFacts, NewestRun
<1> QED
  BY <1>3, <1>5, <1>7

LEMMA HearWriteScreen ==
  ASSUME DetailAssumption, ScreenInv, NEW w \in writes, HearWrite(w)
  PROVE  ScreenInv'
<1>1. w.got # None /\ UNCHANGED <<store, due, inputs, feedVars>> /\ inputs' \in Nat
  BY DEF HearWrite, serverVars, ScreenInv, WritesTyped
<1>2. CASE w.own /\ w.kind = "delete" /\ w.got.kind = "ok"
  <2>1. at' = None /\ scr' = Blank /\ asks' = {} /\ writes' = {[x EXCEPT !.own = FALSE] : x \in writes \ {w}}
    BY <1>2 DEF HearWrite
  <2>2. writes \ {w} \in SUBSET writes
    OBVIOUS
  <2> QED
    BY <1>1, <2>1, <2>2, LeaveKeeps DEF serverVars
<1>3. CASE ~(w.own /\ w.kind = "delete" /\ w.got.kind = "ok")
  <2> USE DEF ScreenInv
  <2> DEFINE adopted == w.own /\ w.kind = "patch" /\ w.got.kind = "ok"
  <2>1. /\ scr' = IF adopted THEN [scr EXCEPT !.shown = [id |-> w.id, v |-> w.got.v], !.writing = FALSE]
                             ELSE [scr EXCEPT !.writing = FALSE]
        /\ missed' = missed \cup (IF adopted /\ Older(scr.shown, w.got.v) THEN {"overwritten"} ELSE {})
        /\ writes' = writes \ {w} /\ UNCHANGED <<at, asks>>
    BY <1>3 DEF HearWrite
  <2>2. FeedShape' /\ ServerTyped' /\ RunsInOrder' /\ Coming' = Coming /\ (Reopening <=> Reopening')
    BY <1>1, ServerUntouched DEF serverVars
  <2>3. WritesTyped'
    BY <1>1, <2>1 DEF WritesTyped
  <2>4. w.got \in Replied /\ w.got.v \in Nat /\ w.id \in Datasets /\ (w.own => w.id = at)
    BY <1>1 DEF WritesTyped, Replied
  <2>5. adopted => /\ at \in Datasets /\ at # None /\ w.id = at /\ w.got.v <= store[at].ver /\ store[at].ver \in Nat
                   /\ [id |-> w.id, v |-> w.got.v] \in Versions
    BY <1>1, <2>4, DetailAssumption DEF WritesTyped, ServerTyped, Versions
  <2>6. /\ scr' \in ScreenRecords
        /\ scr'.shown = (IF adopted THEN [id |-> w.id, v |-> w.got.v] ELSE scr.shown)
        /\ scr'.row = scr.row /\ scr'.status = scr.status /\ scr'.rows = scr.rows
        /\ scr'.deleted = scr.deleted /\ scr'.problem = scr.problem /\ scr'.timer = scr.timer
    <3>1. scr \in ScreenRecords
      BY DEF ScreenTyped, ScreenRecords
    <3>2. CASE adopted
      BY <2>1, <2>5, <3>1, <3>2 DEF ScreenRecords
    <3>3. CASE ~adopted
      BY <2>1, <3>1, <3>3 DEF ScreenRecords
    <3> QED
      BY <3>2, <3>3
  <2>7. ScreenTyped' /\ AsksTyped' /\ ShowsItsOwn'
    BY <1>1, <2>1, <2>5, <2>6 DEF ScreenTyped, ScreenRecords, AsksTyped, ShowsItsOwn
  <2>8. RowCatchesUp'
    BY <1>1, <2>1, <2>2, <2>6 DEF RowCatchesUp, NewestRun
  <2>9. OverviewCatchesUp'
    <3>1. CASE ~adopted
      BY <1>1, <2>1, <2>2, <2>6, <3>1 DEF OverviewCatchesUp, NewestFacts
    <3>2. CASE adopted /\ missed' = {} /\ scr.shown = [id |-> at, v |-> store[at].ver]
      <4>1. ~Older(scr.shown, w.got.v) /\ scr.shown.v = store[at].ver /\ scr.shown # None
        BY <2>1, <2>5, <3>2, DetailAssumption
      <4>2. w.got.v = store[at].ver
        BY <2>4, <2>5, <3>2, <4>1 DEF Older
      <4>3. scr'.shown = [id |-> at, v |-> store[at].ver]
        BY <2>5, <2>6, <3>2, <4>2
      <4> QED
        BY <1>1, <2>1, <2>2, <2>6, <4>3 DEF OverviewCatchesUp, NewestFacts
    <3>3. CASE scr.shown # [id |-> at, v |-> store[at].ver]
      BY <1>1, <2>1, <2>2, <2>6, <3>3 DEF OverviewCatchesUp, NewestFacts
    <3> QED
      BY <3>1, <3>2, <3>3 DEF OverviewCatchesUp
  <2> QED
    BY <2>2, <2>3, <2>7, <2>8, <2>9
<1> QED
  BY <1>2, <1>3

LEMMA HearFetchScreen ==
  ASSUME DetailAssumption, ScreenInv, NEW a \in asks, HearFetch(a)
  PROVE  ScreenInv'
<1> USE DEF ScreenInv
<1>1. /\ a.got # None /\ asks' = asks \ {a} /\ UNCHANGED <<store, due, at, writes, inputs, feedVars>>
      /\ IF a.what = "overview" THEN HearOverview(a) ELSE HearRuns(a)
  BY DEF HearFetch, serverVars
<1>2. /\ a.what \in {"overview", "runs"} /\ a.got \in Replied /\ a.got.v \in Nat /\ a.id = at
      /\ at \in Datasets /\ at # None /\ a.soft \in BOOLEAN
      /\ a.got.kind \in {"ok", "missing", "failed"}
      /\ a.got.kind = "missing" => store[at].gone
      /\ a.got.kind = "ok" => a.got.v <= IF a.what = "runs" THEN store[at].run ELSE store[at].ver
  BY <1>1, DetailAssumption DEF AsksTyped, Replied
<1>3. [id |-> a.id, v |-> a.got.v] \in Versions /\ [id |-> a.id, v |-> a.got.v] # None
      /\ [id |-> a.id, v |-> a.got.v].id = at /\ [id |-> a.id, v |-> a.got.v].v = a.got.v
  BY <1>2, DetailAssumption DEF Versions
<1>4. \A x \in asks' : x \in asks /\ x.what # a.what
  BY <1>1 DEF AsksTyped
<1>5. \A x \in asks : x.what # a.what => x \in asks'
  BY <1>1
<1>6. FeedShape' /\ ServerTyped' /\ RunsInOrder' /\ Coming' = Coming /\ (Reopening <=> Reopening')
  BY <1>1, ServerUntouched DEF serverVars
<1>7. AsksTyped' /\ WritesTyped'
  BY <1>1 DEF AsksTyped, WritesTyped
<1>8. scr \in ScreenRecords
  BY DEF ScreenTyped, ScreenRecords
<1>9. missed' = {} =>
        /\ missed = {}
        /\ a.what = "runs" /\ a.got.kind = "ok" => ~Older(scr.row, a.got.v)
        /\ a.what = "overview" /\ a.got.kind = "ok" /\ scr.problem /\ scr.row # None => scr.row.v = store[at].run
  BY DEF HearFetch
<1>10. CASE a.what = "overview"
  <2> DEFINE ok     == a.got.kind = "ok"
             softly == ~ok /\ a.soft /\ scr.shown # None
  <2>1. scr' = CASE a.got.kind = "ok" ->
                      [scr EXCEPT !.shown = [id |-> a.id, v |-> a.got.v], !.status = "ready", !.problem = FALSE]
                 [] a.got.kind # "ok" /\ a.soft /\ scr.shown # None ->
                      IF a.got.kind = "missing" THEN [scr EXCEPT !.deleted = TRUE] ELSE [scr EXCEPT !.problem = TRUE]
                 [] OTHER ->
                      [scr EXCEPT !.status = IF a.got.kind = "missing" THEN "not-found" ELSE "error"]
    BY <1>1, <1>10 DEF HearOverview
  <2>2. /\ scr' \in ScreenRecords /\ scr'.row = scr.row /\ scr'.rows = scr.rows /\ scr'.timer = scr.timer
        /\ scr'.shown = (IF ok THEN [id |-> a.id, v |-> a.got.v] ELSE scr.shown)
        /\ ok => scr'.status = "ready" /\ scr'.deleted = scr.deleted /\ scr'.problem = FALSE
        /\ softly => /\ scr'.status = scr.status
                     /\ scr'.deleted = scr.deleted \/ store[at].gone
                     /\ scr'.problem = scr.problem \/ scr'.problem = TRUE
                     /\ scr'.deleted \/ scr'.problem
                     /\ scr.deleted => scr'.deleted
        /\ ~ok /\ ~softly => /\ scr'.status \in {"not-found", "error"}
                             /\ scr'.deleted = scr.deleted /\ scr'.problem = scr.problem
    <3>1. CASE ok
      <4>1. scr' = [scr EXCEPT !.shown = [id |-> a.id, v |-> a.got.v], !.status = "ready", !.problem = FALSE]
        BY <2>1, <3>1
      <4> QED
        BY <1>3, <1>8, <3>1, <4>1 DEF ScreenRecords
    <3>2. CASE softly /\ a.got.kind = "missing"
      <4>1. scr' = [scr EXCEPT !.deleted = TRUE]
        BY <2>1, <3>2
      <4> QED
        BY <1>2, <1>8, <3>2, <4>1 DEF ScreenRecords
    <3>3. CASE softly /\ a.got.kind # "missing"
      <4>1. scr' = [scr EXCEPT !.problem = TRUE]
        BY <2>1, <3>3
      <4> QED
        BY <1>8, <3>3, <4>1 DEF ScreenRecords
    <3>4. CASE ~ok /\ ~softly
      <4>1. scr' = [scr EXCEPT !.status = IF a.got.kind = "missing" THEN "not-found" ELSE "error"]
        BY <2>1, <3>4
      <4> QED
        BY <1>8, <3>4, <4>1 DEF ScreenRecords
    <3> QED
      BY <3>1, <3>2, <3>3, <3>4
  <2>3. ScreenTyped'
    <3>1. scr'.status # "loading"
      <4>1. CASE softly
        <5>1. ~\E x \in asks : x.what = "overview" /\ ~x.soft
          BY <1>10, <4>1 DEF AsksTyped
        <5> QED
          BY <2>2, <4>1, <5>1 DEF ScreenTyped, ScreenRecords
      <4> QED
        BY <2>2, <4>1
    <3>2. scr'.rows = "loading" => \E x \in asks' : x.what = "runs"
      BY <1>5, <1>10, <2>2 DEF ScreenTyped, ScreenRecords
    <3>3. scr'.status # "idle"
      BY <1>2, <2>2 DEF ScreenTyped, ScreenRecords
    <3> QED
      BY <1>1, <1>2, <2>2, <3>1, <3>2, <3>3 DEF ScreenTyped, ScreenRecords
  <2>4. ShowsItsOwn'
    <3>1. scr'.deleted => store[at].gone
      BY <2>2 DEF ShowsItsOwn
    <3>2. scr'.shown # None => scr'.shown.id = at
      BY <1>3, <2>2 DEF ShowsItsOwn
    <3> QED
      BY <1>1, <2>2, <3>1, <3>2 DEF ShowsItsOwn
  <2>5. OverviewCatchesUp'
    <3>0. \A x \in asks' : x.what # "overview"
      BY <1>4, <1>10
    <3>1. CASE ~ok
      <4>1. scr'.deleted \/ scr'.problem \/ scr'.status \in {"not-found", "error"}
        BY <2>2, <3>1
      <4> QED
        BY <3>0, <4>1 DEF OverviewCatchesUp
    <3>2. CASE ok /\ NewestFacts(a)
      <4>1. a.got.v = store[at].ver /\ ~store[at].gone
        BY <1>1, <3>2 DEF NewestFacts
      <4>2. scr'.shown = [id |-> at, v |-> store[at].ver]
        BY <1>2, <2>2, <3>2, <4>1
      <4> QED
        BY <1>1, <3>0, <4>1, <4>2 DEF OverviewCatchesUp
    <3>3. CASE ok /\ ~NewestFacts(a)
      <4>1. ~\E x \in asks : x.what = "overview" /\ NewestFacts(x)
        BY <1>10, <3>3 DEF AsksTyped
      <4>2. ~\A x \in asks : x.what # "overview"
        BY <1>10
      <4>3. missed' = {} => Reopening \/ (\E e \in Coming : About(e, at)) \/ scr.timer \/ scr.deleted
        BY <1>2, <1>9, <4>1, <4>2 DEF OverviewCatchesUp
      <4> QED
        BY <1>1, <1>6, <2>2, <3>3, <4>3 DEF OverviewCatchesUp
    <3> QED
      BY <3>1, <3>2, <3>3
  <2>6. RowCatchesUp'
    <3>1. (\E x \in asks : x.what = "runs" /\ NewestRun(x)) => \E x \in asks' : x.what = "runs" /\ NewestRun(x)
      BY <1>5, <1>10
    <3>2. (\A x \in asks : x.what # "runs") => \A x \in asks' : x.what # "runs"
      BY <1>4
    <3>3. CASE ~ok \/ ~scr.problem \/ missed' # {}
      <4>1. missed' = {} /\ scr.problem => scr'.problem
        BY <2>2, <3>3
      <4> QED
        BY <1>1, <1>6, <1>9, <2>2, <3>1, <3>2, <4>1 DEF RowCatchesUp, NewestRun
    <3>4. CASE ok /\ missed' = {} /\ scr.row # None /\ scr.problem
      <4>1. scr.row.v = store[at].run /\ scr.row.id = at /\ scr.row \in Versions
        BY <1>8, <1>9, <1>10, <3>4 DEF ShowsItsOwn, ScreenRecords
      <4>2. scr.row = [id |-> at, v |-> store[at].run]
        BY <4>1 DEF Versions
      <4> QED
        BY <1>1, <2>2, <4>2 DEF RowCatchesUp
    <3>5. CASE ok /\ missed' = {} /\ scr.row = None
      <4>1. scr.rows \in {"loading", "error"} /\ scr.row # [id |-> at, v |-> store[at].run]
        <5>1. [id |-> at, v |-> store[at].run] \in [id : Datasets, v : Nat]
          BY <1>2 DEF ServerTyped
        <5> QED
          BY <1>2, <3>5, <5>1, DetailAssumption DEF ScreenTyped, ScreenRecords
      <4>2. (\A x \in asks : x.what # "runs") => scr.rows = "error"
        BY <4>1 DEF ScreenTyped, ScreenRecords
      <4> QED
        BY <1>1, <1>2, <1>6, <1>9, <2>2, <3>1, <3>2, <3>5, <4>1, <4>2 DEF RowCatchesUp, NewestRun
    <3> QED
      BY <3>3, <3>4, <3>5
  <2> QED
    BY <1>6, <1>7, <2>3, <2>4, <2>5, <2>6
<1>11. CASE a.what = "runs"
  <2> DEFINE ok     == a.got.kind = "ok"
             softly == ~ok /\ a.soft /\ scr.rows = "ready"
  <2>1. scr' = CASE a.got.kind = "ok" ->
                      [scr EXCEPT !.row = [id |-> a.id, v |-> a.got.v], !.rows = "ready"]
                 [] a.got.kind # "ok" /\ a.soft /\ scr.rows = "ready" -> [scr EXCEPT !.problem = TRUE]
                 [] OTHER -> [scr EXCEPT !.rows = "error"]
    BY <1>1, <1>11 DEF HearRuns
  <2>2. /\ scr' \in ScreenRecords /\ scr'.shown = scr.shown /\ scr'.status = scr.status
        /\ scr'.deleted = scr.deleted /\ scr'.timer = scr.timer
        /\ scr'.row = (IF ok THEN [id |-> a.id, v |-> a.got.v] ELSE scr.row)
        /\ scr.problem => scr'.problem
        /\ ok => scr'.rows = "ready"
        /\ ~ok => scr'.problem \/ scr'.rows = "error"
        /\ scr'.rows # "loading" /\ scr'.rows # "idle"
        /\ ~ok => scr'.rows \in {scr.rows, "error"}
    <3>1. CASE ok
      <4>1. scr' = [scr EXCEPT !.row = [id |-> a.id, v |-> a.got.v], !.rows = "ready"]
        BY <2>1, <3>1
      <4> QED
        BY <1>3, <1>8, <3>1, <4>1 DEF ScreenRecords
    <3>2. CASE softly
      <4>1. scr' = [scr EXCEPT !.problem = TRUE]
        BY <2>1, <3>2
      <4> QED
        BY <1>8, <3>2, <4>1 DEF ScreenRecords
    <3>3. CASE ~ok /\ ~softly
      <4>1. scr' = [scr EXCEPT !.rows = "error"]
        BY <2>1, <3>3
      <4> QED
        BY <1>8, <3>3, <4>1 DEF ScreenRecords
    <3> QED
      BY <3>1, <3>2, <3>3
  <2>3. ScreenTyped'
    <3>1. scr.status = "loading" => \E x \in asks' : x.what = "overview" /\ ~x.soft
      BY <1>5, <1>11 DEF ScreenTyped, ScreenRecords
    <3>2. scr'.row = None => scr'.rows \in {"loading", "error"}
      BY <1>2, <1>3, <2>2 DEF ScreenTyped, ScreenRecords
    <3> QED
      BY <1>1, <1>2, <2>2, <3>1, <3>2 DEF ScreenTyped, ScreenRecords
  <2>4. ShowsItsOwn'
    BY <1>1, <1>3, <2>2 DEF ShowsItsOwn
  <2>5. OverviewCatchesUp'
    <3>1. (\E x \in asks : x.what = "overview" /\ NewestFacts(x)) => \E x \in asks' : x.what = "overview" /\ NewestFacts(x)
      BY <1>5, <1>11
    <3>2. (\A x \in asks : x.what # "overview") => \A x \in asks' : x.what # "overview"
      BY <1>4
    <3> QED
      BY <1>1, <1>6, <1>9, <2>2, <3>1, <3>2 DEF OverviewCatchesUp, NewestFacts
  <2>6. RowCatchesUp'
    <3>0. \A x \in asks' : x.what # "runs"
      BY <1>4, <1>11
    <3>1. CASE ~ok
      BY <2>2, <3>0, <3>1 DEF RowCatchesUp
    <3>2. CASE ok /\ a.got.v = store[at].run
      <4>1. scr'.row = [id |-> at, v |-> store[at].run]
        BY <1>2, <2>2, <3>2
      <4> QED
        BY <1>1, <4>1 DEF RowCatchesUp
    <3>3. CASE ok /\ a.got.v # store[at].run
      <4>1. ~\E x \in asks : x.what = "runs" /\ NewestRun(x)
        BY <1>1, <1>11, <3>3 DEF AsksTyped, NewestRun
      <4>2. ~\A x \in asks : x.what # "runs"
        BY <1>11
      <4>3. missed' = {} => scr.row # [id |-> at, v |-> store[at].run]
        <5>1. SUFFICES ASSUME missed' = {}, scr.row = [id |-> at, v |-> store[at].run] PROVE FALSE
          OBVIOUS
        <5>2. store[at].run \in Nat
          BY <1>2 DEF ServerTyped
        <5>3. scr.row # None /\ scr.row.v = store[at].run
          BY <1>2, <5>1, <5>2, DetailAssumption
        <5>4. store[at].run > a.got.v
          BY <1>2, <1>11, <3>3, <5>2
        <5> QED
          BY <1>9, <1>11, <3>3, <5>1, <5>3, <5>4 DEF Older
      <4>4. missed' = {} => Reopening \/ \E e \in Coming : RunOf(e, at)
        BY <1>2, <1>9, <4>1, <4>2, <4>3 DEF RowCatchesUp
      <4> QED
        BY <1>1, <1>6, <4>4 DEF RowCatchesUp
    <3> QED
      BY <3>1, <3>2, <3>3
  <2> QED
    BY <1>6, <1>7, <2>3, <2>4, <2>5, <2>6
<1> QED
  BY <1>2, <1>10, <1>11

---------------------------------------------------------------------------
(* The whole. *)

LEMMA InitScreen ==
  ASSUME DetailAssumption, Init
  PROVE  ScreenInv
<1>1. /\ sub = "none" /\ queue = <<>> /\ wire = <<>> /\ sock = "connecting" /\ opened = FALSE
      /\ store = [d \in Datasets |-> [ver |-> 0, run |-> 1, gone |-> FALSE]]
      /\ due = {} /\ at = None /\ scr = Blank /\ asks = {} /\ writes = {} /\ missed = {} /\ inputs = 0
  BY DEF Init, FeedInit, DetailInit
<1>2. Items(queue) = {} /\ Items(wire) = {} /\ Len(queue) = 0 /\ Len(wire) = 0
  BY <1>1, OneItem
<1>3. FeedShape
  <2>1. <<>> \in Seq(Messages)
    OBVIOUS
  <2>2. ~Connected
    BY <1>1 DEF Connected
  <2>3. sub \in {"none", "on", "dropped"} /\ sock \in {"connecting", "open", "retrying"} /\ sock # "open"
        /\ opened \in BOOLEAN /\ queue \in Seq(Messages) /\ wire \in Seq(Messages)
    BY <1>1, <2>1
  <2>4. \A i : i \notin 1 .. Len(wire)
    BY <1>2
  <2> QED
    BY <1>1, <2>2, <2>3, <2>4 DEF FeedShape
<1>4. ServerTyped /\ RunsInOrder
  BY <1>1, <1>2 DEF ServerTyped, RunsInOrder, Coming
<1>5. AsksTyped /\ WritesTyped /\ OverviewCatchesUp /\ RowCatchesUp
  BY <1>1 DEF AsksTyped, WritesTyped, OverviewCatchesUp, RowCatchesUp
<1>6. /\ scr \in ScreenRecords
      /\ scr.shown = None /\ scr.row = None /\ scr.status = "idle" /\ scr.rows = "idle" /\ ~scr.deleted /\ ~scr.timer
  BY <1>1 DEF Blank, ScreenRecords
<1>7. ScreenTyped /\ ShowsItsOwn
  BY <1>1, <1>6 DEF ScreenTyped, ScreenRecords, ShowsItsOwn
<1> QED
  BY <1>3, <1>4, <1>5, <1>7 DEF ScreenInv

LEMMA StepScreen ==
  ASSUME FeedAssumption, DetailAssumption, ScreenInv, [Next]_vars
  PROVE  ScreenInv'
<1>1. CASE DetailNext
  BY <1>1, CommitScreen, VisitScreen, PublishScreen, ServeFetchScreen, HearFetchScreen, ServeWriteScreen,
     HearWriteScreen, StartWriteScreen, UnmountScreen, ReloadRunsScreen, HearScreen, FlushScreen, ReadByScreen,
     HearOpenedScreen, DropScreen, ConnectionScreen
     DEF DetailNext
<1>2. CASE UNCHANGED <<feedVars, detailVars>>
  <2>1. FeedShape' /\ ServerTyped' /\ RunsInOrder' /\ Coming' = Coming /\ (Reopening <=> Reopening')
    BY <1>2, ServerUntouched DEF ScreenInv, detailVars, serverVars
  <2>2. ScreenTyped' /\ AsksTyped' /\ WritesTyped' /\ ShowsItsOwn' /\ OverviewCatchesUp' /\ RowCatchesUp'
    BY <1>2, <2>1 DEF ScreenInv, detailVars, ScreenTyped, ScreenRecords, AsksTyped, WritesTyped, ShowsItsOwn, OverviewCatchesUp,
                      RowCatchesUp, NewestFacts, NewestRun
  <2> QED
    BY <2>1, <2>2 DEF ScreenInv
<1> QED
  BY <1>1, <1>2 DEF Next, Detail, Viewer, Grid, Coverage, Usage, Sidebar, Refresh, Failure, vars

LEMMA ScreenAlways == Spec => []ScreenInv
<1>1. Init => ScreenInv
  BY InitScreen, DetailAssumption
<1>2. ScreenInv /\ [Next]_vars => ScreenInv'
  BY StepScreen, FeedAssumption, DetailAssumption
<1> QED
  BY <1>1, <1>2, PTL DEF Spec

\* ShowsItsOwn, whatever was in flight when the operator moved on: an answer on its way, an event, a
\* write of his own is about the dataset the screen is at or leaves what is shown alone (abortAll and
\* generation in stores/datasetDetail.ts).
THEOREM ShowsItsOwnAlways == Spec => []ShowsItsOwn
<1>1. ScreenInv => ShowsItsOwn
  BY DEF ScreenInv
<1> QED
  BY <1>1, ScreenAlways, PTL

\* QuietIsCurrent: with nothing on its way the screen shows what is committed, says that it may not,
\* or has met one of the four ways in which the code lets it go stale unsaid (useDatasetDetailLive.ts).
THEOREM QuietIsCurrentAlways == Spec => []QuietIsCurrent
<1>1. ASSUME ScreenInv, Quiet, at # None, missed = {}
      PROVE  Fresh \/ Told
  <2>1. sub = "on" /\ opened /\ ~Reopening
    <3>1. opened /\ Connected /\ sub # "none" /\ sub # "dropped"
      BY <1>1 DEF Quiet, ScreenInv, FeedShape, Connected
    <3> QED
      BY <1>1, <3>1 DEF Quiet, ScreenInv, FeedShape, Reopening
  <2>2. Coming = {}
    BY <1>1, OneItem DEF Quiet, Coming
  <2>3. scr.deleted \/ scr.problem \/ scr.status \in {"not-found", "error"}
        \/ (scr.shown = [id |-> at, v |-> store[at].ver] /\ ~store[at].gone)
    BY <1>1, <2>1, <2>2 DEF Quiet, ScreenInv, OverviewCatchesUp
  <2>4. scr.problem \/ scr.rows = "error" \/ scr.row = [id |-> at, v |-> store[at].run]
    BY <1>1, <2>1, <2>2 DEF Quiet, ScreenInv, RowCatchesUp
  <2> QED
    BY <2>3, <2>4 DEF Fresh, Told
<1>2. ScreenInv => QuietIsCurrent
  BY <1>1 DEF QuietIsCurrent
<1> QED
  BY <1>2, ScreenAlways, PTL

---------------------------------------------------------------------------
(* FailuresAreTold.  An error at the store says what failed, is traceable    *)
(* and carries its reset; on the hop this holds of the error that the store  *)
(* will rebuild from the reply.                                              *)

LogLines == [by : {"ingest", "store"}, id : Nat, chain : BOOLEAN]
Resets   == {NoReset} \cup Nat

\* The reasons a fetch of the ingest service fails with, and all there are.
IngestReasons == Refuses \cup VendorFails \cup RequiresResetAt

\* The reason an answer may give for what was raised.
Said ==
    IF ~origin.heard THEN {"PEER_UNAVAILABLE", "DEADLINE"}
    ELSE IF origin.failure.kind = "typed" THEN {origin.failure.reason}
    ELSE IF origin.failure.kind = "bug" /\ origin.at = "ingest" THEN {"PEER_INTERNAL"} ELSE {"none"}

Arose == IF origin.heard /\ origin.failure.reason # "FEED_NOT_AVAILABLE" THEN origin.at ELSE "store"

Chained == origin.failure.chain \/ ~origin.heard

\* The id an error carries already finds what its answer's must find, but for the line the answer adds.
Traced(id) ==
    LET found  == {i \in 1 .. Len(lines) : lines[i].id = id}
        chains == {i \in found : lines[i].chain}
    IN  /\ id \in 1 .. minted
        /\ Arose = "store" \/ \E i \in found : lines[i].by = Arose
        /\ Chained => \E i \in chains : lines[i].by = Arose
        /\ \A i, j \in chains : i = j

\* The error says what failed and until when, and either its id is traced, or it has none and the
\* line of its answer is all that is to be found.
Faithful(e) ==
    /\ e.kind \in {"typed", "bug", "http"}
    /\ e.reason \in Said
    /\ e.kind = "typed" => e.reason \in DOMAIN REASONS
    /\ e.reset \in Resets
    /\ e.reset = IF origin.heard THEN origin.failure.reset ELSE NoReset
    /\ e.kind = "http" <=> origin.failure.kind = "http"
    /\ e.kind # "typed" => e.id = 0 /\ e.reason = "none" /\ e.reset = NoReset /\ origin.heard
    /\ e.id = 0 => Arose = "store" /\ (Chained /\ e.kind = "typed" => e.chain)
    /\ e.id # 0 => Traced(e.id)

\* What the store makes of the reply.
Rebuilt == IF reply.code = "ack" THEN refusal_error(reply) ELSE from_rpc_error(reply)

\* Nothing is written or minted before the failure is dealt with, the error at the store and the one
\* to be rebuilt there are faithful, and so is what the run has recorded of it.
FailureInv ==
    /\ place \in {"none", "ingest", "hop", "store", "answered"}
    /\ moment \in Nat /\ minted \in Nat
    /\ lines \in Seq(LogLines) /\ \A i \in 1 .. Len(lines) : lines[i].id <= minted
    /\ origin = [at |-> origin.at, failure |-> origin.failure, heard |-> origin.heard]
    /\ place \in {"none", "ingest", "hop"} => ~recorded.kept /\ origin.failure.kind # "http"
    /\ place \in {"none", "ingest"} => minted = 0 /\ lines = <<>> /\ reply.code = "none" /\ origin.heard
    /\ place = "ingest" =>
         /\ origin = [at |-> "ingest", failure |-> failure, heard |-> TRUE]
         /\ failure.id = 0 /\ failure.reset \in Resets /\ failure.chain \in BOOLEAN
         /\ \/ failure.kind = "typed" /\ failure.reason \in IngestReasons
            \/ failure = Bug
         /\ failure.reason = "FEED_NOT_AVAILABLE" => failure.reset = NoReset /\ ~failure.chain
    /\ place = "hop" => Faithful(Rebuilt)
    /\ place = "store" => Faithful(failure)
    /\ place = "store" /\ recorded.kept => recorded.reason = failure.reason /\ recorded.id = failure.id
    /\ FailuresAreTold

\* The vocabulary's table, as far as this argument reads it: a reason that the ingest service raises
\* has a status of its own on the hop, and a refusal's status over HTTP is one of a refusal.
LEMMA Table ==
  /\ IngestReasons \subseteq DOMAIN REASONS
  /\ StoreRefuses \cup {"DATABASE_CONFLICT", "DATABASE_UNAVAILABLE", "DATABASE_INTEGRITY", "PEER_PROTOCOL_ERROR",
                        "PEER_UNAVAILABLE", "DEADLINE", "PEER_INTERNAL"} \subseteq DOMAIN REASONS
  /\ "none" \notin DOMAIN REASONS
  /\ \A r \in DOMAIN REASONS : GrpcCode(r) \notin {"ack", "UNAVAILABLE", "DEADLINE_EXCEEDED", "INTERNAL"}
  /\ \A r \in IngestReasons \ {"FEED_NOT_AVAILABLE"} : GrpcCode(r) # "none"
  /\ \A r \in DOMAIN REASONS : (Outcome(r) = "REFUSED") = (HttpStatus(r) \in 400 .. 428)
<1>1. /\ DOMAIN RefusedRows = InvalidReasons \cup {"FEED_NOT_AVAILABLE", "NOT_FOUND", "OWNER_MISMATCH",
           "OWN_OVERLAP_CONFLICT", "RANGE_COLLISION", "OVERRIDE_REQUIRED", "RANGE_SHRINK", "DATABASE_INTEGRITY"}
      /\ DOMAIN NotReadyRows = {"RATE_BUDGET", "VENDOR_RATE_LIMITED", "VENDOR_UNAVAILABLE", "VENDOR_AUTH", "DEADLINE",
           "PEER_UNAVAILABLE", "DATABASE_UNAVAILABLE", "DATABASE_CONFLICT", "PEER_INTERNAL", "PEER_PROTOCOL_ERROR"}
      /\ DOMAIN REASONS = DOMAIN RefusedRows \cup DOMAIN NotReadyRows
  BY DEF RefusedRows, NotReadyRows, REASONS
<1>2. /\ \A r \in InvalidReasons : REASONS[r] = <<"INVALID_ARGUMENT", 422>>
      /\ REASONS["FEED_NOT_AVAILABLE"] = <<"none", 422>>
      /\ REASONS["NOT_FOUND"] = <<"NOT_FOUND", 404>>
      /\ REASONS["OWNER_MISMATCH"] = <<"PERMISSION_DENIED", 403>>
      /\ \A r \in {"OWN_OVERLAP_CONFLICT", "RANGE_COLLISION"} : REASONS[r] = <<"ALREADY_EXISTS", 409>>
      /\ \A r \in {"OVERRIDE_REQUIRED", "RANGE_SHRINK"} : REASONS[r] = <<"FAILED_PRECONDITION", 409>>
      /\ REASONS["DATABASE_INTEGRITY"] = <<"none", 409>>
  BY DEF RefusedRows, REASONS, InvalidReasons
<1>3. /\ \A r \in {"RATE_BUDGET", "VENDOR_RATE_LIMITED"} : REASONS[r] = <<"FAILED_PRECONDITION", 429>>
      /\ \A r \in {"VENDOR_UNAVAILABLE", "VENDOR_AUTH"} : REASONS[r] = <<"FAILED_PRECONDITION", 503>>
      /\ REASONS["DEADLINE"] = <<"FAILED_PRECONDITION", 504>>
      /\ \A r \in {"PEER_UNAVAILABLE", "DATABASE_UNAVAILABLE", "DATABASE_CONFLICT"} : REASONS[r] = <<"none", 503>>
      /\ \A r \in {"PEER_INTERNAL", "PEER_PROTOCOL_ERROR"} : REASONS[r] = <<"none", 502>>
  BY DEF NotReadyRows, RefusedRows, REASONS, InvalidReasons
<1>4. /\ IngestReasons \subseteq DOMAIN REASONS
      /\ StoreRefuses \cup {"DATABASE_CONFLICT", "DATABASE_UNAVAILABLE", "DATABASE_INTEGRITY", "PEER_PROTOCOL_ERROR",
                            "PEER_UNAVAILABLE", "DEADLINE", "PEER_INTERNAL"} \subseteq DOMAIN REASONS
      /\ "none" \notin DOMAIN REASONS
  BY <1>1 DEF InvalidReasons, IngestReasons, Refuses, VendorFails, RequiresResetAt, StoreRefuses
<1>5. \A r \in DOMAIN REASONS : GrpcCode(r) \notin {"ack", "UNAVAILABLE", "DEADLINE_EXCEEDED", "INTERNAL"}
  BY <1>1, <1>2, <1>3 DEF GrpcCode
<1>6. \A r \in IngestReasons \ {"FEED_NOT_AVAILABLE"} : GrpcCode(r) # "none"
  BY <1>1, <1>2, <1>3 DEF GrpcCode, IngestReasons, Refuses, VendorFails, RequiresResetAt, InvalidReasons
<1>7. \A r \in DOMAIN REASONS : (Outcome(r) = "REFUSED") <=> (HttpStatus(r) \in 400 .. 428)
  <2>1. \A r \in DOMAIN RefusedRows : Outcome(r) = "REFUSED" /\ HttpStatus(r) \in 400 .. 428
    BY <1>1, <1>2 DEF HttpStatus, Outcome
  <2>2. \A r \in DOMAIN NotReadyRows : Outcome(r) = "NOT_READY" /\ HttpStatus(r) \notin 400 .. 428
    <3>1. \A r \in DOMAIN NotReadyRows : r \notin DOMAIN RefusedRows
      BY <1>1 DEF InvalidReasons
    <3> QED
      BY <1>1, <1>3, <3>1 DEF HttpStatus, Outcome
  <2> QED
    BY <1>1, <2>1, <2>2
<1> QED
  BY <1>4, <1>5, <1>6, <1>7

LEMMA DivIs ==
  ASSUME NEW a \in Nat, NEW b \in Nat \ {0}
  PROVE  a \div b \in Nat /\ b * (a \div b) <= a /\ a < b * (a \div b) + b
  OBVIOUS

\* The wait rounds up: waiting it out passes the reset, by less than a second.
LEMMA WaitPasses ==
  ASSUME NEW r \in Nat, moment \in Nat
  PROVE  /\ RetryAfter(r) # NoReset
         /\ moment + RetryAfter(r) * Second >= r
         /\ moment + RetryAfter(r) * Second < r + Second \/ RetryAfter(r) = 0
<1>1. Second \in Nat \ {0} /\ r # NoReset
  BY ErrorAssumption
<1>2. CASE r <= moment
  BY <1>1, <1>2, ErrorAssumption DEF RetryAfter
<1>3. CASE ~(r <= moment)
  <2> DEFINE a == r - moment + Second - 1
             q == a \div Second
  <2>1. a \in Nat /\ a = r - moment + Second - 1
    BY <1>1, <1>3
  <2>2. RetryAfter(r) = q
    BY <1>1, <1>3 DEF RetryAfter
  <2> HIDE DEF a
  <2>3. q \in Nat /\ Second * q <= a /\ a < Second * q + Second
    BY <1>1, <2>1, DivIs
  <2> HIDE DEF q
  <2>4. q * Second = Second * q /\ q * Second \in Nat
    BY <1>1, <2>3
  <2>5. q # NoReset
    BY <2>3, ErrorAssumption
  <2> QED
    BY <1>1, <2>1, <2>2, <2>3, <2>4, <2>5
<1> QED
  BY <1>2, <1>3

LEMMA InitFailure == ErrorInit => FailureInv
BY ErrorAssumption DEF ErrorInit, FailureInv, FailuresAreTold, Answered, NoFailure, NoRun, NoReply, LogLines

\* What is in the store, and true of the failure there, stays so while nothing is answered.
LEMMA FaithfulInStore ==
  ASSUME NEW e, Faithful(e), failure' = e, UNCHANGED <<minted, lines, origin>>
  PROVE  Faithful(failure)'
BY DEF Faithful, Traced, Said, Arose, Chained

LEMMA HearFailureKeeps ==
  ASSUME FailureInv, HearFailure
  PROVE  FailureInv'
<1>1. PICK e : e = Rebuilt
  OBVIOUS
<1>2. Faithful(e) /\ failure' = e
  BY <1>1 DEF FailureInv, HearFailure, Rebuilt
<1>3. Faithful(failure)'
  BY <1>2, FaithfulInStore DEF HearFailure
<1> QED
  BY <1>3 DEF FailureInv, HearFailure, FailuresAreTold, Answered

LEMMA RecordFailureKeeps ==
  ASSUME FailureInv, RecordFailure
  PROVE  FailureInv'
<1>1. PICK e : e = failure
  OBVIOUS
<1>2. Faithful(failure)'
  BY <1>1, FaithfulInStore DEF RecordFailure, FailureInv
<1> QED
  BY <1>2 DEF FailureInv, RecordFailure, FailuresAreTold, Answered, own_error_id

LEMMA MomentPassesKeeps ==
  ASSUME FailureInv, MomentPasses
  PROVE  FailureInv'
<1>1. PICK e : e = failure
  OBVIOUS
<1>2. place = "store" => Faithful(failure)'
  BY <1>1, FaithfulInStore DEF MomentPasses, FailureInv
<1>3. place = "hop" => Faithful(Rebuilt)'
  BY DEF MomentPasses, FailureInv, Faithful, Traced, Said, Arose, Chained, Rebuilt
<1> QED
  BY <1>2, <1>3 DEF FailureInv, MomentPasses, FailuresAreTold, Answered

\* A failure raised in the ingest service stands there as it was raised.
LEMMA RaiseInIngestKeeps ==
  ASSUME FailureInv, RaiseInIngest
  PROVE  FailureInv'
<1>1. /\ place = "none" /\ place' = "ingest" /\ minted = 0 /\ lines = <<>> /\ reply.code = "none"
      /\ UNCHANGED <<moment, request, reply, recorded, answer, minted, lines>>
      /\ ~recorded.kept /\ moment \in Nat
  BY DEF FailureInv, RaiseInIngest, Raise
<1>2. PICK e : failure' = e /\ origin' = [at |-> "ingest", failure |-> e, heard |-> TRUE]
               /\ \/ \E r \in Refuses : e = Typed(r, 0, NoReset, FALSE)
                  \/ \E r \in VendorFails : e = Typed(r, 0, NoReset, TRUE)
                  \/ \E d \in Delays : e = Typed("RATE_BUDGET", 0, moment + d, FALSE)
                  \/ \E d \in Delays : e = Typed("VENDOR_RATE_LIMITED", 0, moment + d, TRUE)
                  \/ e = Bug
  BY DEF RaiseInIngest, Raise
<1>3. /\ e.id = 0 /\ e.reset \in Resets /\ e.chain \in BOOLEAN
      /\ (e.kind = "typed" /\ e.reason \in IngestReasons) \/ e = Bug
      /\ e.reason = "FEED_NOT_AVAILABLE" => e.reset = NoReset /\ ~e.chain
      /\ e.kind # "http"
  <2> USE DEF Typed, Bug, Resets, IngestReasons
  <2>1. CASE \E r \in Refuses : e = Typed(r, 0, NoReset, FALSE)
    BY <2>1
  <2>2. CASE \E r \in VendorFails : e = Typed(r, 0, NoReset, TRUE)
    BY <2>2 DEF VendorFails
  <2>3. CASE \E d \in Delays : e = Typed("RATE_BUDGET", 0, moment + d, FALSE)
    BY <1>1, <2>3, ErrorAssumption DEF RequiresResetAt
  <2>4. CASE \E d \in Delays : e = Typed("VENDOR_RATE_LIMITED", 0, moment + d, TRUE)
    BY <1>1, <2>4, ErrorAssumption DEF RequiresResetAt
  <2>5. CASE e = Bug
    BY <2>5
  <2> HIDE DEF Typed, Bug, Resets, IngestReasons
  <2> QED
    BY <1>2, <2>1, <2>2, <2>3, <2>4, <2>5
<1> QED
  BY <1>1, <1>2, <1>3 DEF FailureInv, FailuresAreTold, Answered, LogLines, Resets

\* What the store raises is faithful to itself: it is what the failure was raised as.
LEMMA RaisedInStore ==
  ASSUME FailureInv, NEW e, Raise("store", e),
         e.kind \in {"typed", "bug", "http"}, e.reset = NoReset,
         e.kind = "typed" => e.reason \in DOMAIN REASONS,
         e.kind # "typed" => e.id = 0 /\ e.reason = "none",
         e.id # 0 => Traced(e.id)',
         minted' \in Nat, lines' \in Seq(LogLines), \A i \in 1 .. Len(lines') : lines'[i].id <= minted'
  PROVE  FailureInv'
<1>1. /\ place = "none" /\ place' = "store" /\ failure' = e
      /\ origin' = [at |-> "store", failure |-> e, heard |-> TRUE]
      /\ UNCHANGED <<moment, request, reply, recorded, answer>> /\ ~recorded.kept /\ moment \in Nat
  BY DEF FailureInv, Raise
<1>2. Arose' = "store" /\ (Chained' => e.chain) /\ e.reason \in Said'
  BY <1>1 DEF Arose, Chained, Said
<1>3. Faithful(failure)'
  BY <1>1, <1>2 DEF Faithful, Resets
<1> QED
  BY <1>1, <1>3 DEF FailureInv, FailuresAreTold, Answered

LEMMA StreamBreaksKeeps ==
  ASSUME FailureInv, StreamBreaks
  PROVE  FailureInv'
<1>1. PICK chain \in BOOLEAN : Raise("store", Typed("PEER_PROTOCOL_ERROR", 0, NoReset, chain))
  BY DEF StreamBreaks
<1>2. PICK e : e = Typed("PEER_PROTOCOL_ERROR", 0, NoReset, chain)
  OBVIOUS
<1>3. e.kind = "typed" /\ e.reason \in DOMAIN REASONS /\ e.reset = NoReset /\ e.id = 0
  BY <1>2, Table DEF Typed
<1>4. minted' \in Nat /\ lines' \in Seq(LogLines) /\ \A i \in 1 .. Len(lines') : lines'[i].id <= minted'
  BY DEF FailureInv, StreamBreaks
<1>5. Raise("store", e)
  BY <1>1, <1>2
<1> QED
  BY <1>3, <1>4, <1>5, RaisedInStore

LEMMA RaiseInStoreKeeps ==
  ASSUME FailureInv, RaiseInStore
  PROVE  FailureInv'
<1>1. place = "none" /\ minted = 0 /\ lines = <<>>
  BY DEF FailureInv, RaiseInStore, Raise
<1>2. ASSUME NEW e, Raise("store", e), UNCHANGED <<minted, lines>>,
             e = Bug \/ e = Plain \/ \E r \in StoreRefuses : e = Typed(r, 0, NoReset, FALSE)
      PROVE  FailureInv'
  <2>1. /\ e.kind \in {"typed", "bug", "http"} /\ e.reset = NoReset /\ e.id = 0
        /\ e.kind = "typed" => e.reason \in DOMAIN REASONS
        /\ e.kind # "typed" => e.reason = "none"
    BY <1>2, Table DEF Typed, Bug, Plain
  <2>2. minted' \in Nat /\ lines' \in Seq(LogLines) /\ \A i \in 1 .. Len(lines') : lines'[i].id <= minted'
    BY <1>2 DEF FailureInv
  <2> QED
    BY <1>2, <2>1, <2>2, RaisedInStore
<1>3. ASSUME NEW r \in {"DATABASE_CONFLICT", "DATABASE_UNAVAILABLE", "DATABASE_INTEGRITY"},
             Raise("store", Typed(r, minted + 1, NoReset, TRUE)), minted' = minted + 1,
             lines' = Append(lines, Line("store", minted + 1, TRUE))
      PROVE  FailureInv'
  <2>1. PICK e : e = Typed(r, minted + 1, NoReset, TRUE)
    OBVIOUS
  <2>2. /\ e.kind = "typed" /\ e.reset = NoReset /\ e.id = 1
        /\ e.reason \in DOMAIN REASONS /\ e.reason # "FEED_NOT_AVAILABLE"
    BY <1>1, <2>1, Table DEF Typed
  <2>3. /\ minted' = 1 /\ Len(lines') = 1
        /\ lines'[1] = [by |-> "store", id |-> 1, chain |-> TRUE]
        /\ lines' \in Seq(LogLines)
    BY <1>1, <1>3 DEF Line, LogLines
  <2>4. \A i \in 1 .. Len(lines') : lines'[i].id <= minted'
    BY <2>3
  <2>5. Arose' = "store"
    BY <1>3 DEF Arose, Raise
  <2>6. Traced(e.id)'
    BY <2>2, <2>3, <2>5 DEF Traced
  <2>7. Raise("store", e)
    BY <1>3, <2>1
  <2> QED
    BY <2>2, <2>3, <2>4, <2>6, <2>7, RaisedInStore
<1>4. ASSUME Raise("store", Bug), lines' = Append(lines, Line("store", 0, TRUE)), UNCHANGED minted
      PROVE  FailureInv'
  <2>1. PICK e : e = Bug
    OBVIOUS
  <2>2. e.kind = "bug" /\ e.reset = NoReset /\ e.id = 0 /\ e.reason = "none"
    BY <2>1 DEF Bug
  <2>3. /\ minted' = 0 /\ Len(lines') = 1 /\ lines'[1] = [by |-> "store", id |-> 0, chain |-> TRUE]
        /\ lines' \in Seq(LogLines)
    BY <1>1, <1>4 DEF Line, LogLines
  <2>4. \A i \in 1 .. Len(lines') : lines'[i].id <= minted'
    BY <2>3
  <2>5. Raise("store", e)
    BY <1>4, <2>1
  <2> QED
    BY <2>2, <2>3, <2>4, <2>5, RaisedInStore
<1> QED
  <2>1. CASE /\ UNCHANGED <<minted, lines>>
             /\ \/ \E r \in StoreRefuses : Raise("store", Typed(r, 0, NoReset, FALSE))
                \/ Raise("store", Bug)
                \/ request = "other" /\ Raise("store", Plain)
    BY <1>2, <2>1
  <2> QED
    BY <1>3, <1>4, <2>1 DEF RaiseInStore

\* Whatever the transport says, the store rebuilds it as a failure of its own.
LEMMA TransportFailsKeeps ==
  ASSUME FailureInv, TransportFails
  PROVE  FailureInv'
<1>1. PICK code \in {"UNAVAILABLE", "DEADLINE_EXCEEDED"} : reply' = [NoReply EXCEPT !.code = code]
  BY DEF TransportFails
<1>2. reply'.code = code /\ reply'.code # "ack"
  BY <1>1 DEF NoReply
<1>3. /\ Rebuilt'.kind = "typed" /\ Rebuilt'.id = 0 /\ Rebuilt'.reset = NoReset /\ Rebuilt'.chain
      /\ Rebuilt'.reason \in {"PEER_UNAVAILABLE", "DEADLINE"} /\ Rebuilt'.reason \in DOMAIN REASONS
  BY <1>1, <1>2, Table DEF Rebuilt, from_rpc_error, Typed
<1>4. /\ place \in {"none", "ingest", "hop"} /\ place' = "hop"
      /\ UNCHANGED <<moment, minted, lines, recorded>>
      /\ origin' = [at |-> origin.at, failure |-> origin.failure, heard |-> FALSE]
  BY DEF TransportFails, FailureInv
<1>5. Faithful(Rebuilt)'
  <2>1. ~origin'.heard /\ origin'.failure.kind # "http"
    BY <1>4 DEF FailureInv
  <2>2. Arose' = "store" /\ Said' = {"PEER_UNAVAILABLE", "DEADLINE"}
    BY <2>1 DEF Arose, Said
  <2> QED
    BY <1>3, <2>1, <2>2 DEF Faithful, Resets
<1> QED
  BY <1>4, <1>5 DEF FailureInv, FailuresAreTold, Answered

\* What the boundary of the ingest service makes of a failure: the first id, and at most one line.
LEMMA OntoTheHop ==
  ASSUME FailureInv, NEW w, Replies(w), NEW e, e = Rebuilt',
         minted' = 1, lines' \in Seq(LogLines), \A i \in 1 .. Len(lines') : lines'[i].id <= 1,
         e.kind = "typed", e.reason \in Said, e.reason \in DOMAIN REASONS,
         e.reset = failure.reset, e.id = 1, Traced(1)'
  PROVE  FailureInv'
<1>1. /\ place = "ingest" /\ place' = "hop"
      /\ UNCHANGED <<moment, recorded, origin>>
      /\ origin.heard /\ origin.failure.reset = failure.reset /\ failure.reset \in Resets
      /\ origin.failure.kind # "http"
  BY DEF FailureInv, Replies, Bug
<1>2. Said' = Said
  BY <1>1 DEF Said
<1>3. Faithful(Rebuilt)'
  BY <1>1, <1>2 DEF Faithful
<1> QED
  BY <1>1, <1>3 DEF FailureInv, FailuresAreTold, Answered

LEMMA RefuseInBandKeeps ==
  ASSUME FailureInv, RefuseInBand
  PROVE  FailureInv'
<1> DEFINE w == [code |-> "ack", reason |-> failure.reason, id |-> 1, reset |-> NoReset]
<1>1. /\ place = "ingest" /\ failure.reason = "FEED_NOT_AVAILABLE" /\ failure.id = 0
      /\ minted = 0 /\ lines = <<>> /\ lines' = lines /\ minted' = 1
      /\ failure.reset = NoReset /\ ~failure.chain
      /\ origin = [at |-> "ingest", failure |-> failure, heard |-> TRUE] /\ origin' = origin
  BY DEF RefuseInBand, Replies, FailureInv, Mints, own_error_id
<1>2. Replies(w) /\ reply' = w
  BY <1>1 DEF RefuseInBand, Replies, IdOf, own_error_id
<1>3. PICK e : e = Rebuilt'
  OBVIOUS
<1>4. e.kind = "typed" /\ e.reason = "FEED_NOT_AVAILABLE" /\ e.id = 1 /\ e.reset = failure.reset
  BY <1>1, <1>2, <1>3 DEF Rebuilt, refusal_error, Typed
<1>5. failure.kind = "typed" /\ "FEED_NOT_AVAILABLE" \in DOMAIN REASONS
  BY <1>1, Table DEF FailureInv, Bug, IngestReasons, Refuses
<1>6. e.reason \in Said
  BY <1>1, <1>4, <1>5 DEF Said
<1>7. Arose' = "store" /\ ~Chained'
  BY <1>1 DEF Arose, Chained
<1>8. Traced(1)'
  BY <1>1, <1>7 DEF Traced
<1>9. lines' \in Seq(LogLines) /\ \A i \in 1 .. Len(lines') : lines'[i].id <= 1
  BY <1>1 DEF FailureInv
<1> HIDE DEF w
<1> QED
  BY <1>1, <1>2, <1>3, <1>4, <1>5, <1>6, <1>8, <1>9, OntoTheHop

\* The line that the boundary writes under the id it mints.
LEMMA LoggedInIngest ==
  ASSUME place = "ingest", FailureInv, origin' = origin, minted' = 1, NEW c \in BOOLEAN,
         failure.reason # "FEED_NOT_AVAILABLE", c = failure.chain,
         lines' = Append(lines, [by |-> "ingest", id |-> 1, chain |-> c])
  PROVE  Traced(1)' /\ lines' \in Seq(LogLines) /\ \A i \in 1 .. Len(lines') : lines'[i].id <= 1
<1>1. Len(lines') = 1 /\ lines'[1] = [by |-> "ingest", id |-> 1, chain |-> c] /\ lines' \in Seq(LogLines)
  BY DEF FailureInv, LogLines
<1>2. Arose' = "ingest" /\ (Chained' <=> c)
  BY DEF FailureInv, Arose, Chained
<1>3. \A i \in 1 .. Len(lines') : lines'[i].id <= 1
  BY <1>1
<1> QED
  BY <1>1, <1>2, <1>3 DEF Traced

LEMMA AbortTypedKeeps ==
  ASSUME FailureInv, abort_with_error
  PROVE  FailureInv'
<1> DEFINE w == render(failure, 1)
<1>1. /\ place = "ingest" /\ failure.reason # "FEED_NOT_AVAILABLE" /\ failure.id = 0
      /\ minted = 0 /\ minted' = 1 /\ failure.chain \in BOOLEAN /\ failure.kind = "typed"
      /\ origin = [at |-> "ingest", failure |-> failure, heard |-> TRUE] /\ origin' = origin
  BY DEF abort_with_error, Replies, FailureInv, Mints, own_error_id, Renders
<1>2. Replies(w) /\ reply' = w /\ lines' = Append(lines, [by |-> "ingest", id |-> 1, chain |-> failure.chain])
  BY <1>1 DEF abort_with_error, Replies, IdOf, own_error_id, LineOf, Line
<1>3. failure.reason \in IngestReasons /\ failure.reason \in DOMAIN REASONS
  BY <1>1, Table DEF FailureInv, Bug
<1>4. GrpcCode(failure.reason) \notin {"ack", "UNAVAILABLE", "DEADLINE_EXCEEDED", "INTERNAL"}
  BY <1>3, Table
<1>5. PICK e : e = Rebuilt'
  OBVIOUS
<1>6. e.kind = "typed" /\ e.reason = failure.reason /\ e.id = 1 /\ e.reset = failure.reset
  BY <1>2, <1>4, <1>5 DEF Rebuilt, from_rpc_error, render, Typed
<1>7. e.reason \in Said
  BY <1>1, <1>6 DEF Said
<1>8. Traced(1)' /\ lines' \in Seq(LogLines) /\ \A i \in 1 .. Len(lines') : lines'[i].id <= 1
  BY <1>1, <1>2, LoggedInIngest
<1> HIDE DEF w
<1> QED
  BY <1>1, <1>2, <1>3, <1>5, <1>6, <1>7, <1>8, OntoTheHop

LEMMA AbortBugKeeps ==
  ASSUME FailureInv, abort_with_bug
  PROVE  FailureInv'
<1> DEFINE w == [NoReply EXCEPT !.code = "INTERNAL", !.id = 1]
<1>1. /\ place = "ingest" /\ failure.reason # "FEED_NOT_AVAILABLE"
      /\ minted = 0 /\ minted' = 1 /\ ~Renders(failure)
      /\ origin = [at |-> "ingest", failure |-> failure, heard |-> TRUE] /\ origin' = origin
  BY DEF abort_with_bug, Replies, FailureInv
<1>2. failure = Bug
  BY <1>1, Table DEF FailureInv, Renders
<1>3. Replies(w) /\ reply' = w /\ lines' = Append(lines, [by |-> "ingest", id |-> 1, chain |-> TRUE])
  BY <1>1 DEF abort_with_bug, Replies, Line
<1>4. PICK e : e = Rebuilt'
  OBVIOUS
<1>5. e.kind = "typed" /\ e.reason = "PEER_INTERNAL" /\ e.id = 1 /\ e.reset = failure.reset
  BY <1>2, <1>3, <1>4 DEF Rebuilt, from_rpc_error, NoReply, Typed, Bug
<1>6. e.reason \in Said /\ e.reason \in DOMAIN REASONS /\ failure.chain = TRUE
  BY <1>1, <1>2, <1>5, Table DEF Said, Bug
<1>7. Traced(1)' /\ lines' \in Seq(LogLines) /\ \A i \in 1 .. Len(lines') : lines'[i].id <= 1
  BY <1>1, <1>3, <1>6, LoggedInIngest
<1> HIDE DEF w
<1> QED
  BY <1>1, <1>3, <1>4, <1>5, <1>6, <1>7, OntoTheHop

\* The line that the answer writes completes what its id must find.
LEMMA LoggedInStore ==
  ASSUME FailureInv, UNCHANGED origin, NEW n \in Nat \ {0}, NEW c \in BOOLEAN,
         lines' = Append(lines, [by |-> "store", id |-> n, chain |-> c]), minted' \in Nat, n <= minted', minted <= minted',
         origin.failure.kind # "http",
         \/ n = minted + 1 /\ Arose = "store" /\ (Chained => c)
         \/ ~c /\ Traced(n),
         answer'.id = n
  PROVE  /\ AnswerIsTraceable'
         /\ lines' \in Seq(LogLines) /\ \A i \in 1 .. Len(lines') : lines'[i].id <= minted'
<1>1. lines \in Seq(LogLines) /\ \A i \in 1 .. Len(lines) : lines[i].id <= minted
  BY DEF FailureInv
<1> DEFINE k == Len(lines) + 1
<1>2. /\ k \in Nat /\ Len(lines') = k /\ lines' \in Seq(LogLines)
      /\ lines'[k].by = "store" /\ lines'[k].id = n /\ lines'[k].chain = c
      /\ \A i \in 1 .. Len(lines) : lines'[i] = lines[i]
  BY <1>1 DEF LogLines
<1> HIDE DEF k
<1>3. k = Len(lines) + 1
  BY DEF k
<1>4. \A i \in 1 .. Len(lines') : i \in 1 .. Len(lines) \/ i = k
  BY <1>1, <1>2, <1>3
<1>5. \A i \in 1 .. Len(lines') : lines'[i].id <= minted'
  <2>1. ASSUME NEW i \in 1 .. Len(lines)
        PROVE  lines'[i].id <= minted'
    <3>1. lines[i].id \in Nat /\ lines[i].id <= minted /\ minted \in Nat
      <4>1. lines[i] \in LogLines
        BY <1>1
      <4> QED
        BY <1>1, <4>1 DEF FailureInv, LogLines
    <3>2. lines'[i].id = lines[i].id
      BY <1>2
    <3> QED
      BY <3>1, <3>2
  <2> QED
    BY <1>2, <1>4, <2>1
<1>6. DOMAIN lines' = 1 .. k /\ Arose' = Arose /\ (Chained' <=> Chained)
  BY <1>1, <1>2 DEF LogLines, Arose, Chained
<1>7. CASE n = minted + 1 /\ Arose = "store" /\ (Chained => c)
  <2>1. \A i \in DOMAIN lines' : lines'[i].id = n => i = k
    BY <1>1, <1>2, <1>4, <1>6, <1>7 DEF FailureInv, LogLines
  <2>2. k \in DOMAIN lines'
    BY <1>1, <1>3, <1>6
  <2> QED
    BY <1>2, <1>5, <1>6, <1>7, <2>1, <2>2 DEF AnswerIsTraceable, Arose, Chained
<1>8. CASE ~c /\ Traced(n)
  <2>1. \A i \in DOMAIN lines' : lines'[i].id = n /\ lines'[i].chain => i \in 1 .. Len(lines) /\ lines[i].id = n /\ lines[i].chain
    BY <1>2, <1>4, <1>6, <1>8
  <2>2. k \in DOMAIN lines' /\ 1 .. Len(lines) \subseteq DOMAIN lines'
    BY <1>1, <1>3, <1>6
  <2>3. \E i \in DOMAIN lines' : lines'[i].id = n /\ lines'[i].by = Arose
    BY <1>2, <1>8, <2>2 DEF Traced
  <2>4. Chained => \E i \in DOMAIN lines' : lines'[i].id = n /\ lines'[i].chain /\ lines'[i].by = Arose
    BY <1>2, <1>8, <2>2 DEF Traced
  <2>5. \A i, j \in DOMAIN lines' : lines'[i].id = n /\ lines'[i].chain /\ lines'[j].id = n /\ lines'[j].chain => i = j
    BY <1>8, <2>1 DEF Traced
  <2> QED
    BY <1>2, <1>5, <1>6, <2>3, <2>4, <2>5 DEF AnswerIsTraceable, Arose, Chained
<1> QED
  BY <1>7, <1>8

LEMMA AnswerTypedKeeps ==
  ASSUME FailureInv, AnswerTyped
  PROVE  FailureInv'
<1>1. PICK n : n = IdOf(failure)
  OBVIOUS
<1>2. PICK c \in BOOLEAN : c = (own_error_id(failure) = 0 /\ failure.chain)
  OBVIOUS
<1>3. /\ place = "store" /\ place' = "answered" /\ Faithful(failure) /\ failure.kind = "typed"
      /\ UNCHANGED <<moment, request, reply, recorded, origin>>
      /\ answer'.status = HttpStatus(failure.reason) /\ answer'.reason = failure.reason /\ answer'.id = n
      /\ answer'.reset = failure.reset /\ answer'.wait = RetryAfter(failure.reset)
      /\ lines' = Append(lines, [by |-> "store", id |-> n, chain |-> c])
  BY <1>1, <1>2 DEF AnswerTyped, Answers, FailureInv, LineOf, Line
<1>4. /\ failure.id = 0 => n = minted + 1 /\ minted' = minted + 1
      /\ failure.id # 0 => n = failure.id /\ minted' = minted
  BY <1>1 DEF AnswerTyped, Mints, IdOf, own_error_id
<1>5. /\ n \in Nat \ {0} /\ minted' \in Nat /\ n <= minted' /\ minted <= minted'
      /\ \/ n = minted + 1 /\ Arose = "store" /\ (Chained => c)
         \/ ~c /\ Traced(n)
  <2>1. minted \in Nat
    BY DEF FailureInv
  <2>2. CASE failure.id = 0
    <3>1. Arose = "store" /\ (Chained => failure.chain)
      BY <1>3, <2>2 DEF Faithful
    <3>2. Chained => c
      BY <1>2, <2>2, <3>1 DEF own_error_id
    <3> QED
      BY <1>4, <2>1, <2>2, <3>1, <3>2
  <2>3. CASE failure.id # 0
    <3>1. Traced(n) /\ n \in 1 .. minted
      BY <1>3, <1>4, <2>3 DEF Faithful, Traced
    <3>2. ~c
      BY <1>2, <2>3 DEF own_error_id
    <3> QED
      BY <1>4, <2>1, <2>3, <3>1, <3>2
  <2> QED
    BY <2>2, <2>3
<1>6. /\ AnswerIsTraceable'
      /\ lines' \in Seq(LogLines) /\ \A i \in 1 .. Len(lines') : lines'[i].id <= minted'
  <2>1. origin.failure.kind # "http" /\ UNCHANGED origin
    BY <1>3 DEF Faithful
  <2> QED
    BY <1>3, <1>5, <2>1, LoggedInStore
<1>7. AnswerSaysWhatFailed'
  <2>1. Said' = Said /\ answer'.reason \in Said /\ answer'.reason \in DOMAIN REASONS
    BY <1>3 DEF Said, Faithful
  <2>2. (Outcome(answer'.reason) = "REFUSED") = (answer'.status \in 400 .. 428)
    BY <1>3, <2>1, Table
  <2> QED
    BY <2>1, <2>2 DEF AnswerSaysWhatFailed, Said
<1>8. WaitIsEnough'
  <2>1. /\ failure.reset \in Resets /\ moment \in Nat /\ moment' = moment
        /\ answer'.reset = IF origin'.heard THEN origin'.failure.reset ELSE NoReset
    BY <1>3 DEF Faithful, FailureInv
  <2>2. PICK r : r = failure.reset
    OBVIOUS
  <2>3. CASE r = NoReset
    BY <1>3, <2>1, <2>2, <2>3 DEF WaitIsEnough, RetryAfter
  <2>4. CASE r \in Nat
    <3>1. r # NoReset
      BY <2>4, ErrorAssumption
    <3>2. /\ answer'.wait # NoReset
          /\ moment' + answer'.wait * Second >= r
          /\ moment' + answer'.wait * Second < r + Second \/ answer'.wait = 0
      BY <1>3, <2>1, <2>2, <2>4, WaitPasses
    <3> QED
      BY <1>3, <2>1, <2>2, <3>1, <3>2 DEF WaitIsEnough
  <2> QED
    BY <2>1, <2>2, <2>3, <2>4 DEF Resets
<1>9. RunAgrees'
  BY <1>3, <1>4 DEF RunAgrees, FailureInv
<1> QED
  BY <1>3, <1>5, <1>6, <1>7, <1>8, <1>9 DEF FailureInv, FailuresAreTold

LEMMA AnswerBugKeeps ==
  ASSUME FailureInv, AnswerBug
  PROVE  FailureInv'
<1>1. PICK n : n = minted + 1
  OBVIOUS
<1>2. /\ place = "store" /\ place' = "answered" /\ Faithful(failure) /\ failure.kind = "bug"
      /\ UNCHANGED <<moment, request, reply, recorded, origin>>
      /\ answer'.reason = "none" /\ answer'.id = n /\ answer'.reset = NoReset /\ answer'.wait = NoReset
      /\ lines' = Append(lines, [by |-> "store", id |-> n, chain |-> TRUE])
      /\ n \in Nat \ {0} /\ minted' = n /\ minted \in Nat
  BY <1>1 DEF AnswerBug, Answers, FailureInv, Line, NoAnswer
<1>3. failure.id = 0 /\ Arose = "store" /\ failure.reason = "none" /\ failure.reason \in Said
      /\ failure.reset = NoReset /\ origin.heard /\ origin.failure.kind # "http" /\ origin.failure.reset = NoReset
  BY <1>2 DEF Faithful
<1>4. /\ AnswerIsTraceable'
      /\ lines' \in Seq(LogLines) /\ \A i \in 1 .. Len(lines') : lines'[i].id <= minted'
  <2>1. PICK c \in BOOLEAN : c = TRUE
    OBVIOUS
  <2>2. /\ lines' = Append(lines, [by |-> "store", id |-> n, chain |-> c]) /\ UNCHANGED origin
        /\ minted' \in Nat /\ n <= minted' /\ minted <= minted'
        /\ n = minted + 1 /\ Arose = "store" /\ (Chained => c)
    BY <1>1, <1>2, <1>3, <2>1
  <2> QED
    BY <1>2, <1>3, <2>2, LoggedInStore
<1>5. AnswerSaysWhatFailed' /\ WaitIsEnough'
  BY <1>2, <1>3 DEF AnswerSaysWhatFailed, Said, WaitIsEnough
<1>6. RunAgrees'
  BY <1>2, <1>3 DEF RunAgrees, FailureInv
<1> QED
  BY <1>2, <1>4, <1>5, <1>6 DEF FailureInv, FailuresAreTold

LEMMA AnswerPlainKeeps ==
  ASSUME FailureInv, AnswerPlain
  PROVE  FailureInv'
<1>1. /\ place = "store" /\ place' = "answered" /\ Faithful(failure) /\ failure.kind = "http"
      /\ UNCHANGED <<moment, request, reply, recorded, origin, minted, lines>>
      /\ answer'.reason = "none" /\ answer'.id = 0 /\ answer'.reset = NoReset /\ answer'.wait = NoReset
  BY DEF AnswerPlain, Answers, FailureInv, NoAnswer
<1>2. failure.id = 0 /\ failure.reason = "none" /\ failure.reason \in Said
      /\ failure.reset = NoReset /\ origin.heard /\ origin.failure.kind = "http" /\ origin.failure.reset = NoReset
  BY <1>1 DEF Faithful
<1>3. AnswerSaysWhatFailed' /\ WaitIsEnough' /\ AnswerIsTraceable'
  BY <1>1, <1>2 DEF AnswerSaysWhatFailed, Said, WaitIsEnough, AnswerIsTraceable
<1>4. RunAgrees'
  BY <1>1, <1>2 DEF RunAgrees, FailureInv
<1> QED
  BY <1>1, <1>3, <1>4 DEF FailureInv, FailuresAreTold

LEMMA StepFailure ==
  ASSUME FailureInv, [Next]_vars
  PROVE  FailureInv'
<1>1. CASE ErrorNext
  BY <1>1, RaiseInIngestKeeps, RaiseInStoreKeeps, StreamBreaksKeeps, RefuseInBandKeeps, AbortTypedKeeps, AbortBugKeeps,
     TransportFailsKeeps, HearFailureKeeps, RecordFailureKeeps, AnswerTypedKeeps, AnswerBugKeeps, AnswerPlainKeeps,
     MomentPassesKeeps DEF ErrorNext
<1>2. CASE UNCHANGED errorVars
  <2>1. UNCHANGED <<moment, place, failure, reply, minted, lines, recorded, answer, origin>>
    BY <1>2 DEF errorVars
  <2>2. FailuresAreTold' = FailuresAreTold
    BY <2>1 DEF FailuresAreTold, Answered, AnswerSaysWhatFailed, AnswerIsTraceable, WaitIsEnough, RunAgrees
  <2>3. PICK e : e = failure
    OBVIOUS
  <2>4. place = "store" => Faithful(failure)'
    BY <2>1, <2>3, FaithfulInStore DEF FailureInv
  <2>5. place = "hop" => Faithful(Rebuilt)'
    BY <2>1 DEF FailureInv, Faithful, Traced, Said, Arose, Chained, Rebuilt
  <2> QED
    BY <2>1, <2>2, <2>4, <2>5 DEF FailureInv
<1> QED
  BY <1>1, <1>2 DEF Next, vars, Detail, Viewer, Grid, Coverage, Usage, Sidebar, Refresh, Failure

\* Whatever fails, and however its answer travels, the caller and the run are told what failed, an id
\* that finds it in the log where it arose with its chain written once, and a wait that is enough
\* (errors/boundary.py, from_rpc_error, _describe, retry_after).
THEOREM FailuresAreToldAlways == Spec => []FailuresAreTold
<1>1. Init => FailureInv
  BY InitFailure DEF Init
<1>2. FailureInv => FailuresAreTold
  BY DEF FailureInv
<1> QED
  BY <1>1, <1>2, StepFailure, PTL DEF Spec

---------------------------------------------------------------------------
(* OncePerClose.  What the history tells of a dataset is what its last      *)
(* answer was: its own runs keep their order, and a run that does not show   *)
(* the dataset is found by its request unless the dataset has moved on from  *)
(* the tail it asked for, and then so have all older ones.                   *)

\* A run says what came of it only once it is finished.
Runs == {r \in [of : Subs \cup {RequestOf[d] : d \in Subs}, from : Int, vain : BOOLEAN, at : Nat, done : BOOLEAN] :
           r.vain => r.done}

\* The runs that may be this dataset's.
Own(d) == {i \in 1 .. Len(history) : history[i].of \in {d, RequestOf[d]}}
Over(d) == {i \in Own(d) : history[i].done}

RefreshTyped ==
    /\ tick \in Nat
    /\ newest \in [Subs -> [s : Nat \cup {NoBar}, at : Nat]]
    /\ \A d \in Subs : newest[d].at <= tick
    /\ history \in Seq(Runs)
    /\ "batch" \in DOMAIN pass
    /\ \A x \in pass.batch : x.d \in Subs /\ x.from \in Nat
    /\ \A x, y \in pass.batch : x.d = y.d => x = y
    /\ answered \in [Subs -> [of : {NoBar}, from : Int, vain : BOOLEAN, at : Nat, done : BOOLEAN]]

\* Runs are listed in the order of their instants.
HistoryInOrder ==
    /\ \A i \in 1 .. Len(history) : history[i].at <= tick
    /\ \A i, j \in 1 .. Len(history) : j < i => history[j].at <= history[i].at

\* No run asked beyond what the dataset needs now or is about to be asked for, and a later run, where
\* it shows what it asked for, asked for no less.
TailsRise(d) ==
    /\ \A i \in Own(d) : history[i].from <= TailStart(d)
    /\ \A x \in pass.batch : x.d = d => x.from <= TailStart(d) /\ \A i \in Own(d) : history[i].from <= x.from
    /\ \A i, j \in Own(d) :
         j < i /\ history[j].vain /\ (history[i].vain \/ history[i].of = RequestOf[d])
           => history[j].from <= history[i].from

\* If the end of its last run was written, that is the last of the dataset's runs.
LastIsAnswer(d) ==
    answered[d].done =>
      /\ Own(d) = {} => ~answered[d].vain
      /\ \A i \in Own(d) : (\A j \in Own(d) : j <= i) =>
           /\ history[i].done
           /\ answered[d].vain <=> history[i].vain
           /\ answered[d].vain => answered[d].from = history[i].from /\ answered[d].at = history[i].at

\* The last of its finished runs asked in vain for the tail it still needs, and since the last close.
InVain(d, i) ==
    /\ i \in Over(d) /\ \A j \in Over(d) : j <= i
    /\ history[i].vain /\ history[i].from = TailStart(d) /\ history[i].at >= CloseOf(LastClosed)

\* Then it is its last answer, whatever was not written, and nothing more is asked for it.
SkipIsTrue(d) ==
    \A i \in Own(d) : InVain(d, i) =>
      /\ answered[d].vain /\ answered[d].from = history[i].from /\ answered[d].at = history[i].at
      /\ \A x \in pass.batch : x.d # d

RefreshInv ==
    /\ RefreshTyped /\ HistoryInOrder
    /\ \A d \in Subs : Lone(d) => TailsRise(d) /\ LastIsAnswer(d) /\ SkipIsTrue(d)

Less == {p \in Nat \X Nat : p[1] < p[2]}

LEMMA LessWellFounded == IsWellFoundedOn(Less, Nat)
  BY NatLessThanWellFounded, Zenon DEF OpToRel, Less

LEMMA LeastOf ==
  ASSUME NEW S \in SUBSET Nat, S # {}
  PROVE  \E x \in S : \A y \in S : x <= y
<1>1. \E x \in S : \A y \in S : ~ (<<y, x>> \in Less)
  BY LessWellFounded, WFMin
<1>2. \A x, y \in S : ~ (<<y, x>> \in Less) => x <= y
  <2>1. ASSUME NEW x \in S, NEW y \in S, y < x
        PROVE  <<y, x>> \in Less
    BY <2>1 DEF Less
  <2> QED
    BY <2>1
<1> QED
  BY <1>1, <1>2

LEMMA LargestOf ==
  ASSUME NEW S \in SUBSET Nat, S # {}, NEW n \in Nat, \A x \in S : x <= n
  PROVE  \E x \in S : \A y \in S : y <= x
<1> DEFINE T == {y \in Nat : \A x \in S : x <= y}
<1>1. n \in T
  OBVIOUS
<1> HIDE DEF T
<1>2. T \in SUBSET Nat
  BY DEF T
<1>3. PICK y \in T : \A z \in T : y <= z
  BY <1>1, <1>2, LeastOf
<1>4. y \in Nat /\ \A x \in S : x <= y
  BY DEF T
<1>5. ASSUME y \notin S
      PROVE  FALSE
  <2>1. \A x \in S : x <= y - 1 /\ x \in Nat
    BY <1>4, <1>5
  <2>2. PICK x \in S : x \in Nat
    OBVIOUS
  <2>3. y - 1 \in Nat
    BY <1>4, <2>1, <2>2
  <2>4. y - 1 \in T
    BY <2>1, <2>3 DEF T
  <2> QED
    BY <1>3, <1>4, <2>3, <2>4
<1> QED
  BY <1>4, <1>5

LEMMA MaxIs ==
  ASSUME NEW S, NEW m \in S, m \in Int, \A y \in S : y \in Int /\ y <= m
  PROVE  Max(S) = m
<1>1. \A x \in S : (\A y \in S : x >= y) => x = m
  OBVIOUS
<1>2. \A y \in S : m >= y
  OBVIOUS
<1> QED
  BY <1>1, <1>2 DEF Max

LEMMA Removed ==
  ASSUME NEW S, NEW s \in Seq(S), NEW k \in 1 .. Len(s)
  PROVE  /\ RemoveAt(s, k) \in Seq(S)
         /\ Len(RemoveAt(s, k)) = Len(s) - 1
         /\ \A i \in 1 .. Len(s) - 1 : RemoveAt(s, k)[i] = s[IF i < k THEN i ELSE i + 1]
<1>1. k \in Nat /\ Len(s) \in Nat /\ 1 <= k /\ k <= Len(s)
  OBVIOUS
<1>2. /\ SubSeq(s, 1, k - 1) \in Seq(S) /\ Len(SubSeq(s, 1, k - 1)) = k - 1
      /\ \A i \in 1 .. k - 1 : SubSeq(s, 1, k - 1)[i] = s[i]
  BY <1>1
<1>3. /\ SubSeq(s, k + 1, Len(s)) \in Seq(S) /\ Len(SubSeq(s, k + 1, Len(s))) = Len(s) - k
      /\ \A i \in 1 .. Len(s) - k : SubSeq(s, k + 1, Len(s))[i] = s[k + i]
  BY <1>1
<1>4. PICK a \in Seq(S) : a = SubSeq(s, 1, k - 1)
  BY <1>2
<1>5. PICK b \in Seq(S) : b = SubSeq(s, k + 1, Len(s))
  BY <1>3
<1>6. RemoveAt(s, k) = a \o b
  BY <1>4, <1>5 DEF RemoveAt
<1>7. /\ a \o b \in Seq(S) /\ Len(a \o b) = Len(a) + Len(b)
      /\ \A i \in 1 .. Len(a) + Len(b) : (a \o b)[i] = IF i <= Len(a) THEN a[i] ELSE b[i - Len(a)]
  OBVIOUS
<1>8. Len(a) = k - 1 /\ Len(b) = Len(s) - k
  BY <1>2, <1>3, <1>4, <1>5
<1>9. ASSUME NEW i \in 1 .. Len(s) - 1
      PROVE  (a \o b)[i] = s[IF i < k THEN i ELSE i + 1]
  <2>1. i \in 1 .. Len(a) + Len(b)
    BY <1>1, <1>8
  <2>2. CASE i < k
    <3>1. (a \o b)[i] = a[i] /\ i \in 1 .. k - 1
      BY <1>1, <1>7, <1>8, <2>1, <2>2
    <3> QED
      BY <1>2, <1>4, <2>2, <3>1
  <2>3. CASE ~(i < k)
    <3>1. i - (k - 1) \in 1 .. Len(s) - k /\ k + (i - (k - 1)) = i + 1 /\ ~(i <= k - 1)
      BY <1>1, <2>3
    <3>2. (a \o b)[i] = b[i - (k - 1)]
      BY <1>7, <1>8, <2>1, <3>1
    <3> QED
      BY <1>3, <1>5, <2>3, <3>1, <3>2
  <2> QED
    BY <2>2, <2>3
<1>10. Len(a \o b) = Len(s) - 1
  BY <1>1, <1>7, <1>8
<1>11. a \o b \in Seq(S)
  BY <1>7
<1> QED
  BY <1>6, <1>9, <1>10, <1>11, Zenon

LEMMA MaxTwo ==
  ASSUME NEW a \in Int, NEW b \in Int
  PROVE  Max({a, b}) \in {a, b} /\ a <= Max({a, b}) /\ b <= Max({a, b})
<1>1. CASE a <= b
  <2>1. Max({a, b}) = b
    BY <1>1, MaxIs
  <2> QED
    BY <1>1, <2>1
<1>2. CASE b <= a
  <2>1. Max({a, b}) = a
    BY <1>2, MaxIs
  <2> QED
    BY <1>2, <2>1
<1> QED
  BY <1>1, <1>2

LEMMA CalendarIs ==
  ASSUME tick \in Nat
  PROVE  LastClosed \in Nat /\ OpenSession \in Nat /\ CloseOf(LastClosed) <= tick /\ tick - Lookback <= CloseOf(LastClosed)
<1>1. DayTicks \in Nat \ {0} /\ Lookback \in Nat /\ Lookback >= DayTicks
  BY RefreshAssumption
<1> DEFINE q == tick \div DayTicks
<1>2. q \in Nat /\ DayTicks * q <= tick /\ tick < DayTicks * q + DayTicks
  BY <1>1, DivIs
<1>3. LastClosed = q
  BY DEF LastClosed
<1> HIDE DEF q
<1>4. DayTicks * q \in Nat
  BY <1>1, <1>2
<1> QED
  BY <1>1, <1>2, <1>3, <1>4 DEF OpenSession, CloseOf

LEMMA TailIs ==
  ASSUME RefreshTyped, NEW d \in Subs
  PROVE  TailStart(d) \in Nat
BY DEF RefreshTyped, TailStart, IsProvisional, NoBar

\* A newer bar, or the same written later, leaves no more to fetch.
LEMMA TailRises ==
  ASSUME RefreshTyped, NEW d \in Subs, newest'[d].s \in Nat, newest'[d].at = tick, newest[d].s <= newest'[d].s
  PROVE  TailStart(d) <= TailStart(d)'
<1>1. newest[d].s \in Nat \cup {NoBar} /\ newest[d].at \in Nat /\ newest[d].at <= tick /\ tick \in Nat
  BY DEF RefreshTyped
<1>2. PICK s : s = newest[d].s
  OBVIOUS
<1>3. PICK n \in Nat : n = newest'[d].s
  OBVIOUS
<1>4. FireOf(s) \in Int \/ s = NoBar
  BY <1>1, <1>2, RefreshAssumption DEF FireOf, CloseOf
<1>5. TailStart(d)' = IF newest'[d].at < FireOf(n) THEN n ELSE n + 1
  BY <1>3 DEF TailStart, IsProvisional, NoBar, FireOf, CloseOf
<1>6. TailStart(d) = IF s # NoBar /\ newest[d].at < FireOf(s) THEN s ELSE s + 1
  BY <1>2 DEF TailStart, IsProvisional
<1>7. CASE s < n
  <2>1. TailStart(d) <= s + 1 /\ TailStart(d)' >= n
    BY <1>1, <1>2, <1>3, <1>5, <1>6 DEF NoBar
  <2> QED
    BY <1>1, <1>2, <1>3, <1>7, <2>1, <1>5, <1>6 DEF NoBar
<1>8. CASE s = n
  BY <1>1, <1>2, <1>3, <1>4, <1>5, <1>6, <1>8 DEF NoBar
<1> QED
  <2>1. s \in Int /\ s <= n
    BY <1>1, <1>2, <1>3 DEF NoBar
  <2> QED
    BY <1>7, <1>8, <2>1

LEMMA RunTyped ==
  ASSUME RefreshTyped, NEW i \in 1 .. Len(history)
  PROVE  /\ history[i] \in Runs /\ history[i].at \in Nat /\ history[i].from \in Int
         /\ history[i].vain \in BOOLEAN /\ history[i].done \in BOOLEAN /\ (history[i].vain => history[i].done)
<1>1. history[i] \in Runs
  BY DEF RefreshTyped
<1> QED
  BY <1>1 DEF Runs

LEMMA Monotone ==
  ASSUME NEW k \in Nat, NEW p \in Nat, NEW q \in Nat, p <= q
  PROVE  k * p <= k * q
<1>1. PICK z \in Nat : q = p + z
  <2>1. q - p \in Nat /\ q = p + (q - p)
    OBVIOUS
  <2> QED
    BY <2>1
<1>2. k * q = k * p + k * z /\ k * z \in Nat /\ k * p \in Nat
  BY <1>1
<1> QED
  BY <1>2

\* A session's close is never earlier than the last one's.
LEMMA CloseRises ==
  ASSUME tick \in Nat, tick' \in Nat, tick <= tick'
  PROVE  /\ CloseOf(LastClosed) \in Nat /\ CloseOf(LastClosed)' \in Nat
         /\ CloseOf(LastClosed) <= CloseOf(LastClosed)'
<1>1. PICK w \in Nat \ {0} : w = DayTicks
  BY RefreshAssumption
<1>2. PICK a \in Nat : a = tick \div w /\ w * a <= tick
  BY <1>1, DivIs
<1>3. PICK b \in Nat : b = tick' \div w /\ tick' < w * b + w
  BY <1>1, DivIs
<1>4. w * a \in Nat /\ w * b \in Nat /\ w * a < w * b + w
  <2>1. PICK m \in Nat, n \in Nat : m = w * a /\ n = w * b
    OBVIOUS
  <2>2. m <= tick /\ tick' < n + w
    BY <1>2, <1>3, <2>1
  <2>3. m < n + w
    BY <2>1, <2>2, <1>1
  <2> QED
    BY <2>1, <2>3
<1>5. w * a <= w * b
  <2>1. CASE a <= b
    BY <1>1, <2>1, Monotone
  <2>2. CASE b + 1 <= a
    <3>1. w * (b + 1) <= w * a /\ w * (b + 1) = w * b + w
      BY <1>1, <2>2, Monotone
    <3> QED
      BY <1>4, <3>1
  <2> QED
    BY <2>1, <2>2
<1> QED
  BY <1>1, <1>2, <1>3, <1>4, <1>5 DEF CloseOf, LastClosed

\* With the same history, and no less to fetch, nothing is in vain that was not.
LEMMA VainBefore ==
  ASSUME RefreshTyped, NEW d \in Subs, TailsRise(d), history' = history, tick' \in Nat, tick <= tick',
         TailStart(d)' \in Nat, TailStart(d) <= TailStart(d)', NEW i \in Own(d), InVain(d, i)'
  PROVE  InVain(d, i)
<1>1. tick \in Nat /\ TailStart(d) \in Nat
  BY TailIs DEF RefreshTyped
<1>2. Own(d)' = Own(d) /\ Over(d)' = Over(d) /\ Own(d) \subseteq 1 .. Len(history)
  BY DEF Own, Over
<1>3. history[i].from \in Int /\ history[i].at \in Nat /\ history[i].from <= TailStart(d)
  BY <1>2, RunTyped DEF TailsRise
<1>4. /\ i \in Over(d) /\ (\A j \in Over(d) : j <= i) /\ history[i].vain
      /\ history[i].from = TailStart(d)' /\ history[i].at >= CloseOf(LastClosed)'
  BY <1>2 DEF InVain
<1>5. history[i].from = TailStart(d)
  BY <1>1, <1>3, <1>4
<1>6. history[i].at >= CloseOf(LastClosed)
  BY <1>1, <1>3, <1>4, CloseRises
<1> QED
  BY <1>4, <1>5, <1>6 DEF InVain

\* No run is added, and no dataset needs more than before: who has another answer was asked for, and its
\* run not written.
LEMMA HistoryStays ==
  ASSUME RefreshInv, UNCHANGED history, RefreshTyped', tick <= tick',
         \A d \in Subs : TailStart(d) <= TailStart(d)', pass'.batch \subseteq pass.batch,
         \A d \in Subs : \/ answered'[d] = answered[d]
                         \/ ~answered'[d].done /\ \E x \in pass.batch : x.d = d
  PROVE  RefreshInv'
<1>1. /\ tick \in Nat /\ tick' \in Nat /\ RefreshTyped
      /\ \A i \in 1 .. Len(history) : history[i].at \in Nat /\ history[i].from \in Int
  BY RunTyped DEF RefreshInv, RefreshTyped
<1>2. HistoryInOrder'
  <2>1. /\ \A i \in 1 .. Len(history) : history[i].at <= tick
        /\ \A i, j \in 1 .. Len(history) : j < i => history[j].at <= history[i].at
    BY DEF RefreshInv, HistoryInOrder
  <2>2. \A i \in 1 .. Len(history) : history[i].at <= tick'
    BY <1>1, <2>1
  <2> QED
    BY <2>1, <2>2 DEF HistoryInOrder
<1>3. ASSUME NEW d \in Subs, Lone(d)
      PROVE  TailsRise(d)' /\ LastIsAnswer(d)' /\ SkipIsTrue(d)'
  <2>1. TailStart(d) \in Nat /\ TailStart(d)' \in Nat
    <3>1. TailStart(d)' \in Nat
      BY DEF RefreshTyped, TailStart, IsProvisional, NoBar
    <3> QED
      BY <3>1, TailIs DEF RefreshInv
  <2>2. Own(d)' = Own(d) /\ Own(d) \subseteq 1 .. Len(history)
    BY DEF Own
  <2>3. TailsRise(d) /\ LastIsAnswer(d) /\ SkipIsTrue(d)
    BY <1>3 DEF RefreshInv
  <2>4. \A x \in pass.batch : x.from \in Nat
    BY DEF RefreshInv, RefreshTyped
  <2>5. TailsRise(d)'
    <3>1. \A i \in Own(d)' : history'[i].from <= TailStart(d)'
      BY <1>1, <2>1, <2>2, <2>3 DEF TailsRise
    <3>2. \A x \in pass'.batch : x.d = d => x.from <= TailStart(d)' /\ \A i \in Own(d)' : history'[i].from <= x.from
      BY <1>1, <2>1, <2>2, <2>3, <2>4 DEF TailsRise
    <3>3. \A i, j \in Own(d)' :
            j < i /\ history'[j].vain /\ (history'[i].vain \/ history'[i].of = RequestOf[d])
              => history'[j].from <= history'[i].from
      BY <2>2, <2>3 DEF TailsRise
    <3> QED
      BY <3>1, <3>2, <3>3 DEF TailsRise
  <2>6. LastIsAnswer(d)'
    BY <2>2, <2>3 DEF LastIsAnswer
  <2>7. SkipIsTrue(d)'
    <3>1. ASSUME NEW i \in Own(d), InVain(d, i)'
          PROVE  /\ answered'[d].vain /\ answered'[d].from = history[i].from /\ answered'[d].at = history[i].at
                 /\ \A x \in pass'.batch : x.d # d
      <4>1. InVain(d, i)
        BY <1>1, <2>1, <2>3, <3>1, VainBefore
      <4>2. /\ answered[d].vain /\ answered[d].from = history[i].from /\ answered[d].at = history[i].at
            /\ \A x \in pass.batch : x.d # d
        BY <2>3, <4>1 DEF SkipIsTrue
      <4>3. answered'[d] = answered[d]
        BY <4>2
      <4> QED
        BY <4>2, <4>3
    <3> QED
      BY <2>2, <3>1 DEF SkipIsTrue
  <2> QED
    BY <2>5, <2>6, <2>7
<1> QED
  BY <1>1, <1>2, <1>3 DEF RefreshInv, Lone

\* A run is replaced only by another that is finished, of its dataset, or of its request and the same tail.
Stays(r, run) == ~run.done \/ r.of # run.of \/ (run.of \notin Subs /\ r.from # run.from)

\* The history with one more run: the run is its last, and the others keep their order.
LEMMA AddedKeeps ==
  ASSUME RefreshTyped, NEW run \in Runs, history' = Added(run)
  PROVE  /\ history' \in Seq(Runs) /\ Len(history') \in Nat \ {0} /\ history'[Len(history')] = run
         /\ \E f \in [1 .. Len(history') - 1 -> 1 .. Len(history)] :
              /\ \A i \in 1 .. Len(history') - 1 : history'[i] = history[f[i]]
              /\ \A i, j \in 1 .. Len(history') - 1 : j < i => f[j] < f[i]
              /\ \A i \in 1 .. Len(history) : Stays(history[i], run) => \E j \in 1 .. Len(history') - 1 : f[j] = i
<1> DEFINE older == {i \in 1 .. Len(history) :
                       /\ run.done /\ history[i].done
                       /\ history[i].of = run.of /\ (run.of \in Subs \/ history[i].from = run.from)}
<1>1. history' = Append(IF older = {} THEN history ELSE RemoveAt(history, CHOOSE i \in older : TRUE), run)
  BY DEF Added
<1>2. older \subseteq 1 .. Len(history) /\ \A i \in older : ~Stays(history[i], run)
  BY DEF Stays
<1> HIDE DEF older
<1>3. history \in Seq(Runs) /\ Len(history) \in Nat
  BY DEF RefreshTyped
<1>4. CASE older = {}
  <2>1. history' = Append(history, run)
    BY <1>1, <1>4
  <2>2. /\ history' \in Seq(Runs) /\ Len(history') = Len(history) + 1 /\ history'[Len(history')] = run
        /\ \A i \in 1 .. Len(history) : history'[i] = history[i]
    BY <1>3, <2>1
  <2> DEFINE f == [i \in 1 .. Len(history') - 1 |-> i]
  <2>3. /\ f \in [1 .. Len(history') - 1 -> 1 .. Len(history)]
        /\ \A i \in 1 .. Len(history') - 1 : history'[i] = history[f[i]]
        /\ \A i, j \in 1 .. Len(history') - 1 : j < i => f[j] < f[i]
        /\ \A i \in 1 .. Len(history) : \E j \in 1 .. Len(history') - 1 : f[j] = i
    BY <1>3, <2>2
  <2>4. \A i \in 1 .. Len(history) : Stays(history[i], run) => \E j \in 1 .. Len(history') - 1 : f[j] = i
    BY <2>3
  <2>5. Len(history') \in Nat \ {0}
    BY <1>3, <2>2
  <2> HIDE DEF f
  <2>6. \E g \in [1 .. Len(history') - 1 -> 1 .. Len(history)] :
          /\ \A i \in 1 .. Len(history') - 1 : history'[i] = history[g[i]]
          /\ \A i, j \in 1 .. Len(history') - 1 : j < i => g[j] < g[i]
          /\ \A i \in 1 .. Len(history) : Stays(history[i], run) => \E j \in 1 .. Len(history') - 1 : g[j] = i
    BY <2>3, <2>4, Zenon
  <2> QED
    BY <2>2, <2>5, <2>6
<1>5. CASE older # {}
  <2>1. PICK k \in older : k = CHOOSE i \in older : TRUE
    BY <1>5
  <2>2. PICK s : s = RemoveAt(history, k)
    OBVIOUS
  <2>3. history' = Append(s, run)
    BY <1>1, <1>5, <2>1, <2>2
  <2>4. /\ s \in Seq(Runs) /\ Len(s) = Len(history) - 1
        /\ \A i \in 1 .. Len(history) - 1 : s[i] = history[IF i < k THEN i ELSE i + 1]
    BY <1>2, <1>3, <2>2, Removed
  <2>5. /\ history' \in Seq(Runs) /\ Len(history') = Len(history) /\ history'[Len(history')] = run
        /\ \A i \in 1 .. Len(history) - 1 : history'[i] = s[i]
    BY <1>3, <2>3, <2>4
  <2>6. k \in 1 .. Len(history) /\ ~Stays(history[k], run)
    BY <1>2
  <2> DEFINE f == [i \in 1 .. Len(history') - 1 |-> IF i < k THEN i ELSE i + 1]
  <2>7. /\ f \in [1 .. Len(history') - 1 -> 1 .. Len(history)]
        /\ \A i \in 1 .. Len(history') - 1 : history'[i] = history[f[i]]
        /\ \A i, j \in 1 .. Len(history') - 1 : j < i => f[j] < f[i]
    BY <1>3, <2>4, <2>5, <2>6
  <2>8. ASSUME NEW i \in 1 .. Len(history), Stays(history[i], run)
        PROVE  \E j \in 1 .. Len(history') - 1 : f[j] = i
    <3>1. i # k
      BY <2>6, <2>8
    <3>2. CASE i < k
      <4>1. i \in 1 .. Len(history') - 1 /\ f[i] = i
        BY <1>3, <2>5, <2>6, <3>2
      <4> QED
        BY <4>1
    <3>3. CASE k < i
      <4>1. i - 1 \in 1 .. Len(history') - 1 /\ f[i - 1] = i
        BY <1>3, <2>5, <2>6, <3>3
      <4> QED
        BY <4>1
    <3> QED
      BY <2>6, <3>1, <3>2, <3>3
  <2>9. Len(history') \in Nat \ {0}
    BY <1>3, <2>5, <2>6
  <2>10. \A i \in 1 .. Len(history) : Stays(history[i], run) => \E j \in 1 .. Len(history') - 1 : f[j] = i
    BY <2>8, Zenon
  <2> HIDE DEF f
  <2>11. \E g \in [1 .. Len(history') - 1 -> 1 .. Len(history)] :
           /\ \A i \in 1 .. Len(history') - 1 : history'[i] = history[g[i]]
           /\ \A i, j \in 1 .. Len(history') - 1 : j < i => g[j] < g[i]
           /\ \A i \in 1 .. Len(history) : Stays(history[i], run) => \E j \in 1 .. Len(history') - 1 : g[j] = i
    BY <2>7, <2>10, Zenon
  <2> QED
    BY <2>5, <2>9, <2>11
<1> QED
  BY <1>4, <1>5

LEMMA RunIs ==
  ASSUME RefreshTyped, NEW x \in pass.batch, NEW v \in BOOLEAN, NEW named \in BOOLEAN, NEW done \in BOOLEAN, v => done
  PROVE  /\ RunMade(x, v, named, done) \in Runs
         /\ RunMade(x, v, named, done).of = (IF named THEN x.d ELSE RequestOf[x.d])
         /\ RunMade(x, v, named, done).from = (IF v \/ ~named THEN x.from ELSE 0)
         /\ RunMade(x, v, named, done).vain = v /\ RunMade(x, v, named, done).at = tick
         /\ RunMade(x, v, named, done).done = done
<1>1. x.d \in Subs /\ x.from \in Nat /\ tick \in Nat
  BY DEF RefreshTyped
<1>2. PICK o \in Subs \cup {RequestOf[d] : d \in Subs} : o = IF named THEN x.d ELSE RequestOf[x.d]
  BY <1>1
<1>3. PICK b \in Int : b = IF v \/ ~named THEN x.from ELSE 0
  BY <1>1
<1>4. RunMade(x, v, named, done) = [of |-> o, from |-> b, vain |-> v, at |-> tick, done |-> done]
  BY <1>2, <1>3 DEF RunMade
<1>5. PICK r : r = [of |-> o, from |-> b, vain |-> v, at |-> tick, done |-> done]
  OBVIOUS
<1>6. r \in Runs /\ r.of = o /\ r.from = b /\ r.vain = v /\ r.at = tick /\ r.done = done
  BY <1>1, <1>5 DEF Runs
<1> QED
  BY <1>2, <1>3, <1>4, <1>5, <1>6

\* An answer is given: it is in vain or not, and the end of its run was written or not.
LEMMA AnswerGiven ==
  ASSUME RefreshTyped, NEW x \in pass.batch, NEW vain \in BOOLEAN, NEW done \in BOOLEAN, answered' = AnswerIs(x, vain, done)
  PROVE  /\ answered' \in [Subs -> [of : {NoBar}, from : Int, vain : BOOLEAN, at : Nat, done : BOOLEAN]]
         /\ \A d \in Subs \ {x.d} : answered'[d] = answered[d]
         /\ (answered'[x.d].vain <=> vain) /\ (answered'[x.d].done <=> done)
         /\ vain => answered'[x.d].from = x.from /\ answered'[x.d].at = tick
<1>1. /\ x.d \in Subs /\ x.from \in Nat /\ tick \in Nat
      /\ answered \in [Subs -> [of : {NoBar}, from : Int, vain : BOOLEAN, at : Nat, done : BOOLEAN]]
  BY DEF RefreshTyped
<1>2. PICK g \in Int : g = IF vain THEN x.from ELSE 0
  BY <1>1
<1>3. PICK k \in Nat : k = IF vain THEN tick ELSE 0
  BY <1>1
<1>4. PICK a : a = [NeverRun EXCEPT !.from = g, !.vain = vain, !.at = k, !.done = done]
  OBVIOUS
<1>5. /\ a \in [of : {NoBar}, from : Int, vain : BOOLEAN, at : Nat, done : BOOLEAN]
      /\ a.vain = vain /\ a.done = done /\ a.from = g /\ a.at = k
  <2>1. a = [of |-> NoBar, from |-> g, vain |-> vain, at |-> k, done |-> done]
    BY <1>4 DEF NeverRun
  <2> QED
    BY <2>1
<1>6. answered' = [answered EXCEPT ![x.d] = a]
  BY <1>2, <1>3, <1>4 DEF AnswerIs
<1>7. answered'[x.d] = a /\ \A d \in Subs \ {x.d} : answered'[d] = answered[d]
  BY <1>1, <1>6
<1> QED
  BY <1>1, <1>2, <1>3, <1>5, <1>6, <1>7

\* A request is made, and its run is written to its end or is not.
LEMMA RunKeeps ==
  ASSUME RefreshInv, NEW x \in pass.batch, NEW vain \in BOOLEAN, NEW v \in BOOLEAN, NEW named \in BOOLEAN,
         NEW done \in BOOLEAN, IF done THEN v = vain ELSE ~v,
         history' = Added(RunMade(x, v, named, done)), answered' = AnswerIs(x, vain, done),
         tick' = tick, newest' \in [Subs -> [s : Nat \cup {NoBar}, at : Nat]], \A d \in Subs : newest'[d].at <= tick,
         \A d \in Subs : TailStart(d) <= TailStart(d)', "batch" \in DOMAIN pass', pass'.batch \subseteq pass.batch \ {x}
  PROVE  RefreshInv'
<1>2. x.d \in Subs /\ x.from \in Nat /\ tick \in Nat /\ RefreshTyped
  BY DEF RefreshInv, RefreshTyped
<1>3. PICK run \in Runs : run = RunMade(x, v, named, done)
  BY <1>2, RunIs
<1>4. /\ run.of = (IF named THEN x.d ELSE RequestOf[x.d]) /\ run.from = (IF v \/ ~named THEN x.from ELSE 0)
      /\ run.vain = v /\ run.at = tick /\ run.done = done /\ run.from <= x.from /\ run.from \in Nat
  <2>1. run.from = (IF v \/ ~named THEN x.from ELSE 0)
    BY <1>2, <1>3, RunIs
  <2> QED
    BY <1>2, <1>3, <2>1, RunIs
<1>5. /\ answered' \in [Subs -> [of : {NoBar}, from : Int, vain : BOOLEAN, at : Nat, done : BOOLEAN]]
      /\ \A d \in Subs \ {x.d} : answered'[d] = answered[d]
      /\ (answered'[x.d].vain <=> vain) /\ (answered'[x.d].done <=> done)
      /\ vain => answered'[x.d].from = x.from /\ answered'[x.d].at = tick
  BY <1>2, AnswerGiven
<1>6. history' = Added(run)
  BY <1>3
<1>7. PICK f \in [1 .. Len(history') - 1 -> 1 .. Len(history)] :
        /\ \A i \in 1 .. Len(history') - 1 : history'[i] = history[f[i]]
        /\ \A i, j \in 1 .. Len(history') - 1 : j < i => f[j] < f[i]
        /\ \A i \in 1 .. Len(history) : Stays(history[i], run) => \E j \in 1 .. Len(history') - 1 : f[j] = i
  BY <1>2, <1>6, AddedKeeps
<1>8. PICK n \in Nat \ {0} : n = Len(history') /\ history' \in Seq(Runs) /\ history'[n] = run
  BY <1>2, <1>6, AddedKeeps
<1>9. /\ \A i \in 1 .. n - 1 : f[i] \in 1 .. Len(history) /\ history'[i] = history[f[i]]
      /\ \A i \in 1 .. n : i \in 1 .. n - 1 \/ i = n
      /\ \A i, j \in 1 .. n - 1 : j < i => f[j] < f[i]
  <2>1. \A i \in 1 .. n - 1 : f[i] \in 1 .. Len(history) /\ history'[i] = history[f[i]]
    BY <1>7, <1>8, Zenon
  <2>2. \A i \in 1 .. n : i \in 1 .. n - 1 \/ i = n
    BY <1>8
  <2>3. \A i, j \in 1 .. n - 1 : j < i => f[j] < f[i]
    BY <1>7, <1>8, Zenon
  <2> QED
    BY <2>1, <2>2, <2>3
<1>10. RefreshTyped'
  <2>1. \A y \in pass'.batch : y \in pass.batch
    OBVIOUS
  <2> QED
    BY <1>2, <1>5, <1>8, <2>1 DEF RefreshTyped
<1>11. HistoryInOrder'
  <2>1. \A i \in 1 .. n - 1 : history'[i].at <= tick
    BY <1>9 DEF RefreshInv, HistoryInOrder
  <2>2. ASSUME NEW i \in 1 .. n, NEW j \in 1 .. n, j < i
        PROVE  history'[j].at <= history'[i].at
    <3>1. j \in 1 .. n - 1
      BY <2>2
    <3>2. CASE i = n
      BY <1>4, <1>8, <2>1, <3>1, <3>2
    <3>3. CASE i \in 1 .. n - 1
      <4>1. f[j] < f[i]
        BY <1>9, <2>2, <3>1, <3>3
      <4> QED
        BY <1>9, <3>1, <3>3, <4>1 DEF RefreshInv, HistoryInOrder
    <3> QED
      BY <1>9, <3>2, <3>3
  <2>3. \A i \in 1 .. n : history'[i].at <= tick
    BY <1>2, <1>4, <1>8, <1>9, <2>1
  <2> QED
    BY <1>8, <2>2, <2>3 DEF HistoryInOrder
<1>12. ASSUME NEW d \in Subs, Lone(d)
       PROVE  TailsRise(d)' /\ LastIsAnswer(d)' /\ SkipIsTrue(d)'
  <2>1. /\ TailsRise(d) /\ LastIsAnswer(d) /\ SkipIsTrue(d)
        /\ \A y \in pass.batch : y.from \in Nat /\ (y.d = x.d => y = x)
    BY <1>12 DEF RefreshInv, RefreshTyped
  <2>2. TailStart(d) \in Nat /\ TailStart(d)' \in Nat /\ TailStart(d) <= TailStart(d)'
    <3>1. TailStart(d)' \in Nat
      BY <1>10 DEF RefreshTyped, TailStart, IsProvisional, NoBar
    <3> QED
      BY <1>2, <3>1, TailIs
  <2>3. \A i \in 1 .. Len(history) :
          /\ history[i].from \in Int /\ history[i].vain \in BOOLEAN /\ history[i].at \in Nat
          /\ history[i].done \in BOOLEAN
    BY <1>2, RunTyped
  <2>4. /\ Own(d)' = {i \in 1 .. n : history'[i].of \in {d, RequestOf[d]}}
        /\ \A i \in Own(d)' : i \in 1 .. n - 1 => f[i] \in Own(d)
    BY <1>8, <1>9 DEF Own
  <2>5. ASSUME NEW i \in 1 .. n - 1, i \in Own(d)'
        PROVE  /\ history'[i].from <= TailStart(d)
               /\ \A y \in pass.batch : y.d = d => history'[i].from <= y.from
               /\ \A j \in 1 .. n - 1 :
                    j \in Own(d)' /\ j < i /\ history'[j].vain /\ (history'[i].vain \/ history'[i].of = RequestOf[d])
                      => history'[j].from <= history'[i].from
    <3>1. f[i] \in Own(d) /\ history'[i] = history[f[i]]
      BY <1>9, <2>4, <2>5
    <3>2. \A j \in 1 .. n - 1 : j \in Own(d)' /\ j < i => f[j] \in Own(d) /\ history'[j] = history[f[j]] /\ f[j] < f[i]
      BY <1>9, <2>4
    <3>3. \A j \in Own(d) : j < f[i] /\ history[j].vain /\ (history[f[i]].vain \/ history[f[i]].of = RequestOf[d])
                              => history[j].from <= history[f[i]].from
      BY <2>1, <3>1 DEF TailsRise
    <3>4. history[f[i]].from <= TailStart(d) /\ \A y \in pass.batch : y.d = d => history[f[i]].from <= y.from
      BY <2>1, <3>1 DEF TailsRise
    <3> QED
      BY <3>1, <3>2, <3>3, <3>4
  \* While every finished run of the dataset is still listed, the last of them is the same.
  <2>8. ASSUME NEW i \in 1 .. n - 1, InVain(d, i)', \A k \in Over(d) : \E j \in 1 .. n - 1 : f[j] = k
        PROVE  InVain(d, f[i])
    <3>1. /\ i \in Over(d)' /\ (\A j \in Over(d)' : j <= i) /\ history'[i].vain
          /\ history'[i].from = TailStart(d)' /\ history'[i].at >= CloseOf(LastClosed)'
      BY <2>8 DEF InVain
    <3>2. CloseOf(LastClosed)' = CloseOf(LastClosed)
      BY DEF CloseOf, LastClosed
    <3>3. history'[i] = history[f[i]] /\ f[i] \in Own(d) /\ f[i] \in 1 .. Len(history)
      BY <1>9, <2>4, <3>1 DEF Over
    <3>4. f[i] \in Over(d)
      BY <3>1, <3>3 DEF Over
    <3>5. ASSUME NEW k \in Over(d)
          PROVE  k <= f[i]
      <4>1. PICK j \in 1 .. n - 1 : f[j] = k
        BY <2>8
      <4>2. k \in 1 .. Len(history) /\ history[k].of \in {d, RequestOf[d]} /\ history[k].done
        BY DEF Over, Own
      <4>3. history'[j] = history[k] /\ j \in 1 .. n
        BY <1>8, <1>9, <4>1
      <4>4. j \in Over(d)'
        BY <2>4, <4>2, <4>3 DEF Over
      <4>5. j = i \/ j < i
        BY <3>1, <4>4
      <4>6. CASE j < i
        <5>1. f[j] < f[i]
          BY <1>9, <2>8, <4>1, <4>6
        <5>2. f[j] \in Int /\ f[i] \in Int
          BY <1>9, <2>8, <4>1
        <5> QED
          BY <4>1, <5>1, <5>2
      <4>7. CASE j = i
        BY <3>3, <4>1, <4>7
      <4> QED
        BY <4>5, <4>6, <4>7
    <3>6. history[f[i]].from = TailStart(d)
      <4>1. history[f[i]].from \in Int /\ history[f[i]].from <= TailStart(d)
        BY <2>1, <2>3, <3>3 DEF TailsRise
      <4>2. history[f[i]].from = TailStart(d)'
        BY <3>1, <3>3
      <4> QED
        BY <2>2, <4>1, <4>2
    <3> QED
      BY <3>1, <3>2, <3>3, <3>4, <3>5, <3>6 DEF InVain
  <2>6. CASE d # x.d
    <3>1. run.of \notin {d, RequestOf[d]}
      BY <1>2, <1>4, <1>12, <2>6, RefreshAssumption DEF Lone
    <3>2. \A i \in Own(d)' : i \in 1 .. n - 1 /\ f[i] \in Own(d)
      BY <1>8, <1>9, <2>4, <3>1
    <3>3. \A k \in Own(d) : \E j \in Own(d)' : f[j] = k
      <4>1. ASSUME NEW k \in Own(d)
            PROVE  \E j \in Own(d)' : f[j] = k
        <5>1. k \in 1 .. Len(history) /\ history[k].of \in {d, RequestOf[d]}
          BY DEF Own
        <5>2. PICK j \in 1 .. n - 1 : f[j] = k
          <6>1. Stays(history[k], run)
            BY <3>1, <5>1 DEF Stays
          <6> QED
            BY <1>7, <1>8, <5>1, <6>1
        <5>3. history'[j] = history[k] /\ j \in 1 .. n
          BY <1>8, <1>9, <5>2
        <5> QED
          BY <2>4, <5>1, <5>2, <5>3
      <4> QED
        BY <4>1
    <3>4. TailsRise(d)'
      <4>1. \A i \in Own(d)' : history'[i].from <= TailStart(d)'
        <5>1. ASSUME NEW i \in Own(d)'
              PROVE  history'[i].from <= TailStart(d)'
          <6>1. history'[i].from <= TailStart(d) /\ history'[i].from \in Int
            BY <1>9, <2>3, <2>5, <3>2
          <6> QED
            BY <2>2, <6>1
        <5> QED
          BY <5>1
      <4>2. \A y \in pass'.batch : y.d = d => y.from <= TailStart(d)' /\ \A i \in Own(d)' : history'[i].from <= y.from
        <5>1. \A y \in pass.batch : y.d = d => y.from <= TailStart(d)
          BY <2>1 DEF TailsRise
        <5> QED
          BY <2>1, <2>2, <2>5, <3>2, <5>1
      <4> QED
        BY <2>5, <3>2, <4>1, <4>2 DEF TailsRise
    <3>5. LastIsAnswer(d)'
      <4>1. answered'[d] = answered[d]
        BY <1>5, <2>6
      <4>2. answered'[d].done /\ Own(d)' = {} => ~answered'[d].vain
        BY <2>1, <3>3, <4>1 DEF LastIsAnswer
      <4>3. ASSUME answered'[d].done, NEW i \in Own(d)', \A j \in Own(d)' : j <= i
            PROVE  /\ history'[i].done
                   /\ answered'[d].vain <=> history'[i].vain
                   /\ answered'[d].vain => answered'[d].from = history'[i].from /\ answered'[d].at = history'[i].at
        <5>1. ASSUME NEW k \in Own(d)
              PROVE  k <= f[i]
          <6>1. PICK j \in Own(d)' : f[j] = k
            BY <3>3
          <6>2. j = i \/ j < i
            BY <3>2, <4>3
          <6>3. i \in 1 .. n - 1 /\ j \in 1 .. n - 1 /\ f[i] \in Int /\ f[j] \in Int
            BY <1>9, <3>2
          <6>4. CASE j < i
            <7>1. f[j] < f[i]
              BY <1>9, <6>3, <6>4
            <7> QED
              BY <6>1, <6>3, <7>1
          <6> QED
            BY <6>1, <6>2, <6>3, <6>4
        <5>2. history'[i] = history[f[i]] /\ f[i] \in Own(d)
          BY <1>9, <3>2
        <5> QED
          BY <2>1, <4>1, <4>3, <5>1, <5>2 DEF LastIsAnswer
      <4> QED
        BY <4>2, <4>3 DEF LastIsAnswer
    <3>6. SkipIsTrue(d)'
      <4>1. ASSUME NEW i \in Own(d)', InVain(d, i)'
            PROVE  /\ answered'[d].vain /\ answered'[d].from = history'[i].from /\ answered'[d].at = history'[i].at
                   /\ \A y \in pass'.batch : y.d # d
        <5>1. i \in 1 .. n - 1 /\ f[i] \in Own(d) /\ history'[i] = history[f[i]]
          BY <1>9, <3>2
        <5>2. \A k \in Over(d) : \E j \in 1 .. n - 1 : f[j] = k
          BY <3>2, <3>3 DEF Over
        <5>3. InVain(d, f[i])
          BY <2>8, <4>1, <5>1, <5>2
        <5>4. answered'[d] = answered[d]
          BY <1>5, <2>6
        <5>5. /\ answered[d].vain /\ answered[d].from = history[f[i]].from /\ answered[d].at = history[f[i]].at
              /\ \A y \in pass.batch : y.d # d
          BY <2>1, <5>1, <5>3 DEF SkipIsTrue
        <5> QED
          BY <5>1, <5>4, <5>5
      <4> QED
        BY <4>1 DEF SkipIsTrue
    <3> QED
      BY <3>4, <3>5, <3>6
  <2>7. CASE d = x.d
    <3>1. n \in Own(d)' /\ \A i \in Own(d)' : i \in 1 .. n - 1 \/ i = n
      BY <1>4, <1>8, <1>9, <2>4, <2>7
    <3>2. x.from <= TailStart(d)
      BY <2>1, <2>7 DEF TailsRise
    <3>3. \A i \in Own(d)' : history'[i].from <= x.from
      BY <1>4, <1>8, <2>5, <2>7, <3>1
    <3>4. TailsRise(d)'
      <4>1. ASSUME NEW i \in Own(d)'
            PROVE  history'[i].from \in Int
        <5>1. CASE i \in 1 .. n - 1
          BY <1>9, <2>3, <5>1
        <5>2. CASE i = n
          BY <1>4, <1>8, <5>2
        <5> QED
          BY <3>1, <5>1, <5>2
      <4>2. \A i \in Own(d)' : history'[i].from <= TailStart(d)'
        BY <1>2, <2>2, <3>2, <3>3, <4>1
      <4>3. \A y \in pass'.batch : y.d = d => y.from <= TailStart(d)' /\ \A i \in Own(d)' : history'[i].from <= y.from
        BY <1>2, <2>1, <2>2, <2>7, <3>2, <3>3
      <4>4. history'[n].vain \/ history'[n].of = RequestOf[d] => history'[n].from = x.from
        BY <1>2, <1>4, <1>8, <2>7, RefreshAssumption
      <4>5. ASSUME NEW i \in Own(d)', NEW j \in Own(d)', j < i, history'[j].vain,
                   history'[i].vain \/ history'[i].of = RequestOf[d]
            PROVE  history'[j].from <= history'[i].from
        <5>1. j \in 1 .. n - 1
          <6>1. (i \in 1 .. n - 1 \/ i = n) /\ (j \in 1 .. n - 1 \/ j = n)
            BY <3>1
          <6>2. j # n
            BY <4>5, <6>1
          <6> QED
            BY <6>1, <6>2
        <5>2. CASE i = n
          <6>1. history'[i].from = x.from
            BY <4>4, <4>5, <5>2
          <6> QED
            BY <3>3, <6>1
        <5>3. CASE i \in 1 .. n - 1
          <6>1. \A k \in 1 .. n - 1 :
                  k \in Own(d)' /\ k < i /\ history'[k].vain /\ (history'[i].vain \/ history'[i].of = RequestOf[d])
                    => history'[k].from <= history'[i].from
            BY <2>5, <5>3
          <6> QED
            BY <4>5, <5>1, <6>1
        <5> QED
          BY <3>1, <5>2, <5>3
      <4> QED
        BY <4>2, <4>3, <4>5 DEF TailsRise
    <3>5. LastIsAnswer(d)'
      <4>1. \A i \in Own(d)' : (\A j \in Own(d)' : j <= i) => i = n
        BY <3>1
      <4>2. ASSUME answered'[d].done
            PROVE  /\ history'[n].done /\ (answered'[d].vain <=> history'[n].vain)
                   /\ answered'[d].vain => answered'[d].from = history'[n].from /\ answered'[d].at = history'[n].at
        BY <1>4, <1>5, <1>8, <2>7, <4>2
      <4> QED
        BY <3>1, <4>1, <4>2 DEF LastIsAnswer
    <3>6. ASSUME NEW i \in Own(d)', InVain(d, i)'
          PROVE  /\ answered'[d].vain /\ answered'[d].from = history'[i].from /\ answered'[d].at = history'[i].at
                 /\ \A y \in pass'.batch : y.d # d
      <4>1. i \in Over(d)' /\ (\A j \in Over(d)' : j <= i) /\ history'[i].vain /\ history'[i].done
        BY <3>6 DEF InVain, Over
      <4>2. CASE done
        <5>1. n \in Over(d)'
          BY <1>4, <1>8, <3>1, <4>2 DEF Over
        <5>2. i = n
          <6>1. (i \in 1 .. n - 1 \/ i = n) /\ n <= i
            BY <3>1, <4>1, <5>1
          <6> QED
            BY <6>1
        <5>3. vain /\ history'[n].from = x.from /\ history'[n].at = tick
          BY <1>4, <1>8, <4>1, <4>2, <5>2
        <5>4. \A y \in pass'.batch : y.d # d
          BY <2>1, <2>7
        <5> QED
          BY <1>5, <2>7, <5>2, <5>3, <5>4
      <4>3. CASE ~done
        <5>1. i \in 1 .. n - 1
          BY <1>4, <1>8, <3>1, <4>1, <4>3
        <5>2. \A k \in Over(d) : \E j \in 1 .. n - 1 : f[j] = k
          BY <1>4, <1>7, <1>8, <4>3 DEF Over, Own, Stays
        <5>3. InVain(d, f[i])
          BY <2>8, <3>6, <5>1, <5>2
        <5>4. f[i] \in Own(d)
          BY <2>4, <5>1
        <5>5. \A y \in pass.batch : y.d # d
          BY <2>1, <5>3, <5>4 DEF SkipIsTrue
        <5> QED
          BY <2>7, <5>5
      <4> QED
        BY <4>2, <4>3
    <3> QED
      BY <3>4, <3>5, <3>6 DEF SkipIsTrue
  <2> QED
    BY <2>6, <2>7
<1> QED
  BY <1>10, <1>11, <1>12 DEF RefreshInv, Lone

\* A request is made, as the recorder came along.
LEMMA RecordedKeeps ==
  ASSUME RefreshInv, NEW x \in pass.batch, NEW vain \in BOOLEAN, NEW named \in BOOLEAN, Recorded(x, vain, named),
         tick' = tick, newest' \in [Subs -> [s : Nat \cup {NoBar}, at : Nat]], \A d \in Subs : newest'[d].at <= tick,
         \A d \in Subs : TailStart(d) <= TailStart(d)', "batch" \in DOMAIN pass', pass'.batch \subseteq pass.batch \ {x}
  PROVE  RefreshInv'
<1>1. CASE \E shown \in BOOLEAN : Finished(x, vain, shown)
  BY <1>1, RunKeeps DEF Finished
<1>2. CASE Unfinished(x, vain, named) /\ history' = history
  <2>1. answered' = AnswerIs(x, vain, FALSE) /\ x.d \in Subs /\ x.from \in Nat /\ tick \in Nat /\ RefreshTyped
    BY <1>2 DEF Unfinished, RefreshInv, RefreshTyped
  <2>2. /\ answered' \in [Subs -> [of : {NoBar}, from : Int, vain : BOOLEAN, at : Nat, done : BOOLEAN]]
        /\ \A d \in Subs \ {x.d} : answered'[d] = answered[d]
        /\ ~answered'[x.d].done
    BY <2>1, AnswerGiven
  <2>3. \A y \in pass'.batch : y \in pass.batch
    OBVIOUS
  <2>4. RefreshTyped'
    BY <1>2, <2>1, <2>2, <2>3 DEF RefreshTyped
  <2>5. \A d \in Subs : answered'[d] = answered[d] \/ (~answered'[d].done /\ \E y \in pass.batch : y.d = d)
    BY <2>2
  <2>6. tick <= tick' /\ pass'.batch \subseteq pass.batch
    BY <2>1
  <2> QED
    BY <1>2, <2>4, <2>5, <2>6, HistoryStays
<1>3. CASE Unfinished(x, vain, named) /\ history' # history
  <2>1. PICK shown \in BOOLEAN : history' = Added(RunMade(x, FALSE, shown, FALSE))
    BY <1>3 DEF Unfinished
  <2> QED
    BY <1>3, <2>1, RunKeeps DEF Unfinished
<1> QED
  BY <1>1, <1>2, <1>3 DEF Recorded


\* A bar is stored, as new as the newest or newer: no dataset needs more than before.
LEMMA BarStored ==
  ASSUME RefreshTyped, tick' = tick, NEW d \in Subs, NEW s \in Nat, newest[d].s <= s,
         newest' = newest \/ newest' = [newest EXCEPT ![d] = [s |-> s, at |-> tick]]
  PROVE  /\ newest' \in [Subs -> [s : Nat \cup {NoBar}, at : Nat]] /\ \A e \in Subs : newest'[e].at <= tick
         /\ \A e \in Subs : TailStart(e) <= TailStart(e)'
<1>1. tick \in Nat /\ newest \in [Subs -> [s : Nat \cup {NoBar}, at : Nat]] /\ \A e \in Subs : newest[e].at <= tick
  BY DEF RefreshTyped
<1>2. ASSUME NEW e \in Subs, newest'[e] = newest[e]
      PROVE  TailStart(e) <= TailStart(e)'
  <2>1. TailStart(e)' = TailStart(e)
    BY <1>2 DEF TailStart, IsProvisional, FireOf, CloseOf
  <2>2. TailStart(e) \in Nat
    BY TailIs
  <2> QED
    BY <2>1, <2>2
<1>3. CASE newest' = newest
  BY <1>1, <1>2, <1>3
<1>4. CASE newest' = [newest EXCEPT ![d] = [s |-> s, at |-> tick]]
  <2>1. PICK b : b = [s |-> s, at |-> tick]
    OBVIOUS
  <2>2. b.s = s /\ b.at = tick /\ b \in [s : Nat \cup {NoBar}, at : Nat]
    BY <1>1, <2>1
  <2>3. newest' = [newest EXCEPT ![d] = b]
    BY <1>4, <2>1
  <2>4. newest'[d] = b /\ \A e \in Subs \ {d} : newest'[e] = newest[e]
    BY <1>1, <2>3
  <2>5. newest' \in [Subs -> [s : Nat \cup {NoBar}, at : Nat]]
    BY <1>1, <2>2, <2>3
  <2>6. \A e \in Subs : newest'[e].at <= tick
    BY <1>1, <2>2, <2>4
  <2>7. TailStart(d) <= TailStart(d)'
    BY <2>2, <2>4, TailRises
  <2> QED
    BY <1>2, <2>4, <2>5, <2>6, <2>7
<1> QED
  BY <1>3, <1>4

\* A step that stores no bar and asks for nothing.
LEMMA QuietStep ==
  ASSUME RefreshInv, UNCHANGED <<newest, history, answered>>, tick' \in Nat, tick <= tick',
         "batch" \in DOMAIN pass', pass'.batch \subseteq pass.batch
  PROVE  RefreshInv'
<1>1. RefreshTyped
  BY DEF RefreshInv
<1>2. \A d \in Subs : TailStart(d) <= TailStart(d)'
  <2>1. ASSUME NEW d \in Subs
        PROVE  TailStart(d) <= TailStart(d)'
    <3>1. TailStart(d)' = TailStart(d)
      BY DEF TailStart, IsProvisional, FireOf, CloseOf
    <3>2. TailStart(d) \in Nat
      BY <1>1, TailIs
    <3> QED
      BY <3>1, <3>2
  <2> QED
    BY <2>1
<1>3. \A d \in Subs : newest'[d].at <= tick'
  <2>1. \A d \in Subs : newest[d].at \in Nat /\ newest[d].at <= tick
    BY <1>1 DEF RefreshTyped
  <2> QED
    BY <1>1, <2>1 DEF RefreshTyped
<1>4. RefreshTyped'
  BY <1>1, <1>3 DEF RefreshTyped
<1> QED
  BY <1>1, <1>2, <1>4, HistoryStays

LEMMA IdleIs == "batch" \in DOMAIN Idle /\ Idle.batch = {}
BY DEF Idle

\* The batch of a pass: whom it asks for, and from where.
LEMMA TakenIs ==
  ASSUME NEW x \in Taken
  PROVE  x.d \in Subs /\ x.from = TailStart(x.d)
<1>1. First \subseteq Subs /\ Again \subseteq Subs
  BY DEF First, Again, Productive, DueAgain, OwedNow
<1>2. (\E d \in First : x = [d |-> d, from |-> TailStart(d), turn |-> Turn(d, Productive)])
      \/ \E d \in Again : x = [d |-> d, from |-> TailStart(d), turn |-> Cardinality(First) + Turn(d, DueAgain)]
  BY DEF Taken
<1> QED
  BY <1>1, <1>2

\* Each dataset that a pass takes is asked for once.
LEMMA TakenOnce ==
  /\ \A x, y \in Taken : x.d = y.d => x = y
  /\ \A d \in First \cup Again : \E x \in Taken : x.d = d
<1>1. First \cap Again = {}
  BY DEF First, Again, Productive
<1>2. \A x \in Taken :
        \/ x.d \in First /\ x = [d |-> x.d, from |-> TailStart(x.d), turn |-> Turn(x.d, Productive)]
        \/ x.d \in Again /\ x = [d |-> x.d, from |-> TailStart(x.d), turn |-> Cardinality(First) + Turn(x.d, DueAgain)]
  BY DEF Taken
<1>3. ASSUME NEW x \in Taken, NEW y \in Taken, x.d = y.d
      PROVE  x = y
  BY <1>1, <1>2, <1>3
<1>4. ASSUME NEW d \in First \cup Again
      PROVE  \E x \in Taken : x.d = d
  <2>1. CASE d \in First
    <3>1. PICK x : x = [d |-> d, from |-> TailStart(d), turn |-> Turn(d, Productive)]
      OBVIOUS
    <3> QED
      BY <2>1, <3>1 DEF Taken
  <2>2. CASE d \in Again
    <3>1. PICK x : x = [d |-> d, from |-> TailStart(d), turn |-> Cardinality(First) + Turn(d, DueAgain)]
      OBVIOUS
    <3> QED
      BY <2>2, <3>1 DEF Taken
  <2> QED
    BY <1>4, <2>1, <2>2
<1> QED
  BY <1>3, <1>4

\* The last of the runs that the plan looks at.
LEMMA LastAttemptIs ==
  ASSUME RefreshTyped, NEW d \in Subs
  PROVE  \/ Attempts(d) = {} /\ LastAttempt(d) = NeverRun
         \/ \E p \in Attempts(d) : LastAttempt(d) = history[p] /\ \A q \in Attempts(d) : q <= p
<1>1. Len(history) \in Nat /\ Attempts(d) \subseteq 1 .. Len(history)
  BY DEF RefreshTyped, Attempts
<1>2. CASE Attempts(d) # {}
  <2>1. PICK p \in Attempts(d) : \A q \in Attempts(d) : q <= p
    <3>1. Attempts(d) \in SUBSET Nat /\ \A q \in Attempts(d) : q <= Len(history)
      BY <1>1
    <3> QED
      BY <1>1, <1>2, <3>1, LargestOf
  <2>2. p \in Nat /\ \A q \in {0} \cup Attempts(d) : q \in Int /\ q <= p
    BY <1>1, <2>1
  <2>3. LastPlace(d) = p
    <3>1. p \in {0} \cup Attempts(d) /\ p \in Int
      BY <2>2
    <3> QED
      BY <2>2, <3>1, MaxIs DEF LastPlace
  <2> QED
    BY <1>2, <2>1, <2>3 DEF LastAttempt
<1> QED
  BY <1>2 DEF LastAttempt

\* The plan leaves a dataset out just when the last of its finished runs was in vain: those it looks at are
\* the dataset's, and none of the others is both later and of an older tail.
LEMMA SkippedIs ==
  ASSUME RefreshInv, NEW d \in Subs, Lone(d)
  PROVE  IsSkipped(d) <=> \E i \in Own(d) : InVain(d, i)
<1>1. RefreshTyped /\ HistoryInOrder /\ TailsRise(d)
  BY DEF RefreshInv
<1>2. tick \in Nat /\ Len(history) \in Nat /\ TailStart(d) \in Nat
  BY <1>1, TailIs DEF RefreshTyped
<1>3. PICK c \in Nat : c = CloseOf(LastClosed)
  BY <1>2, CalendarIs, RefreshAssumption DEF CloseOf
<1>4. PICK t \in Nat : t = TailStart(d)
  BY <1>2
<1>5. PICK w \in Int : w = tick - Lookback
  BY <1>2, RefreshAssumption
<1>6. w <= c
  BY <1>2, <1>3, <1>5, CalendarIs
<1>7. \A i \in 1 .. Len(history) : history[i].at \in Nat /\ history[i].from \in Int /\ history[i].vain \in BOOLEAN
  BY <1>1, RunTyped
<1>8. Own(d) \subseteq 1 .. Len(history) /\ Over(d) \subseteq Own(d)
  BY DEF Own, Over
<1>9. Attempts(d) = {i \in Over(d) : history[i].at >= w /\ (history[i].of = d \/ history[i].from = t)}
  BY <1>4, <1>5 DEF Attempts, Own, Over
<1>10. IsSkipped(d) <=> LastAttempt(d).vain /\ LastAttempt(d).from = t /\ LastAttempt(d).at >= c
  BY <1>3, <1>4 DEF IsSkipped, Unproductive
<1>11. ASSUME NEW i \in Own(d), InVain(d, i)
       PROVE  IsSkipped(d)
  <2>1. /\ i \in Over(d) /\ (\A j \in Over(d) : j <= i)
        /\ history[i].vain /\ history[i].from = t /\ history[i].at >= c
    BY <1>3, <1>4, <1>11 DEF InVain
  <2>2. i \in Attempts(d)
    BY <1>6, <1>7, <1>8, <1>9, <2>1
  <2>3. PICK p \in Attempts(d) : LastAttempt(d) = history[p] /\ \A q \in Attempts(d) : q <= p
    BY <1>1, <2>2, LastAttemptIs
  <2>4. p = i
    <3>1. p <= i /\ i <= p
      BY <1>9, <2>1, <2>2, <2>3
    <3>2. p \in Int /\ i \in Int
      BY <1>8, <1>9, <2>1
    <3> QED
      BY <3>1, <3>2
  <2> QED
    BY <1>10, <2>1, <2>3, <2>4
<1>12. ASSUME IsSkipped(d)
       PROVE  \E i \in Own(d) : InVain(d, i)
  <2>1. PICK p \in Attempts(d) : LastAttempt(d) = history[p] /\ \A q \in Attempts(d) : q <= p
    BY <1>1, <1>10, <1>12, LastAttemptIs DEF NeverRun
  <2>2. /\ p \in Over(d) /\ p \in Own(d) /\ p \in 1 .. Len(history)
        /\ history[p].vain /\ history[p].from = t /\ history[p].at >= c /\ history[p].at \in Nat
    BY <1>7, <1>8, <1>9, <1>10, <1>12, <2>1
  <2>3. ASSUME NEW i \in Over(d), p < i
        PROVE  FALSE
    <3>1. i \in 1 .. Len(history) /\ i \in Own(d) /\ history[i].at \in Nat /\ history[i].from \in Int
      BY <1>7, <1>8
    <3>2. history[p].at <= history[i].at
      BY <1>1, <2>2, <2>3, <3>1 DEF HistoryInOrder
    <3>3. history[i].at >= w
      BY <1>6, <2>2, <3>1, <3>2
    <3>4. i \notin Attempts(d)
      <4>1. p \in Int /\ i \in Int
        BY <2>2, <3>1
      <4> QED
        BY <2>1, <2>3, <4>1
    <3>5. history[i].of # d /\ history[i].from # t
      BY <1>9, <3>3, <3>4
    <3>6. history[i].of = RequestOf[d]
      BY <3>1, <3>5 DEF Own
    <3>7. history[p].from <= history[i].from /\ history[i].from <= t
      BY <1>1, <1>4, <2>2, <2>3, <3>1, <3>6 DEF TailsRise
    <3> QED
      BY <2>2, <3>1, <3>5, <3>7
  <2>4. \A j \in Over(d) : j <= p
    <3>1. \A j \in Over(d) : j \in Int /\ p \in Int
      BY <1>8, <2>2
    <3> QED
      BY <2>3, <3>1
  <2> QED
    BY <1>3, <1>4, <2>2, <2>4 DEF InVain
<1> QED
  BY <1>11, <1>12

\* A pass asks only for datasets that are owed something and that it does not leave out.
LEMMA TakenOwed ==
  ASSUME NEW x \in Taken
  PROVE  x.d \in Productive \cup DueAgain /\ x.d \in OwedNow
<1>1. First \subseteq Productive /\ Again \subseteq DueAgain
  BY DEF First, Again
<1>2. (\E d \in First : x = [d |-> d, from |-> TailStart(d), turn |-> Turn(d, Productive)])
      \/ \E d \in Again : x = [d |-> d, from |-> TailStart(d), turn |-> Cardinality(First) + Turn(d, DueAgain)]
  BY DEF Taken
<1>3. x.d \in First \cup Again
  BY <1>2
<1> QED
  BY <1>1, <1>3 DEF Productive, DueAgain

LEMMA StartRefreshKeeps ==
  ASSUME RefreshInv, StartRefresh
  PROVE  RefreshInv'
<1>1. UNCHANGED <<tick, newest, history, answered>>
  BY DEF StartRefresh, dataVars
<1>2. PICK b : b = Taken
  OBVIOUS
<1>3. "batch" \in DOMAIN pass' /\ pass'.batch = b
  BY <1>2 DEF StartRefresh, Idle
<1>4. RefreshTyped /\ HistoryInOrder
  BY DEF RefreshInv
<1>5. \A x \in b : x.d \in Subs /\ x.from = TailStart(x.d) /\ x.from \in Nat
  BY <1>2, <1>4, TakenIs, TailIs
<1>6. RefreshTyped'
  <2>1. \A x, y \in b : x.d = y.d => x = y
    BY <1>2, TakenOnce
  <2> QED
    BY <1>1, <1>3, <1>4, <1>5, <2>1 DEF RefreshTyped
<1>7. HistoryInOrder'
  BY <1>1, <1>4 DEF HistoryInOrder
<1>8. ASSUME NEW d \in Subs, Lone(d)
      PROVE  TailsRise(d)' /\ LastIsAnswer(d)' /\ SkipIsTrue(d)'
  <2>1. TailsRise(d) /\ LastIsAnswer(d) /\ SkipIsTrue(d)
    BY <1>8 DEF RefreshInv
  <2>2. TailStart(d)' = TailStart(d) /\ Own(d)' = Own(d)
    BY <1>1 DEF TailStart, IsProvisional, FireOf, CloseOf, Own
  <2>3. TailStart(d) \in Nat
    BY <1>4, TailIs
  <2>4. \A x \in b : x.d = d => x.from = TailStart(d)
    BY <1>5
  <2>5. SkipIsTrue(d)'
    <3>1. ASSUME NEW i \in Own(d), InVain(d, i)'
          PROVE  InVain(d, i)
      <4>1. Over(d)' = Over(d) /\ CloseOf(LastClosed)' = CloseOf(LastClosed)
        BY <1>1, <2>2 DEF Over, CloseOf, LastClosed
      <4> QED
        BY <1>1, <2>2, <3>1, <4>1 DEF InVain
    <3>2. ASSUME NEW i \in Own(d), InVain(d, i), NEW x \in b, x.d = d
          PROVE  FALSE
      <4>1. ~IsSkipped(d)
        <5>1. d \in Productive \cup DueAgain /\ d \in OwedNow
          BY <1>2, <3>2, TakenOwed
        <5> QED
          BY <5>1 DEF Productive, DueAgain, IsDueAgain, Skipped
      <4> QED
        BY <1>8, <3>2, <4>1, SkippedIs
    <3> QED
      BY <1>1, <1>3, <2>1, <2>2, <3>1, <3>2 DEF SkipIsTrue
  <2> QED
    BY <1>1, <1>3, <2>1, <2>2, <2>3, <2>4, <2>5 DEF TailsRise, LastIsAnswer
<1> QED
  BY <1>6, <1>7, <1>8 DEF RefreshInv, Lone

LEMMA ElsewhereEndsKeeps ==
  ASSUME RefreshInv, NEW d \in Subs, ElsewhereEnds(d)
  PROVE  RefreshInv'
<1>1. UNCHANGED <<tick, history, answered, pass>> /\ RefreshTyped
  BY DEF ElsewhereEnds, RefreshInv
<1>2. PICK s \in {newest[d].s} \cup (Max({newest[d].s, 0}) .. OpenSession) :
         newest' = IF s = newest[d].s THEN newest ELSE [newest EXCEPT ![d] = [s |-> s, at |-> tick]]
  BY Zenon DEF ElsewhereEnds
<1>3. CASE newest' = newest
  <2>1. tick \in Nat /\ "batch" \in DOMAIN pass
    BY <1>1 DEF RefreshTyped
  <2> QED
    BY <1>1, <1>3, <2>1, QuietStep
<1>4. CASE newest' # newest
  <2>1. newest[d].s \in Int
    BY <1>1 DEF RefreshTyped, NoBar
  <2>2. PICK m \in Int : m = Max({newest[d].s, 0}) /\ newest[d].s <= m /\ 0 <= m
    <3>1. PICK a \in Int : a = newest[d].s
      BY <2>1
    <3>2. PICK z \in Int : z = 0
      OBVIOUS
    <3>3. Max({a, z}) \in {a, z} /\ a <= Max({a, z}) /\ z <= Max({a, z})
      BY MaxTwo
    <3> QED
      BY <3>1, <3>2, <3>3
  <2>3. s \in m .. OpenSession /\ OpenSession \in Nat
    BY <1>1, <1>2, <1>4, <2>2, CalendarIs DEF RefreshTyped
  <2>4. s \in Nat /\ newest[d].s <= s
    BY <2>1, <2>2, <2>3
  <2>5. newest' = newest \/ newest' = [newest EXCEPT ![d] = [s |-> s, at |-> tick]]
    BY <1>2
  <2>6. /\ newest' \in [Subs -> [s : Nat \cup {NoBar}, at : Nat]] /\ \A e \in Subs : newest'[e].at <= tick
        /\ \A e \in Subs : TailStart(e) <= TailStart(e)'
    BY <1>1, <2>4, <2>5, BarStored
  <2>7. RefreshTyped' /\ tick <= tick'
    BY <1>1, <2>6 DEF RefreshTyped
  <2> QED
    BY <1>1, <2>6, <2>7, HistoryStays
<1> QED
  BY <1>3, <1>4

\* A request of the pass.
LEMMA ProceedIs ==
  ASSUME RefreshTyped, NEW x \in pass.batch, NEW n, Proceed(x, n)
  PROVE  "batch" \in DOMAIN pass' /\ pass'.batch \subseteq pass.batch \ {x}
<1>1. "batch" \in DOMAIN pass
  BY DEF RefreshTyped
<1> QED
  BY <1>1 DEF Proceed

LEMMA StoresTailKeeps ==
  ASSUME RefreshInv, NEW x \in pass.batch, StoresTail(x)
  PROVE  RefreshInv'
<1>1. RefreshTyped /\ tick' = tick /\ Recorded(x, FALSE, TRUE) /\ Proceed(x, 0)
  BY DEF StoresTail, RefreshInv
<1>2. x.d \in Subs /\ x.from \in Nat /\ newest[x.d].s \in Int /\ LastClosed \in Int /\ OpenSession \in Int
  BY <1>1, CalendarIs DEF RefreshTyped, NoBar
<1>3. PICK s \in Max({x.from, LastClosed}) .. OpenSession :
         newest' = IF s >= newest[x.d].s THEN [newest EXCEPT ![x.d] = [s |-> s, at |-> tick]] ELSE newest
  BY DEF StoresTail
<1>4. PICK m \in Int : m = Max({x.from, LastClosed}) /\ x.from <= m
  <2>1. PICK a \in Int : a = x.from
    BY <1>2
  <2>2. PICK b \in Int : b = LastClosed
    BY <1>2
  <2>3. Max({a, b}) \in {a, b} /\ a <= Max({a, b})
    BY MaxTwo
  <2> QED
    BY <2>1, <2>2, <2>3
<1>5. s \in Nat
  BY <1>2, <1>3, <1>4
<1>6. /\ newest' \in [Subs -> [s : Nat \cup {NoBar}, at : Nat]] /\ \A e \in Subs : newest'[e].at <= tick
      /\ \A e \in Subs : TailStart(e) <= TailStart(e)'
  <2>1. CASE newest[x.d].s <= s
    <3>1. newest' = newest \/ newest' = [newest EXCEPT ![x.d] = [s |-> s, at |-> tick]]
      BY <1>3
    <3>2. PICK d \in Subs : d = x.d
      BY <1>2
    <3> QED
      BY <1>1, <1>5, <2>1, <3>1, <3>2, BarStored
  <2>2. CASE ~(newest[x.d].s <= s)
    <3>1. newest' = newest
      BY <1>2, <1>3, <1>5, <2>2
    <3>2. \A e \in Subs : TailStart(e)' = TailStart(e) /\ TailStart(e) \in Nat
      BY <1>1, <3>1, TailIs DEF TailStart, IsProvisional, FireOf, CloseOf
    <3> QED
      BY <1>1, <3>1, <3>2 DEF RefreshTyped
  <2> QED
    BY <2>1, <2>2
<1>7. "batch" \in DOMAIN pass' /\ pass'.batch \subseteq pass.batch \ {x}
  BY <1>1, ProceedIs
<1> QED
  BY <1>1, <1>6, <1>7, RecordedKeeps

\* A request that stores nothing.
LEMMA AskedKeeps ==
  ASSUME RefreshInv, NEW x \in pass.batch, NEW vain \in BOOLEAN, NEW named \in BOOLEAN, Recorded(x, vain, named),
         UNCHANGED <<tick, newest>>, "batch" \in DOMAIN pass', pass'.batch \subseteq pass.batch \ {x}
  PROVE  RefreshInv'
<1>1. RefreshTyped
  BY DEF RefreshInv
<1>2. \A e \in Subs : TailStart(e)' = TailStart(e) /\ TailStart(e) \in Nat
  BY <1>1, TailIs DEF TailStart, IsProvisional, FireOf, CloseOf
<1>3. /\ newest' \in [Subs -> [s : Nat \cup {NoBar}, at : Nat]] /\ \A e \in Subs : newest'[e].at <= tick
      /\ \A e \in Subs : TailStart(e) <= TailStart(e)'
  BY <1>1, <1>2 DEF RefreshTyped
<1> QED
  BY <1>3, RecordedKeeps

\* A request that stores nothing was in vain or not, and known to be the dataset's or not.
LEMMA RequestMade ==
  ASSUME NEW x \in pass.batch, FindsNothing(x) \/ IsRefused(x) \/ RequestFails(x)
  PROVE  \E vain \in BOOLEAN, named \in BOOLEAN : Recorded(x, vain, named)
<1>1. (x.d \in active) \in BOOLEAN
  OBVIOUS
<1>2. CASE FindsNothing(x)
  <2>1. Recorded(x, TRUE, x.d \in active)
    BY <1>2 DEF FindsNothing
  <2> QED
    BY <1>1, <2>1, Zenon
<1>3. CASE IsRefused(x)
  BY <1>3 DEF IsRefused
<1>4. CASE RequestFails(x)
  <2>1. PICK named \in {FALSE, x.d \in active} : Recorded(x, FALSE, named)
    BY <1>4, Zenon DEF RequestFails
  <2>2. named \in BOOLEAN
    BY <1>1, <2>1, Zenon
  <2> QED
    BY <2>1, <2>2, Zenon
<1> QED
  BY <1>2, <1>3, <1>4

LEMMA RequestsKeep ==
  ASSUME RefreshInv, NEW x \in pass.batch, FindsNothing(x) \/ IsRefused(x) \/ RequestFails(x)
  PROVE  RefreshInv'
<1>1. UNCHANGED <<tick, newest>> /\ RefreshTyped
  BY DEF FindsNothing, IsRefused, RequestFails, dataVars, RefreshInv
<1>2. PICK vain \in BOOLEAN, named \in BOOLEAN : Recorded(x, vain, named)
  BY RequestMade
<1>3. "batch" \in DOMAIN pass' /\ pass'.batch \subseteq pass.batch \ {x}
  <2>1. (\E n : Proceed(x, n)) \/ pass' = Idle
    BY DEF FindsNothing, IsRefused, RequestFails
  <2> QED
    BY <1>1, <2>1, ProceedIs, IdleIs
<1> QED
  BY <1>1, <1>2, <1>3, AskedKeeps

\* The sweep finishes the runs left RUNNING, which were not in vain as far as they say.
LEMMA RestartKeeps ==
  ASSUME RefreshInv, RefreshRestarts
  PROVE  RefreshInv'
<1>1. UNCHANGED <<tick, newest, answered>> /\ pass' = Idle /\ (history' = Swept \/ history' = history)
  BY DEF RefreshRestarts, ghostVars
<1>2. RefreshTyped /\ tick \in Nat /\ HistoryInOrder
  BY DEF RefreshInv, RefreshTyped
<1>3. CASE history' = history
  BY <1>1, <1>2, <1>3, QuietStep, IdleIs
<1>4. CASE history' = Swept
  <2>1. PICK n \in Nat : n = Len(history)
    BY <1>2 DEF RefreshTyped
  <2>2. \A i \in 1 .. n : history[i] \in Runs /\ (history[i].vain => history[i].done)
    BY <1>2, <2>1, RunTyped
  <2>3. history' = [i \in 1 .. n |-> [history[i] EXCEPT !.done = TRUE]]
    BY <1>4, <2>1 DEF Swept
  <2>4. ASSUME NEW i \in 1 .. n
        PROVE  /\ history'[i] \in Runs /\ history'[i].of = history[i].of /\ history'[i].from = history[i].from
               /\ history'[i].vain = history[i].vain /\ history'[i].at = history[i].at /\ history'[i].done
    <3>1. PICK r \in Runs : r = history[i]
      BY <2>2
    <3>2. history'[i] = [r EXCEPT !.done = TRUE]
      BY <2>3, <3>1
    <3> QED
      BY <3>1, <3>2 DEF Runs
  <2>5. history' \in Seq(Runs) /\ Len(history') = n
    <3>1. history' \in [1 .. n -> Runs]
      BY <2>3, <2>4
    <3> QED
      BY <3>1
  <2>6. RefreshTyped'
    BY <1>1, <1>2, <2>5, IdleIs DEF RefreshTyped
  <2>7. HistoryInOrder'
    BY <1>1, <1>2, <2>1, <2>4, <2>5 DEF HistoryInOrder
  <2>8. ASSUME NEW d \in Subs, Lone(d)
        PROVE  TailsRise(d)' /\ LastIsAnswer(d)' /\ SkipIsTrue(d)'
    <3>1. TailsRise(d) /\ LastIsAnswer(d) /\ SkipIsTrue(d)
      BY <2>8 DEF RefreshInv
    <3>2. Own(d)' = Own(d) /\ Own(d) \subseteq 1 .. n /\ Over(d)' = Own(d) /\ Over(d) \subseteq Own(d)
      BY <2>1, <2>4, <2>5 DEF Own, Over
    <3>3. TailStart(d)' = TailStart(d) /\ CloseOf(LastClosed)' = CloseOf(LastClosed)
      BY <1>1 DEF TailStart, IsProvisional, FireOf, CloseOf, LastClosed
    <3>4. TailsRise(d)'
      BY <1>1, <2>4, <3>1, <3>2, <3>3, IdleIs DEF TailsRise
    <3>5. LastIsAnswer(d)'
      BY <1>1, <2>4, <3>1, <3>2 DEF LastIsAnswer
    <3>6. ASSUME NEW i \in Own(d), InVain(d, i)'
          PROVE  InVain(d, i)
      <4>1. /\ i \in 1 .. n /\ (\A j \in Own(d) : j <= i) /\ history'[i].vain
            /\ history'[i].from = TailStart(d) /\ history'[i].at >= CloseOf(LastClosed)
        BY <3>2, <3>3, <3>6 DEF InVain
      <4>2. history[i].vain /\ history[i].done /\ history[i].from = TailStart(d) /\ history[i].at >= CloseOf(LastClosed)
        BY <2>2, <2>4, <4>1
      <4> QED
        BY <3>2, <4>1, <4>2 DEF InVain, Over
    <3>7. SkipIsTrue(d)'
      BY <1>1, <2>4, <3>1, <3>2, <3>6, IdleIs DEF SkipIsTrue
    <3> QED
      BY <3>4, <3>5, <3>7
  <2> QED
    BY <2>6, <2>7, <2>8 DEF RefreshInv, Lone
<1> QED
  BY <1>1, <1>3, <1>4

LEMMA StepRefresh ==
  ASSUME RefreshInv, [Next]_vars
  PROVE  RefreshInv'
<1>1. RefreshTyped /\ tick \in Nat /\ "batch" \in DOMAIN pass
  BY DEF RefreshInv, RefreshTyped
<1>2. CASE RefreshNext
  <2>1. CASE NameFire \/ ScheduleFails \/ AskAgain \/ RefreshRaises \/ \E d \in Subs : Flip(d) \/ ElsewhereBegins(d)
    <3>1. UNCHANGED <<tick, newest, history, answered, pass>>
      BY <2>1 DEF NameFire, ScheduleFails, AskAgain, RefreshRaises, Flip, ElsewhereBegins, dataVars, ghostVars
    <3> QED
      BY <1>1, <3>1, QuietStep
  <2>2. CASE EndRefresh
    <3>1. UNCHANGED <<tick, newest, history, answered>> /\ pass' = Idle
      BY <2>2 DEF EndRefresh, dataVars
    <3> QED
      BY <1>1, <3>1, QuietStep, IdleIs
  <2>7. CASE RefreshRestarts
    BY <2>7, RestartKeeps
  <2>3. CASE TickPasses
    <3>1. UNCHANGED <<newest, history, answered, pass>> /\ tick' = tick + 1
      BY <2>3 DEF TickPasses, dataVars
    <3> QED
      BY <1>1, <3>1, QuietStep
  <2>4. CASE StartRefresh
    BY <2>4, StartRefreshKeeps
  <2>5. CASE \E d \in Subs : ElsewhereEnds(d)
    BY <2>5, ElsewhereEndsKeeps
  <2>6. CASE \E x \in pass.batch : StoresTail(x) \/ FindsNothing(x) \/ IsRefused(x) \/ RequestFails(x)
    BY <2>6, StoresTailKeeps, RequestsKeep
  <2> QED
    BY <1>2, <2>1, <2>2, <2>3, <2>4, <2>5, <2>6, <2>7 DEF RefreshNext
<1>3. CASE UNCHANGED refreshVars
  <2>1. UNCHANGED <<tick, newest, history, answered, pass>>
    BY <1>3 DEF refreshVars
  <2> QED
    BY <1>1, <2>1, QuietStep
<1> QED
  BY <1>2, <1>3 DEF Next, vars, Detail, Viewer, Grid, Coverage, Usage, Sidebar, Refresh, Failure


LEMMA InitRefresh == RefreshInit => RefreshInv
<1> SUFFICES ASSUME RefreshInit PROVE RefreshInv
  OBVIOUS
<1>1. /\ tick = 0 /\ history = <<>> /\ pass = Idle
      /\ newest = [d \in Subs |-> [s |-> NoBar, at |-> 0]] /\ answered = [d \in Subs |-> NeverRun]
  BY DEF RefreshInit
<1>2. RefreshTyped
  BY <1>1, IdleIs DEF RefreshTyped, NeverRun
<1>3. HistoryInOrder
  BY <1>1 DEF HistoryInOrder
<1>4. ASSUME NEW d \in Subs
      PROVE  TailsRise(d) /\ LastIsAnswer(d) /\ SkipIsTrue(d)
  <2>1. Own(d) = {} /\ ~answered[d].vain
    BY <1>1 DEF Own, NeverRun
  <2> QED
    BY <1>1, <2>1, IdleIs DEF TailsRise, LastIsAnswer, SkipIsTrue
<1> QED
  BY <1>2, <1>3, <1>4 DEF RefreshInv

\* Whenever a pass plans, it leaves out only datasets whose own last answer, for the tail they still need
\* and since the last close, was in vain, whatever the recorder failed to write since; and every such
\* dataset if the end of its run was written, whatever it recorded of it and however often the process
\* restarted (daily_refresh.py _plan, ingest_run.py, run_recording.py).
THEOREM OncePerCloseAlways == Spec => []OncePerClose
<1>1. Init => RefreshInv
  BY InitRefresh DEF Init
<1>2. RefreshInv => OncePerClose
  <2> SUFFICES ASSUME RefreshInv, NEW d \in OwedNow, Lone(d)
               PROVE  LET inVain == Unproductive(answered[d], TailStart(d)) /\ answered[d].at >= CloseOf(LastClosed)
                      IN  /\ d \in Skipped => inVain
                          /\ inVain /\ answered[d].done => d \in Skipped
    BY DEF OncePerClose
  <2>1. d \in Subs /\ (d \in Skipped <=> IsSkipped(d))
    BY DEF OwedNow, Skipped
  <2>2. RefreshTyped /\ LastIsAnswer(d) /\ SkipIsTrue(d)
    BY <2>1 DEF RefreshInv
  <2>3. ASSUME IsSkipped(d)
        PROVE  Unproductive(answered[d], TailStart(d)) /\ answered[d].at >= CloseOf(LastClosed)
    <3>1. PICK i \in Own(d) : InVain(d, i)
      BY <2>1, <2>3, SkippedIs
    <3> QED
      BY <2>2, <3>1 DEF SkipIsTrue, InVain, Unproductive
  <2>4. ASSUME answered[d].done, Unproductive(answered[d], TailStart(d)), answered[d].at >= CloseOf(LastClosed)
        PROVE  IsSkipped(d)
    <3>1. answered[d].vain /\ answered[d].from = TailStart(d)
      BY <2>4 DEF Unproductive
    <3>2. Len(history) \in Nat /\ Own(d) \subseteq 1 .. Len(history)
      BY <2>2 DEF RefreshTyped, Own
    <3>3. Own(d) \in SUBSET Nat /\ Own(d) # {} /\ \A j \in Own(d) : j <= Len(history)
      BY <2>2, <2>4, <3>1, <3>2 DEF LastIsAnswer
    <3>4. PICK i \in Own(d) : \A j \in Own(d) : j <= i
      BY <3>2, <3>3, LargestOf
    <3>5. /\ history[i].done /\ history[i].vain
          /\ history[i].from = TailStart(d) /\ history[i].at >= CloseOf(LastClosed)
      BY <2>2, <2>4, <3>1, <3>4 DEF LastIsAnswer
    <3>6. InVain(d, i)
      BY <3>4, <3>5 DEF InVain, Over
    <3> QED
      BY <2>1, <3>6, SkippedIs
  <2> QED
    BY <2>1, <2>3, <2>4
<1> QED
  BY <1>1, <1>2, StepRefresh, PTL DEF Spec
=============================================================================
