----------------------------- MODULE DetailScreen -----------------------------
(***************************************************************************)
(* The dataset detail screen of the web client: the store behind it        *)
(* (stores/datasetDetail.ts), the live refresh that turns an event into a  *)
(* refetch (useDatasetDetailLive.ts), and as much of the server as the     *)
(* screen sees: datasets that change, and events published after commit.  *)
(* A version stands for all the facts of an overview, a run's version for  *)
(* the newest row of the History section.                                  *)
(***************************************************************************)
EXTENDS LiveEvents, FiniteSetsExt

CONSTANTS
    Datasets,
    None,
    MaxChanges, \* bound on commits
    MaxInputs   \* bound on what the operator does

ASSUME DetailAssumption ==
    /\ None \notin Datasets \cup [id : Datasets, v : Nat]
    /\ {MaxChanges, MaxInputs} \subseteq Nat

VARIABLES
    store,   \* what is committed: each dataset's version, its newest run's, and whether it is gone
    due,     \* events of committed changes that are not published yet
    at,      \* currentId
    scr,     \* what the screen holds
    asks,    \* fetches in flight, with the answer once the server has read it
    writes,  \* the operator's writes in flight
    missed,  \* history: how the screen came to trust what is out of date
    inputs   \* how much the operator has done

serverVars == <<store, due>>
screenVars == <<at, scr, asks, writes, missed, inputs>>
detailVars == <<store, due, at, scr, asks, writes, missed, inputs>>

Blank == [shown |-> None, row |-> None, status |-> "idle", rows |-> "idle", deleted |-> FALSE,
          problem |-> FALSE, timer |-> FALSE, writing |-> FALSE]

Loading == [Blank EXCEPT !.status = "loading", !.rows = "loading"]

Fetch(what, d, soft) == [what |-> what, id |-> d, soft |-> soft, got |-> None]
Answer(kind, v)      == [kind |-> kind, v |-> v]

Changed(d)    == [t |-> "changed", id |-> d]
Deleted(d)    == [t |-> "deleted", id |-> d]
RunMoved(d, v) == [t |-> "run", id |-> d, v |-> v]

\* What a first load leaves in flight.
LoadOf(d) == {Fetch("overview", d, FALSE), Fetch("runs", d, FALSE)}

DetailInit ==
    /\ store = [d \in Datasets |-> [ver |-> 0, run |-> 1, gone |-> FALSE]]
    /\ due = {}
    /\ at = None /\ scr = Blank /\ asks = {}
    /\ writes = {} /\ missed = {} /\ inputs = 0

---------------------------------------------------------------------------
(* The server: commits, and publications after them. *)

Commits ==
    LET moves(d) == store[d].ver + store[d].run - 1 + (IF store[d].gone THEN 1 ELSE 0)
    IN  MapThenSumSet(moves, Datasets)

\* A dataset's facts change (a store, an expiry, collecting switched), its newest run's row
\* moves, or it goes. The events of one run come from one task, in order.
Commit(d) ==
    /\ ~store[d].gone
    /\ Commits < MaxChanges
    /\ \/ /\ store' = [store EXCEPT ![d].ver = @ + 1]
          /\ due' = due \cup {Changed(d)}
       \/ /\ \A e \in due : e.t = "run" => e.id # d
          /\ store' = [store EXCEPT ![d].run = @ + 1]
          /\ due' = due \cup {RunMoved(d, store[d].run + 1)}
       \/ /\ store' = [store EXCEPT ![d].gone = TRUE]
          /\ due' = due \cup {Deleted(d)}
    /\ UNCHANGED <<screenVars, feedVars>>

Queued == {queue[i] : i \in 1 .. Len(queue)}

\* A hint lost before the first open is one that no reload makes up for.
Unheard(lost) == IF ~opened /\ \E e \in lost \ Signals : e.id = at THEN {"unheard"} ELSE {}

Publish(e) ==
    /\ e \in due
    /\ due' = due \ {e}
    /\ Offer(e)
    /\ missed' = missed \cup Unheard(CASE sub # "on" -> {e}
                                       [] sub = "on" /\ sub' = "dropped" -> Queued \cup {e}
                                       [] OTHER -> {})
    /\ UNCHANGED <<store, at, scr, asks, writes, inputs>>

\* The server reads for a fetch; the page may come back much later.
ServeFetch(a) ==
    /\ a \in asks /\ a.got = None
    /\ LET found == IF store[a.id].gone THEN Answer("missing", 0)
                    ELSE Answer("ok", IF a.what = "runs" THEN store[a.id].run ELSE store[a.id].ver)
       IN  asks' = (asks \ {a}) \cup {[a EXCEPT !.got = found]}
    /\ UNCHANGED <<serverVars, at, scr, writes, missed, inputs, feedVars>>

FetchFails(a) ==
    /\ a \in asks /\ a.got = None
    /\ faults < MaxFaults /\ faults' = faults + 1
    /\ asks' = (asks \ {a}) \cup {[a EXCEPT !.got = Answer("failed", 0)]}
    /\ UNCHANGED <<serverVars, at, scr, writes, missed, inputs, sub, queue, wire, sock, opened>>

\* The server commits an operator's write, and owes its event.
ServeWrite(w) ==
    /\ w \in writes /\ w.got = None
    /\ IF store[w.id].gone
       THEN /\ writes' = (writes \ {w}) \cup {[w EXCEPT !.got = Answer("missing", 0)]}
            /\ UNCHANGED serverVars
       ELSE /\ store' = IF w.kind = "patch" THEN [store EXCEPT ![w.id].ver = @ + 1]
                                            ELSE [store EXCEPT ![w.id].gone = TRUE]
            /\ due' = due \cup {IF w.kind = "patch" THEN Changed(w.id) ELSE Deleted(w.id)}
            /\ writes' = (writes \ {w}) \cup {[w EXCEPT !.got = Answer("ok", store'[w.id].ver)]}
    /\ UNCHANGED <<at, scr, asks, missed, inputs, feedVars>>

---------------------------------------------------------------------------
(* The screen's fetches. Starting one aborts the one of its kind before it. *)

Input == inputs < MaxInputs /\ inputs' = inputs + 1

Begin(fetches) == {a \in asks : \A b \in fetches : b.what # a.what} \cup fetches

Disown == {[w EXCEPT !.own = FALSE] : w \in writes}

\* load: everything on screen is dropped and asked for again, and no write's answer counts.
Load(d) ==
    /\ at' = d
    /\ scr' = [Loading EXCEPT !.timer = scr.timer, !.writing = scr.writing]
    /\ asks' = Begin(LoadOf(d))
    /\ writes' = Disown
    /\ missed' = {}

\* reset, with the screen's unmount: the timer and the handlers go too.
Leave ==
    /\ at' = None /\ scr' = Blank /\ asks' = {} /\ writes' = Disown /\ missed' = {}

Visit(d) ==
    /\ d # at
    /\ Input
    /\ Load(d)
    /\ UNCHANGED <<serverVars, feedVars>>

TryAgain ==
    /\ scr.status = "error"
    /\ Input
    /\ Load(at)
    /\ UNCHANGED <<serverVars, feedVars>>

Unmount ==
    /\ at # None
    /\ Input
    /\ Leave
    /\ UNCHANGED <<serverVars, feedVars>>

\* An answer to the overview's fetch.
HearOverview(a) ==
    /\ scr' = CASE a.got.kind = "ok" ->
                     [scr EXCEPT !.shown = [id |-> a.id, v |-> a.got.v], !.status = "ready", !.problem = FALSE]
                [] a.got.kind # "ok" /\ a.soft /\ scr.shown # None ->
                     IF a.got.kind = "missing" THEN [scr EXCEPT !.deleted = TRUE] ELSE [scr EXCEPT !.problem = TRUE]
                [] OTHER ->
                     [scr EXCEPT !.status = IF a.got.kind = "missing" THEN "not-found" ELSE "error"]

\* An answer to the runs' fetch: laid over the rows held.
HearRuns(a) ==
    /\ scr' = CASE a.got.kind = "ok" ->
                     [scr EXCEPT !.row = [id |-> a.id, v |-> a.got.v], !.rows = "ready"]
                [] a.got.kind # "ok" /\ a.soft /\ scr.rows = "ready" -> [scr EXCEPT !.problem = TRUE]
                [] OTHER -> [scr EXCEPT !.rows = "error"]

Older(held, v) == held # None /\ held.v > v

HearFetch(a) ==
    /\ a \in asks /\ a.got # None
    /\ asks' = asks \ {a}
    /\ IF a.what = "overview" THEN HearOverview(a) ELSE HearRuns(a)
    /\ missed' = missed
         \cup (IF a.what = "runs" /\ a.got.kind = "ok" /\ Older(scr.row, a.got.v) THEN {"overwritten"} ELSE {})
         \cup (IF a.what = "overview" /\ a.got.kind = "ok" /\ scr.problem /\ scr.row # None /\ scr.row.v # store[at].run THEN {"unsaid"} ELSE {})
    /\ UNCHANGED <<serverVars, at, writes, inputs, feedVars>>

\* reloadRuns: Try Again on the History section.
ReloadRuns ==
    /\ scr.rows = "error"
    /\ Input
    /\ scr' = [scr EXCEPT !.row = None, !.rows = "loading"]
    /\ asks' = Begin({Fetch("runs", at, FALSE)})
    /\ UNCHANGED <<serverVars, at, writes, missed, feedVars>>

---------------------------------------------------------------------------
(* Live refresh. *)

\* A run's row is put in place from the event itself; the overview is refetched once per burst.
HearOf(e) ==
    IF e.id # at THEN UNCHANGED scr
    ELSE scr' = CASE e.t = "run"     -> [scr EXCEPT !.row = [id |-> e.id, v |-> e.v], !.rows = "ready", !.timer = TRUE]
                  [] e.t = "deleted" -> [scr EXCEPT !.deleted = TRUE]
                  [] e.t = "changed" -> [scr EXCEPT !.timer = TRUE]

Hear ==
    /\ HearEvent
    /\ HearOf(Head(wire))
    /\ UNCHANGED <<serverVars, at, asks, writes, missed, inputs>>

\* flush: the burst's one refetch, dropped once deleted and while the first load is running.
Flush ==
    /\ scr.timer
    /\ scr' = [scr EXCEPT !.timer = FALSE]
    /\ IF scr.deleted \/ scr.status = "loading"
       THEN UNCHANGED asks
       ELSE asks' = Begin({Fetch("overview", at, TRUE)})
    /\ missed' = missed \cup (IF \E a \in asks : a.what = "overview" /\ a.got # None /\ ~a.soft THEN {"ignored"} ELSE {})
    /\ UNCHANGED <<serverVars, at, writes, inputs, feedVars>>

\* setClientKinds: Read By changed, the overview's figures are asked for again.
ReadByChanges ==
    /\ scr.status = "ready"
    /\ Input
    /\ asks' = Begin({Fetch("overview", at, TRUE)})
    /\ UNCHANGED <<serverVars, at, scr, writes, missed, feedVars>>

\* The socket opened: not the first time, the screen reloads, softly if it has something to keep.
HearOpened ==
    /\ HearOpen
    /\ CASE ~opened \/ at = None ->
              UNCHANGED <<at, scr, asks, writes, missed>>
         [] opened /\ at # None /\ scr.status = "ready" ->
              /\ asks' = Begin({Fetch("overview", at, TRUE), Fetch("runs", at, TRUE)})
              /\ missed' = {}
              /\ UNCHANGED <<at, scr, writes>>
         [] OTHER -> Load(at)
    /\ UNCHANGED <<serverVars, inputs>>

\* The network takes the socket down.
Drop ==
    /\ Break
    /\ missed' = missed \cup Unheard(InFlight)
    /\ UNCHANGED <<serverVars, at, scr, asks, writes, inputs>>

---------------------------------------------------------------------------
(* The operator's writes. *)

\* patchDataset, deleteNow: refused without a dataset on screen or with a write in flight.
StartWrite(kind) ==
    /\ scr.shown # None /\ ~scr.writing
    /\ Input
    /\ scr' = [scr EXCEPT !.writing = TRUE]
    /\ writes' = writes \cup {[n |-> inputs, own |-> TRUE, id |-> at, kind |-> kind, got |-> None]}
    /\ UNCHANGED <<serverVars, at, asks, missed, feedVars>>

\* Mutant: an answer is adopted whatever was loaded since.
HearAnyWrite(w) ==
    /\ w \in writes /\ w.got # None
    /\ scr' = IF w.kind = "patch" /\ w.got.kind = "ok" /\ at # None
              THEN [scr EXCEPT !.shown = [id |-> w.id, v |-> w.got.v], !.writing = FALSE]
              ELSE [scr EXCEPT !.writing = FALSE]
    /\ writes' = writes \ {w}
    /\ UNCHANGED <<at, asks, missed, serverVars, inputs, feedVars>>

\* An answer: adopted if its load is still the one on screen; the busy flag falls whoever's it is.
HearWrite(w) ==
    /\ w \in writes /\ w.got # None
    /\ IF w.own /\ w.kind = "delete" /\ w.got.kind = "ok"
       THEN at' = None /\ scr' = Blank /\ asks' = {} /\ missed' = {}
                 /\ writes' = {[x EXCEPT !.own = FALSE] : x \in writes \ {w}}
       ELSE LET adopted == w.own /\ w.kind = "patch" /\ w.got.kind = "ok"
            IN  /\ scr' = IF adopted THEN [scr EXCEPT !.shown = [id |-> w.id, v |-> w.got.v], !.writing = FALSE]
                                     ELSE [scr EXCEPT !.writing = FALSE]
                /\ missed' = missed \cup (IF adopted /\ Older(scr.shown, w.got.v) THEN {"overwritten"} ELSE {})
                /\ writes' = writes \ {w}
                /\ UNCHANGED <<at, asks>>
    /\ UNCHANGED <<serverVars, inputs, feedVars>>

---------------------------------------------------------------------------

Connection == FeedStep /\ UNCHANGED detailVars

DetailNext ==
    \/ \E d \in Datasets : Commit(d) \/ Visit(d)
    \/ \E e \in due : Publish(e)
    \/ \E a \in asks : ServeFetch(a) \/ FetchFails(a) \/ HearFetch(a)
    \/ \E w \in writes : ServeWrite(w) \/ HearWrite(w)
    \/ \E kind \in {"patch", "delete"} : StartWrite(kind)
    \/ TryAgain \/ Unmount \/ ReloadRuns
    \/ Hear \/ Flush \/ ReadByChanges \/ HearOpened \/ Drop \/ Connection

---------------------------------------------------------------------------
(* Properties. *)

DetailTypeOK ==
    /\ store \in [Datasets -> [ver : Nat, run : Nat, gone : BOOLEAN]]
    /\ at \in Datasets \cup {None}
    /\ scr.status \in {"idle", "loading", "ready", "not-found", "error"}
    /\ scr.rows \in {"idle", "loading", "ready", "error"}
    /\ scr.status = "idle" <=> at = None
    /\ {scr.deleted, scr.problem, scr.timer, scr.writing} \subseteq BOOLEAN
    /\ \A a \in asks, b \in asks : a.what = b.what => a = b
    /\ missed \subseteq {"unheard", "ignored", "overwritten", "unsaid"}

\* What is on screen is about the dataset the screen is at, whatever was still in flight when the
\* operator moved on: a fetch, an event, a write's answer (abortAll, generation). The screen says that
\* its dataset was deleted only when it was.
ShowsItsOwn ==
    /\ scr.shown # None => scr.shown.id = at
    /\ scr.row # None => scr.row.id = at
    /\ scr.deleted => store[at].gone

Fresh == /\ scr.shown = [id |-> at, v |-> store[at].ver]
         /\ scr.row = [id |-> at, v |-> store[at].run]
         /\ ~store[at].gone

\* The screen says that it may be out of date.
Told == scr.deleted \/ scr.problem \/ scr.status \in {"not-found", "error"} \/ scr.rows = "error"

\* Nothing is on its way to the screen any more.
Quiet == due = {} /\ queue = <<>> /\ wire = <<>> /\ asks = {} /\ writes = {} /\ ~scr.timer /\ sock = "open"

\* With nothing on its way, the screen shows what is committed or says that it may not: a slow
\* client's dropped queue and a broken socket included (the drop, the reload after a re-open).
QuietIsCurrent == Quiet /\ at # None => Fresh \/ Told \/ missed # {}
=============================================================================
