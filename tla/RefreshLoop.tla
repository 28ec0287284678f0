------------------------------ MODULE RefreshLoop ------------------------------
(***************************************************************************)
(* The daily refresh of one source (daily_refresh.py) on its timer         *)
(* (common/scheduling.py): after each session's close, and once at start,  *)
(* a pass asks for the missing tails of the datasets that are behind, a    *)
(* few at a time. Which ones is derived from the runs it made before, as   *)
(* far as the recorder (run_recording.py) wrote them, which does its best: *)
(* those that failed before the dataset was known, and those whose end was *)
(* never written, included.                                                *)
(* What a refresh writes to the dataset is DatasetStore's subject.         *)
(***************************************************************************)
EXTENDS Integers, Sequences, FiniteSets, SequencesExt, FiniteSetsExt

CONSTANTS
    Subs,         \* the source's DAILY datasets, by id
    RequestOf,    \* what a dataset's request shows of it when the run has no dataset id
    DayTicks,     \* ticks from a session's close to the next one's
    SettleDelay,  \* DAILY_REFRESH_SETTLE_MINUTES
    MaxPerPass,   \* DAILY_REFRESH_MAX_PER_PASS
    MaxInARow,    \* MAX_CONSECUTIVE_FAILURES
    Lookback,     \* ATTEMPT_LOOKBACK
    LastTick,     \* bound on time
    MaxTroubles   \* bound on process deaths with no run left to sweep, schedules and passes that raise,
                  \* runs not recorded as they went, ticks that pass during a pass, the operator's
                  \* switches, and fetches that are not the refresh's

ASSUME RefreshAssumption ==
    /\ Subs \subseteq Nat /\ IsFiniteSet(Subs) /\ DOMAIN RequestOf = Subs /\ \A d \in Subs : RequestOf[d] \notin Subs
    /\ DayTicks \in Nat \ {0} /\ SettleDelay \in 0 .. DayTicks - 1
    /\ {MaxPerPass, MaxInARow, Lookback, LastTick} \subseteq Nat \ {0}
    /\ MaxTroubles \in Nat
    /\ Lookback >= DayTicks

VARIABLES
    tick,
    newest,    \* each dataset's newest bar: its session, and when it was written
    active,    \* the datasets whose collecting is on
    fetching,  \* the datasets with a RUNNING ingest that is not the refresh's
    history,   \* the scheduled runs, oldest first: of the finished ones the last of each dataset, and of each
               \* request whose run shows none; and those left RUNNING
    loop,      \* the runner: what it is at, until when it sleeps, its wake event, the last start
    pass,      \* the pass: what it will request, and failures in a row
    waited,    \* history: the passes that went to their end since a due dataset was asked for, each of their
               \* requests recorded, when the first started, and whether the present pass leaves it out so far
    answered,  \* history: each dataset's last answer, whatever the recorder made of it, and whether it
               \* wrote that run's end
    overran,   \* history: a fire came while the runner could not start a pass
    troubles

refreshVars == <<tick, newest, active, fetching, history, loop, pass,
                 waited, answered, overran, troubles>>
dataVars    == <<newest, active, fetching>>
ghostVars   == <<waited, answered, overran>>

NoBar == -1

\* A run: whose, or what its request showed; the tail it asked for, whether in vain, when it started, and
\* whether it is finished.
NeverRun == [of |-> NoBar, from |-> 0, vain |-> FALSE, at |-> 0, done |-> TRUE]
Idle     == [batch |-> {}, failures |-> 0]

JustAsked == [passes |-> 0, since |-> 0, left |-> FALSE]

Trouble == troubles < MaxTroubles /\ troubles' = troubles + 1

---------------------------------------------------------------------------
(* The calendar, and what a dataset is owed. *)

CloseOf(s) == DayTicks * s
FireOf(s)  == CloseOf(s) + SettleDelay
LastClosed == tick \div DayTicks
\* The vendor may have a bar of the session that is still open.
OpenSession     == LastClosed + 1

AllSessions == 0 .. LastTick + 1

\* AfterTradingEvent: the first session's fire after now and the last run; none once the calendar ends.
NextFire(last) ==
    LET fires == {FireOf(s) : s \in {x \in AllSessions : FireOf(x) > Max({tick, last})}}
    IN  Min(fires)

\* last_bar_is_provisional.
IsProvisional(d) == newest[d].s # NoBar /\ newest[d].at < FireOf(newest[d].s)

\* running_dataset_ids: those of a fetch that runs, and of the runs whose end was never written.
Running == fetching \cup {history[i].of : i \in {j \in 1 .. Len(history) : ~history[j].done}}

\* _behind: active, nothing running, and the last closed session's bar not stored for good.
IsBehind(d) ==
    /\ d \in active /\ d \notin Running
    /\ newest[d].s < LastClosed \/ (newest[d].s = LastClosed /\ IsProvisional(d))

\* _fetch_start.
TailStart(d) == IF IsProvisional(d) THEN newest[d].s ELSE newest[d].s + 1

---------------------------------------------------------------------------
(* The plan of a pass, derived from the run history. *)

\* Mutant: only the runs that name their dataset.
NamedAttempts(d) ==
    {i \in 1 .. Len(history) : history[i].done /\ history[i].at >= tick - Lookback /\ history[i].of = d}

\* _plan: the finished runs that may have been this dataset's, by its id or by the request's fields.
Attempts(d) ==
    {i \in 1 .. Len(history) :
        /\ history[i].done /\ history[i].at >= tick - Lookback
        /\ history[i].of = d \/ (history[i].of = RequestOf[d] /\ history[i].from = TailStart(d))}

LastPlace(d)   == Max({0} \cup Attempts(d))
LastAttempt(d) == IF Attempts(d) = {} THEN NeverRun ELSE history[LastPlace(d)]

Unproductive(r, from) == r.vain /\ r.from = from

\* Asked in vain since the last close.
IsSkipped(d) == LET r == LastAttempt(d) IN Unproductive(r, TailStart(d)) /\ r.at >= CloseOf(LastClosed)
IsDueAgain(d) == Unproductive(LastAttempt(d), TailStart(d)) /\ ~IsSkipped(d)

OwedNow    == {d \in Subs : IsBehind(d)}
Skipped    == {d \in OwedNow : IsSkipped(d)}
DueAgain   == {d \in OwedNow : IsDueAgain(d)}
Productive == OwedNow \ (Skipped \cup DueAgain)

\* Mutant: the oldest newest-bar first.
OldestFirst(a, b) ==
    \/ newest[a].s < newest[b].s
    \/ newest[a].s = newest[b].s /\ a < b

\* order: never attempted, then least recently, then the oldest newest-bar, then the id.
GoesBefore(a, b) ==
    LET m == LastPlace(a)
        n == LastPlace(b)
    IN  \/ m < n
        \/ m = n /\ newest[a].s < newest[b].s
        \/ m = n /\ newest[a].s = newest[b].s /\ a < b

\* A dataset's place in the order of its class.
Turn(d, class) == Cardinality({x \in class : GoesBefore(x, d)})

\* _take: at most the cap, half of it kept for those due again; in order, those due again last.
First == {d \in Productive : Turn(d, Productive) < MaxPerPass - Min({Cardinality(DueAgain), MaxPerPass \div 2})}
Again == {d \in DueAgain : Turn(d, DueAgain) < MaxPerPass - Cardinality(First)}

Taken == {[d |-> d, from |-> TailStart(d), turn |-> Turn(d, Productive)] : d \in First}
         \cup {[d |-> d, from |-> TailStart(d), turn |-> Cardinality(First) + Turn(d, DueAgain)] : d \in Again}

---------------------------------------------------------------------------
(* The runner. *)

RefreshInit ==
    /\ tick = 0
    /\ newest = [d \in Subs |-> [s |-> NoBar, at |-> 0]]
    /\ active = Subs /\ fetching = {}
    /\ history = <<>>
    /\ loop = [st |-> "asking", until |-> 0, wake |-> TRUE, last |-> -1]
    /\ pass = Idle
    /\ waited = [d \in Subs |-> JustAsked]
    /\ answered = [d \in Subs |-> NeverRun]
    /\ overran = FALSE
    /\ troubles = 0

\* The schedule names the next fire, and the runner sleeps.
NameFire ==
    /\ loop.st = "asking"
    /\ loop' = [loop EXCEPT !.st = "sleeping", !.until = NextFire(loop.last)]
    /\ UNCHANGED <<tick, dataVars, history, pass, ghostVars, troubles>>

\* The schedule raises: it is asked again a tick later, or at once if the wake event is set, which is
\* cleared with no run.
ScheduleFails ==
    /\ loop.st = "asking"
    /\ Trouble
    /\ loop' = [loop EXCEPT !.st = IF loop.wake THEN "asking" ELSE "retrying", !.until = tick + 1, !.wake = FALSE]
    /\ overran' = TRUE
    /\ UNCHANGED <<tick, dataVars, history, pass, waited, answered>>

AskAgain ==
    /\ loop.st = "retrying" /\ tick >= loop.until
    /\ loop' = [loop EXCEPT !.st = "asking"]
    /\ UNCHANGED <<tick, dataVars, history, pass, ghostVars, troubles>>

Due == loop.st = "sleeping" /\ (loop.wake \/ tick >= loop.until)

\* A dataset that has waited since before the look-back starts to wait anew.
StillWaits(d) == waited[d].passes > 0 /\ waited[d].since >= tick - Lookback

\* run_pass: everything is read at its start.
StartRefresh ==
    /\ Due
    /\ loop' = [loop EXCEPT !.st = "running", !.wake = FALSE, !.last = tick]
    /\ pass' = [Idle EXCEPT !.batch = Taken]
    /\ waited' = [d \in Subs |->
         [(IF d \in Productive \cup DueAgain /\ StillWaits(d) THEN waited[d] ELSE [JustAsked EXCEPT !.since = tick])
            EXCEPT !.left = d \in (Productive \cup DueAgain) \ (First \cup Again)]]
    /\ overran' = FALSE
    /\ UNCHANGED <<tick, dataVars, history, answered, troubles>>

\* The pass cannot read the database: the job raises, and the runner carries on.
RefreshRaises ==
    /\ Due
    /\ Trouble
    /\ loop' = [loop EXCEPT !.st = "asking", !.wake = FALSE, !.last = tick]
    /\ overran' = TRUE
    /\ UNCHANGED <<tick, dataVars, history, pass, waited, answered>>

EndRefresh ==
    /\ loop.st = "running" /\ pass.batch = {}
    /\ loop' = [loop EXCEPT !.st = "asking"]
    /\ pass' = Idle
    /\ waited' = [d \in Subs |-> [waited[d] EXCEPT !.passes = @ + IF waited[d].left THEN 1 ELSE 0]]
    /\ UNCHANGED <<tick, dataVars, history, answered, overran, troubles>>

---------------------------------------------------------------------------
(* The requests of a pass, one at a time. *)

\* The next dataset of the batch.
Asking(x) == loop.st = "running" /\ \A y \in pass.batch : x.turn <= y.turn

\* The history with one more run; a finished one replaces an older: of its dataset if it shows that, else
\* of its request.
Added(run) ==
    LET older == {i \in 1 .. Len(history) :
                    /\ run.done /\ history[i].done
                    /\ history[i].of = run.of /\ (run.of \in Subs \/ history[i].from = run.from)}
    IN  Append(IF older = {} THEN history ELSE RemoveAt(history, CHOOSE i \in older : TRUE), run)

\* A run shows the dataset's id once its request is acknowledged, and what came of it once it is finished.
RunMade(x, vain, named, done) ==
    [of |-> IF named THEN x.d ELSE RequestOf[x.d], from |-> IF vain \/ ~named THEN x.from ELSE 0,
     vain |-> vain, at |-> tick, done |-> done]

AnswerIs(x, vain, done) ==
    [answered EXCEPT ![x.d] = [NeverRun EXCEPT !.from = IF vain THEN x.from ELSE 0, !.vain = vain,
                                               !.at = IF vain THEN tick ELSE 0, !.done = done]]

Finished(x, vain, named) ==
    /\ history' = Added(RunMade(x, vain, named, TRUE))
    /\ answered' = AnswerIs(x, vain, TRUE)

\* No run was started; or its end was not written, nor perhaps the dataset's id.
Unfinished(x, vain, named) ==
    /\ history' = history \/ \E shown \in {named, FALSE} : history' = Added(RunMade(x, FALSE, shown, FALSE))
    /\ answered' = AnswerIs(x, vain, FALSE)

\* One request from start to end, on the record as it went, or as far as the recorder came. A pass with a
\* request that is not on the record does not count, and if that stored a bar all wait anew.
Recorded(x, vain, named) ==
    \/ /\ Finished(x, vain, named)
       /\ waited' = [waited EXCEPT ![x.d] = JustAsked]
       /\ UNCHANGED troubles
    \/ /\ Trouble
       /\ Unfinished(x, vain, named) \/ (named /\ Finished(x, vain, FALSE))
       /\ waited' = [d \in Subs |->
            IF d = x.d \/ newest' # newest THEN JustAsked ELSE [waited[d] EXCEPT !.left = FALSE]]

Proceed(x, failures) == pass' = [pass EXCEPT !.batch = @ \ {x}, !.failures = failures]

\* The vendor's bars are stored, that of the open session among them or not.
StoresTail(x) ==
    /\ Asking(x) /\ x.d \in active
    /\ \E s \in Max({x.from, LastClosed}) .. OpenSession :
         newest' = IF s >= newest[x.d].s THEN [newest EXCEPT ![x.d] = [s |-> s, at |-> tick]] ELSE newest
    /\ Recorded(x, FALSE, TRUE)
    /\ Proceed(x, 0)
    /\ UNCHANGED <<tick, active, fetching, loop, overran>>

\* There are none; or the dataset was retired meanwhile, which is found before the acknowledgement is
\* recorded, and those there are are dropped.
FindsNothing(x) ==
    /\ Asking(x)
    /\ UNCHANGED <<tick, dataVars, loop, overran>>
    /\ Recorded(x, TRUE, x.d \in active)
    /\ Proceed(x, 0)

\* A permanent refusal, before the acknowledgement, neither stops the pass nor ends a row of failures.
IsRefused(x) ==
    /\ Asking(x)
    /\ UNCHANGED <<tick, dataVars, loop, overran>>
    /\ Recorded(x, TRUE, FALSE)
    /\ Proceed(x, pass.failures)

\* A transient failure, before the acknowledgement or after it; a rate limit, or too many in a row, ends
\* the pass.
RequestFails(x) ==
    /\ Asking(x)
    /\ UNCHANGED <<tick, dataVars, overran>>
    /\ \E named \in {FALSE, x.d \in active} : Recorded(x, FALSE, named)
    /\ \/ pass.failures + 1 < MaxInARow /\ Proceed(x, pass.failures + 1) /\ UNCHANGED loop
       \/ pass' = Idle /\ loop' = [loop EXCEPT !.st = "asking"]

---------------------------------------------------------------------------
(* What happens meanwhile. *)

TickPasses ==
    /\ tick < LastTick
    /\ ~Due /\ loop.st # "asking" /\ (loop.st = "retrying" => tick < loop.until)
    /\ IF loop.st = "running" THEN Trouble ELSE UNCHANGED troubles
    /\ tick' = tick + 1
    /\ overran' = (overran \/ (loop.st # "sleeping" /\ \E s \in AllSessions : FireOf(s) = tick + 1))
    /\ UNCHANGED <<dataVars, history, loop, pass, waited, answered>>

\* The operator stops or resumes a dataset.
Flip(d) ==
    /\ Trouble
    /\ active' = IF d \in active THEN active \ {d} ELSE active \cup {d}
    /\ UNCHANGED <<tick, newest, fetching, history, loop, pass, ghostVars>>

\* Runs that failed before they had d, made or to be made in this pass, asked for the tail it has now.
LosesRuns(d) ==
    \/ \E i \in 1 .. Len(history) : history[i].of = RequestOf[d] /\ history[i].from = TailStart(d)
    \/ \E x \in pass.batch : x.d = d

\* A fetch of somebody else's begins, and ends with bars or without.
ElsewhereBegins(d) ==
    /\ d \notin fetching
    /\ Trouble
    /\ fetching' = fetching \cup {d}
    /\ UNCHANGED <<tick, newest, active, history, loop, pass, ghostVars>>

ElsewhereEnds(d) ==
    /\ d \in fetching
    /\ fetching' = fetching \ {d}
    /\ \E s \in {newest[d].s} \cup (Max({newest[d].s, 0}) .. OpenSession) :
         IF s = newest[d].s THEN UNCHANGED <<newest, waited>>
         ELSE /\ newest' = [newest EXCEPT ![d] = [s |-> s, at |-> tick]]
              /\ waited' = IF LosesRuns(d) THEN [e \in Subs |-> JustAsked] ELSE waited
    /\ UNCHANGED <<tick, active, history, loop, pass, answered, overran, troubles>>

\* fail_interrupted_runs.
Swept == [i \in 1 .. Len(history) |-> [history[i] EXCEPT !.done = TRUE]]

\* The process dies and starts, and fails the runs it had left RUNNING, unless that fails; no timer is
\* replayed, and the wake is set. (One that dies during a request leaves its run unfinished first.)
RefreshRestarts ==
    /\ \/ history' = Swept /\ fetching' = {} /\ IF Swept = history THEN Trouble ELSE UNCHANGED troubles
       \/ Trouble /\ UNCHANGED <<history, fetching>>
    /\ pass' = Idle
    /\ loop' = [st |-> "asking", until |-> 0, wake |-> TRUE, last |-> -1]
    /\ UNCHANGED <<tick, newest, active, ghostVars>>

RefreshNext ==
    \/ NameFire \/ ScheduleFails \/ AskAgain \/ StartRefresh \/ RefreshRaises \/ EndRefresh
    \/ \E x \in pass.batch : StoresTail(x) \/ FindsNothing(x) \/ IsRefused(x) \/ RequestFails(x)
    \/ TickPasses \/ RefreshRestarts
    \/ \E d \in Subs : Flip(d) \/ ElsewhereBegins(d) \/ ElsewhereEnds(d)

---------------------------------------------------------------------------
(* Properties. *)

RefreshTypeOK ==
    /\ tick \in 0 .. LastTick /\ fetching \subseteq Subs /\ active \subseteq Subs
    /\ \A d \in Subs : newest[d].s \in NoBar .. OpenSession /\ newest[d].at \in 0 .. tick
    /\ loop.st \in {"asking", "sleeping", "retrying", "running"}
    /\ Cardinality(pass.batch) <= MaxPerPass /\ pass.failures < MaxInARow
    /\ pass # Idle => loop.st = "running"

\* No other dataset's request looks like this one's.
Lone(d) == \A x \in Subs \ {d} : RequestOf[x] # RequestOf[d]

\* A dataset that is due is asked for before as many passes have gone to their end without it as half a
\* cap needs to go once round the others, whichever class it is in and whatever fails at the vendor. Three
\* things are excepted: the look-back ends first; a fetch of somebody else's takes runs out of the order;
\* a request of the pass goes unrecorded, by a crash or for the recorder, and then that pass does not count
\* (all wait anew if it stored a bar). And while the runner sleeps, a pass has started since the last fire.
DueIsAsked ==
    /\ \A d \in Subs : Lone(d) => waited[d].passes * (MaxPerPass \div 2) < Cardinality(Subs)
    /\ loop.st = "sleeping" /\ ~loop.wake /\ ~overran =>
         \A s \in AllSessions : FireOf(s) <= tick => FireOf(s) <= loop.last \/ FireOf(s) = loop.until

\* Whenever a pass starts, it leaves out only datasets whose own last answer, for the tail they still need
\* and since the last close, was that there is nothing or that it is refused, whatever went unrecorded
\* since; and every such dataset if the end of that run was written: also when the run shows no dataset,
\* and across restarts.
OncePerClose ==
    \A d \in OwedNow : Lone(d) =>
      LET inVain == Unproductive(answered[d], TailStart(d)) /\ answered[d].at >= CloseOf(LastClosed)
      IN  /\ d \in Skipped => inVain
          /\ inVain /\ answered[d].done => d \in Skipped
=============================================================================
