------------------------------ MODULE UsageFigures ------------------------------
(***************************************************************************)
(* What the usage tables answer (database/crud/dataset_read.py): reads are *)
(* kept one by one for a while and then folded into a row for each         *)
(* dataset, client and UTC day, and every figure counts over both tables.  *)
(* An instant is half a day. A read's instant tells it from the others of  *)
(* its dataset, client and kind.                                           *)
(***************************************************************************)
EXTENDS Integers, FiniteSets, FiniteSetsExt, Functions

CONSTANTS
    Series,      \* the datasets that are read
    Sdks,        \* the clients that are not the operator's screens
    Operator,    \* the client id of the operator's screens
    RollupDays,  \* USAGE_ROLLUP_AFTER_DAYS
    RecentDays,  \* USAGE_WINDOW_DAYS
    LastInstant, \* bound on time
    MaxReads     \* bound on reads

ASSUME UsageAssumption ==
    /\ Operator \notin Sdks
    /\ RollupDays \in Nat \ {0} /\ RecentDays \in Nat \ {0} /\ LastInstant \in Nat
    /\ MaxReads \in Nat

VARIABLES
    rawReads,   \* table dataset_read
    dailyReads, \* table dataset_read_daily
    utc,        \* now
    made        \* history: every read there has been

usageVars == <<rawReads, dailyReads, utc, made>>

Clients  == Sdks \cup {Operator}
Never    == -1
NoDays   == [k \in {} |-> 0]
UtcDay(t) == t \div 2

\* UI iff the client id is the operator's, decided as the read is recorded.
KindOf(c) == IF c = Operator THEN "UI" ELSE "SDK"

UsageInit == rawReads = {} /\ dailyReads = NoDays /\ utc = 0 /\ made = {}

---------------------------------------------------------------------------
(* The figures, of a table of reads and a table of days. *)

\* The first UTC day of a window that ends now.
WindowStart(days) == UtcDay(utc - 2 * days)

\* The reads proper: a stream session is none.
Proper(raw) == {r \in raw : r.kind = "READ"}

\* What a request counts: the clients it names, else those of its kinds, else the SDK's.
Chosen(filter) ==
    IF filter.ids # {} THEN filter.ids
    ELSE {c \in Clients : KindOf(c) \in IF filter.kinds = {} THEN {"SDK"} ELSE filter.kinds}

\* How often these clients read these datasets since that day.
ReadsSince(raw, daily, ds, cs, since) ==
    Cardinality({r \in Proper(raw) : r.d \in ds /\ r.c \in cs /\ UtcDay(r.at) >= since})
    + MapThenSumSet(LAMBDA k : daily[k].reads,
                    {k \in DOMAIN daily : k.d \in ds /\ k.c \in cs /\ k.day >= since})

\* read_dataset_usage: when these clients last read or streamed it, and how often they read it lately.
LastReadAt(raw, daily, d, cs) ==
    Max({Never} \cup {r.at : r \in {x \in raw : x.d = d /\ x.c \in cs}}
                \cup {daily[k].last : k \in {x \in DOMAIN daily : x.d = d /\ x.c \in cs}})

ReadsInWindow(raw, daily, d, cs) == ReadsSince(raw, daily, {d}, cs, WindowStart(RecentDays))

\* read_readers: who read it lately, whatever the filter.
Readers(raw, daily, d) ==
    LET since == WindowStart(RecentDays)
    IN  {r.c : r \in {x \in Proper(raw) : x.d = d /\ UtcDay(x.at) >= since}}
        \cup {k.c : k \in {x \in DOMAIN daily : x.d = d /\ daily[x].reads > 0 /\ x.day >= since}}

\* read_client_datasets: how many of these datasets each client read lately.
ClientDatasets(raw, daily, ds) ==
    LET readers == [d \in ds |-> Readers(raw, daily, d)]
    IN  [c \in UNION {readers[d] : d \in ds} |-> Cardinality({d \in ds : c \in readers[d]})]

\* read_client_day_reads: the days with a read, today included.
ClientDayReads(raw, daily, ds, cs, days) ==
    LET since == WindowStart(days - 1)
        on(c, day) == ReadsSince(raw, daily, ds, {c}, day) - ReadsSince(raw, daily, ds, {c}, day + 1)
    IN  {e \in [c : cs, day : since .. UtcDay(utc), reads : 1 .. MaxReads] : e.reads = on(e.c, e.day)}

\* read_client_last_reads: each client that ever read it, and when it last did.
ClientLastReads(raw, daily, d) ==
    {e \in [c : Clients, last : 0 .. utc] : e.last = LastReadAt(raw, daily, d, {e.c})}

---------------------------------------------------------------------------
(* What happens to the tables. *)

\* insert_reads: a flush may come as late as it likes.
ReadRecorded ==
    \E d \in Series, c \in Clients, kind \in {"READ", "STREAM_SESSION"}, at \in 0 .. utc :
      LET read == [d |-> d, c |-> c, kind |-> kind, at |-> at]
      IN  /\ read \notin made /\ Cardinality(made) < MaxReads
          /\ rawReads' = rawReads \cup {read}
          /\ made' = made \cup {read}
          /\ UNCHANGED <<dailyReads, utc>>

DayKey(r) == [d |-> r.d, c |-> r.c, day |-> UtcDay(r.at)]

Summary(moved, k) ==
    LET mine == {r \in moved : DayKey(r) = k}
    IN  [reads    |-> Cardinality(Proper(mine)),
         sessions |-> Cardinality(mine \ Proper(mine)),
         last     |-> Max({r.at : r \in mine})]

Plus(a, b) == [reads |-> a.reads + b.reads, sessions |-> a.sessions + b.sessions,
               last |-> Max({a.last, b.last})]

\* Mutant: the day's row is replaced.
Replaced(moved) ==
    [k \in DOMAIN dailyReads \cup {DayKey(r) : r \in moved} |->
        IF \E r \in moved : DayKey(r) = k THEN Summary(moved, k) ELSE dailyReads[k]]

\* The upsert: added to what the day's row already counts.
Folded(moved) ==
    [k \in DOMAIN dailyReads \cup {DayKey(r) : r \in moved} |->
        CASE k \notin DOMAIN dailyReads -> Summary(moved, k)
          [] k \notin {DayKey(r) : r \in moved} -> dailyReads[k]
          [] OTHER -> Plus(dailyReads[k], Summary(moved, k))]

\* fold_reads_before: one statement moves the rows past the cutoff, which falls inside a day.
FoldOld ==
    LET moved == {r \in rawReads : r.at < utc - 2 * RollupDays}
    IN  /\ moved # {}
        /\ rawReads' = rawReads \ moved
        /\ dailyReads' = Folded(moved)
        /\ UNCHANGED <<utc, made>>

UtcPasses ==
    /\ utc < LastInstant
    /\ utc' = utc + 1
    /\ UNCHANGED <<rawReads, dailyReads, made>>

UsageNext == ReadRecorded \/ FoldOld \/ UtcPasses

---------------------------------------------------------------------------
(* Properties. *)

UsageTypeOK ==
    /\ rawReads \subseteq made /\ utc \in 0 .. LastInstant
    /\ \A k \in DOMAIN dailyReads :
         dailyReads[k].reads + dailyReads[k].sessions > 0 /\ UtcDay(dailyReads[k].last) = k.day

\* Every figure, for any clients and any window, is what it would be had no read ever been folded: a
\* day split across the cutoff, a read flushed after its day was folded, and a second fold included.
FiguresAreTheReads ==
    /\ \A cs \in SUBSET Clients \ {{}} :
         /\ \A d \in Series :
              /\ LastReadAt(rawReads, dailyReads, d, cs) = LastReadAt(made, NoDays, d, cs)
              /\ ReadsInWindow(rawReads, dailyReads, d, cs) = ReadsInWindow(made, NoDays, d, cs)
         /\ \A days \in 1 .. UtcDay(LastInstant) + 1 :
              ClientDayReads(rawReads, dailyReads, Series, cs, days)
                = ClientDayReads(made, NoDays, Series, cs, days)
    /\ ClientDatasets(rawReads, dailyReads, Series) = ClientDatasets(made, NoDays, Series)
    /\ \A d \in Series : ClientLastReads(rawReads, dailyReads, d) = ClientLastReads(made, NoDays, d)
=============================================================================
