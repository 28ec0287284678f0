------------------------------ MODULE CatalogReads ------------------------------
(***************************************************************************)
(* The catalog's answers (dataset_catalog.py): the list, the sidebar's     *)
(* facets, the usage page and the reaper's pending list each decide        *)
(* anew which datasets belong. How a dataset is judged is SessionHealth's  *)
(* subject, the list's order and its cursor CatalogGrid's.                 *)
(***************************************************************************)
EXTENDS UsageFigures

CONSTANTS
    Calendared, Bare, \* the sources with and without a trading calendar
    RowChoices,       \* the datasets there can be
    Queries,          \* the filters of a list or facets request
    StaleChoices,     \* the staleness thresholds, in days
    BucketStarts,     \* LAST_READ_BUCKET_STARTS
    ExpiringSoonDays,
    TableBytes,       \* how large the bar table may be
    CatalogReadsCap   \* bound on reads here

ASSUME CatalogAssumption ==
    /\ 0 \in BucketStarts /\ RecentDays + 1 \in BucketStarts /\ BucketStarts \subseteq Nat /\ IsFiniteSet(BucketStarts)
    /\ StaleChoices \subseteq Nat \ {0} /\ TableBytes \subseteq Nat /\ ExpiringSoonDays \in Nat
    /\ IsFiniteSet(Series) /\ "ANY" \notin Calendared \cup Bare
    /\ RowChoices \subseteq
         [source : Calendared \cup Bare, update : {"STATIC", "DAILY", "STREAM"}, collect : BOOLEAN, running : BOOLEAN,
          judged : {"FRESH", "LATE", "OVERDUE", "COMPLETE", "GAPS"}, expiry : Nat \cup {Never}, bars : Nat]
    /\ Queries \subseteq
         [source : Calendared \cup Bare \cup {"ANY"}, update : {"STATIC", "DAILY", "STREAM", "ANY"},
          status : {"HEALTHY", "LATE", "FAILED", "RETIRED", "ANY"}, attention : BOOLEAN, running : BOOLEAN,
          client : [ids : SUBSET Clients, kinds : SUBSET {"UI", "SDK"}], stale : Nat,
          usage : {"NEVER_READ", "READ_30D", "STALE", "ANY"}, before : Nat \cup {Never}]

VARIABLE rows  \* the datasets there are, by id; a deleted one's reads remain

catalogVars == <<usageVars, rows>>

CatalogInit == UsageInit /\ rows \in UNION {[ds -> RowChoices] : ds \in SUBSET Series}

Sources == Calendared \cup Bare
Stored     == DOMAIN rows

---------------------------------------------------------------------------
(* What is judged of one dataset. *)

IsRetired(d)    == rows[d].update # "STATIC" /\ ~rows[d].collect
IsCollecting(d) == IF rows[d].update = "STATIC" THEN rows[d].running ELSE rows[d].collect

\* evaluate_views: a source with no calendar has no health, unless the dataset is retired.
HealthOf(d) ==
    IF IsRetired(d) THEN "RETIRED"
    ELSE IF rows[d].source \in Bare THEN "NONE" ELSE rows[d].judged

\* The words the list filters by.
GroupOf(status) ==
    CASE status \in {"FRESH", "COMPLETE"} -> "HEALTHY"
      [] status = "LATE"                  -> "LATE"
      [] status \in {"OVERDUE", "GAPS"}   -> "FAILED"
      [] OTHER                            -> status

Attention == {"LATE", "FAILED"}

\* _past_expiry, written once.
Pending == {d \in Stored : rows[d].expiry # Never /\ rows[d].expiry <= utc}

\* _expiring_predicate.
Expiring(ds, bound) == {d \in ds : d \in Pending \/ (rows[d].expiry # Never /\ rows[d].expiry < bound)}

LastRead(filter) == [d \in Series |-> LastReadAt(rawReads, dailyReads, d, Chosen(filter))]

\* Mutant: by the clock and not by the day.
ReadWithinHours(last, days) == last # Never /\ last >= utc - 2 * days

\* read_within: the day-aligned rule.
ReadWithin(last, days) == last # Never /\ UtcDay(last) >= UtcDay(utc) - days

\* _usage_predicate.
InUsage(group, last, staleDays) ==
    CASE group = "NEVER_READ" -> last = Never
      [] group = "READ_30D"   -> ReadWithin(last, RecentDays)
      [] group = "STALE"      -> ~ReadWithin(last, staleDays)

---------------------------------------------------------------------------
(* The list. A filter that is not sent is "ANY", or FALSE, or Never for the expiry bound. *)

\* list_page: what its pages hold together.
ListTotal(q) ==
    LET last     == LastRead(q.client)
        listed   == {d \in Stored : q.source \in {"ANY", rows[d].source} /\ q.update \in {"ANY", rows[d].update}}
        expiring == IF q.before = Never THEN listed ELSE Expiring(listed, q.before)
        used     == IF q.usage = "ANY" THEN expiring
                    ELSE {d \in expiring : InUsage(q.usage, last[d], q.stale)}
        running  == IF q.running THEN {d \in used : rows[d].running} ELSE used
    IN  {d \in running : /\ q.status \in {"ANY", GroupOf(HealthOf(d))}
                         /\ q.attention => GroupOf(HealthOf(d)) \in Attention}

\* An expiry bound that was not sent only feeds its count.
FacetBound(q) == IF q.before = Never THEN utc + 2 * ExpiringSoonDays ELSE q.before

\* _matches, with the filters a count leaves out.
Matches(q, d, omit) ==
    LET last == LastReadAt(rawReads, dailyReads, d, Chosen(q.client))
    IN  /\ "running" \in omit \/ (q.running => rows[d].running)
        /\ "usage" \in omit \/ q.usage = "ANY" \/ InUsage(q.usage, last, q.stale)
        /\ "before" \in omit \/ q.before = Never \/ d \in Expiring({d}, q.before)
        /\ "source" \in omit \/ q.source \in {"ANY", rows[d].source}
        /\ "update" \in omit \/ q.update \in {"ANY", rows[d].update}
        /\ "status" \in omit \/ q.status \in {"ANY", GroupOf(HealthOf(d))}
        /\ "attention" \in omit \/ (q.attention => GroupOf(HealthOf(d)) \in Attention)

Facets(q) ==
    LET last == LastRead(q.client)
        \* Each facet is a set of datasets here; its count is their number.
        keep(omit) == {d \in Stored : Matches(q, d, omit)}
        forced     == {d \in keep({"attention"}) : GroupOf(HealthOf(d)) \in Attention}
    IN  [all       |-> keep({"attention"}),
         attention |-> forced,
         sources   |-> [s \in Sources |-> {d \in keep({"source"}) : rows[d].source = s}],
         updates   |-> [u \in {"STATIC", "DAILY", "STREAM"} |-> {d \in keep({"update"}) : rows[d].update = u}],
         statuses  |-> [s \in {HealthOf(d) : d \in Stored} |-> {d \in keep({"status"}) : HealthOf(d) = s}],
         running   |-> {d \in keep({"running"}) : rows[d].running},
         usage     |-> [g \in {"STALE", "READ_30D", "NEVER_READ"} |->
                          {d \in keep({"usage"}) : InUsage(g, last[d], q.stale)}],
         expiring  |-> Expiring(keep({"before"}), FacetBound(q)),
         clients   |-> ClientDatasets(rawReads, dailyReads, keep({"usage", "before"}))]

---------------------------------------------------------------------------
(* The usage page. *)

OfSource(source) == {d \in Stored : source \in {"ANY", rows[d].source}}

ReadsToday(filter, source) ==
    ClientDayReads(rawReads, dailyReads, IF source = "ANY" THEN Series ELSE OfSource(source), Chosen(filter), 1)

UsageSummary(filter, staleDays, source) ==
    LET last  == LastRead(filter)
        today == ReadsToday(filter, source)
    IN  [stale   |-> Cardinality({d \in OfSource(source) : ~ReadWithin(last[d], staleDays)}),
         recent  |-> Cardinality({d \in OfSource(source) : ReadWithin(last[d], RecentDays)}),
         never   |-> Cardinality({d \in OfSource(source) : last[d] = Never}),
         total   |-> Cardinality(OfSource(source)),
         today   |-> MapThenSumSet(LAMBDA e : e.reads, today),
         clients |-> Cardinality({e.c : e \in today})]

\* last_read_buckets: by whole days since the last read, one dated ahead of now counting as today.
LastReadBuckets(filter, source) ==
    LET last    == LastRead(filter)
        days(d) == Max({0, UtcDay(utc) - UtcDay(last[d])})
        read    == {d \in OfSource(source) : last[d] # Never}
    IN  [b \in BucketStarts |-> {d \in read : b = Max({x \in BucketStarts : days(d) >= x})}]

\* reads_per_day of one dataset.
ReadsPerDay(filter, days, d) == ClientDayReads(rawReads, dailyReads, {d}, Chosen(filter), days)

\* stale_page: what its pages hold together.
StaleTotal(filter, staleDays, source) ==
    {d \in OfSource(source) : InUsage("STALE", LastRead(filter)[d], staleDays)}

\* _page_usage: what the filter's clients read of it, and which of any clients did.
PageUsage(filter, d) ==
    [last    |-> LastRead(filter)[d],
     reads   |-> ReadsInWindow(rawReads, dailyReads, d, Chosen(filter)),
     clients |-> Readers(rawReads, dailyReads, d),
     kinds   |-> {KindOf(c) : c \in Readers(rawReads, dailyReads, d)}]

\* DatasetSummary, on a page or alone.
Item(filter, d) ==
    [retired    |-> IsRetired(d),
     collecting |-> IsCollecting(d),
     pending    |-> d \in Pending,
     usage      |-> PageUsage(filter, d)]

---------------------------------------------------------------------------
(* Storage. *)

TotalBars == MapThenSumSet(LAMBDA d : rows[d].bars, Stored)

\* estimate_bytes: a share, rounded down.
EstimateBytes(count, total) == IF TotalBars = 0 THEN 0 ELSE (count * total) \div TotalBars

StorageShares(total) ==
    LET held(s) == MapThenSumSet(LAMBDA d : rows[d].bars, OfSource(s))
    IN  [s \in {x \in Sources : held(x) > 0} |-> EstimateBytes(held(s), total)]

---------------------------------------------------------------------------
(* What happens meanwhile. *)

\* The owner or the reaper deletes a dataset; its reads stay.
DatasetGone ==
    \E d \in Stored :
      /\ rows' = [x \in Stored \ {d} |-> rows[x]]
      /\ UNCHANGED usageVars

CatalogNext ==
    \/ UsageNext /\ Cardinality(made') <= CatalogReadsCap /\ UNCHANGED rows
    \/ DatasetGone

---------------------------------------------------------------------------
(* Properties. *)

\* Every count of the sidebar is the number of datasets the list answers with when that filter is set:
\* two pipelines, one of them leaving each count's own filter out; and a client that the picker offers
\* with so many datasets is one whose recently read datasets number no fewer.
FacetsCountTheList ==
    \A q \in Queries :
      LET f == Facets(q)
      IN  /\ f.all = ListTotal([q EXCEPT !.attention = FALSE])
          /\ f.attention = ListTotal([q EXCEPT !.attention = TRUE])
          /\ \A s \in Sources : f.sources[s] = ListTotal([q EXCEPT !.source = s])
          /\ \A u \in DOMAIN f.updates : f.updates[u] = ListTotal([q EXCEPT !.update = u])
          /\ \A g \in {"HEALTHY", "LATE", "FAILED", "RETIRED"} :
               UNION {f.statuses[s] : s \in {x \in DOMAIN f.statuses : GroupOf(x) = g}}
                 = ListTotal([q EXCEPT !.status = g])
          /\ f.running = ListTotal([q EXCEPT !.running = TRUE])
          /\ \A g \in DOMAIN f.usage : f.usage[g] = ListTotal([q EXCEPT !.usage = g])
          /\ f.expiring = ListTotal([q EXCEPT !.before = FacetBound(q)])
          /\ \A c \in DOMAIN f.clients :
               f.clients[c] <= Cardinality(ListTotal([q EXCEPT !.client = [ids |-> {c}, kinds |-> {}],
                                                               !.usage = "READ_30D", !.before = Never]))

\* One rule decides how long ago a dataset was read: the summary, the buckets, the stale list and the
\* list's usage filters count the same datasets, each dataset once, and what an item shows beside its
\* dataset says the same of it.
FiguresAgree(filter, source, stale) ==
    LET summary == UsageSummary(filter, stale, source)
        buckets == LastReadBuckets(filter, source)
        below(n) == UNION {buckets[b] : b \in {x \in BucketStarts : x < n}}
        total(g) == ListTotal([source |-> source, update |-> "ANY", status |-> "ANY", attention |-> FALSE,
                               running |-> FALSE, client |-> filter, usage |-> g, stale |-> stale,
                               before |-> Never])
    IN  /\ StaleTotal(filter, stale, source) = total("STALE")
        /\ summary.stale = Cardinality(total("STALE"))
        /\ summary.recent = Cardinality(total("READ_30D")) /\ below(RecentDays + 1) = total("READ_30D")
        /\ summary.never = Cardinality(total("NEVER_READ"))
        /\ summary.never + MapThenSumSet(LAMBDA b : Cardinality(buckets[b]), BucketStarts) = summary.total
        /\ stale = RecentDays => total("STALE") = total("ANY") \ total("READ_30D")
        /\ summary.clients > 0 /\ source # "ANY" => summary.recent > 0
        /\ \A d \in total("ANY") :
             LET item == Item(filter, d)
             IN  /\ item.usage.reads > 0 =>
                      /\ d \in total("READ_30D") /\ item.usage.clients \cap Chosen(filter) # {}
                      /\ item.usage.kinds \cap {KindOf(c) : c \in Chosen(filter)} # {}
                 /\ item.usage.reads = MapThenSumSet(LAMBDA e : e.reads, ReadsPerDay(filter, RecentDays + 1, d))
                 /\ item.usage.last = Never <=> d \in total("NEVER_READ")
                 /\ item.retired => ~item.collecting /\ GroupOf(HealthOf(d)) \notin Attention

\* So it is under every client filter; and the split of the bar table's bytes falls short of the whole by
\* less than a byte for each part.
UsageFiguresAgree ==
    /\ \A filter \in {q.client : q \in Queries}, source \in Sources \cup {"ANY"}, stale \in StaleChoices :
         FiguresAgree(filter, source, stale)
    /\ \A total \in TableBytes :
         LET shares == StorageShares(total)
             short  == total - MapThenSumSet(LAMBDA s : shares[s], DOMAIN shares)
         IN  TotalBars > 0 => short \in 0 .. Cardinality(DOMAIN shares) - 1
=============================================================================
