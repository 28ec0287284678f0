------------------------------ MODULE ChartPages ------------------------------
(***************************************************************************)
(* The dataset viewer's page model (viewer/chartPages.ts): a window of     *)
(* bars too long to chart at once is shown a page at a time. The server's  *)
(* page index says where the pages start; a small cache keeps pages by     *)
(* recency, the older neighbour rides along, both neighbours are loaded    *)
(* once the operator rests, and a move aborts what is not wanted any more. *)
(* Bars are numbered from the window's oldest; a page's bars are its range.*)
(***************************************************************************)
EXTENDS Integers, Sequences, FiniteSets

CONSTANTS
    PageBars,  \* bars in a block
    Overlap,   \* look-ahead bars shown after it
    Capacity,  \* pages kept
    BarCounts, \* how many bars a window may hold when its index is read
    Nowhere,   \* no page yet
    MaxOpens,  \* bound on windows opened, reloads included
    MaxErrors  \* bound on reads that fail

ASSUME PagesAssumption ==
    /\ PageBars \in Nat \ {0} /\ Overlap \in 0 .. PageBars - 1
    /\ Capacity \in Nat /\ Capacity >= 3
    /\ BarCounts \subseteq Nat /\ Nowhere \notin Int
    /\ MaxOpens \in Nat /\ MaxErrors \in Nat

VARIABLES
    opening,  \* generation: which open the model is at
    indexing, \* opens whose index read is in flight
    index,    \* the index held: its bar count and the open it was read for
    indexSt,  \* idle, loading, ready or error
    cur,      \* currentK
    entries,  \* the cache, least recently used first: page, status, asked for by the user
    resting,  \* the settle timer runs
    errors

pagesVars == <<opening, indexing, index, indexSt, cur, entries, resting, errors>>

NoIndex == [n |-> 0, open |-> 0]

PagesInit ==
    /\ opening = 0 /\ indexing = {} /\ index = NoIndex /\ indexSt = "idle"
    /\ cur = Nowhere /\ entries = <<>> /\ resting = FALSE /\ errors = 0

---------------------------------------------------------------------------
(* The index, and which page a window of bars belongs to. *)

\* The server's rule: full blocks counted back from the newest bar, and page 0 for the rest.
PageCount(n) == (n \div PageBars) + (IF n % PageBars > 0 THEN 1 ELSE 0)

Offset(n, k) ==
    IF k = 0 THEN 0
    ELSE IF n % PageBars > 0 THEN (n % PageBars) + (k - 1) * PageBars ELSE k * PageBars

Pages(n) == 0 .. PageCount(n) - 1

Smaller(a, b) == IF a <= b THEN a ELSE b
Greater(a, b) == IF a <= b THEN b ELSE a
Clamp(x, lo, hi) == Smaller(hi, Greater(lo, x))

PageLength(n, k) == Greater(0, Smaller(PageBars + Overlap, n - Offset(n, k)))
LastBar(n, k)    == Offset(n, k) + PageLength(n, k) - 1
BarsOf(n, k)     == Offset(n, k) .. LastBar(n, k)

\* Bars of page k that the next page shows too, counted from page k's first; to < from when none.
OverlapRange(n, k) == [from |-> Offset(n, k + 1) - Offset(n, k), to |-> PageLength(n, k) - 1]

\* Bars of page k that the page before shows too, counted from page k's first.
OverlapBeforeRange(n, k) ==
    [from |-> 0, to |-> Smaller(Offset(n, k - 1) + PageLength(n, k - 1) - 1 - Offset(n, k), PageLength(n, k) - 1)]

LastPageAtOrBefore(n, bar) ==
    LET started == {k \in Pages(n) : Offset(n, k) <= bar}
    IN  IF started = {} THEN -1 ELSE CHOOSE k \in started : \A j \in started : j <= k

\* Two bar positions, the one past the newest included.
Windows(n) == {w \in (0 .. n) \X (0 .. n) : w[1] <= w[2]}

Directions == {"left", "right", "jump", "page"}

\* The page that has the window's leading edge; the current one while it shows the whole window.
PageForWindow(n, now, a, b, direction) ==
    LET last == Greater(n - 1, 0)
        from == Clamp(Smaller(a, b), 0, last)
        to   == Clamp(Greater(a, b), 0, last)
        lead == IF direction = "right" THEN to ELSE from
    IN  IF PageCount(n) <= 1 THEN 0
        ELSE IF direction # "page" /\ Offset(n, now) <= from /\ to <= LastBar(n, now) THEN now
        ELSE Greater(LastPageAtOrBefore(n, lead), 0)

\* The window to show on page k: its width and its leading edge kept, shifted into the page.
PlaceWindow(n, k, a, b, direction) ==
    LET first == Offset(n, k)
        last  == LastBar(n, k)
        width == Smaller(Greater(a, b) - Smaller(a, b), Greater(last - first, 0))
        start == IF direction = "right" THEN Greater(a, b) - width ELSE Smaller(a, b)
        from  == Clamp(start, first, last - width)
    IN  IF direction = "page" THEN [from |-> first, to |-> last]
        ELSE [from |-> from, to |-> from + width]

---------------------------------------------------------------------------
(* The cache. *)

Entry(k, st, user) == [k |-> k, st |-> st, user |-> user]

Cached(es)     == {es[i].k : i \in 1 .. Len(es)}
EntryOf(es, k) == es[CHOOSE i \in 1 .. Len(es) : es[i].k = k]
StatusOf(es, k) == IF k \in Cached(es) THEN EntryOf(es, k).st ELSE "absent"

\* The entries at some places, in their order.
Only(es, places) ==
    [n \in 1 .. Cardinality(places) |-> es[CHOOSE i \in places : Cardinality({j \in places : j < i}) = n - 1]]

Forget(es, ks) == Only(es, {i \in 1 .. Len(es) : es[i].k \notin ks})
Put(es, entry) == [i \in 1 .. Len(es) |-> IF es[i].k = entry.k THEN entry ELSE es[i]]

\* The page on screen and its neighbours.
Protected(k) == {k - 1, k, k + 1}

\* Over capacity, the oldest pages go that are neither loading nor protected.
Evict(es, k) ==
    LET idle   == {i \in 1 .. Len(es) : es[i].st # "loading" /\ es[i].k \notin Protected(k)}
        excess == Len(es) - Capacity
        goes   == {i \in idle : Cardinality({j \in idle : j < i}) < excess}
    IN  Only(es, (1 .. Len(es)) \ goes)

\* Mutant: a preload the user comes to wait for stays a preload.
LoadIntoAsIs(es, k, user, now) ==
    CASE StatusOf(es, k) = "ready"   -> Append(Forget(es, {k}), EntryOf(es, k))
      [] StatusOf(es, k) = "loading" -> es
      [] OTHER                       -> Evict(Append(Forget(es, {k}), Entry(k, "loading", user)), now)

\* A page is read unless it is there or on its way; a read the user waits for is marked as theirs.
LoadInto(es, k, user, now) ==
    CASE StatusOf(es, k) = "ready"   -> Append(Forget(es, {k}), Entry(k, "ready", EntryOf(es, k).user \/ user))
      [] StatusOf(es, k) = "loading" -> Put(es, Entry(k, "loading", EntryOf(es, k).user \/ user))
      [] OTHER                       -> Evict(Append(Forget(es, {k}), Entry(k, "loading", user)), now)

\* The reads a move gives up are aborted and forgotten, save the page's own and its companion's.
ShowPageIn(es, k) ==
    LET kept  == Only(es, {i \in 1 .. Len(es) : es[i].st = "loading" => es[i].k \in {k, k - 1}})
        shown == LoadInto(kept, k, TRUE, k)
    IN  /\ cur' = k
        /\ entries' = IF k > 0 THEN LoadInto(shown, k - 1, FALSE, k) ELSE shown
        /\ resting' = (StatusOf(es, k) = "ready")

---------------------------------------------------------------------------
(* The operator's moves. *)

\* open, and reload for the same window: everything held goes, and a new index is asked for.
Open ==
    /\ opening < MaxOpens
    /\ opening' = opening + 1
    /\ indexing' = indexing \cup {opening + 1}
    /\ index' = NoIndex /\ indexSt' = "loading"
    /\ cur' = Nowhere /\ entries' = <<>> /\ resting' = FALSE
    /\ UNCHANGED errors

\* seek: to another page, or about the one on screen, which only restarts the timer.
Seek(k) ==
    /\ IF k = cur
       THEN /\ StatusOf(entries, k) = "ready"
            /\ resting' = TRUE
            /\ UNCHANGED <<cur, entries>>
       ELSE ShowPageIn(entries, k)
    /\ UNCHANGED <<opening, indexing, index, indexSt, errors>>

SeekWindow ==
    /\ cur # Nowhere
    /\ \E k \in {PageForWindow(index.n, cur, w[1], w[2], direction) :
                   w \in Windows(index.n), direction \in Directions} : Seek(k)

\* loadPage, and Try Again on the page on screen.
LoadPage(k) ==
    /\ cur # Nowhere
    /\ ShowPageIn(entries, k)
    /\ UNCHANGED <<opening, indexing, index, indexSt, errors>>

\* Mutant: the newest page has a neighbour too.
SettleBeyond ==
    /\ resting
    /\ resting' = FALSE
    /\ LET wanted(es, k) == IF k >= 0 /\ StatusOf(es, k) \in {"absent", "error"}
                            THEN LoadInto(es, k, FALSE, cur) ELSE es
       IN  entries' = IF StatusOf(entries, cur) = "ready"
                      THEN wanted(wanted(entries, cur - 1), cur + 1) ELSE entries
    /\ UNCHANGED <<opening, indexing, index, indexSt, cur, errors>>

\* The operator rests: the neighbours that are not there are read.
Settle ==
    /\ resting
    /\ resting' = FALSE
    /\ LET wanted(es, k) == IF k \in Pages(index.n) /\ StatusOf(es, k) \in {"absent", "error"}
                            THEN LoadInto(es, k, FALSE, cur) ELSE es
       IN  entries' = IF StatusOf(entries, cur) = "ready"
                      THEN wanted(wanted(entries, cur - 1), cur + 1) ELSE entries
    /\ UNCHANGED <<opening, indexing, index, indexSt, cur, errors>>

---------------------------------------------------------------------------
(* Answers. *)

\* The index arrives: the answer to an earlier open is dropped, else the newest page is shown.
IndexLands(open, n) ==
    /\ open \in indexing
    /\ indexing' = indexing \ {open}
    /\ IF open # opening
       THEN UNCHANGED <<index, indexSt, cur, entries, resting>>
       ELSE /\ index' = [n |-> n, open |-> open] /\ indexSt' = "ready"
            /\ IF n = 0 THEN UNCHANGED <<cur, entries, resting>>
                        ELSE ShowPageIn(entries, PageCount(n) - 1)
    /\ UNCHANGED <<opening, errors>>

IndexFails(open) ==
    /\ open \in indexing
    /\ errors < MaxErrors /\ errors' = errors + 1
    /\ indexing' = indexing \ {open}
    /\ indexSt' = IF open = opening THEN "error" ELSE indexSt
    /\ UNCHANGED <<opening, index, cur, entries, resting>>

PageLands(k) ==
    /\ StatusOf(entries, k) = "loading"
    /\ entries' = Evict(Put(entries, Entry(k, "ready", EntryOf(entries, k).user)), cur)
    /\ resting' = (resting \/ k = cur)
    /\ UNCHANGED <<opening, indexing, index, indexSt, cur, errors>>

\* A page the user waits for shows the error; a preload is forgotten, to be asked for again.
PageFails(k) ==
    /\ StatusOf(entries, k) = "loading"
    /\ errors < MaxErrors /\ errors' = errors + 1
    /\ entries' = IF EntryOf(entries, k).user THEN Put(entries, Entry(k, "error", TRUE)) ELSE Forget(entries, {k})
    /\ UNCHANGED <<opening, indexing, index, indexSt, cur, resting>>

PagesNext ==
    \/ Open \/ SeekWindow \/ Settle
    \/ \E k \in Pages(index.n) : LoadPage(k) \/ PageLands(k) \/ PageFails(k)
    \/ \E open \in indexing : IndexFails(open) \/ \E n \in BarCounts : IndexLands(open, n)

---------------------------------------------------------------------------
(* Properties. *)

PagesTypeOK ==
    /\ opening \in 0 .. MaxOpens /\ indexing \subseteq 1 .. MaxOpens
    /\ index.n \in BarCounts \cup {0} /\ index.open \in 0 .. MaxOpens
    /\ indexSt \in {"idle", "loading", "ready", "error"}
    /\ cur \in Pages(index.n) \cup {Nowhere}
    /\ \A i \in 1 .. Len(entries) : entries[i] \in [k : Pages(index.n), st : {"loading", "ready", "error"}, user : BOOLEAN]
    /\ resting \in BOOLEAN

\* The page on screen is there, on its way, or shows its error: neither a move that aborts, nor an
\* eviction, nor the failure of a preload the operator came to wait for leaves it loading for ever. The
\* cache keeps within its bound though loading and protected pages are never evicted, holds a page once,
\* and no page of a window other than the one opened last: an index that answers an earlier open is dropped.
PagesServeTheWindow ==
    /\ cur # Nowhere => StatusOf(entries, cur) # "absent"
    /\ Len(entries) <= Capacity /\ Cardinality(Cached(entries)) = Len(entries)
    /\ index # NoIndex => index.open = opening
    /\ indexSt = "ready" <=> index # NoIndex
    /\ Cached(entries) \subseteq Pages(index.n)

\* A seek shows a window inside its page that has the leading edge asked for, at the width asked
\* for or the page's, whichever page it comes from. The pages leave no bar out, and what two
\* neighbours both show is what each is told it shares.
PagesAddUp ==
    LET n == index.n
        shift(r, k) == {Offset(n, k) + x : x \in r.from .. r.to}
    IN  /\ cur # Nowhere =>
             \A w \in Windows(n), direction \in Directions :
               LET a     == w[1]
                   b     == w[2]
                   k     == PageForWindow(n, cur, a, b, direction)
                   place == PlaceWindow(n, k, a, b, direction)
                   edge  == Smaller(IF direction = "right" THEN Greater(a, b) ELSE Smaller(a, b), n - 1)
                   wide  == Smaller(Greater(a, b) - Smaller(a, b), PageLength(n, k) - 1)
               IN  /\ place.from .. place.to \subseteq BarsOf(n, k)
                   /\ BarsOf(n, k) \subseteq 0 .. n - 1
                   /\ edge \in place.from .. place.to
                   /\ direction # "page" => place.to - place.from = wide
        /\ UNION {BarsOf(n, k) : k \in Pages(n)} = 0 .. n - 1
        /\ \A k \in Pages(n) \ {0} :
             LET both == BarsOf(n, k - 1) \cap BarsOf(n, k)
             IN  shift(OverlapRange(n, k - 1), k - 1) = both /\ shift(OverlapBeforeRange(n, k), k) = both
=============================================================================
