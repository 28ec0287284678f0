------------------------------ MODULE CatalogGrid ------------------------------
(***************************************************************************)
(* The Datasets grid: the server's keyset-paged list (list_page) walked    *)
(* page by page through a memo of blocks (catalog/cursorDatasource.ts),    *)
(* while the list changes under the walk, pages fail, and a live refresh   *)
(* starts the walk again with the old one still in flight.                 *)
(* A row is its number, which also breaks ties, and its sort key.          *)
(***************************************************************************)
EXTENDS Integers, Sequences, FiniteSets, SequencesExt

CONSTANTS
    Ids,       \* rows there can be
    Keys,      \* sort keys
    Gone,      \* the key of a row that is not in the list
    PageSize,
    Blocks,    \* blocks the grid may ask for, from 0
    MaxWalks,  \* bound on refreshes
    MaxMoves,  \* bound on changes of the list
    MaxMisses  \* bound on pages that fail

ASSUME GridAssumption ==
    /\ Ids \subseteq Nat /\ IsFiniteSet(Ids) /\ Keys \subseteq Nat \ {0} /\ Gone \notin Keys
    /\ PageSize \in Nat \ {0} /\ Blocks \subseteq Nat
    /\ MaxWalks \in Nat \ {0} /\ MaxMoves \in Nat /\ MaxMisses \in Nat

VARIABLES
    list,    \* the server's rows: their sort keys
    walk,    \* generation: the walk since the last refresh
    walks,   \* each walk: the pages it memoised, the read in flight, the blocks asked for
    grid,    \* the blocks on screen, and the walk each was delivered under
    touched, \* rows that changed since the current walk's first page was read
    moves, misses

gridVars == <<list, walk, walks, grid, touched, moves, misses>>

Start == <<0, 0>>
End   == <<>>

\* reading: nothing, <<the cursor>>, or <<the cursor, the page the server read>>.
Unread == [pages |-> <<>>, reading |-> <<>>, wants |-> {}]

NothingShown == [b \in Blocks |-> [under |-> 0, items |-> <<>>, done |-> FALSE]]

GridInit ==
    /\ list \in [Ids -> Keys \cup {Gone}]
    /\ walk = 1
    /\ walks = [w \in 1 .. MaxWalks |-> Unread]
    /\ grid = NothingShown
    /\ touched = {}
    /\ moves = 0 /\ misses = 0

---------------------------------------------------------------------------
(* The server. *)

Before(p, q) == p[1] < q[1] \/ (p[1] = q[1] /\ p[2] < q[2])

Listed == {<<list[i], i>> : i \in {j \in Ids : list[j] # Gone}}

\* Some rows in their order, each behind as many as come before it.
InOrder(some) ==
    [n \in 1 .. Cardinality(some) |-> CHOOSE p \in some : Cardinality({q \in some : Before(q, p)}) = n - 1]

\* list_page: the rows after the cursor's key, one more than a page to see whether more follow.
PageAfter(after) ==
    LET rows   == InOrder({p \in Listed : Before(after, p)})
        window == SubSeq(rows, 1, IF Len(rows) <= PageSize THEN Len(rows) ELSE PageSize + 1)
        items  == SubSeq(window, 1, IF Len(window) <= PageSize THEN Len(window) ELSE PageSize)
    IN  [items |-> items, next |-> IF Len(window) > PageSize THEN Last(items) ELSE End]

\* A row comes, goes, or moves in the order.
RowChanges(i) ==
    /\ moves < MaxMoves /\ moves' = moves + 1
    /\ \E key \in (Keys \cup {Gone}) \ {list[i]} : list' = [list EXCEPT ![i] = key]
    /\ touched' = touched \cup {i}
    /\ UNCHANGED <<walk, walks, grid, misses>>

---------------------------------------------------------------------------
(* The walk. *)

\* A walk the grid has left is of no more account once nothing is asked of it.
Kept(w, asked) == IF w = walk \/ asked.wants # {} THEN asked ELSE Unread

Ended(w)       == w.pages # <<>> /\ Last(w.pages).next = End
Resolved(w, b) == b < Len(w.pages) \/ Ended(w)

\* What follows the last page is empty.
BlockOf(w, b) == IF b < Len(w.pages) THEN w.pages[b + 1] ELSE [items |-> <<>>, next |-> End]

\* A block is built on its predecessor's: the walk reads on while a block asked for is not there.
Pursue(w) ==
    IF w.reading = <<>> /\ \E b \in w.wants : ~Resolved(w, b)
    THEN [w EXCEPT !.reading = <<IF w.pages = <<>> THEN Start ELSE Last(w.pages).next>>]
    ELSE w

\* getRows: the grid asks for one block at a time, in any order, and keeps the ones it has.
Ask(b) ==
    /\ walks[walk].wants = {} /\ grid[b].under # walk
    /\ walks' = [walks EXCEPT ![walk] = Pursue([@ EXCEPT !.wants = {b}])]
    /\ UNCHANGED <<list, walk, grid, touched, moves, misses>>

\* The server reads a walk's next page; what changed before its first one does not concern it.
Serve(w) ==
    /\ Len(walks[w].reading) = 1
    /\ walks' = [walks EXCEPT ![w].reading = Append(@, PageAfter(@[1]))]
    /\ touched' = IF w = walk /\ walks[w].pages = <<>> THEN {} ELSE touched
    /\ UNCHANGED <<list, walk, grid, moves, misses>>

Land(w) ==
    /\ Len(walks[w].reading) = 2
    /\ walks' = [walks EXCEPT ![w] = Pursue([walks[w] EXCEPT !.pages = Append(@, walks[w].reading[2]), !.reading = <<>>])]
    /\ UNCHANGED <<list, walk, grid, touched, moves, misses>>

\* A page fails: it and the blocks built on it are forgotten, and the grid is told.
Miss(w) ==
    /\ Len(walks[w].reading) = 1
    /\ misses < MaxMisses /\ misses' = misses + 1
    /\ walks' = [walks EXCEPT ![w] = Kept(w, [@ EXCEPT !.reading = <<>>, !.wants = {}])]
    /\ UNCHANGED <<list, walk, grid, touched, moves>>

\* Mutant: an answer is shown whenever it comes.
DeliverAny(w) ==
    \E b \in walks[w].wants :
      /\ Resolved(walks[w], b)
      /\ walks' = [walks EXCEPT ![w] = Kept(w, [walks[w] EXCEPT !.wants = @ \ {b}])]
      /\ grid' = [grid EXCEPT ![b] = [under |-> walk, items |-> BlockOf(walks[w], b).items,
                                      done |-> BlockOf(walks[w], b).next = End]]
      /\ UNCHANGED <<list, walk, touched, moves, misses>>

\* A block is there: the grid has it, unless the walk is not the current one any more.
Deliver(w) ==
    \E b \in walks[w].wants :
      /\ Resolved(walks[w], b)
      /\ walks' = [walks EXCEPT ![w] = Kept(w, [walks[w] EXCEPT !.wants = @ \ {b}])]
      /\ grid' = IF w # walk THEN grid
                 ELSE [grid EXCEPT ![b] = [under |-> walk, items |-> BlockOf(walks[w], b).items,
                                           done |-> BlockOf(walks[w], b).next = End]]
      /\ UNCHANGED <<list, walk, touched, moves, misses>>

\* invalidate: the next getRows walks from the first page again. The rows shown stay until each block
\* is delivered again; they are followed no longer.
Invalidate ==
    /\ walk < MaxWalks
    /\ walk' = walk + 1
    /\ walks' = IF walks[walk].wants = {} THEN [walks EXCEPT ![walk] = Unread] ELSE walks
    /\ grid' = NothingShown
    /\ UNCHANGED <<list, touched, moves, misses>>

\* A filter or a sort changed: a new datasource, the old one destroyed and its reads aborted.
Reinstall ==
    /\ walk < MaxWalks
    /\ walk' = walk + 1
    /\ walks' = [walks EXCEPT ![walk] = Unread]
    /\ grid' = NothingShown
    /\ UNCHANGED <<list, touched, moves, misses>>

GridNext ==
    \/ \E i \in Ids : RowChanges(i)
    \/ \E b \in Blocks : Ask(b)
    \/ \E w \in 1 .. MaxWalks : Serve(w) \/ Land(w) \/ Miss(w) \/ Deliver(w)
    \/ Invalidate \/ Reinstall

---------------------------------------------------------------------------
(* Properties. *)

GridTypeOK ==
    /\ list \in [Ids -> Keys \cup {Gone}] /\ walk \in 1 .. MaxWalks
    /\ \A w \in 1 .. MaxWalks :
         /\ walks[w].wants \subseteq Blocks
         /\ \A i \in 1 .. Len(walks[w].pages) : Len(walks[w].pages[i].items) <= PageSize
    /\ touched \subseteq Ids
    /\ \A b \in Blocks : grid[b].under \in 0 .. walk

\* The blocks delivered since the last refresh.
Current == {b \in Blocks : grid[b].under = walk}
IdsIn(b) == {grid[b].items[i][2] : i \in 1 .. Len(grid[b].items)}

\* However the list changes under the walk, a row that did not change while it went on is in no two
\* places of the grid and in its order's place; once the end is on screen, and every block before
\* it, no such row is left out and none that is gone is shown.
WalkIsConsistent ==
    LET still == Ids \ touched
        shown == UNION {IdsIn(b) : b \in Current}
        whole == \E b \in Current : grid[b].done /\ 0 .. b \subseteq Current
    IN  /\ \A b, c \in Current : b < c =>
             /\ IdsIn(b) \cap IdsIn(c) \cap still = {}
             /\ \A i \in 1 .. Len(grid[b].items), j \in 1 .. Len(grid[c].items) :
                  {grid[b].items[i][2], grid[c].items[j][2]} \subseteq still
                    => Before(grid[b].items[i], grid[c].items[j])
        /\ whole => {i \in still : list[i] # Gone} = shown \cap still
=============================================================================
