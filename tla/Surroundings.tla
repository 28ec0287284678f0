-------------------------------- MODULE Surroundings ------------------------------
(***************************************************************************)
(* What stands around the store's write path: the web client's screens,    *)
(* the answers behind them, the loop that keeps the DAILY datasets up to   *)
(* date, and the way of a failed request to its caller. They share no      *)
(* state with one another, so a behaviour follows one of them. Only the    *)
(* detail screen's use of the shell's events is followed one by one: the   *)
(* catalog's grid and the viewer reload as a whole, at any time. The       *)
(* coverage strip, the usage figures and the sidebar are what the store    *)
(* answers whenever asked.                                                 *)
(***************************************************************************)
EXTENDS DetailScreen, ChartPages, CatalogGrid, SessionHealth, CatalogReads, RefreshLoop, ErrorAnswers

VARIABLE part  \* the part that is followed

vars == <<part, feedVars, detailVars, pagesVars, gridVars, healthVars, catalogVars, refreshVars, errorVars>>

\* What a part that is not followed would start with is of no interest.
Init ==
    /\ part \in {"detail", "viewer", "grid", "coverage", "usage", "sidebar", "refresh", "failure"}
    /\ FeedInit /\ DetailInit /\ PagesInit /\ GridInit /\ HealthInit /\ CatalogInit /\ RefreshInit
    /\ ErrorInit
    /\ part # "grid" => Listed = {}
    /\ part # "coverage" => kept = CHOOSE s \in Subscriptions : TRUE
    /\ part # "sidebar" => Stored = {}
    /\ part # "failure" => request = "other"

Detail   == part = "detail" /\ DetailNext
            /\ UNCHANGED <<part, pagesVars, gridVars, healthVars, catalogVars, refreshVars, errorVars>>
Viewer   == part = "viewer" /\ PagesNext
            /\ UNCHANGED <<part, feedVars, detailVars, gridVars, healthVars, catalogVars, refreshVars, errorVars>>
Grid     == part = "grid" /\ GridNext
            /\ UNCHANGED <<part, feedVars, detailVars, pagesVars, healthVars, catalogVars, refreshVars, errorVars>>
Coverage == part = "coverage" /\ HealthNext
            /\ UNCHANGED <<part, feedVars, detailVars, pagesVars, gridVars, catalogVars, refreshVars, errorVars>>
Usage    == part = "usage" /\ UsageNext
            /\ UNCHANGED <<part, feedVars, detailVars, pagesVars, gridVars, healthVars, rows, refreshVars, errorVars>>
Sidebar  == part = "sidebar" /\ CatalogNext
            /\ UNCHANGED <<part, feedVars, detailVars, pagesVars, gridVars, healthVars, refreshVars, errorVars>>
Refresh  == part = "refresh" /\ RefreshNext
            /\ UNCHANGED <<part, feedVars, detailVars, pagesVars, gridVars, healthVars, catalogVars, errorVars>>
Failure  == part = "failure" /\ ErrorNext
            /\ UNCHANGED <<part, feedVars, detailVars, pagesVars, gridVars, healthVars, catalogVars, refreshVars>>

Next == Detail \/ Viewer \/ Grid \/ Coverage \/ Usage \/ Sidebar \/ Refresh \/ Failure

Spec == Init /\ [][Next]_vars

\* Every variable has its type, and each part's own rules of shape hold.
TypeOK == DetailTypeOK /\ PagesTypeOK /\ GridTypeOK /\ HealthTypeOK /\ UsageTypeOK
          /\ RefreshTypeOK /\ ErrorTypeOK

\* The viewer always has the page it shows, or its error, and the pages make up the window (chartPages.ts).
ViewerShowsTheWindow == part = "viewer" => PagesServeTheWindow /\ PagesAddUp

\* The answers, each stated where it is computed and checked on the part that asks for it:
\* the strip, the gaps and the status of a dataset tell one story (dataset_coverage, evaluate_dataset),
CoverageAgrees == part = "coverage" => StripAgrees

\* the usage figures are what they would be had no read been folded away (dataset_read.py),
UsageOutlivesTheRollup == part = "usage" => FiguresAreTheReads

\* and on the sidebar a count beside a filter is the length of the list it filters to (facets,
\* list_page), while the list, the summary, the buckets and the stale page agree on who was read when
\* (read_within, usage_summary, stale_page), and the shares of the storage on the whole.
CatalogAgrees == part = "sidebar" => FacetsCountTheList /\ UsageFiguresAgree
=============================================================================
