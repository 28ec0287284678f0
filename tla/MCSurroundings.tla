------------------------------ MODULE MCSurroundings ----------------------------
(* Two datasets, a nine-bar window of five pages, three rows in pages of one, a *)
(* calendar of four-day weeks with holidays, the filters in pairs, and three    *)
(* DAILY datasets to refresh, of which two look alike in a request.             *)
EXTENDS Surroundings, TLC

MCRequestOf == [d \in {1, 2, 3} |-> IF d < 3 THEN 11 ELSE 13]

SameDatasets == Permutations(Datasets)

Subscription(update, width, range) ==
    [update |-> update, width |-> width, start |-> range[1], end |-> range[2], collect |-> TRUE]

MCSubscriptions ==
    {Subscription(u, w, r) : u \in {"DAILY", "STATIC"}, w \in {"day", "week"},
                             r \in {<<5, Forever>>, <<4, 24>>, <<0, 20>>, <<9, 34>>}}
    \cup {Subscription("STREAM", "day", <<4, Forever>>)}

Row(source, update, collect, judged, running, expiry, bars) ==
    [source |-> source, update |-> update, collect |-> collect, judged |-> judged,
     running |-> running, expiry |-> expiry, bars |-> bars]

MCRows ==
    {Row("ALPACA", "DAILY", TRUE, "LATE", FALSE, Never, 3),
     Row("ALPACA", "DAILY", FALSE, "FRESH", TRUE, 2, 1),
     Row("ALPACA", "STATIC", TRUE, "GAPS", TRUE, Never, 0),
     Row("IB", "STATIC", TRUE, "COMPLETE", FALSE, 5, 2),
     Row("IB", "STREAM", FALSE, "FRESH", FALSE, Never, 1)}

Default == [ids |-> {}, kinds |-> {}]
Filters == {Default, [ids |-> {}, kinds |-> {"UI", "SDK"}], [ids |-> {Operator}, kinds |-> {}]}

Query(client, usage) ==
    [source |-> "ANY", update |-> "ANY", status |-> "ANY", attention |-> FALSE, running |-> FALSE,
     client |-> client, usage |-> usage, stale |-> 1, before |-> Never]

MCQueries ==
    {[Query(Default, u) EXCEPT !.before = b, !.running = r] :
        u \in {"ANY", "STALE"}, b \in {Never, 3}, r \in BOOLEAN}
    \cup {[Query(c, "READ_30D") EXCEPT !.source = s] : c \in Filters, s \in {"ANY", "IB"}}
    \cup {[Query(Default, "ANY") EXCEPT !.attention = a, !.status = g, !.update = u] :
            a \in BOOLEAN, g \in {"ANY", "FAILED"}, u \in {"ANY", "STATIC"}}
=============================================================================
