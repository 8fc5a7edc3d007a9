--------------------------- MODULE MCHistoryIngest ---------------------------
(* Small instances of HistoryIngest for TLC.                               *)
EXTENDS HistoryIngest

CONSTANTS w1, w2

World(workers, order, live, start, last, retentions, maxFaults) ==
    [workers |-> workers, order |-> order, sorted |-> ToSet(order) \ {"claude"},
     live |-> live, start |-> start, last |-> last, retentions |-> retentions,
     maxFaults |-> maxFaults]

\* Two workers on two past days of a sorted source, through two faults.
TwoWorkers == World({w1, w2}, <<"pi">>, FALSE, 3, 3, {0}, 2)
\* Two sources, treated one after the other.
TwoSources == World({w1}, <<"pi", "opencode">>, FALSE, 2, 2, {0}, 2)
\* A worker that records and backfills around midnight, under two retentions.
AroundMidnight == World({w1}, <<"pi">>, TRUE, 2, 3, {1, 2}, 1)
Sorted == {TwoWorkers, TwoSources, AroundMidnight}

\* The days of Claude come in no order.
Unsorted == {World({w1}, <<"claude">>, FALSE, 3, 3, {0}, 2)}
=============================================================================
