------------------------------ MODULE MCWorklist ------------------------------
(***************************************************************************)
(* The list the repository seeds the worklist with, for TLC: one process   *)
(* seeds it once, nobody dies and nothing fails.                           *)
(***************************************************************************)
EXTENDS Worklist, TLC

CONSTANTS p1, p2, a1, a2

MCProcs == {p1, p2}
MCTwoAgents == {a1, a2}
MCProcOf == a1 :> p1 @@ a2 :> p2
MCOneSeeder == {p1}

Entry(n, B) == [id |-> n, blockers |-> B]

\* topological_sort(CANONICAL_TASKS): the declared ids in the order in which
\* the rows are inserted, so that row 2 is task 10 and row 16 is task 11.
Canonical == <<
    Entry(1, {}), Entry(10, {}), Entry(14, {}), Entry(16, {}), Entry(17, {}),
    Entry(19, {}), Entry(2, {1}), Entry(3, {1}), Entry(4, {1}), Entry(5, {1}),
    Entry(6, {1}), Entry(7, {1}), Entry(8, {1}), Entry(9, {1}), Entry(22, {1}),
    Entry(11, {1, 10}), Entry(18, {14, 16}), Entry(23, {19}), Entry(12, {2, 10}),
    Entry(20, {2}), Entry(13, {2, 11}), Entry(15, {11}),
    Entry(24, {2, 3, 4, 5, 6, 7, 8, 9, 11, 12, 14, 16, 18, 20, 22}),
    Entry(21, {11, 15}), Entry(25, {17, 24})>>
=============================================================================
