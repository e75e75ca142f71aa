------------------------------ MODULE MCDesign ------------------------------
(***************************************************************************)
(* Designs of a source with a table 1 that all others refer to, with and   *)
(* without its last table; and the plans of all schemas of three tables    *)
(* and of those of four tables with at most four keys.                     *)
(***************************************************************************)
EXTENDS DesignStream

CONSTANTS a, b, t1, t2

Key(i, j) == [from |-> i, to |-> j, inferred |-> FALSE]
Keys(n) == {Key(i, j) : i, j \in 1..n} \ {Key(i, i) : i \in 1..n}

Star(n) == [tables |-> 1..n, fks |-> {Key(i, 1) : i \in 2..n}]

MCFollowed == {Star(4), Star(3)}
MCDeployed == {[s \in Stream |-> t1], [s \in Stream |-> IF s = a THEN t1 ELSE t2]}

MCSchema ==
    {[tables |-> 1..3, fks |-> k] : k \in SUBSET Keys(3)}
    \cup {[tables |-> 1..4, fks |-> k] : k \in UNION {kSubset(n, Keys(4)) : n \in 0..4}}
=============================================================================
