--------------------------- MODULE TableClustering ---------------------------
(***************************************************************************)
(* How the tables of a source are cut into clusters and the clusters into  *)
(* levels of parallel work (crates/ox-ontology/src/table_clustering.rs).   *)
(* Tables are numbered in the order of the schema.  A foreign key is the   *)
(* record of its two tables and whether it was inferred; a schema lists    *)
(* the declared ones and the implied ones of sufficient confidence.        *)
(***************************************************************************)
EXTENDS Integers, FiniteSets, SequencesExt

\* The elements of S in the order of a relation on S: each is preceded by
\* those that come before it.
SortedBy(S, before) ==
    [k \in 1..Cardinality(S) |->
        CHOOSE x \in S : Cardinality({y \in S : <<y, x>> \in before}) = k - 1]

Ascending(S) == SortedBy(S, {p \in S \X S : p[1] < p[2]})

\* The keys both of whose tables the schema has.
Known(s) == {fk \in s.fks : {fk.from, fk.to} \subseteq s.tables}

\* The pairs of distinct tables that a key connects.
collect_all_fks(s) == {<<fk.from, fk.to>> : fk \in {k \in Known(s) : k.from # k.to}}

adj(s, t) == {u \in s.tables : {<<t, u>>, <<u, t>>} \cap collect_all_fks(s) # {}}

-----------------------------------------------------------------------------
(* Connected components, split where they are too large.                    *)

\* union: the groups of the two ends of a key become one.
Joined(e, groups) ==
    LET touched == {g \in groups : g \cap {e[1], e[2]} # {}}
    IN  (groups \ touched) \cup {UNION touched}

components(s) == FoldSet(Joined, {{t} : t \in s.tables}, collect_all_fks(s))

component_groups(s) ==
    SortedBy(components(s), {p \in components(s) \X components(s) : Min(p[1]) < Min(p[2])})

\* Mutant: room is looked for only between two queue entries.
TakeWithoutRoom(acc, t, max) ==
    IF t \in acc.assigned THEN acc
    ELSE [assigned |-> acc.assigned \cup {t}, part |-> acc.part \cup {t},
          queue |-> Append(acc.queue, t)]

\* One neighbour joins the growing part, if it is free and there is room.
Take(acc, t, max) ==
    IF Cardinality(acc.part) >= max \/ t \in acc.assigned THEN acc
    ELSE [assigned |-> acc.assigned \cup {t}, part |-> acc.part \cup {t},
          queue |-> Append(acc.queue, t)]

\* The part that a breadth-first walk from start collects.
Grow(s, group, max, assigned, start) ==
    LET Visit(acc, i) ==
            IF acc.queue = <<>> \/ Cardinality(acc.part) >= max THEN acc
            ELSE FoldLeft(LAMBDA a, t : Take(a, t, max),
                          [acc EXCEPT !.queue = Tail(@)],
                          Ascending(adj(s, Head(acc.queue)) \cap group))
    IN  FoldLeft(Visit,
                 [assigned |-> assigned \cup {start}, part |-> {start}, queue |-> <<start>>],
                 Ascending(group))

\* Parts are grown from the tables of highest degree first.
bfs_split(s, group, max) ==
    LET degree(t) == Cardinality(adj(s, t) \cap group)
        by_degree == SortedBy(group, {p \in group \X group :
                                  \/ degree(p[1]) > degree(p[2])
                                  \/ degree(p[1]) = degree(p[2]) /\ p[1] < p[2]})
        With(parts, grown) ==
            [assigned |-> grown.assigned, parts |-> Append(parts, grown.part)]
        Start(acc, t) == IF t \in acc.assigned THEN acc
                         ELSE With(acc.parts, Grow(s, group, max, acc.assigned, t))
    IN  FoldLeft(Start, [assigned |-> {}, parts |-> <<>>], by_degree).parts

partitions(s, max) ==
    LET Split(group) == IF Cardinality(group) <= max THEN <<group>> ELSE bfs_split(s, group, max)
        SplitAll(groups) == FlattenSeq([i \in DOMAIN groups |-> Split(groups[i])])
    IN  SplitAll(component_groups(s))

TableCluster(s, part) ==
    [tables |-> part,
     internal_fks |-> {fk \in Known(s) : {fk.from, fk.to} \subseteq part},
     cross_fks |-> {fk \in Known(s) : (fk.from \in part) # (fk.to \in part)}]

-----------------------------------------------------------------------------
(* Levels of clusters whose references lie in earlier levels.               *)

\* The cluster a table is in.
Part(clusters, t) == CHOOSE i \in DOMAIN clusters : t \in clusters[i].tables

\* A cross key is listed by both of its clusters.
Listed(clusters) == UNION {{i} \X clusters[i].cross_fks : i \in DOMAIN clusters}

\* From the referenced cluster to the referencing one.
dag(clusters) == {<<Part(clusters, x[2].to), Part(clusters, x[2].from)>> : x \in Listed(clusters)}

inbound_cross_count(clusters, i) ==
    Cardinality({x \in Listed(clusters) : Part(clusters, x[2].to) = i})

\* Mutant: every listing of a key is counted.
in_degree_of_listings(clusters, i) ==
    Cardinality({x \in Listed(clusters) : Part(clusters, x[2].from) = i})

in_degree(clusters, i) == Cardinality({d \in dag(clusters) : d[2] = i})

\* By inbound keys, most first.
Ordered(S, inbound) ==
    SortedBy(S, {p \in S \X S : \/ inbound[p[1]] > inbound[p[2]]
                                \/ inbound[p[1]] = inbound[p[2]] /\ p[1] < p[2]})

\* One level: the clusters of degree 0 are taken out.  Those whose degree has
\* become the sentinel are the processed ones.
Peel(acc, clusters, inbound) ==
    LET level == {i \in DOMAIN clusters \ acc.processed : acc.degree[i] = 0}
        Freed(i) == Cardinality({d \in dag(clusters) : d[1] \in level /\ d[2] = i})
    IN  IF level = {} THEN acc
        ELSE [levels |-> Append(acc.levels, Ordered(level, inbound)),
              processed |-> acc.processed \cup level,
              degree |-> [i \in DOMAIN clusters |-> acc.degree[i] - Freed(i)]]

\* What is left lies on or behind a cycle and becomes the last level.
WithRemaining(kahn, inbound) ==
    LET remaining == DOMAIN inbound \ kahn.processed
    IN  IF remaining = {} THEN kahn.levels ELSE Append(kahn.levels, Ordered(remaining, inbound))

compute_parallel_levels(clusters) ==
    LET inbound == [i \in DOMAIN clusters |-> inbound_cross_count(clusters, i)]
        start == [levels |-> <<>>, processed |-> {},
                  degree |-> [i \in DOMAIN clusters |-> in_degree(clusters, i)]]
    IN  WithRemaining(FoldLeft(LAMBDA acc, c : Peel(acc, clusters, inbound), start, clusters),
                      inbound)

\* Clusters are renumbered in the order of the levels.
Renumbered(clusters, levels, id_order) ==
    [clusters |-> [n \in DOMAIN id_order |-> clusters[id_order[n]]],
     levels |-> [k \in DOMAIN levels |->
                    [j \in DOMAIN levels[k] |->
                        CHOOSE n \in DOMAIN id_order : id_order[n] = levels[k][j]]]]

cluster_tables(s, max) ==
    LET Numbered(clusters, levels) == Renumbered(clusters, levels, FlattenSeq(levels))
        Levelled(clusters) == Numbered(clusters, compute_parallel_levels(clusters))
        Of(parts) == [i \in DOMAIN parts |-> TableCluster(s, parts[i])]
    IN  Levelled(Of(partitions(s, max)))

-----------------------------------------------------------------------------
(* What a plan promises.                                                    *)

\* Every table is in one cluster, no cluster is larger than asked for, and
\* the keys among a cluster's tables hold it together.
WellClustered(s, max, plan) ==
    /\ UNION {plan.clusters[i].tables : i \in DOMAIN plan.clusters} = s.tables
    /\ \A i, j \in DOMAIN plan.clusters :
          i # j => plan.clusters[i].tables \cap plan.clusters[j].tables = {}
    /\ \A i \in DOMAIN plan.clusters :
          LET tables == plan.clusters[i].tables
          IN  /\ Cardinality(tables) <= max
              /\ \A X \in (SUBSET tables) \ {{}, tables} :
                    \E fk \in plan.clusters[i].internal_fks :
                        (fk.from \in X) # (fk.to \in X)

\* The clusters that cluster i refers to.
References(plan, i) ==
    {j \in DOMAIN plan.clusters \ {i} :
        \E fk \in plan.clusters[i].cross_fks : fk.from \in plan.clusters[i].tables
                                               /\ fk.to \in plan.clusters[j].tables}

\* The clusters that a set of clusters leads to, itself included.
Reached(plan, S) ==
    FoldLeft(LAMBDA acc, c : acc \cup UNION {References(plan, i) : i \in acc},
             S, plan.clusters)

\* Every cluster has its place in one level, behind the clusters it refers
\* to, unless what it refers to leads into a cycle.
WellOrdered(plan) ==
    LET levelOf(i) == CHOOSE k \in DOMAIN plan.levels : Contains(plan.levels[k], i)
        Cyclic(i) == i \in Reached(plan, References(plan, i))
    IN  /\ FlattenSeq(plan.levels) = [i \in DOMAIN plan.clusters |-> i]
        /\ \A i \in DOMAIN plan.clusters : \A j \in References(plan, i) :
              \/ levelOf(j) < levelOf(i)
              \/ \E k \in Reached(plan, {i}) : Cyclic(k)
=============================================================================
