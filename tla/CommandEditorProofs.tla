------------------------ MODULE CommandEditorProofs ------------------------
(***************************************************************************)
(* Proofs about CommandEditor, for ontologies of any size, any finite or   *)
(* infinite sets of ids, labels and keys, and every editing command: what  *)
(* an accepted command leaves behind, and that its inverse undoes it.      *)
(***************************************************************************)
EXTENDS CommandStackProofs

-----------------------------------------------------------------------------
(* What the deletions make of an ontology, on the server and in the browser. *)

At(s, id) == {i \in DOMAIN s : s[i].id = id}
Left(s, K) == Picked(s, DOMAIN s \ K)

\* Counting up to a place of 1..n.
LEMMA PrefixPicked ==
    ASSUME NEW s, NEW n \in Nat
    PROVE  Picked(s, 1..n) = [k \in 1..n |-> s[k]]
<1>1. \A i \in 1..n : Cardinality({j \in 1..n : j <= i}) = i
  <2>1. SUFFICES ASSUME NEW i \in 1..n PROVE Cardinality({j \in 1..n : j <= i}) = i
    OBVIOUS
  <2>2. {j \in 1..n : j <= i} = 1..i /\ i \in Nat
    OBVIOUS
  <2>3. Cardinality(1..i) = i
    BY <2>2, FS_Interval
  <2> QED
    BY <2>2, <2>3
<1>2. Cardinality(1..n) = n
  BY FS_Interval
<1> DEFINE Place(k) == CHOOSE i \in 1..n : Cardinality({j \in 1..n : j <= i}) = k
<1>3. \A k \in 1..n : Place(k) = k
  BY <1>1
<1>4. Picked(s, 1..n) = [k \in 1..Cardinality(1..n) |-> s[Place(k)]]
  BY DEF Picked
<1> HIDE DEF Place
<1> QED
  BY <1>2, <1>3, <1>4

LEMMA LeftAll ==
    ASSUME NEW S, NEW s \in Seq(S), NEW K, K \cap DOMAIN s = {}
    PROVE  Left(s, K) = s
<1>1. DOMAIN s = 1..Len(s) /\ Len(s) \in Nat /\ s = [i \in 1..Len(s) |-> s[i]]
  BY ListFacts
<1>2. DOMAIN s \ K = 1..Len(s)
  BY <1>1
<1> QED
  BY <1>1, <1>2, PrefixPicked DEF Left

LEMMA LeftLast ==
    ASSUME NEW S, NEW s \in Seq(S), NEW x \in S
    PROVE  Left(Append(s, x), {Len(s) + 1}) = s
<1>1. /\ DOMAIN Append(s, x) = 1..(Len(s) + 1)
      /\ \A i \in 1..Len(s) : Append(s, x)[i] = s[i]
  BY AppendList
<1>2. DOMAIN s = 1..Len(s) /\ Len(s) \in Nat /\ s = [i \in 1..Len(s) |-> s[i]]
  BY ListFacts
<1>3. DOMAIN Append(s, x) \ {Len(s) + 1} = 1..Len(s)
  BY <1>1, <1>2
<1>4. Picked(Append(s, x), 1..Len(s)) = [k \in 1..Len(s) |-> Append(s, x)[k]]
  BY <1>2, PrefixPicked
<1> QED
  BY <1>1, <1>2, <1>3, <1>4 DEF Left

\* Leaving out what was picked, entry by entry.
LEMMA Others ==
    ASSUME NEW S, NEW s \in Seq(S), NEW K, K \subseteq DOMAIN s,
           \A i, j \in DOMAIN s : s[i] = s[j] => (i \in K <=> j \in K)
    PROVE  {i \in DOMAIN s : s[i] \notin ToSet(Picked(s, K))} = DOMAIN s \ K
<1>1. ToSet(Picked(s, K)) = {s[i] : i \in K}
  BY PickedList
<1> QED
  BY <1>1

IncidentEdges(o, id) ==
    {i \in DOMAIN o.edge_types : id \in {o.edge_types[i].source_node_id,
                                         o.edge_types[i].target_node_id}}
LinksOf(o, ids) == {i \in DOMAIN o.link_mappings : o.link_mappings[i].edge_type_id \in ids}
IndexesOf(o, id) == {i \in DOMAIN o.indexes : o.indexes[i].node_id = id}
ObjectsOf(o, id) == {i \in DOMAIN o.object_mappings : o.object_mappings[i].node_type_id = id}
IncidentIds(o, id) == {o.edge_types[i].id : i \in IncidentEdges(o, id)}

WithoutNode(o, id) ==
    [o EXCEPT !.node_types = Left(@, At(@, id)),
              !.edge_types = Left(@, IncidentEdges(o, id)),
              !.link_mappings = Left(@, LinksOf(o, IncidentIds(o, id))),
              !.indexes = Left(@, IndexesOf(o, id)),
              !.object_mappings = Left(@, ObjectsOf(o, id))]

NodeRestored(o, id) ==
    <<CreateNodeCmd(Find(o.node_types, id))>>
    \o Each(Picked(o.edge_types, IncidentEdges(o, id)), CreateEdgeCmd)
    \o Each(Picked(o.indexes, IndexesOf(o, id)), AddIndexCmd)
    \o Each(Picked(o.object_mappings, ObjectsOf(o, id)), CreateObjectMappingCmd)
    \o Each(Picked(o.link_mappings, LinksOf(o, IncidentIds(o, id))), CreateLinkMappingCmd)

LEMMA NodeDeletion ==
    ASSUME NEW o \in Ontology, NEW c
    PROVE  /\ DeleteNode(o, c) = When(c.node_id \in Ids(o.node_types),
                  Ok(WithoutNode(o, c.node_id), NodeRestored(o, c.node_id)))
           /\ FeDeleteNode(o, c) = Unless(c.node_id \notin Ids(o.node_types), o,
                  Applied(WithoutNode(o, c.node_id), NodeRestored(o, c.node_id)))
<1> DEFINE id == c.node_id
           es == o.edge_types
           ls == o.link_mappings
           is == o.indexes
           ms == o.object_mappings
           E == IncidentEdges(o, id)
           X == IndexesOf(o, id)
           M == ObjectsOf(o, id)
           I == IncidentIds(o, id)
           L == LinksOf(o, I)
<1>1. /\ es \in Seq(EdgeType) /\ ls \in Seq(LinkMapping) /\ is \in Seq(IndexDef)
      /\ ms \in Seq(ObjectMapping)
  BY OntologyLists
<1>2. Ids(Picked(es, E)) = I
  <2>1. ToSet(Picked(es, E)) = {es[i] : i \in E}
    BY <1>1, PickedList DEF IncidentEdges
  <2> QED
    BY <2>1, IdsOfSet DEF IncidentIds
<1>3. /\ {i \in DOMAIN ls : ls[i] \notin ToSet(Picked(ls, L))} = DOMAIN ls \ L
      /\ {i \in DOMAIN is : is[i] \notin ToSet(Picked(is, X))} = DOMAIN is \ X
      /\ {i \in DOMAIN ms : ms[i] \notin ToSet(Picked(ms, M))} = DOMAIN ms \ M
  <2>1. L \subseteq DOMAIN ls /\ \A i, j \in DOMAIN ls : ls[i] = ls[j] => (i \in L <=> j \in L)
    BY DEF LinksOf
  <2>2. X \subseteq DOMAIN is /\ \A i, j \in DOMAIN is : is[i] = is[j] => (i \in X <=> j \in X)
    BY DEF IndexesOf
  <2>3. M \subseteq DOMAIN ms /\ \A i, j \in DOMAIN ms : ms[i] = ms[j] => (i \in M <=> j \in M)
    BY DEF ObjectsOf
  <2> HIDE DEF L, X, M, ls, is, ms
  <2> QED
    BY <1>1, <2>1, <2>2, <2>3, Others
<1> DEFINE Incident(e) == id \in {e.source_node_id, e.target_node_id}
           edges == Retain(es, Incident)
           links == Retain(ls, LAMBDA m : m.edge_type_id \in Ids(edges))
           idxs == Retain(is, LAMBDA i : i.node_id = id)
           objs == Retain(ms, LAMBDA m : m.node_type_id = id)
<1>4. edges = Picked(es, E)
  BY DEF Retain, IncidentEdges
<1>5. links = Picked(ls, L)
  <2>1. Ids(edges) = I
    BY <1>2, <1>4
  <2> HIDE DEF edges
  <2> QED
    BY <2>1 DEF Retain, LinksOf
<1>6. idxs = Picked(is, X) /\ objs = Picked(ms, M)
  BY DEF Retain, IndexesOf, ObjectsOf
<1>7. /\ Retain(o.node_types, LAMBDA n : n.id # id) = Left(o.node_types, At(o.node_types, id))
      /\ Retain(es, LAMBDA e : ~Incident(e)) = Left(es, E)
  <2>1. {i \in DOMAIN o.node_types : o.node_types[i].id # id}
            = DOMAIN o.node_types \ At(o.node_types, id)
    BY DEF At
  <2>2. {i \in DOMAIN es : ~Incident(es[i])} = DOMAIN es \ E
    BY DEF IncidentEdges
  <2> QED
    BY <2>1, <2>2 DEF Retain, Left
<1>8. /\ Retain(ls, LAMBDA m : m \notin ToSet(links)) = Left(ls, L)
      /\ Retain(is, LAMBDA i : i \notin ToSet(idxs)) = Left(is, X)
      /\ Retain(ms, LAMBDA m : m \notin ToSet(objs)) = Left(ms, M)
  <2> HIDE DEF links, idxs, objs, L, X, M
  <2> QED
    BY <1>3, <1>5, <1>6 DEF Retain, Left
<1> DEFINE new == [o EXCEPT !.node_types = Retain(@, LAMBDA n : n.id # id),
                            !.edge_types = Retain(@, LAMBDA e : ~Incident(e)),
                            !.link_mappings = Retain(@, LAMBDA m : m \notin ToSet(links)),
                            !.indexes = Retain(@, LAMBDA i : i \notin ToSet(idxs)),
                            !.object_mappings = Retain(@, LAMBDA m : m \notin ToSet(objs))]
           inv == <<CreateNodeCmd(Find(o.node_types, id))>>
                  \o Each(edges, CreateEdgeCmd) \o Each(idxs, AddIndexCmd)
                  \o Each(objs, CreateObjectMappingCmd) \o Each(links, CreateLinkMappingCmd)
<1>9. DeleteNode(o, c) = When(id \in Ids(o.node_types), Ok(new, inv))
  BY Zenon DEF DeleteNode
<1>10. new = WithoutNode(o, id)
  <2> HIDE DEF links, idxs, objs, edges
  <2> QED
    BY <1>7, <1>8 DEF WithoutNode
<1>11. inv = NodeRestored(o, id)
  <2> HIDE DEF links, idxs, objs, edges
  <2> QED
    BY <1>4, <1>5, <1>6 DEF NodeRestored
<1> DEFINE fedges == Keep(es, LAMBDA e : e.source_node_id = id \/ e.target_node_id = id)
           fids == Ids(fedges)
           fnew == [o EXCEPT
                !.node_types = Keep(@, LAMBDA n : n.id # id),
                !.edge_types = Keep(@, LAMBDA e : e.source_node_id # id /\ e.target_node_id # id),
                !.indexes = Keep(@, LAMBDA i : i.node_id # id),
                !.object_mappings = Keep(@, LAMBDA m : m.node_type_id # id),
                !.link_mappings = Keep(@, LAMBDA m : m.edge_type_id \notin fids)]
           finv == <<CreateNodeCmd(Find(o.node_types, id))>>
                   \o Each(fedges, CreateEdgeCmd)
                   \o Each(Keep(o.indexes, LAMBDA i : i.node_id = id), AddIndexCmd)
                   \o Each(Keep(o.object_mappings, LAMBDA m : m.node_type_id = id),
                           CreateObjectMappingCmd)
                   \o Each(Keep(o.link_mappings, LAMBDA m : m.edge_type_id \in fids),
                           CreateLinkMappingCmd)
<1>12. FeDeleteNode(o, c) = Unless(id \notin Ids(o.node_types), o, Applied(fnew, finv))
  BY Zenon DEF FeDeleteNode
<1>13. fedges = Picked(es, E) /\ fids = I
  <2>1. {i \in DOMAIN es : es[i].source_node_id = id \/ es[i].target_node_id = id} = E
    BY DEF IncidentEdges
  <2>2. fedges = Picked(es, E)
    BY <2>1 DEF Keep, Retain
  <2> QED
    BY <1>2, <2>2
<1>14. /\ Keep(o.node_types, LAMBDA n : n.id # id) = Left(o.node_types, At(o.node_types, id))
       /\ Keep(es, LAMBDA e : e.source_node_id # id /\ e.target_node_id # id) = Left(es, E)
       /\ Keep(is, LAMBDA i : i.node_id # id) = Left(is, X)
       /\ Keep(ms, LAMBDA m : m.node_type_id # id) = Left(ms, M)
       /\ Keep(ls, LAMBDA m : m.edge_type_id \notin fids) = Left(ls, L)
  <2>1. {i \in DOMAIN es : es[i].source_node_id # id /\ es[i].target_node_id # id} = DOMAIN es \ E
    BY DEF IncidentEdges
  <2>2. {i \in DOMAIN is : is[i].node_id # id} = DOMAIN is \ X
    BY DEF IndexesOf
  <2>3. {i \in DOMAIN ms : ms[i].node_type_id # id} = DOMAIN ms \ M
    BY DEF ObjectsOf
  <2>4. {i \in DOMAIN ls : ls[i].edge_type_id \notin fids} = DOMAIN ls \ L
    <3> HIDE DEF fids, I
    <3> QED
      BY <1>13 DEF LinksOf
  <2> HIDE DEF fids
  <2> QED
    BY <1>7, <2>1, <2>2, <2>3, <2>4 DEF Keep, Retain, Left
<1>15. fnew = WithoutNode(o, id)
  <2> HIDE DEF fids
  <2> QED
    BY <1>14 DEF WithoutNode
<1>16. finv = NodeRestored(o, id)
  <2>1. /\ Keep(is, LAMBDA i : i.node_id = id) = Picked(is, X)
        /\ Keep(ms, LAMBDA m : m.node_type_id = id) = Picked(ms, M)
    BY DEF Keep, Retain, IndexesOf, ObjectsOf
  <2>2. Keep(ls, LAMBDA m : m.edge_type_id \in fids) = Picked(ls, L)
    <3> HIDE DEF fids
    <3> QED
      BY <1>13 DEF Keep, Retain, LinksOf
  <2> HIDE DEF fids, fedges
  <2> QED
    BY <1>13, <2>1, <2>2 DEF NodeRestored
<1> HIDE DEF new, inv, fnew, finv
<1> QED
  BY <1>9, <1>10, <1>11, <1>12, <1>15, <1>16

WithoutEdge(o, id) ==
    [o EXCEPT !.edge_types = Left(@, At(@, id)), !.link_mappings = Left(@, LinksOf(o, {id}))]

EdgeRestored(o, id) ==
    <<CreateEdgeCmd(Find(o.edge_types, id))>>
    \o Each(Picked(o.link_mappings, LinksOf(o, {id})), CreateLinkMappingCmd)

LEMMA EdgeDeletion ==
    ASSUME NEW o \in Ontology, NEW c
    PROVE  /\ DeleteEdge(o, c) = When(c.edge_id \in Ids(o.edge_types),
                  Ok(WithoutEdge(o, c.edge_id), EdgeRestored(o, c.edge_id)))
           /\ FeDeleteEdge(o, c) = Unless(c.edge_id \notin Ids(o.edge_types), o,
                  Applied(WithoutEdge(o, c.edge_id), EdgeRestored(o, c.edge_id)))
<1> DEFINE id == c.edge_id
           ls == o.link_mappings
           L == LinksOf(o, {id})
           links == Retain(ls, LAMBDA m : m.edge_type_id = id)
<1>1. ls \in Seq(LinkMapping)
  BY OntologyLists
<1>2. {i \in DOMAIN ls : ls[i] \notin ToSet(Picked(ls, L))} = DOMAIN ls \ L
  <2>1. L \subseteq DOMAIN ls /\ \A i, j \in DOMAIN ls : ls[i] = ls[j] => (i \in L <=> j \in L)
    BY DEF LinksOf
  <2> HIDE DEF L, ls
  <2> QED
    BY <1>1, <2>1, Others
<1>3. links = Picked(ls, L)
  <2>1. {i \in DOMAIN ls : ls[i].edge_type_id = id} = L
    BY DEF LinksOf
  <2> QED
    BY <2>1 DEF Retain
<1>4. Retain(o.edge_types, LAMBDA e : e.id # id) = Left(o.edge_types, At(o.edge_types, id))
  <2>1. {i \in DOMAIN o.edge_types : o.edge_types[i].id # id}
            = DOMAIN o.edge_types \ At(o.edge_types, id)
    BY DEF At
  <2> QED
    BY <2>1 DEF Retain, Left
<1>5. Retain(ls, LAMBDA m : m \notin ToSet(links)) = Left(ls, L)
  <2> HIDE DEF links, L
  <2> QED
    BY <1>2, <1>3 DEF Retain, Left
<1>6. Retain(ls, LAMBDA m : m.edge_type_id # id) = Left(ls, L)
  <2>1. {i \in DOMAIN ls : ls[i].edge_type_id # id} = DOMAIN ls \ L
    BY DEF LinksOf
  <2> QED
    BY <2>1 DEF Retain, Left
<1> DEFINE new == [o EXCEPT !.edge_types = Retain(@, LAMBDA e : e.id # id),
                            !.link_mappings = Retain(@, LAMBDA m : m \notin ToSet(links))]
           fnew == [o EXCEPT !.edge_types = Keep(@, LAMBDA e : e.id # id),
                             !.link_mappings = Keep(@, LAMBDA m : m.edge_type_id # id)]
           inv == <<CreateEdgeCmd(Find(o.edge_types, id))>> \o Each(links, CreateLinkMappingCmd)
           finv == <<CreateEdgeCmd(Find(o.edge_types, id))>>
                   \o Each(Keep(ls, LAMBDA m : m.edge_type_id = id), CreateLinkMappingCmd)
<1>7. DeleteEdge(o, c) = When(id \in Ids(o.edge_types), Ok(new, inv))
  BY Zenon DEF DeleteEdge
<1>8. FeDeleteEdge(o, c) = Unless(id \notin Ids(o.edge_types), o, Applied(fnew, finv))
  BY Zenon DEF FeDeleteEdge
<1>9. new = WithoutEdge(o, id) /\ inv = EdgeRestored(o, id)
  <2> HIDE DEF links
  <2> QED
    BY <1>3, <1>4, <1>5 DEF WithoutEdge, EdgeRestored
<1>10. fnew = WithoutEdge(o, id)
  <2>1. Keep(o.edge_types, LAMBDA e : e.id # id) = Left(o.edge_types, At(o.edge_types, id))
    BY <1>4 DEF Keep
  <2>2. Keep(ls, LAMBDA m : m.edge_type_id # id) = Left(ls, L)
    BY <1>6 DEF Keep
  <2> QED
    BY <2>1, <2>2 DEF WithoutEdge
<1>11. finv = EdgeRestored(o, id)
  <2>1. Keep(ls, LAMBDA m : m.edge_type_id = id) = Picked(ls, L)
    BY <1>3 DEF Keep
  <2> QED
    BY <2>1 DEF EdgeRestored
<1> HIDE DEF new, inv, fnew, finv
<1> QED
  BY <1>7, <1>8, <1>9, <1>10, <1>11

\* What every ontology an editor can reach is like.
Sound(o) == /\ o \in Ontology /\ UniqueIds(o)
            /\ rebuild_indices(o) /\ validate(o)

LEMMA SoundIds ==
    ASSUME NEW o, Sound(o)
    PROVE  /\ o \in Ontology
           /\ DistinctIds(o.node_types) /\ DistinctIds(o.edge_types) /\ DistinctIds(o.indexes)
           /\ DistinctIds(o.object_mappings) /\ DistinctIds(o.link_mappings)
           /\ \A k \in DOMAIN o.node_types : /\ DistinctIds(o.node_types[k].properties)
                                             /\ DistinctIds(o.node_types[k].constraints)
           /\ \A k \in DOMAIN o.edge_types : DistinctIds(o.edge_types[k].properties)
<1>1. /\ DistinctIds(o.node_types) /\ DistinctIds(o.edge_types)
      /\ DistinctIds(o.object_mappings) /\ DistinctIds(o.link_mappings)
  BY DEF Sound, rebuild_indices, Distinct, DistinctIds
<1>2. /\ DistinctIds(o.indexes)
      /\ \A k \in DOMAIN o.node_types : DistinctIds(o.node_types[k].constraints)
  BY DEF Sound, UniqueIds, Distinct, DistinctIds, ToSet
<1>3. \A k \in DOMAIN o.node_types : DistinctIds(o.node_types[k].properties)
  BY DEF Sound, validate, ValidNodes, validate_property_defs, Distinct, DistinctIds, ToSet
<1>4. \A k \in DOMAIN o.edge_types : DistinctIds(o.edge_types[k].properties)
  BY DEF Sound, validate, ValidEdges, validate_property_defs, Distinct, DistinctIds, ToSet
<1> QED
  BY <1>1, <1>2, <1>3, <1>4 DEF Sound

\* The one entry with an id is rewritten.
LEMMA MappedAt ==
    ASSUME NEW S, NEW s \in Seq(S), DistinctIds(s), NEW k \in DOMAIN s, NEW t,
           t = [i \in DOMAIN s |-> IF s[i].id = s[k].id THEN t[i] ELSE s[i]]
    PROVE  t = [s EXCEPT ![k] = t[k]]
<1>1. \A i \in DOMAIN s : s[i].id = s[k].id <=> i = k
  BY DEF DistinctIds
<1>2. s = [i \in DOMAIN s |-> s[i]]
  BY ListFacts
<1>3. \A i \in DOMAIN s : t[i] = [s EXCEPT ![k] = t[k]][i]
  BY <1>1, <1>2
<1> QED
  BY <1>2, <1>3

WithNode(o, k, n) == [o EXCEPT !.node_types = [o.node_types EXCEPT ![k] = n]]
WithEdge(o, k, e) == [o EXCEPT !.edge_types = [o.edge_types EXCEPT ![k] = e]]

LEMMA JoinFacts ==
    ASSUME NEW S, NEW a \in Seq(S), NEW b \in Seq(S), NEW s, s = a \o b
    PROVE  /\ s \in Seq(S) /\ Len(s) = Len(a) + Len(b)
           /\ Len(a) \in Nat /\ Len(b) \in Nat
           /\ DOMAIN a = 1..Len(a) /\ DOMAIN b = 1..Len(b) /\ DOMAIN s = 1..(Len(a) + Len(b))
           /\ \A i \in DOMAIN a : i \in DOMAIN s /\ s[i] = a[i]
           /\ \A i \in DOMAIN b : Len(a) + i \in DOMAIN s /\ s[Len(a) + i] = b[i]
           /\ \A i \in DOMAIN s : \/ i \in DOMAIN a /\ i <= Len(a)
                                  \/ i - Len(a) \in DOMAIN b /\ i = Len(a) + (i - Len(a))
<1>1. /\ s \in Seq(S) /\ Len(s) = Len(a) + Len(b)
      /\ \A i \in 1..(Len(a) + Len(b)) : s[i] = IF i <= Len(a) THEN a[i] ELSE b[i - Len(a)]
  BY ConcatProperties
<1>2. /\ DOMAIN a = 1..Len(a) /\ Len(a) \in Nat /\ DOMAIN b = 1..Len(b) /\ Len(b) \in Nat
  BY ListFacts
<1>3. DOMAIN s = 1..Len(s)
  BY <1>1, ListFacts
<1>4. \A i \in DOMAIN b : s[Len(a) + i] = b[i]
  <2>1. SUFFICES ASSUME NEW i \in DOMAIN b PROVE s[Len(a) + i] = b[i]
    OBVIOUS
  <2>2. (Len(a) + i) - Len(a) = i /\ ~(Len(a) + i <= Len(a)) /\ Len(a) + i \in 1..(Len(a) + Len(b))
    BY <1>2
  <2> QED
    BY <1>1, <2>2
<1> QED
  BY <1>1, <1>2, <1>3, <1>4

LEMMA FindJoined ==
    ASSUME NEW S, NEW a \in Seq(S), NEW b \in Seq(S), DistinctIds(a), DistinctIds(b),
           \A i \in DOMAIN a, j \in DOMAIN b : a[i].id # b[j].id
    PROVE  /\ \A k \in DOMAIN a : Find(a \o b, a[k].id) = a[k]
           /\ \A k \in DOMAIN b : Find(a \o b, b[k].id) = b[k]
<1> DEFINE s == a \o b
<1>0. s = a \o b
  OBVIOUS
<1> HIDE DEF s
<1>1. /\ s \in Seq(S) /\ Len(a) \in Nat
      /\ \A i \in DOMAIN a : i \in DOMAIN s /\ s[i] = a[i]
      /\ \A i \in DOMAIN b : Len(a) + i \in DOMAIN s /\ s[Len(a) + i] = b[i]
      /\ \A i \in DOMAIN s : \/ i \in DOMAIN a /\ i <= Len(a)
                             \/ i - Len(a) \in DOMAIN b /\ i = Len(a) + (i - Len(a))
  BY <1>0, JoinFacts
<1>2. ASSUME NEW i \in DOMAIN s
      PROVE  (\E j \in DOMAIN a : s[i] = a[j]) \/ (\E j \in DOMAIN b : s[i] = b[j])
  BY <1>1
<1>3. ASSUME NEW k \in DOMAIN a PROVE Find(s, a[k].id) = a[k]
  <2>1. a[k].id \in Ids(s)
    BY <1>1 DEF Ids
  <2>2. PICK j \in DOMAIN s : Find(s, a[k].id) = s[j] /\ s[j].id = a[k].id
    BY <1>1, <2>1, Found
  <2> QED
    BY <1>2, <2>2 DEF DistinctIds
<1>4. ASSUME NEW k \in DOMAIN b PROVE Find(s, b[k].id) = b[k]
  <2>1. \E i \in DOMAIN s : s[i] = b[k]
    BY <1>1
  <2>2. b[k].id \in Ids(s)
    BY <2>1 DEF Ids
  <2>2a. s \in Seq(S)
    BY <1>1
  <2>3. PICK j \in DOMAIN s : Find(s, b[k].id) = s[j] /\ s[j].id = b[k].id
    BY <2>2, <2>2a, Found
  <2> QED
    BY <1>2, <2>3 DEF DistinctIds
<1> QED
  BY <1>3, <1>4 DEF s

LEMMA OwnersApart ==
    ASSUME NEW o, Sound(o)
    PROVE  /\ \A i \in DOMAIN o.node_types : o.node_types[i].id \in NodeId
           /\ \A i \in DOMAIN o.edge_types : o.edge_types[i].id \in EdgeId
           /\ \A i \in DOMAIN o.node_types :
                 FeOwner(o, o.node_types[i].id) = o.node_types[i]
           /\ \A i \in DOMAIN o.edge_types :
                 FeOwner(o, o.edge_types[i].id) = o.edge_types[i]
<1>1. /\ o.node_types \in Seq(NodeType) /\ o.edge_types \in Seq(EdgeType)
      /\ DistinctIds(o.node_types) /\ DistinctIds(o.edge_types)
  BY SoundIds, OntologyLists
<1>2. \A i \in DOMAIN o.node_types : o.node_types[i] \in NodeType
  BY <1>1, ListFacts
<1>3. \A i \in DOMAIN o.edge_types : o.edge_types[i] \in EdgeType
  BY <1>1, ListFacts
<1>4. /\ \A i \in DOMAIN o.node_types : o.node_types[i].id \in NodeId
      /\ \A i \in DOMAIN o.edge_types : o.edge_types[i].id \in EdgeId
  BY <1>2, <1>3 DEF NodeType, EdgeType
<1> DEFINE S == NodeType \cup EdgeType
<1>5. o.node_types \in Seq(S) /\ o.edge_types \in Seq(S)
  BY <1>1
<1>6. \A i \in DOMAIN o.node_types, j \in DOMAIN o.edge_types :
          o.node_types[i].id # o.edge_types[j].id
  BY <1>4, EditorAssumption
<1> HIDE DEF S
<1> QED
  BY SMTT(60), <1>1, <1>4, <1>5, <1>6, FindJoined DEF FeOwner

\* An owner at its place, on the server and in the browser.
LEMMA NodeOwnerAt ==
    ASSUME NEW o, Sound(o), NEW owner \in Owner, owner.kind = "node",
           NEW k \in DOMAIN o.node_types, o.node_types[k].id = owner.type_id
    PROVE  /\ OwnerExists(o, owner)
           /\ Find(o.node_types, owner.type_id) = o.node_types[k]
           /\ OwnerProperties(o, owner) = o.node_types[k].properties
           /\ FeOwner(o, owner.type_id) = o.node_types[k]
           /\ \A ps : WithProperties(o, owner, ps)
                         = WithNode(o, k, [o.node_types[k] EXCEPT !.properties = ps])
<1> DEFINE ns == o.node_types
           id == owner.type_id
<1>0. ns \in Seq(NodeType) /\ DistinctIds(ns)
  BY SoundIds, OntologyLists
<1>1. Find(ns, id) = ns[k] /\ ns[k].id = id
  BY <1>0, FoundAt
<1>2. OwnerProperties(o, owner) = ns[k].properties /\ OwnerExists(o, owner)
  BY <1>1 DEF OwnerProperties, Collection, OwnerExists, Ids
<1>3. FeOwner(o, id) = ns[k]
  BY <1>1, OwnersApart
<1>4. ASSUME NEW ps
      PROVE  WithProperties(o, owner, ps) = WithNode(o, k, [ns[k] EXCEPT !.properties = ps])
  <2> DEFINE t == MapById(ns, id, LAMBDA n : [n EXCEPT !.properties = ps])
  <2>1. t = [i \in DOMAIN ns |-> IF ns[i].id = ns[k].id THEN t[i] ELSE ns[i]]
    BY <1>1 DEF MapById
  <2>2. t[k] = [ns[k] EXCEPT !.properties = ps]
    BY <1>1 DEF MapById
  <2>3. WithProperties(o, owner, ps) = [o EXCEPT !["node_types"] = t]
    BY DEF WithProperties, Collection
  <2> HIDE DEF t
  <2>4. t = [ns EXCEPT ![k] = t[k]]
    BY <1>0, <2>1, MappedAt
  <2> QED
    BY <2>2, <2>3, <2>4 DEF WithNode
<1> QED
  BY <1>1, <1>2, <1>3, <1>4

LEMMA EdgeOwnerAt ==
    ASSUME NEW o, Sound(o), NEW owner \in Owner, owner.kind # "node",
           NEW k \in DOMAIN o.edge_types, o.edge_types[k].id = owner.type_id
    PROVE  /\ OwnerExists(o, owner)
           /\ owner.type_id \notin Ids(o.node_types)
           /\ OwnerProperties(o, owner) = o.edge_types[k].properties
           /\ FeOwner(o, owner.type_id) = o.edge_types[k]
           /\ \A ps : WithProperties(o, owner, ps)
                         = WithEdge(o, k, [o.edge_types[k] EXCEPT !.properties = ps])
<1> DEFINE es == o.edge_types
           id == owner.type_id
<1>0. es \in Seq(EdgeType) /\ DistinctIds(es)
  BY SoundIds, OntologyLists
<1>1. Find(es, id) = es[k] /\ es[k].id = id
  BY <1>0, FoundAt
<1>2. OwnerProperties(o, owner) = es[k].properties /\ OwnerExists(o, owner)
  BY <1>1 DEF OwnerProperties, Collection, OwnerExists, Ids
<1>5. id \notin Ids(o.node_types)
  BY <1>1, OwnersApart, EditorAssumption DEF Ids
<1>3. FeOwner(o, id) = es[k]
  BY <1>1, OwnersApart
<1>4. ASSUME NEW ps
      PROVE  WithProperties(o, owner, ps) = WithEdge(o, k, [es[k] EXCEPT !.properties = ps])
  <2> DEFINE t == MapById(es, id, LAMBDA n : [n EXCEPT !.properties = ps])
  <2>1. t = [i \in DOMAIN es |-> IF es[i].id = es[k].id THEN t[i] ELSE es[i]]
    BY <1>1 DEF MapById
  <2>2. t[k] = [es[k] EXCEPT !.properties = ps]
    BY <1>1 DEF MapById
  <2>3. WithProperties(o, owner, ps) = [o EXCEPT !["edge_types"] = t]
    BY DEF WithProperties, Collection
  <2> HIDE DEF t
  <2>4. t = [es EXCEPT ![k] = t[k]]
    BY <1>0, <2>1, MappedAt
  <2> QED
    BY <2>2, <2>3, <2>4 DEF WithEdge
<1> QED
  BY <1>1, <1>2, <1>3, <1>4, <1>5

\* A property command that is not refused has its owner.
LEMMA OwnerPlace ==
    ASSUME NEW o, NEW owner, OwnerExists(o, owner)
    PROVE  \/ owner.kind = "node" /\ \E k \in DOMAIN o.node_types : o.node_types[k].id = owner.type_id
           \/ owner.kind # "node" /\ \E k \in DOMAIN o.edge_types : o.edge_types[k].id = owner.type_id
  BY DEF OwnerExists, Collection, Ids

Using(s, pid) == {i \in DOMAIN s : pid \in ToSet(s[i].property_ids)}
IndexUses(o, id, pid) ==
    {i \in DOMAIN o.indexes : o.indexes[i].node_id = id /\ pid \in ToSet(o.indexes[i].property_ids)}
ObjectUses(o, id, pid) ==
    {i \in DOMAIN o.object_mappings :
        /\ o.object_mappings[i].node_type_id = id
        /\ pid \in ToSet(o.object_mappings[i].property_mappings)}

NodeWithout(n, pid) ==
    [n EXCEPT !.properties = Left(n.properties, At(n.properties, pid)),
              !.constraints = Left(n.constraints, Using(n.constraints, pid))]

Unmapped(o, id, pid) ==
    [i \in DOMAIN o.object_mappings |->
        IF i \in ObjectUses(o, id, pid) THEN Unmap(o.object_mappings[i], pid)
        ELSE o.object_mappings[i]]

WithoutNodeProperty(o, k, pid) ==
    [o EXCEPT !.node_types = [o.node_types EXCEPT ![k] = NodeWithout(o.node_types[k], pid)],
              !.indexes = Left(o.indexes, IndexUses(o, o.node_types[k].id, pid)),
              !.object_mappings = Unmapped(o, o.node_types[k].id, pid)]

NodePropertyRestored(o, k, owner, pid) ==
    LET n == o.node_types[k]
    IN  <<AddPropertyCmd(owner, Find(n.properties, pid))>>
        \o Each(Picked(n.constraints, Using(n.constraints, pid)),
                LAMBDA x : AddConstraintCmd(owner.type_id, x))
        \o Each(Picked(o.indexes, IndexUses(o, n.id, pid)), AddIndexCmd)
        \o Each(Picked(o.object_mappings, ObjectUses(o, n.id, pid)), UpdateObjectMappingCmd)

LEMMA EntryFacts ==
    ASSUME NEW o \in Ontology
    PROVE  /\ \A k \in DOMAIN o.node_types :
                 /\ o.node_types[k] \in NodeType
                 /\ o.node_types[k].properties \in Seq(Property)
                 /\ o.node_types[k].constraints \in Seq(ConstraintDef)
           /\ \A k \in DOMAIN o.edge_types :
                 /\ o.edge_types[k] \in EdgeType
                 /\ o.edge_types[k].properties \in Seq(Property)
           /\ \A i \in DOMAIN o.indexes :
                 o.indexes[i] \in IndexDef /\ o.indexes[i].property_ids \in Seq(PropertyId)
           /\ \A i \in DOMAIN o.object_mappings :
                 /\ o.object_mappings[i] \in ObjectMapping
                 /\ o.object_mappings[i].property_mappings \in Seq(PropertyId)
           /\ \A i \in DOMAIN o.link_mappings : o.link_mappings[i] \in LinkMapping
<1>1. /\ \A k \in DOMAIN o.node_types : o.node_types[k] \in NodeType
      /\ \A k \in DOMAIN o.edge_types : o.edge_types[k] \in EdgeType
  BY OntologyLists, ListFacts
<1>2. /\ \A i \in DOMAIN o.indexes : o.indexes[i] \in IndexDef
      /\ \A i \in DOMAIN o.object_mappings : o.object_mappings[i] \in ObjectMapping
      /\ \A i \in DOMAIN o.link_mappings : o.link_mappings[i] \in LinkMapping
  BY OntologyLists, ListFacts
<1> QED
  BY <1>1, <1>2 DEF NodeType, EdgeType, IndexDef, ObjectMapping

LEMMA UnmapUnused ==
    ASSUME NEW m \in ObjectMapping, NEW pid, pid \notin ToSet(m.property_mappings)
    PROVE  Unmap(m, pid) = m
<1> DEFINE s == m.property_mappings
<1>1. s \in Seq(PropertyId)
  BY DEF ObjectMapping
<1>2. {i \in DOMAIN s : s[i] # pid} = DOMAIN s \ {}
  BY DEF ToSet
<1>3. Left(s, {}) = s
  BY <1>1, LeftAll
<1>4. Retain(s, LAMBDA p : p # pid) = s
  BY <1>2, <1>3 DEF Retain, Left
<1>5. Unmap(m, pid) = [m EXCEPT !.property_mappings = Retain(s, LAMBDA p : p # pid)]
  BY DEF Unmap
<1>6. m = [m EXCEPT !.property_mappings = s]
  BY DEF ObjectMapping
<1> QED
  BY <1>4, <1>5, <1>6

\* On the server a deletion on a node and one on an edge are one piece of code.
LEMMA PropertyDeletionForm ==
    ASSUME NEW o, NEW c
    PROVE  LET id == c.owner.type_id
               pid == c.property_id
               cs == IF c.owner.kind = "node"
                     THEN Retain(Find(o.node_types, id).constraints,
                                 LAMBDA x : pid \in ToSet(x.property_ids))
                     ELSE <<>>
               idxs == Retain(o.indexes, LAMBDA i : /\ i.node_id = id
                                                    /\ pid \in ToSet(i.property_ids))
               Touched(m) == /\ c.owner.kind = "node" /\ m.node_type_id = id
                             /\ pid \in ToSet(m.property_mappings)
               w == WithProperties(o, c.owner,
                        Retain(OwnerProperties(o, c.owner), LAMBDA p : p.id # pid))
               ns == MapById(w.node_types, id, LAMBDA n :
                         [n EXCEPT !.constraints = Retain(@, LAMBDA y : y \notin ToSet(cs))])
               new == [w EXCEPT !.node_types = ns,
                                !.indexes = Retain(w.indexes, LAMBDA i : i \notin ToSet(idxs)),
                                !.object_mappings = [k \in DOMAIN w.object_mappings |->
                                    IF Touched(w.object_mappings[k])
                                    THEN Unmap(w.object_mappings[k], pid)
                                    ELSE w.object_mappings[k]]]
           IN  DeleteProperty(o, c) =
                   When(OwnerExists(o, c.owner) /\ pid \in Ids(OwnerProperties(o, c.owner)),
                        Ok(new, <<AddPropertyCmd(c.owner, Find(OwnerProperties(o, c.owner), pid))>>
                                \o Each(cs, LAMBDA x : AddConstraintCmd(id, x))
                                \o Each(idxs, AddIndexCmd)
                                \o Each(Retain(o.object_mappings, Touched), UpdateObjectMappingCmd)))
  BY ZenonT(60) DEF DeleteProperty

LEMMA NodePropertyDeletion ==
    ASSUME NEW o, Sound(o), NEW c, c.owner \in Owner, c.owner.kind = "node",
           NEW k \in DOMAIN o.node_types, o.node_types[k].id = c.owner.type_id
    PROVE  DeleteProperty(o, c) =
               When(c.property_id \in Ids(o.node_types[k].properties),
                    Ok(WithoutNodeProperty(o, k, c.property_id),
                       NodePropertyRestored(o, k, c.owner, c.property_id)))
<1> DEFINE id == c.owner.type_id
           pid == c.property_id
           n == o.node_types[k]
           ps == n.properties
           C == Using(n.constraints, pid)
           X == IndexUses(o, id, pid)
           M == ObjectUses(o, id, pid)
           cs == IF c.owner.kind = "node"
                 THEN Retain(Find(o.node_types, id).constraints,
                             LAMBDA x : pid \in ToSet(x.property_ids))
                 ELSE <<>>
           idxs == Retain(o.indexes, LAMBDA i : i.node_id = id /\ pid \in ToSet(i.property_ids))
           Touched(m) == /\ c.owner.kind = "node" /\ m.node_type_id = id
                         /\ pid \in ToSet(m.property_mappings)
           w == WithProperties(o, c.owner,
                    Retain(OwnerProperties(o, c.owner), LAMBDA p : p.id # pid))
           ns == MapById(w.node_types, id, LAMBDA x :
                     [x EXCEPT !.constraints = Retain(@, LAMBDA y : y \notin ToSet(cs))])
           is == Retain(w.indexes, LAMBDA i : i \notin ToSet(idxs))
           ms == [j \in DOMAIN w.object_mappings |->
                     IF Touched(w.object_mappings[j]) THEN Unmap(w.object_mappings[j], pid)
                     ELSE w.object_mappings[j]]
           new == [w EXCEPT !.node_types = ns, !.indexes = is, !.object_mappings = ms]
           inv == <<AddPropertyCmd(c.owner, Find(OwnerProperties(o, c.owner), pid))>>
                  \o Each(cs, LAMBDA x : AddConstraintCmd(id, x))
                  \o Each(idxs, AddIndexCmd)
                  \o Each(Retain(o.object_mappings, Touched), UpdateObjectMappingCmd)
<1>1. DeleteProperty(o, c) =
          When(OwnerExists(o, c.owner) /\ pid \in Ids(OwnerProperties(o, c.owner)),
               Ok(new, inv))
  BY Zenon, PropertyDeletionForm
<1>2. /\ OwnerExists(o, c.owner) /\ Find(o.node_types, id) = n
      /\ OwnerProperties(o, c.owner) = ps
      /\ \A x : WithProperties(o, c.owner, x) = WithNode(o, k, [n EXCEPT !.properties = x])
  BY NodeOwnerAt
<1>3. /\ o \in Ontology /\ n \in NodeType /\ n.constraints \in Seq(ConstraintDef)
      /\ o.indexes \in Seq(IndexDef) /\ o.node_types \in Seq(NodeType)
      /\ \A i \in DOMAIN o.node_types : o.node_types[i].id = id <=> i = k
  BY SoundIds, EntryFacts, OntologyLists DEF DistinctIds
<1>4. w = WithNode(o, k, [n EXCEPT !.properties = Left(ps, At(ps, pid))])
  <2>1. {i \in DOMAIN ps : ps[i].id # pid} = DOMAIN ps \ At(ps, pid)
    BY DEF At
  <2>2. Retain(ps, LAMBDA p : p.id # pid) = Left(ps, At(ps, pid))
    BY <2>1 DEF Retain, Left
  <2> QED
    BY <1>2, <2>2
<1>5. cs = Picked(n.constraints, C) /\ idxs = Picked(o.indexes, X)
      /\ Retain(o.object_mappings, Touched) = Picked(o.object_mappings, M)
  BY <1>2 DEF Retain, Using, IndexUses, ObjectUses
<1>6. /\ {i \in DOMAIN n.constraints : n.constraints[i] \notin ToSet(Picked(n.constraints, C))}
             = DOMAIN n.constraints \ C
      /\ {i \in DOMAIN o.indexes : o.indexes[i] \notin ToSet(Picked(o.indexes, X))}
             = DOMAIN o.indexes \ X
  <2> DEFINE a == n.constraints
             b == o.indexes
  <2>1. /\ C \subseteq DOMAIN a /\ \A i, j \in DOMAIN a : a[i] = a[j] => (i \in C <=> j \in C)
        /\ X \subseteq DOMAIN b /\ \A i, j \in DOMAIN b : b[i] = b[j] => (i \in X <=> j \in X)
    BY DEF Using, IndexUses
  <2> HIDE DEF a, b, C, X
  <2>2. a \in Seq(ConstraintDef) /\ b \in Seq(IndexDef)
    BY <1>3 DEF a, b
  <2>3. /\ {i \in DOMAIN a : a[i] \notin ToSet(Picked(a, C))} = DOMAIN a \ C
        /\ {i \in DOMAIN b : b[i] \notin ToSet(Picked(b, X))} = DOMAIN b \ X
    BY <2>1, <2>2, Others
  <2> QED
    BY <2>3 DEF a, b
<1>7. w.indexes = o.indexes /\ w.object_mappings = o.object_mappings
      /\ w.node_types = [o.node_types EXCEPT ![k] = [n EXCEPT !.properties = Left(ps, At(ps, pid))]]
  BY <1>3, <1>4 DEF WithNode, Ontology
<1>8. is = Left(o.indexes, X) /\ ms = Unmapped(o, id, pid)
  <2>1. is = Left(o.indexes, X)
    <3> HIDE DEF w, idxs, X
    <3> QED
      BY <1>5, <1>6, <1>7 DEF Retain, Left
  <2>2. ms = Unmapped(o, id, pid)
    <3> HIDE DEF w
    <3> QED
      BY <1>7 DEF Unmapped, ObjectUses
  <2> QED
    BY <2>1, <2>2
<1>9. ns = [o.node_types EXCEPT ![k] = NodeWithout(n, pid)]
  <2> DEFINE n1 == [n EXCEPT !.properties = Left(ps, At(ps, pid))]
             rest == Retain(n.constraints, LAMBDA y : y \notin ToSet(cs))
  <2>1. rest = Left(n.constraints, C)
    <3> HIDE DEF cs, C
    <3> QED
      BY <1>5, <1>6 DEF Retain, Left
  <2>2. n1.constraints = n.constraints /\ n1.id = n.id
    BY <1>3 DEF NodeType
  <2>3. [n1 EXCEPT !.constraints = Retain(n1.constraints, LAMBDA y : y \notin ToSet(cs))]
            = NodeWithout(n, pid)
    <3>1. [n1 EXCEPT !.constraints = Left(n.constraints, C)] = NodeWithout(n, pid)
      BY DEF NodeWithout
    <3> HIDE DEF n1, cs
    <3> QED
      BY <2>1, <2>2, <3>1
  <2>4. ns = [i \in DOMAIN w.node_types |->
                 IF w.node_types[i].id = id
                 THEN [w.node_types[i] EXCEPT !.constraints =
                          Retain(w.node_types[i].constraints, LAMBDA y : y \notin ToSet(cs))]
                 ELSE w.node_types[i]]
    BY DEF MapById
  <2>5. /\ DOMAIN w.node_types = DOMAIN o.node_types
        /\ w.node_types[k] = n1
        /\ \A i \in DOMAIN o.node_types : i # k => w.node_types[i] = o.node_types[i]
    BY <1>7
  <2>6. \A i \in DOMAIN o.node_types : w.node_types[i].id = id <=> i = k
    <3> HIDE DEF w, n1
    <3> QED
      BY <1>3, <2>2, <2>5
  <2>7. \A i \in DOMAIN o.node_types : ns[i] = IF i = k THEN NodeWithout(n, pid) ELSE o.node_types[i]
    <3> HIDE DEF ns, w, n1, cs
    <3>1. \A i \in DOMAIN o.node_types : i # k => ns[i] = o.node_types[i]
      BY <2>4, <2>5, <2>6
    <3>2. ns[k] = [n1 EXCEPT !.constraints = Retain(n1.constraints, LAMBDA y : y \notin ToSet(cs))]
      BY <2>4, <2>5, <2>6
    <3> QED
      BY <2>3, <3>1, <3>2
  <2>8. ns = [i \in DOMAIN o.node_types |-> ns[i]]
    <3> HIDE DEF w, cs
    <3> QED
      BY <2>4, <2>5
  <2> HIDE DEF ns
  <2> QED
    BY <1>3, <2>7, <2>8, ListFacts
<1>10. new = WithoutNodeProperty(o, k, pid)
  <2>1. [w EXCEPT !.node_types = ns, !.indexes = is, !.object_mappings = ms]
            = [o EXCEPT !.node_types = ns, !.indexes = is, !.object_mappings = ms]
    <3> HIDE DEF ns, is, ms
    <3> QED
      BY <1>3, <1>4 DEF WithNode, Ontology
  <2> HIDE DEF ns, is, ms
  <2> QED
    BY <1>8, <1>9, <2>1 DEF WithoutNodeProperty
<1>11. inv = NodePropertyRestored(o, k, c.owner, pid)
  <2>1. Find(OwnerProperties(o, c.owner), pid) = Find(ps, pid)
    BY <1>2
  <2> HIDE DEF cs, idxs, Touched
  <2> QED
    BY <1>5, <2>1 DEF NodePropertyRestored
<1>12. OwnerExists(o, c.owner) /\ pid \in Ids(OwnerProperties(o, c.owner)) <=> pid \in Ids(ps)
  BY <1>2
<1> HIDE DEF inv, new
<1> QED
  BY <1>1, <1>10, <1>11, <1>12 DEF When

LEMMA PickedNone == ASSUME NEW s PROVE Picked(s, {}) = <<>> /\ ToSet(<<>>) = {}
<1>1. Cardinality({}) = 0
  BY FS_EmptySet
<1>2. Picked(s, {}) = [k \in 1..0 |-> s[CHOOSE i \in {} : Cardinality({j \in {} : j <= i}) = k]]
  BY <1>1 DEF Picked
<1>3. 1..0 = {}
  OBVIOUS
<1> QED
  BY <1>2, <1>3 DEF ToSet

WithoutEdgeProperty(o, k, pid) ==
    WithEdge(o, k, [o.edge_types[k] EXCEPT !.properties =
                        Left(o.edge_types[k].properties, At(o.edge_types[k].properties, pid))])

EdgePropertyRestored(o, k, owner, pid) ==
    <<AddPropertyCmd(owner, Find(o.edge_types[k].properties, pid))>>

LEMMA EdgePropertyDeletion ==
    ASSUME NEW o, Sound(o), NEW c, c.owner \in Owner, c.owner.kind # "node",
           NEW k \in DOMAIN o.edge_types, o.edge_types[k].id = c.owner.type_id
    PROVE  /\ DeleteProperty(o, c) =
               When(c.property_id \in Ids(o.edge_types[k].properties),
                    Ok(WithoutEdgeProperty(o, k, c.property_id),
                       EdgePropertyRestored(o, k, c.owner, c.property_id)))
<1> DEFINE id == c.owner.type_id
           pid == c.property_id
           n == o.edge_types[k]
           ps == n.properties
           cs == IF c.owner.kind = "node"
                 THEN Retain(Find(o.node_types, id).constraints,
                             LAMBDA x : pid \in ToSet(x.property_ids))
                 ELSE <<>>
           idxs == Retain(o.indexes, LAMBDA i : i.node_id = id /\ pid \in ToSet(i.property_ids))
           Touched(m) == /\ c.owner.kind = "node" /\ m.node_type_id = id
                         /\ pid \in ToSet(m.property_mappings)
           maps == Retain(o.object_mappings, Touched)
           w == WithProperties(o, c.owner,
                    Retain(OwnerProperties(o, c.owner), LAMBDA p : p.id # pid))
           ns == MapById(w.node_types, id, LAMBDA x :
                     [x EXCEPT !.constraints = Retain(@, LAMBDA y : y \notin ToSet(cs))])
           is == Retain(w.indexes, LAMBDA i : i \notin ToSet(idxs))
           ms == [j \in DOMAIN w.object_mappings |->
                     IF Touched(w.object_mappings[j]) THEN Unmap(w.object_mappings[j], pid)
                     ELSE w.object_mappings[j]]
           new == [w EXCEPT !.node_types = ns, !.indexes = is, !.object_mappings = ms]
           inv == <<AddPropertyCmd(c.owner, Find(OwnerProperties(o, c.owner), pid))>>
                  \o Each(cs, LAMBDA x : AddConstraintCmd(id, x))
                  \o Each(idxs, AddIndexCmd)
                  \o Each(maps, UpdateObjectMappingCmd)
<1>1. DeleteProperty(o, c) =
          When(OwnerExists(o, c.owner) /\ pid \in Ids(OwnerProperties(o, c.owner)), Ok(new, inv))
  BY Zenon, PropertyDeletionForm
<1>2. /\ OwnerExists(o, c.owner) /\ id \notin Ids(o.node_types)
      /\ OwnerProperties(o, c.owner) = ps
      /\ \A x : WithProperties(o, c.owner, x) = WithEdge(o, k, [n EXCEPT !.properties = x])
  BY EdgeOwnerAt
<1>3. /\ o \in Ontology /\ o.indexes \in Seq(IndexDef) /\ o.node_types \in Seq(NodeType)
      /\ o.object_mappings \in Seq(ObjectMapping)
      /\ \A i \in DOMAIN o.indexes : o.indexes[i].node_id # id
      /\ \A i \in DOMAIN o.node_types : o.node_types[i].id # id
  <2>1. o \in Ontology
    BY SoundIds
  <2>2. \A i \in DOMAIN o.indexes : o.indexes[i].node_id \in NodeId
    BY <2>1, EntryFacts DEF IndexDef
  <2>3. id \in EdgeId
    BY OwnersApart
  <2> QED
    BY <1>2, <2>1, <2>2, <2>3, OntologyLists, EditorAssumption DEF Ids
<1>4. w = WithoutEdgeProperty(o, k, pid)
  <2>1. {i \in DOMAIN ps : ps[i].id # pid} = DOMAIN ps \ At(ps, pid)
    BY DEF At
  <2>2. Retain(ps, LAMBDA p : p.id # pid) = Left(ps, At(ps, pid))
    BY <2>1 DEF Retain, Left
  <2> QED
    BY <1>2, <2>2 DEF WithoutEdgeProperty
<1>5. cs = <<>> /\ idxs = <<>> /\ maps = <<>>
  <2>1. {i \in DOMAIN o.indexes : o.indexes[i].node_id = id /\ pid \in ToSet(o.indexes[i].property_ids)} = {}
    BY <1>3
  <2>2. {i \in DOMAIN o.object_mappings : Touched(o.object_mappings[i])} = {}
    OBVIOUS
  <2>3. idxs = Picked(o.indexes, {})
    BY <2>1 DEF Retain
  <2>4. maps = Picked(o.object_mappings, {})
    BY <2>2 DEF Retain
  <2> QED
    BY <2>3, <2>4, PickedNone
<1>7. w.indexes = o.indexes /\ w.object_mappings = o.object_mappings /\ w.node_types = o.node_types
      /\ w = [w EXCEPT !.node_types = o.node_types, !.indexes = o.indexes,
                       !.object_mappings = o.object_mappings]
  BY <1>3, <1>4 DEF WithoutEdgeProperty, WithEdge, Ontology
<1>8. is = o.indexes /\ ms = o.object_mappings
  <2>1. is = Left(o.indexes, {})
    <3>1. {i \in DOMAIN o.indexes : o.indexes[i] \notin ToSet(<<>>)} = DOMAIN o.indexes \ {}
      BY PickedNone
    <3> HIDE DEF w, idxs
    <3> QED
      BY <1>5, <1>7, <3>1 DEF Retain, Left
  <2>2. ms = [j \in DOMAIN o.object_mappings |-> o.object_mappings[j]]
    <3> HIDE DEF w
    <3> QED
      BY <1>7
  <2>3. o.object_mappings = [j \in DOMAIN o.object_mappings |-> o.object_mappings[j]]
    BY <1>3, ListFacts
  <2> QED
    BY ZenonT(60), <1>3, <2>1, <2>2, <2>3, LeftAll
<1>9. ns = o.node_types
  <2>1. ns = [i \in DOMAIN o.node_types |-> o.node_types[i]]
    <3> HIDE DEF w, cs
    <3> QED
      BY <1>3, <1>7 DEF MapById
  <2>2. o.node_types = [i \in DOMAIN o.node_types |-> o.node_types[i]]
    BY <1>3, ListFacts
  <2> QED
    BY <2>1, <2>2
<1>10. new = WithoutEdgeProperty(o, k, pid)
  <2> HIDE DEF ns, is, ms, w
  <2> QED
    BY <1>4, <1>7, <1>8, <1>9
<1>11. inv = EdgePropertyRestored(o, k, c.owner, pid)
  <2> DEFINE first == <<AddPropertyCmd(c.owner, Find(OwnerProperties(o, c.owner), pid))>>
  <2>1. Find(OwnerProperties(o, c.owner), pid) = Find(ps, pid)
    BY <1>2
  <2>2. /\ Each(<<>>, LAMBDA x : AddConstraintCmd(id, x)) = <<>>
        /\ Each(<<>>, AddIndexCmd) = <<>> /\ Each(<<>>, UpdateObjectMappingCmd) = <<>>
    BY DEF Each
  <2>3. inv = first \o <<>> \o <<>> \o <<>>
    <3> HIDE DEF cs, idxs, maps, first
    <3> QED
      BY <1>5, <2>2 DEF first
  <2>4. first \o <<>> \o <<>> \o <<>> = first
    <3>1. first \in Seq({first[1]})
      OBVIOUS
    <3> HIDE DEF first
    <3> QED
      BY <3>1
  <2> HIDE DEF inv
  <2> QED
    BY <2>1, <2>3, <2>4 DEF EdgePropertyRestored
<1>12. OwnerExists(o, c.owner) /\ pid \in Ids(OwnerProperties(o, c.owner)) <=> pid \in Ids(ps)
  BY <1>2
<1> HIDE DEF inv, new
<1> QED
  BY <1>1, <1>10, <1>11, <1>12 DEF When

LEMMA ContainsEntry ==
    ASSUME NEW S, NEW s \in Seq(S), NEW x
    PROVE  Contains(s, x) <=> x \in ToSet(s)
  BY ListFacts DEF Contains, ToSet

\* Leaving out by their ids what was picked.
LEMMA OthersById ==
    ASSUME NEW S, NEW s \in Seq(S), DistinctIds(s), NEW K, K \subseteq DOMAIN s
    PROVE  {i \in DOMAIN s : s[i].id \notin Ids(Picked(s, K))} = DOMAIN s \ K
<1>1. ToSet(Picked(s, K)) = {s[i] : i \in K}
  BY PickedList
<1>2. Ids(Picked(s, K)) = {s[i].id : i \in K}
  BY <1>1, IdsOfSet
<1> QED
  BY <1>2 DEF DistinctIds

LEMMA FePropertyDeletionForm ==
    ASSUME NEW o, NEW c
    PROVE  LET pid == c.property_id
               id == c.owner.type_id
               onNode == c.owner.kind = "node" /\ id \in Ids(o.node_types)
               cs == IF onNode
                     THEN Keep(Find(o.node_types, id).constraints,
                               LAMBDA x : Contains(x.property_ids, pid))
                     ELSE <<>>
               idxs == Keep(o.indexes, LAMBDA i : i.node_id = id /\ Contains(i.property_ids, pid))
               maps == IF onNode
                       THEN Keep(o.object_mappings, LAMBDA m : /\ m.node_type_id = id
                                                               /\ Contains(m.property_mappings, pid))
                       ELSE <<>>
               w == WithProperties(o, c.owner,
                        Keep(OwnerProperties(o, c.owner), LAMBDA p : p.id # pid))
               ns == MapById(w.node_types, id, LAMBDA n :
                         [n EXCEPT !.constraints = Keep(@, LAMBDA x : x.id \notin Ids(cs))])
               new == [w EXCEPT !.node_types = ns,
                                !.indexes = Keep(w.indexes, LAMBDA i : i.id \notin Ids(idxs)),
                                !.object_mappings = [k \in DOMAIN w.object_mappings |->
                                    IF w.object_mappings[k].node_type_id = id
                                    THEN Unmap(w.object_mappings[k], pid)
                                    ELSE w.object_mappings[k]]]
           IN  FeDeleteProperty(o, c) =
                   Unless(~FeHasProperty(o, c), o,
                     Applied(IF onNode THEN new ELSE w,
                             <<AddPropertyCmd(c.owner, Find(FeOwner(o, id).properties, pid))>>
                             \o Each(cs, LAMBDA x : AddConstraintCmd(id, x))
                             \o Each(idxs, AddIndexCmd)
                             \o Each(maps, UpdateObjectMappingCmd)))
  BY ZenonT(60) DEF FeDeleteProperty

LEMMA FeEdgePropertyDeletion ==
    ASSUME NEW o, Sound(o), NEW c, c.owner \in Owner, c.owner.kind # "node",
           NEW k \in DOMAIN o.edge_types, o.edge_types[k].id = c.owner.type_id
    PROVE  FeDeleteProperty(o, c) =
               Unless(c.property_id \notin Ids(o.edge_types[k].properties), o,
                      Applied(WithoutEdgeProperty(o, k, c.property_id),
                              EdgePropertyRestored(o, k, c.owner, c.property_id)))
<1> DEFINE id == c.owner.type_id
           pid == c.property_id
           n == o.edge_types[k]
           ps == n.properties
           onNode == c.owner.kind = "node" /\ id \in Ids(o.node_types)
           cs == IF onNode
                 THEN Keep(Find(o.node_types, id).constraints,
                           LAMBDA x : Contains(x.property_ids, pid))
                 ELSE <<>>
           idxs == Keep(o.indexes, LAMBDA i : i.node_id = id /\ Contains(i.property_ids, pid))
           maps == IF onNode
                   THEN Keep(o.object_mappings, LAMBDA m : /\ m.node_type_id = id
                                                           /\ Contains(m.property_mappings, pid))
                   ELSE <<>>
           w == WithProperties(o, c.owner,
                    Keep(OwnerProperties(o, c.owner), LAMBDA p : p.id # pid))
           inv == <<AddPropertyCmd(c.owner, Find(FeOwner(o, id).properties, pid))>>
                  \o Each(cs, LAMBDA x : AddConstraintCmd(id, x))
                  \o Each(idxs, AddIndexCmd)
                  \o Each(maps, UpdateObjectMappingCmd)
<1>1. \E new : FeDeleteProperty(o, c) =
          Unless(~FeHasProperty(o, c), o, Applied(IF onNode THEN new ELSE w, inv))
  BY Zenon, FePropertyDeletionForm
<1>2. /\ OwnerExists(o, c.owner) /\ id \notin Ids(o.node_types)
      /\ OwnerProperties(o, c.owner) = ps /\ FeOwner(o, id) = n
      /\ \A x : WithProperties(o, c.owner, x) = WithEdge(o, k, [n EXCEPT !.properties = x])
  BY EdgeOwnerAt
<1>3. \A i \in DOMAIN o.indexes : o.indexes[i].node_id # id
  <2>1. \A i \in DOMAIN o.indexes : o.indexes[i].node_id \in NodeId
    BY SoundIds, EntryFacts DEF IndexDef
  <2>2. id \in EdgeId
    BY OwnersApart
  <2> QED
    BY <2>1, <2>2, EditorAssumption
<1>4. w = WithoutEdgeProperty(o, k, pid)
  <2>1. {i \in DOMAIN ps : ps[i].id # pid} = DOMAIN ps \ At(ps, pid)
    BY DEF At
  <2>2. Keep(ps, LAMBDA p : p.id # pid) = Left(ps, At(ps, pid))
    BY <2>1 DEF Keep, Retain, Left
  <2> QED
    BY <1>2, <2>2 DEF WithoutEdgeProperty
<1>5. ~onNode /\ cs = <<>> /\ idxs = <<>> /\ maps = <<>>
  <2>1. {i \in DOMAIN o.indexes : o.indexes[i].node_id = id
                                  /\ Contains(o.indexes[i].property_ids, pid)} = {}
    BY <1>3
  <2>2. idxs = Picked(o.indexes, {})
    BY <2>1 DEF Keep, Retain
  <2> QED
    BY <2>2, PickedNone
<1>6. inv = EdgePropertyRestored(o, k, c.owner, pid)
  <2> DEFINE first == <<AddPropertyCmd(c.owner, Find(FeOwner(o, id).properties, pid))>>
  <2>1. first = <<AddPropertyCmd(c.owner, Find(ps, pid))>>
    BY <1>2
  <2>2. /\ Each(<<>>, LAMBDA x : AddConstraintCmd(id, x)) = <<>>
        /\ Each(<<>>, AddIndexCmd) = <<>> /\ Each(<<>>, UpdateObjectMappingCmd) = <<>>
    BY DEF Each
  <2>3. inv = first \o <<>> \o <<>> \o <<>>
    <3> HIDE DEF cs, idxs, maps, first
    <3> QED
      BY <1>5, <2>2 DEF first
  <2>4. first \o <<>> \o <<>> \o <<>> = first
    <3>1. first \in Seq({first[1]})
      OBVIOUS
    <3> HIDE DEF first
    <3> QED
      BY <3>1
  <2> HIDE DEF inv
  <2> QED
    BY <2>1, <2>3, <2>4 DEF EdgePropertyRestored
<1>7. FeHasProperty(o, c) <=> pid \in Ids(ps)
  BY <1>2 DEF FeHasProperty, Ids
<1> HIDE DEF inv, w, onNode
<1> QED
  BY <1>1, <1>4, <1>5, <1>6, <1>7 DEF Unless

LEMMA FeNodePropertyDeletion ==
    ASSUME NEW o, Sound(o), NEW c, c.owner \in Owner, c.owner.kind = "node",
           NEW k \in DOMAIN o.node_types, o.node_types[k].id = c.owner.type_id
    PROVE  FeDeleteProperty(o, c) =
               Unless(c.property_id \notin Ids(o.node_types[k].properties), o,
                      Applied(WithoutNodeProperty(o, k, c.property_id),
                              NodePropertyRestored(o, k, c.owner, c.property_id)))
<1> DEFINE id == c.owner.type_id
           pid == c.property_id
           n == o.node_types[k]
           ps == n.properties
           C == Using(n.constraints, pid)
           X == IndexUses(o, id, pid)
           M == ObjectUses(o, id, pid)
           onNode == c.owner.kind = "node" /\ id \in Ids(o.node_types)
           cs == IF onNode
                 THEN Keep(Find(o.node_types, id).constraints,
                           LAMBDA x : Contains(x.property_ids, pid))
                 ELSE <<>>
           idxs == Keep(o.indexes, LAMBDA i : i.node_id = id /\ Contains(i.property_ids, pid))
           maps == IF onNode
                   THEN Keep(o.object_mappings, LAMBDA m : /\ m.node_type_id = id
                                                           /\ Contains(m.property_mappings, pid))
                   ELSE <<>>
           w == WithProperties(o, c.owner,
                    Keep(OwnerProperties(o, c.owner), LAMBDA p : p.id # pid))
           ns == MapById(w.node_types, id, LAMBDA x :
                     [x EXCEPT !.constraints = Keep(@, LAMBDA y : y.id \notin Ids(cs))])
           is == Keep(w.indexes, LAMBDA i : i.id \notin Ids(idxs))
           ms == [j \in DOMAIN w.object_mappings |->
                     IF w.object_mappings[j].node_type_id = id
                     THEN Unmap(w.object_mappings[j], pid) ELSE w.object_mappings[j]]
           new == [w EXCEPT !.node_types = ns, !.indexes = is, !.object_mappings = ms]
           inv == <<AddPropertyCmd(c.owner, Find(FeOwner(o, id).properties, pid))>>
                  \o Each(cs, LAMBDA x : AddConstraintCmd(id, x))
                  \o Each(idxs, AddIndexCmd)
                  \o Each(maps, UpdateObjectMappingCmd)
<1>1. FeDeleteProperty(o, c) =
          Unless(~FeHasProperty(o, c), o, Applied(IF onNode THEN new ELSE w, inv))
  BY Zenon, FePropertyDeletionForm
<1>2. /\ OwnerExists(o, c.owner) /\ Find(o.node_types, id) = n /\ FeOwner(o, id) = n
      /\ OwnerProperties(o, c.owner) = ps
      /\ \A x : WithProperties(o, c.owner, x) = WithNode(o, k, [n EXCEPT !.properties = x])
  BY NodeOwnerAt
<1>2a. onNode
  BY <1>2 DEF OwnerExists, Collection
<1>3. /\ o \in Ontology /\ n \in NodeType /\ n.constraints \in Seq(ConstraintDef)
      /\ o.indexes \in Seq(IndexDef) /\ o.node_types \in Seq(NodeType)
      /\ DistinctIds(n.constraints) /\ DistinctIds(o.indexes)
      /\ \A i \in DOMAIN o.node_types : o.node_types[i].id = id <=> i = k
  BY SoundIds, EntryFacts, OntologyLists DEF DistinctIds
<1>4. w = WithNode(o, k, [n EXCEPT !.properties = Left(ps, At(ps, pid))])
  <2>1. {i \in DOMAIN ps : ps[i].id # pid} = DOMAIN ps \ At(ps, pid)
    BY DEF At
  <2>2. Keep(ps, LAMBDA p : p.id # pid) = Left(ps, At(ps, pid))
    BY <2>1 DEF Keep, Retain, Left
  <2> QED
    BY <1>2, <2>2
<1>5. cs = Picked(n.constraints, C) /\ idxs = Picked(o.indexes, X)
      /\ maps = Picked(o.object_mappings, M)
  <2>1. \A i \in DOMAIN n.constraints :
            Contains(n.constraints[i].property_ids, pid) <=> pid \in ToSet(n.constraints[i].property_ids)
    <3>1. \A i \in DOMAIN n.constraints : n.constraints[i].property_ids \in Seq(PropertyId)
      <4>1. \A x \in ConstraintDef : x.property_ids \in Seq(PropertyId)
        BY DEF ConstraintDef
      <4>2. \A i \in DOMAIN n.constraints : n.constraints[i] \in ConstraintDef
        BY <1>3, ListFacts
      <4> QED
        BY <4>1, <4>2
    <3> QED
      BY <3>1, ContainsEntry
  <2>2. \A i \in DOMAIN o.indexes :
            Contains(o.indexes[i].property_ids, pid) <=> pid \in ToSet(o.indexes[i].property_ids)
    BY <1>3, EntryFacts, ContainsEntry
  <2>3. \A i \in DOMAIN o.object_mappings :
            Contains(o.object_mappings[i].property_mappings, pid)
                <=> pid \in ToSet(o.object_mappings[i].property_mappings)
    BY <1>3, EntryFacts, ContainsEntry
  <2>4. {i \in DOMAIN n.constraints : Contains(n.constraints[i].property_ids, pid)} = C
    BY <2>1 DEF Using
  <2>5. {i \in DOMAIN o.indexes : o.indexes[i].node_id = id
                                  /\ Contains(o.indexes[i].property_ids, pid)} = X
    BY <2>2 DEF IndexUses
  <2>6. {i \in DOMAIN o.object_mappings :
             /\ o.object_mappings[i].node_type_id = id
             /\ Contains(o.object_mappings[i].property_mappings, pid)} = M
    BY <2>3 DEF ObjectUses
  <2>7. cs = Picked(n.constraints, C)
    <3>1. cs = Keep(n.constraints, LAMBDA x : Contains(x.property_ids, pid))
      BY <1>2, <1>2a
    <3> QED
      BY <2>4, <3>1 DEF Keep, Retain
  <2>8. idxs = Picked(o.indexes, X)
    BY <2>5 DEF Keep, Retain
  <2>9. maps = Picked(o.object_mappings, M)
    BY <1>2a, <2>6 DEF Keep, Retain
  <2> QED
    BY <2>7, <2>8, <2>9
<1>6. /\ {i \in DOMAIN n.constraints : n.constraints[i].id \notin Ids(Picked(n.constraints, C))}
             = DOMAIN n.constraints \ C
      /\ {i \in DOMAIN o.indexes : o.indexes[i].id \notin Ids(Picked(o.indexes, X))}
             = DOMAIN o.indexes \ X
  BY SMTT(60), <1>3, OthersById DEF Using, IndexUses
<1>7. w.indexes = o.indexes /\ w.object_mappings = o.object_mappings
      /\ w.node_types = [o.node_types EXCEPT ![k] = [n EXCEPT !.properties = Left(ps, At(ps, pid))]]
  BY <1>3, <1>4 DEF WithNode, Ontology
<1>8. is = Left(o.indexes, X) /\ ms = Unmapped(o, id, pid)
  <2>1. is = Left(o.indexes, X)
    <3> HIDE DEF w, idxs, X
    <3> QED
      BY <1>5, <1>6, <1>7 DEF Keep, Retain, Left
  <2>2. \A i \in DOMAIN o.object_mappings : pid \notin ToSet(o.object_mappings[i].property_mappings)
            => Unmap(o.object_mappings[i], pid) = o.object_mappings[i]
    BY <1>3, EntryFacts, UnmapUnused
  <2>3. ms = [j \in DOMAIN o.object_mappings |->
                 IF o.object_mappings[j].node_type_id = id
                 THEN Unmap(o.object_mappings[j], pid) ELSE o.object_mappings[j]]
    <3> HIDE DEF w
    <3> QED
      BY <1>7
  <2>4. ms = Unmapped(o, id, pid)
    <3> HIDE DEF ms
    <3> QED
      BY <2>2, <2>3 DEF Unmapped, ObjectUses
  <2> QED
    BY <2>1, <2>4
<1>9. ns = [o.node_types EXCEPT ![k] = NodeWithout(n, pid)]
  <2> DEFINE n1 == [n EXCEPT !.properties = Left(ps, At(ps, pid))]
             rest == Keep(n.constraints, LAMBDA y : y.id \notin Ids(cs))
  <2>1. rest = Left(n.constraints, C)
    <3> HIDE DEF cs, C
    <3> QED
      BY <1>5, <1>6 DEF Keep, Retain, Left
  <2>2. n1.constraints = n.constraints /\ n1.id = n.id
    BY <1>3 DEF NodeType
  <2>3. [n1 EXCEPT !.constraints = Keep(n1.constraints, LAMBDA y : y.id \notin Ids(cs))]
            = NodeWithout(n, pid)
    <3>1. [n1 EXCEPT !.constraints = Left(n.constraints, C)] = NodeWithout(n, pid)
      BY DEF NodeWithout
    <3> HIDE DEF n1, cs
    <3> QED
      BY <2>1, <2>2, <3>1
  <2>4. ns = [i \in DOMAIN w.node_types |->
                 IF w.node_types[i].id = id
                 THEN [w.node_types[i] EXCEPT !.constraints =
                          Keep(w.node_types[i].constraints, LAMBDA y : y.id \notin Ids(cs))]
                 ELSE w.node_types[i]]
    BY DEF MapById
  <2>5. /\ DOMAIN w.node_types = DOMAIN o.node_types
        /\ w.node_types[k] = n1
        /\ \A i \in DOMAIN o.node_types : i # k => w.node_types[i] = o.node_types[i]
    BY <1>7
  <2>6. \A i \in DOMAIN o.node_types : w.node_types[i].id = id <=> i = k
    <3> HIDE DEF w, n1
    <3> QED
      BY <1>3, <2>2, <2>5
  <2>7. \A i \in DOMAIN o.node_types : ns[i] = IF i = k THEN NodeWithout(n, pid) ELSE o.node_types[i]
    <3> HIDE DEF ns, w, n1, cs
    <3>1. \A i \in DOMAIN o.node_types : i # k => ns[i] = o.node_types[i]
      BY <2>4, <2>5, <2>6
    <3>2. ns[k] = [n1 EXCEPT !.constraints = Keep(n1.constraints, LAMBDA y : y.id \notin Ids(cs))]
      BY <2>4, <2>5, <2>6
    <3> QED
      BY <2>3, <3>1, <3>2
  <2>8. ns = [i \in DOMAIN o.node_types |-> ns[i]]
    <3> HIDE DEF w, cs
    <3> QED
      BY <2>4, <2>5
  <2> HIDE DEF ns
  <2> QED
    BY <1>3, <2>7, <2>8, ListFacts
<1>10. new = WithoutNodeProperty(o, k, pid)
  <2>1. [w EXCEPT !.node_types = ns, !.indexes = is, !.object_mappings = ms]
            = [o EXCEPT !.node_types = ns, !.indexes = is, !.object_mappings = ms]
    <3> HIDE DEF ns, is, ms
    <3> QED
      BY <1>3, <1>4 DEF WithNode, Ontology
  <2> HIDE DEF ns, is, ms
  <2> QED
    BY <1>8, <1>9, <2>1 DEF WithoutNodeProperty
<1>11. inv = NodePropertyRestored(o, k, c.owner, pid)
  <2>1. Find(FeOwner(o, id).properties, pid) = Find(ps, pid)
    BY <1>2
  <2> HIDE DEF cs, idxs, maps
  <2> QED
    BY <1>5, <2>1 DEF NodePropertyRestored
<1>12. FeHasProperty(o, c) <=> pid \in Ids(ps)
  BY <1>2, <1>2a DEF FeHasProperty
<1> HIDE DEF inv, new, w, onNode
<1> QED
  BY <1>1, <1>2a, <1>10, <1>11, <1>12 DEF Unless

-----------------------------------------------------------------------------
(* Ids stay unique.                                                         *)

LEMMA UniqueMeans ==
    ASSUME NEW o
    PROVE  UniqueIds(o) <=> /\ DistinctIds(o.indexes)
                            /\ \A k \in DOMAIN o.node_types : DistinctIds(o.node_types[k].constraints)
  BY DEF UniqueIds, Distinct, DistinctIds, ToSet

UniqueResult(r) == r.ok => UniqueIds(r.ont)

LEMMA WhenUnique ==
    ASSUME NEW cond, NEW new, NEW inverse, cond => UniqueIds(new)
    PROVE  UniqueResult(When(cond, Ok(new, inverse)))
  BY DEF UniqueResult, When, Ok, Err

LEMMA NodesUnique ==
    ASSUME NEW o, o \in Ontology, UniqueIds(o), NEW x,
           \A i \in DOMAIN x : DistinctIds(x[i].constraints)
    PROVE  UniqueIds([o EXCEPT !.node_types = x])
<1> DEFINE w == [o EXCEPT !.node_types = x]
<1>1. w.indexes = o.indexes /\ w.node_types = x
  BY DEF Ontology
<1> HIDE DEF w
<1>2. UniqueIds(w)
  BY <1>1, UniqueMeans
<1> QED
  BY <1>2 DEF w

LEMMA OthersUnique ==
    ASSUME NEW o, o \in Ontology, UniqueIds(o), NEW x
    PROVE  /\ UniqueIds([o EXCEPT !.edge_types = x])
           /\ UniqueIds([o EXCEPT !.object_mappings = x])
           /\ UniqueIds([o EXCEPT !.link_mappings = x])
           /\ DistinctIds(x) => UniqueIds([o EXCEPT !.indexes = x])
<1>1. ASSUME NEW w, w.node_types = o.node_types, DistinctIds(w.indexes)
      PROVE  UniqueIds(w)
  BY <1>1, UniqueMeans
<1>2. /\ [o EXCEPT !.edge_types = x].node_types = o.node_types
      /\ [o EXCEPT !.edge_types = x].indexes = o.indexes
      /\ [o EXCEPT !.object_mappings = x].node_types = o.node_types
      /\ [o EXCEPT !.object_mappings = x].indexes = o.indexes
      /\ [o EXCEPT !.link_mappings = x].node_types = o.node_types
      /\ [o EXCEPT !.link_mappings = x].indexes = o.indexes
      /\ [o EXCEPT !.indexes = x].node_types = o.node_types
      /\ [o EXCEPT !.indexes = x].indexes = x
  BY DEF Ontology
<1>3. DistinctIds(o.indexes)
  BY UniqueMeans
<1> QED
  BY <1>1, <1>2, <1>3

LEMMA AppendedIds ==
    ASSUME NEW S, NEW s \in Seq(S), NEW x \in S, DistinctIds(s), x.id \notin Ids(s)
    PROVE  DistinctIds(Append(s, x))
<1>1. /\ DOMAIN Append(s, x) = 1..(Len(s) + 1)
      /\ \A i \in 1..Len(s) : Append(s, x)[i] = s[i]
      /\ Append(s, x)[Len(s) + 1] = x
  BY AppendList
<1>2. DOMAIN s = 1..Len(s) /\ Len(s) \in Nat
  BY ListFacts
<1>3. \A i \in 1..Len(s) : s[i].id # x.id
  BY <1>2 DEF Ids
<1>4. \A i \in 1..(Len(s) + 1) : i \in 1..Len(s) \/ i = Len(s) + 1
  BY <1>2
<1> QED
  BY <1>1, <1>2, <1>3, <1>4 DEF DistinctIds

LEMMA PickedIds ==
    ASSUME NEW S, NEW s \in Seq(S), DistinctIds(s), NEW K, K \subseteq DOMAIN s
    PROVE  DistinctIds(Picked(s, K)) /\ DistinctIds(Left(s, K))
<1>1. \A J : J \subseteq DOMAIN s => DistinctIds(Picked(s, J))
  BY PickedPicks, PicksInject, InjectsDistinct
<1> QED
  BY <1>1 DEF Left

LEMMA LeftEntries ==
    ASSUME NEW S, NEW s \in Seq(S), NEW K
    PROVE  /\ Left(s, K) \in Seq(S)
           /\ ToSet(Left(s, K)) = {s[i] : i \in DOMAIN s \ K}
           /\ \A i \in DOMAIN Left(s, K) : \E j \in DOMAIN s \ K : Left(s, K)[i] = s[j]
<1> DEFINE J == DOMAIN s \ K
           t == Left(s, K)
<1>0. J \subseteq DOMAIN s /\ t = Picked(s, J)
  BY DEF Left
<1> HIDE DEF J, t
<1>1. Picks(t, s, J)
  BY <1>0, PickedPicks
<1>2. t \in Seq(S) /\ ToSet(t) = {s[i] : i \in J} /\ \A i \in DOMAIN t : t[i] \in {s[j] : j \in J}
  BY <1>0, <1>1, PicksList
<1> QED
  BY <1>2 DEF J, t

LEMMA NodeCommandUnique ==
    ASSUME NEW o, Sound(o), NEW c \in NodeCommand,
           c.op = "create_node_type" => DistinctIds(c.node.constraints)
    PROVE  UniqueResult(ExecuteOne(o, c))
<1> DEFINE ns == o.node_types
<1>0. /\ ns \in Seq(NodeType) /\ o \in Ontology /\ UniqueIds(o)
      /\ \A i \in DOMAIN ns : ns[i] \in NodeType /\ DistinctIds(ns[i].constraints)
  BY SoundIds, OntologyLists, EntryFacts DEF Sound
<1>1. ASSUME NEW x \in NodeType, DistinctIds(x.constraints) PROVE UniqueResult(CreateNodeType(o, x))
  <2>1. /\ DOMAIN Append(ns, x) = 1..(Len(ns) + 1) /\ DOMAIN ns = 1..Len(ns) /\ Len(ns) \in Nat
        /\ \A i \in 1..Len(ns) : Append(ns, x)[i] = ns[i]
        /\ Append(ns, x)[Len(ns) + 1] = x
    BY <1>0, AppendList, ListFacts
  <2>2. \A i \in DOMAIN Append(ns, x) : i \in DOMAIN ns \/ i = Len(ns) + 1
    BY <2>1
  <2>3. \A i \in DOMAIN Append(ns, x) : DistinctIds(Append(ns, x)[i].constraints)
    BY <1>0, <1>1, <2>1, <2>2
  <2>4. UniqueIds([o EXCEPT !.node_types = Append(ns, x)])
    BY <1>0, <2>3, NodesUnique
  <2> QED
    BY <2>4, WhenUnique DEF CreateNodeType
<1>2. ASSUME NEW x, DOMAIN x = DOMAIN ns, \A i \in DOMAIN ns : x[i].constraints = ns[i].constraints
      PROVE  UniqueIds([o EXCEPT !.node_types = x])
  BY <1>0, <1>2, NodesUnique
<1>3. CASE c.op = "add_node"
  <2>1. NewNode(c) \in NodeType /\ DistinctIds(NewNode(c).constraints)
    <3>1. c.id \in NodeId /\ c.label \in Text /\ c.description \in Text
      BY <1>3 DEF NodeCommand
    <3>2. <<>> \in Seq(Property) /\ <<>> \in Seq(ConstraintDef)
      BY EmptySeq
    <3> QED
      BY <3>1, <3>2 DEF NewNode, NodeType, DistinctIds
  <2> QED
    BY <1>1, <1>3, <2>1 DEF ExecuteOne, AddNode
<1>4. CASE c.op = "create_node_type"
  <2>1. c.node \in NodeType
    BY <1>4 DEF NodeCommand
  <2> QED
    BY <1>1, <1>4, <2>1 DEF ExecuteOne
<1>5. CASE c.op = "rename_node"
  <2> DEFINE x == MapById(ns, c.node_id, LAMBDA n : [n EXCEPT !.label = c.new_label])
  <2>1. DOMAIN x = DOMAIN ns /\ \A i \in DOMAIN ns : x[i].constraints = ns[i].constraints
    BY <1>0 DEF MapById, NodeType
  <2> HIDE DEF x
  <2>2. UniqueIds([o EXCEPT !.node_types = x])
    BY <1>2, <2>1
  <2> QED
    BY <1>5, <2>2, WhenUnique DEF ExecuteOne, RenameNode, x
<1>6. CASE c.op = "update_node_description"
  <2> DEFINE x == MapById(ns, c.node_id, LAMBDA n : [n EXCEPT !.description = c.description])
  <2>1. DOMAIN x = DOMAIN ns /\ \A i \in DOMAIN ns : x[i].constraints = ns[i].constraints
    BY <1>0 DEF MapById, NodeType
  <2> HIDE DEF x
  <2>2. UniqueIds([o EXCEPT !.node_types = x])
    BY <1>2, <2>1
  <2> QED
    BY <1>6, <2>2, WhenUnique DEF ExecuteOne, UpdateNodeDescription, x
<1>7. CASE c.op = "delete_node"
  <2> DEFINE id == c.node_id
             w == WithoutNode(o, id)
  <2>1. w.node_types = Left(ns, At(ns, id)) /\ w.indexes = Left(o.indexes, IndexesOf(o, id))
    BY <1>0 DEF WithoutNode, Ontology
  <2>2. \A i \in DOMAIN w.node_types : DistinctIds(w.node_types[i].constraints)
    BY <1>0, <2>1, LeftEntries
  <2>3. DistinctIds(w.indexes)
    <3>1. IndexesOf(o, id) \subseteq DOMAIN o.indexes
      BY DEF IndexesOf
    <3> QED
      BY <2>1, <3>1, SoundIds, OntologyLists, PickedIds
  <2>4. UniqueIds(w)
    BY <2>2, <2>3, UniqueMeans
  <2>5. \E inverse : DeleteNode(o, c) = When(id \in Ids(ns), Ok(w, inverse))
    BY <1>0, NodeDeletion
  <2> HIDE DEF w
  <2> QED
    BY <1>7, <2>4, <2>5, WhenUnique DEF ExecuteOne
<1> QED
  BY <1>3, <1>4, <1>5, <1>6, <1>7 DEF NodeCommand

LEMMA EdgeCommandUnique ==
    ASSUME NEW o, Sound(o), NEW c \in EdgeCommand
    PROVE  UniqueResult(ExecuteOne(o, c))
<1>0. o \in Ontology /\ UniqueIds(o)
  BY DEF Sound
<1>1. \A cond, x, inverse : UniqueResult(When(cond, Ok([o EXCEPT !.edge_types = x], inverse)))
  BY <1>0, OthersUnique, WhenUnique
<1>2. \A x : UniqueResult(CreateEdgeType(o, x))
  BY <1>1 DEF CreateEdgeType
<1>3. UniqueResult(RenameEdge(o, c))
  <2>1. \E cond, x, inverse : RenameEdge(o, c) = When(cond, Ok([o EXCEPT !.edge_types = x], inverse))
    BY Zenon DEF RenameEdge
  <2> QED
    BY <1>1, <2>1
<1>4. UniqueResult(UpdateEdgeCardinality(o, c)) /\ UniqueResult(UpdateEdgeDescription(o, c))
  BY <1>1 DEF UpdateEdgeCardinality, UpdateEdgeDescription
<1>5. UniqueResult(DeleteEdge(o, c))
  <2>1. \E cond, inverse : DeleteEdge(o, c) = When(cond, Ok(WithoutEdge(o, c.edge_id), inverse))
    BY <1>0, EdgeDeletion
  <2>2. /\ WithoutEdge(o, c.edge_id).node_types = o.node_types
        /\ WithoutEdge(o, c.edge_id).indexes = o.indexes
    BY <1>0 DEF WithoutEdge, Ontology
  <2>3. UniqueIds(WithoutEdge(o, c.edge_id))
    BY <1>0, <2>2, UniqueMeans
  <2> QED
    BY <2>1, <2>3, WhenUnique
<1> QED
  BY <1>2, <1>3, <1>4, <1>5 DEF ExecuteOne, AddEdge, EdgeCommand

LEMMA NodeAtUnique ==
    ASSUME NEW o, o \in Ontology, UniqueIds(o), NEW k \in DOMAIN o.node_types, NEW n,
           DistinctIds(n.constraints)
    PROVE  UniqueIds(WithNode(o, k, n))
<1> DEFINE x == [o.node_types EXCEPT ![k] = n]
<1>1. \A i \in DOMAIN o.node_types : DistinctIds(o.node_types[i].constraints)
  BY UniqueMeans
<1>2. DOMAIN x = DOMAIN o.node_types
      /\ \A i \in DOMAIN x : x[i] = IF i = k THEN n ELSE o.node_types[i]
  BY OntologyLists, ListFacts
<1> HIDE DEF x
<1>3. \A i \in DOMAIN x : DistinctIds(x[i].constraints)
  BY <1>1, <1>2
<1>4. UniqueIds([o EXCEPT !.node_types = x])
  BY <1>3, NodesUnique
<1> QED
  BY <1>4 DEF WithNode, x

LEMMA PropertyCommandUnique ==
    ASSUME NEW o, Sound(o), NEW c \in PropertyCommand
    PROVE  UniqueResult(ExecuteOne(o, c))
<1>0. o \in Ontology /\ UniqueIds(o) /\ c.owner \in Owner
  BY DEF Sound, PropertyCommand
<1>1. CASE ~OwnerExists(o, c.owner)
  <2>1. ~AddProperty(o, c).ok /\ ~UpdateProperty(o, c).ok
    BY <1>1 DEF AddProperty, UpdateProperty, When, Err
  <2>2. ~DeleteProperty(o, c).ok
    <3>1. \E p, r : DeleteProperty(o, c) = When(OwnerExists(o, c.owner) /\ p, r)
      BY Zenon DEF DeleteProperty
    <3> QED
      BY <1>1, <3>1 DEF When, Err
  <2> QED
    BY <2>1, <2>2 DEF PropertyCommand, ExecuteOne, UniqueResult
<1>2. CASE c.owner.kind = "node" /\ \E k \in DOMAIN o.node_types : o.node_types[k].id = c.owner.type_id
  <2>1. PICK k \in DOMAIN o.node_types : o.node_types[k].id = c.owner.type_id
    BY <1>2
  <2> DEFINE n == o.node_types[k]
  <2>2. /\ n \in NodeType /\ DistinctIds(n.constraints) /\ n.constraints \in Seq(ConstraintDef)
        /\ o.indexes \in Seq(IndexDef) /\ DistinctIds(o.indexes)
    BY <1>0, SoundIds, EntryFacts, OntologyLists
  <2>3. \A ps : WithProperties(o, c.owner, ps) = WithNode(o, k, [n EXCEPT !.properties = ps])
    BY <1>0, <1>2, <2>1, NodeOwnerAt
  <2>4. \A ps : UniqueIds(WithNode(o, k, [n EXCEPT !.properties = ps]))
    <3>1. \A ps : [n EXCEPT !.properties = ps].constraints = n.constraints
      BY <2>2 DEF NodeType
    <3> QED
      BY <1>0, <2>2, <3>1, NodeAtUnique
  <2>5. UniqueResult(AddProperty(o, c)) /\ UniqueResult(UpdateProperty(o, c))
    BY <2>3, <2>4, WhenUnique DEF AddProperty, UpdateProperty
  <2>6. UniqueResult(DeleteProperty(o, c))
    <3> DEFINE pid == c.property_id
               w == WithoutNodeProperty(o, k, pid)
               m == NodeWithout(n, pid)
    <3>1. DistinctIds(m.constraints)
      <4>1. m.constraints = Left(n.constraints, Using(n.constraints, pid))
        BY <2>2 DEF NodeWithout, NodeType
      <4>2. Using(n.constraints, pid) \subseteq DOMAIN n.constraints
        BY DEF Using
      <4> QED
        BY <2>2, <4>1, <4>2, PickedIds
    <3>2. UniqueIds(WithNode(o, k, m))
      <4> HIDE DEF m
      <4> QED
        BY <1>0, <3>1, NodeAtUnique
    <3>3. w.node_types = WithNode(o, k, m).node_types
          /\ w.indexes = Left(o.indexes, IndexUses(o, n.id, pid))
      BY <1>0 DEF WithoutNodeProperty, WithNode, Ontology
    <3>4. DistinctIds(w.indexes)
      <4>1. IndexUses(o, n.id, pid) \subseteq DOMAIN o.indexes
        BY DEF IndexUses
      <4> QED
        BY <2>2, <3>3, <4>1, PickedIds
    <3>5. UniqueIds(w)
      <4> HIDE DEF w, m
      <4> QED
        BY <3>2, <3>3, <3>4, UniqueMeans
    <3>6. \E cond, inverse : DeleteProperty(o, c) = When(cond, Ok(w, inverse))
      <4> HIDE DEF w
      <4> QED
        BY <1>0, <1>2, <2>1, NodePropertyDeletion DEF w
    <3> HIDE DEF w
    <3> QED
      BY <3>5, <3>6, WhenUnique
  <2> QED
    BY <2>5, <2>6 DEF PropertyCommand, ExecuteOne
<1>3. CASE c.owner.kind # "node" /\ \E k \in DOMAIN o.edge_types : o.edge_types[k].id = c.owner.type_id
  <2>1. PICK k \in DOMAIN o.edge_types : o.edge_types[k].id = c.owner.type_id
    BY <1>3
  <2>2. \A e : UniqueIds(WithEdge(o, k, e))
    BY <1>0, OthersUnique DEF WithEdge
  <2>2a. \A ps : WithProperties(o, c.owner, ps)
                   = WithEdge(o, k, [o.edge_types[k] EXCEPT !.properties = ps])
    BY <1>0, <1>3, <2>1, EdgeOwnerAt
  <2>3. \A ps : UniqueIds(WithProperties(o, c.owner, ps))
    BY <2>2, <2>2a
  <2>4. UniqueResult(AddProperty(o, c)) /\ UniqueResult(UpdateProperty(o, c))
    BY <2>3, WhenUnique DEF AddProperty, UpdateProperty
  <2>5. UniqueResult(DeleteProperty(o, c))
    <3>1. \E cond, inverse :
              DeleteProperty(o, c) = When(cond, Ok(WithoutEdgeProperty(o, k, c.property_id), inverse))
      BY <1>0, <1>3, <2>1, EdgePropertyDeletion
    <3>2. UniqueIds(WithoutEdgeProperty(o, k, c.property_id))
      BY <2>2 DEF WithoutEdgeProperty
    <3> QED
      BY <3>1, <3>2, WhenUnique
  <2> QED
    BY <2>4, <2>5 DEF PropertyCommand, ExecuteOne
<1> QED
  BY <1>1, <1>2, <1>3, OwnerPlace

LEMMA ConstraintCommandUnique ==
    ASSUME NEW o, Sound(o), NEW c \in ConstraintCommand
    PROVE  UniqueResult(ExecuteOne(o, c))
<1> DEFINE ns == o.node_types
<1>0. /\ o \in Ontology /\ UniqueIds(o) /\ ns \in Seq(NodeType) /\ DistinctIds(ns)
      /\ \A i \in DOMAIN ns : ns[i].constraints \in Seq(ConstraintDef) /\ ns[i] \in NodeType
                              /\ DistinctIds(ns[i].constraints)
  BY SoundIds, OntologyLists, EntryFacts DEF Sound
<1>1. CASE c.op = "add_constraint"
  <2> DEFINE x == MapById(ns, c.node_id,
                          LAMBDA n : [n EXCEPT !.constraints = Append(@, c.constraint)])
             cond == /\ c.node_id \in Ids(ns)
                     /\ c.constraint.id \notin Ids(Find(ns, c.node_id).constraints)
  <2>1. c.constraint \in ConstraintDef
    BY <1>1 DEF ConstraintCommand
  <2>2. ASSUME cond PROVE \A i \in DOMAIN x : DistinctIds(x[i].constraints)
    <3>1. SUFFICES ASSUME NEW i \in DOMAIN ns PROVE DistinctIds(x[i].constraints)
      BY DEF MapById
    <3>2. CASE ns[i].id = c.node_id
      <4>1. Find(ns, c.node_id) = ns[i]
        BY <1>0, <3>2, FoundAt
      <4>2. x[i].constraints = Append(ns[i].constraints, c.constraint)
        BY <1>0, <3>2 DEF MapById, NodeType
      <4>3. DistinctIds(Append(ns[i].constraints, c.constraint))
        BY <1>0, <2>1, <2>2, <4>1, AppendedIds
      <4> QED
        BY <4>2, <4>3
    <3>3. CASE ns[i].id # c.node_id
      BY <1>0, <3>3 DEF MapById
    <3> QED
      BY <3>2, <3>3
  <2> HIDE DEF x
  <2>3. cond => UniqueIds([o EXCEPT !.node_types = x])
    BY <1>0, <2>2, NodesUnique
  <2>4. \E inverse : AddConstraint(o, c) = When(cond, Ok([o EXCEPT !.node_types = x], inverse))
    BY Zenon DEF AddConstraint, x
  <2> HIDE DEF cond
  <2> QED
    BY <1>1, <2>3, <2>4, WhenUnique DEF ExecuteOne
<1>2. CASE c.op = "remove_constraint"
  <2> DEFINE less(n) == Retain(n.constraints, LAMBDA y : y.id # c.constraint_id)
             x == MapById(ns, c.node_id, LAMBDA n : [n EXCEPT !.constraints = less(n)])
  <2>1. \A i \in DOMAIN ns : DistinctIds(less(ns[i]))
    BY <1>0, PickedIds DEF Retain
  <2>2. DOMAIN x = DOMAIN ns /\ \A i \in DOMAIN x :
            x[i].constraints = less(ns[i]) \/ x[i].constraints = ns[i].constraints
    <3> HIDE DEF less
    <3> QED
      BY <1>0 DEF MapById, NodeType
  <2>3. \E cond, inverse : RemoveConstraint(o, c) = When(cond, Ok([o EXCEPT !.node_types = x], inverse))
    BY Zenon DEF RemoveConstraint, MapById
  <2> HIDE DEF x, less
  <2>4. UniqueIds([o EXCEPT !.node_types = x])
    <3>1. \A i \in DOMAIN x : DistinctIds(x[i].constraints)
      BY <1>0, <2>1, <2>2
    <3> QED
      BY <1>0, <3>1, NodesUnique
  <2> QED
    BY <1>2, <2>3, <2>4, WhenUnique DEF ExecuteOne
<1> QED
  BY <1>1, <1>2 DEF ConstraintCommand

\* No command gives an index or a constraint an id that is in use.
LEMMA OneUnique ==
    ASSUME NEW o, Sound(o), NEW c \in Command,
           c.op = "create_node_type" => DistinctIds(c.node.constraints)
    PROVE  UniqueResult(ExecuteOne(o, c))
<1>0. o \in Ontology /\ UniqueIds(o) /\ o.indexes \in Seq(IndexDef) /\ DistinctIds(o.indexes)
  BY SoundIds, OntologyLists DEF Sound
<1>1. CASE c \in IndexCommand
  <2>1. CASE c.op = "add_index"
    <3>1. c.index \in IndexDef
      BY <1>1, <2>1 DEF IndexCommand
    <3>2. c.index.id \notin Ids(o.indexes) => UniqueIds([o EXCEPT !.indexes = Append(@, c.index)])
      BY <1>0, <3>1, AppendedIds, OthersUnique
    <3> QED
      BY <2>1, <3>2, WhenUnique DEF ExecuteOne, AddIndex
  <2>2. CASE c.op = "remove_index"
    <3> DEFINE x == Retain(o.indexes, LAMBDA i : i.id # c.index_id)
    <3>1. DistinctIds(x)
      BY <1>0, PickedIds DEF Retain
    <3> HIDE DEF x
    <3>2. UniqueIds([o EXCEPT !.indexes = x])
      BY <1>0, <3>1, OthersUnique
    <3> QED
      BY <2>2, <3>2, WhenUnique DEF ExecuteOne, RemoveIndex, x
  <2> QED
    BY <1>1, <2>1, <2>2 DEF IndexCommand
<1>2. CASE c \in MappingCommand
  <2>1. \A list \in {"object_mappings", "link_mappings"} :
           \A x : UniqueIds([o EXCEPT ![list] = x])
    BY <1>0, OthersUnique
  <2>2. ASSUME NEW list \in {"object_mappings", "link_mappings"}
        PROVE  /\ UniqueResult(CreateMapping(o, list, c.mapping))
               /\ UniqueResult(UpdateMapping(o, list, c))
               /\ UniqueResult(DeleteMapping(o, list, c))
    BY <2>1, WhenUnique DEF CreateMapping, UpdateMapping, DeleteMapping
  <2> QED
    BY <1>2, <2>2 DEF MappingCommand, ExecuteOne
<1> QED
  BY <1>1, <1>2, NodeCommandUnique, EdgeCommandUnique, PropertyCommandUnique,
     ConstraintCommandUnique DEF Command

-----------------------------------------------------------------------------
(* What an editor's steps keep.                                             *)

\* A command issued by itself that the server accepts.
LEMMA DoneOne ==
    ASSUME NEW o, NEW c, execute(o, <<c>>).ok
    PROVE  LET r == ExecuteOne(o, c)
           IN  /\ r.ok /\ rebuild_indices(r.ont) /\ validate(r.ont)
               /\ execute(o, <<c>>).ont = r.ont
               /\ execute(o, <<c>>).inverse = r.inverse \o <<>>
<1> DEFINE r == ExecuteOne(o, c)
<1>1. execute_inner(o, <<c>>) = Then(Ok(o, <<>>), r)
  BY RunOfOne
<1> HIDE DEF r
<1>2. r.ok /\ execute(o, <<c>>) = Ok(r.ont, r.inverse \o <<>>)
      /\ rebuild_indices(r.ont) /\ validate(r.ont)
  BY <1>1 DEF execute, Validated, Then, When, Ok, Err
<1> QED
  BY <1>2 DEF Ok, r

EditorInv == Sound(ontology)

LEMMA IssuedCommand ==
    ASSUME NEW c \in Commands
    PROVE  c \in Command /\ (c.op = "create_node_type" => DistinctIds(c.node.constraints))
  BY EditorAssumption DEF Distinct, DistinctIds

LEMMA SoundStep ==
    ASSUME NEW o, Sound(o), NEW c \in Commands, execute(o, <<c>>).ok
    PROVE  Sound(execute(o, <<c>>).ont)
<1> DEFINE r == ExecuteOne(o, c)
<1>1. r.ok /\ rebuild_indices(r.ont) /\ validate(r.ont) /\ execute(o, <<c>>).ont = r.ont
  BY DoneOne
<1>2. Typed(r) /\ UniqueResult(r)
  BY IssuedCommand, OneTyped, OneUnique DEF Sound
<1> QED
  BY <1>1, <1>2 DEF Typed, UniqueResult, Sound

LEMMA EditorKeepsSound == EditorSpec => []EditorInv
<1>1. EditorInit => EditorInv
  BY EditorAssumption DEF EditorInit, EditorInv, Sound
<1>2. EditorInv /\ [EditorNext]_editorVars => EditorInv'
  <2>1. SUFFICES ASSUME EditorInv, [EditorNext]_editorVars PROVE EditorInv'
    OBVIOUS
  <2>2. CASE UNCHANGED editorVars
    BY <2>1, <2>2 DEF EditorInv, editorVars
  <2>3. CASE EditorNext
    <3>1. PICK c \in Commands : Issue(c)
      BY <2>3 DEF EditorNext
    <3>2. execute(ontology, <<c>>).ok /\ ontology' = execute(ontology, <<c>>).ont
      BY <3>1 DEF Issue, Done
    <3>3. Sound(ontology')
      BY <2>1, <3>2, SoundStep DEF EditorInv
    <3> QED
      BY <3>3 DEF EditorInv
  <2> QED
    BY <2>1, <2>2, <2>3
<1> QED
  BY <1>1, <1>2, PTL DEF EditorSpec

\* The editor never holds two indexes, or two constraints of a node, of one id:
\* what undo finds by id is what was meant.
THEOREM EditorIdsStayUnique == EditorSpec => []IdsStayUnique
<1>1. EditorInv => IdsStayUnique
  BY DEF EditorInv, Sound, IdsStayUnique
<1> QED
  BY <1>1, EditorKeepsSound, PTL

-----------------------------------------------------------------------------
(* What deletions leave behind.                                             *)

LEMMA LeftFinds ==
    ASSUME NEW S, NEW s \in Seq(S), DistinctIds(s), NEW K, K \subseteq DOMAIN s,
           NEW x \in Ids(s), x \notin {s[i].id : i \in K}
    PROVE  x \in Ids(Left(s, K)) /\ Find(Left(s, K), x) = Find(s, x)
<1> DEFINE t == Left(s, K)
<1>1. t \in Seq(S) /\ ToSet(t) = {s[i] : i \in DOMAIN s \ K} /\ DistinctIds(t)
  BY LeftEntries, PickedIds
<1> HIDE DEF t
<1>2. PICK k \in DOMAIN s : Find(s, x) = s[k] /\ s[k].id = x
  BY Found
<1>3. k \in DOMAIN s \ K
  BY <1>2
<1>4. PICK j \in DOMAIN t : t[j] = s[k]
  BY <1>1, <1>3 DEF ToSet
<1>5. x \in Ids(t) /\ Find(t, x) = s[k]
  BY <1>1, <1>2, <1>4, FoundAt DEF Ids
<1> QED
  BY <1>2, <1>5 DEF t

LEMMA LeftIds ==
    ASSUME NEW S, NEW s \in Seq(S), NEW K
    PROVE  Ids(Left(s, K)) \subseteq Ids(s) /\ ToSet(Left(s, K)) \subseteq ToSet(s)
<1>1. ToSet(Left(s, K)) = {s[i] : i \in DOMAIN s \ K}
  BY LeftEntries
<1>2. ToSet(Left(s, K)) \subseteq ToSet(s)
  BY <1>1 DEF ToSet
<1> QED
  BY <1>2, IdsOfSet

\* A list of entries of another list is as distinct as that list.
LEMMA InjectsKeys ==
    ASSUME NEW s, NEW t, Injects(t, s)
    PROVE  /\ Distinct(s, LAMBDA x : x.id) => Distinct(t, LAMBDA x : x.id)
           /\ Distinct(s, LAMBDA x : x.label) => Distinct(t, LAMBDA x : x.label)
           /\ Distinct(s, LAMBDA x : x.name) => Distinct(t, LAMBDA x : x.name)
           /\ Distinct(s, LAMBDA x : x) => Distinct(t, LAMBDA x : x)
           /\ Distinct(s, LAMBDA e : <<e.label, e.source_node_id, e.target_node_id>>)
              => Distinct(t, LAMBDA e : <<e.label, e.source_node_id, e.target_node_id>>)
<1>1. PICK f \in Injection(DOMAIN t, DOMAIN s) : \A i \in DOMAIN t : t[i] = s[f[i]]
  BY DEF Injects
<1>2. \A i, j \in DOMAIN t : f[i] \in DOMAIN s /\ (f[i] = f[j] => i = j)
  BY DEF Injection, IsInjective
<1> QED
  BY <1>1, <1>2 DEF Distinct

LEMMA LeftInjects ==
    ASSUME NEW S, NEW s \in Seq(S), NEW K
    PROVE  Injects(Left(s, K), s)
<1> DEFINE J == DOMAIN s \ K
<1>0. J \subseteq DOMAIN s
  OBVIOUS
<1> HIDE DEF J
<1>1. Picks(Picked(s, J), s, J)
  BY <1>0, PickedPicks
<1>2. Injects(Picked(s, J), s)
  BY <1>0, <1>1, PicksInject
<1> QED
  BY <1>2 DEF J, Left

\* What is left of a list when the entries at some places go.
LeftOf(t, s, K) ==
    /\ Injects(t, s) /\ ToSet(t) \subseteq ToSet(s)
    /\ \A x \in ToSet(t) : \E i \in DOMAIN s \ K : x = s[i]
    /\ \A x \in Ids(s) : x \in {s[i].id : i \in K} \/ (x \in Ids(t) /\ Find(t, x) = Find(s, x))

LEMMA LeftOut ==
    ASSUME NEW S, NEW s \in Seq(S), DistinctIds(s), NEW K, K \subseteq DOMAIN s,
           NEW t, t = Left(s, K)
    PROVE  LeftOf(t, s, K)
<1>1. Injects(t, s) /\ ToSet(t) \subseteq ToSet(s) /\ ToSet(t) = {s[i] : i \in DOMAIN s \ K}
  BY LeftInjects, LeftIds, LeftEntries
<1>2. \A x \in Ids(s) : x \in {s[i].id : i \in K} \/ (x \in Ids(t) /\ Find(t, x) = Find(s, x))
  BY LeftFinds
<1> QED
  BY <1>1, <1>2 DEF LeftOf

LEMMA FewerProperties ==
    ASSUME NEW ps \in Seq(Property), validate_property_defs(ps), NEW K
    PROVE  validate_property_defs(Left(ps, K))
  BY LeftInjects, InjectsKeys DEF validate_property_defs

LEMMA NodeDeletionComplete ==
    ASSUME NEW o, Sound(o), NEW id
    PROVE  NothingDangles(WithoutNode(o, id))
<1> DEFINE w == WithoutNode(o, id)
           ns == o.node_types
           es == o.edge_types
           A == At(ns, id)
           E == IncidentEdges(o, id)
           I == IncidentIds(o, id)
           L == LinksOf(o, I)
           X == IndexesOf(o, id)
           O == ObjectsOf(o, id)
<1>0. /\ o \in Ontology /\ ns \in Seq(NodeType) /\ es \in Seq(EdgeType)
      /\ o.indexes \in Seq(IndexDef) /\ o.object_mappings \in Seq(ObjectMapping)
      /\ o.link_mappings \in Seq(LinkMapping) /\ DistinctIds(ns) /\ DistinctIds(es)
      /\ DistinctIds(o.indexes) /\ DistinctIds(o.object_mappings) /\ DistinctIds(o.link_mappings)
  BY SoundIds, OntologyLists
<1>1. /\ w.node_types = Left(ns, A) /\ w.edge_types = Left(es, E)
      /\ w.link_mappings = Left(o.link_mappings, L)
      /\ w.indexes = Left(o.indexes, X)
      /\ w.object_mappings = Left(o.object_mappings, O)
  BY <1>0 DEF WithoutNode, Ontology
<1>2. /\ A \subseteq DOMAIN ns /\ \A i \in A : ns[i].id = id
      /\ E \subseteq DOMAIN es /\ {es[i].id : i \in E} = I
      /\ \A i \in DOMAIN es \ E : id \notin {es[i].source_node_id, es[i].target_node_id}
      /\ L \subseteq DOMAIN o.link_mappings
      /\ \A i \in DOMAIN o.link_mappings \ L : o.link_mappings[i].edge_type_id \notin I
      /\ X \subseteq DOMAIN o.indexes
      /\ \A i \in DOMAIN o.indexes \ X : o.indexes[i].node_id # id
      /\ O \subseteq DOMAIN o.object_mappings
      /\ \A i \in DOMAIN o.object_mappings \ O : o.object_mappings[i].node_type_id # id
  BY DEF At, IncidentEdges, IncidentIds, LinksOf, IndexesOf, ObjectsOf
<1> HIDE DEF w, A, E, I, L, X, O
<1>3. /\ LeftOf(w.node_types, ns, A) /\ LeftOf(w.edge_types, es, E)
      /\ LeftOf(w.link_mappings, o.link_mappings, L) /\ LeftOf(w.indexes, o.indexes, X)
      /\ LeftOf(w.object_mappings, o.object_mappings, O)
  BY <1>0, <1>1, <1>2, LeftOut
<1>4. \A x \in Ids(ns) : x # id => x \in Ids(w.node_types) /\ Find(w.node_types, x) = Find(ns, x)
  BY <1>2, <1>3 DEF LeftOf
<1>5. \A x \in Ids(es) : x \notin I => x \in Ids(w.edge_types)
  BY <1>2, <1>3 DEF LeftOf
<1>6. /\ ValidNodes(o) /\ ValidEdges(o) /\ ValidIndexes(o) /\ ValidObjectMappings(o)
      /\ ValidLinkMappings(o)
  BY DEF Sound, validate
<1>7. ValidNodes(w)
  <2>1. Injects(w.node_types, ns) /\ ToSet(w.node_types) \subseteq ToSet(ns)
    BY <1>3 DEF LeftOf
  <2> QED
    BY <1>6, <2>1, InjectsKeys DEF ValidNodes
<1>8. ValidEdges(w)
  <2>1. /\ Injects(w.edge_types, es) /\ ToSet(w.edge_types) \subseteq ToSet(es)
        /\ \A e \in ToSet(w.edge_types) : id \notin {e.source_node_id, e.target_node_id}
    BY <1>2, <1>3 DEF LeftOf
  <2>2. \A e \in ToSet(w.edge_types) : {e.source_node_id, e.target_node_id} \subseteq Ids(w.node_types)
    BY <1>4, <1>6, <2>1 DEF ValidEdges
  <2>3. Distinct(w.edge_types, LAMBDA e : <<e.label, e.source_node_id, e.target_node_id>>)
    BY <1>6, <2>1, InjectsKeys DEF ValidEdges
  <2> QED
    BY <1>6, <2>1, <2>2, <2>3 DEF ValidEdges
<1>9. ValidIndexes(w)
  <2>1. \A x \in ToSet(w.indexes) : x \in ToSet(o.indexes) /\ x.node_id # id
    BY <1>2, <1>3 DEF LeftOf
  <2> QED
    BY <1>4, <1>6, <2>1 DEF ValidIndexes, validate_index_target
<1>10. ValidObjectMappings(w)
  <2>1. \A x \in ToSet(w.object_mappings) : x \in ToSet(o.object_mappings) /\ x.node_type_id # id
    BY <1>2, <1>3 DEF LeftOf
  <2> QED
    BY <1>4, <1>6, <2>1 DEF ValidObjectMappings
<1>11. ValidLinkMappings(w)
  <2>1. \A x \in ToSet(w.link_mappings) : x \in ToSet(o.link_mappings) /\ x.edge_type_id \notin I
    BY <1>2, <1>3 DEF LeftOf
  <2> QED
    BY <1>5, <1>6, <2>1 DEF ValidLinkMappings
<1> QED
  BY <1>7, <1>8, <1>9, <1>10, <1>11 DEF NothingDangles, w

LEMMA EdgeDeletionComplete ==
    ASSUME NEW o, Sound(o), NEW id
    PROVE  NothingDangles(WithoutEdge(o, id))
<1> DEFINE w == WithoutEdge(o, id)
           es == o.edge_types
           A == At(es, id)
           L == LinksOf(o, {id})
<1>0. /\ o \in Ontology /\ es \in Seq(EdgeType) /\ o.link_mappings \in Seq(LinkMapping)
      /\ DistinctIds(es) /\ DistinctIds(o.link_mappings)
  BY SoundIds, OntologyLists
<1>1. /\ w.node_types = o.node_types /\ w.edge_types = Left(es, A)
      /\ w.link_mappings = Left(o.link_mappings, L)
      /\ w.indexes = o.indexes /\ w.object_mappings = o.object_mappings
  BY <1>0 DEF WithoutEdge, Ontology
<1>2. /\ A \subseteq DOMAIN es /\ \A i \in A : es[i].id = id
      /\ L \subseteq DOMAIN o.link_mappings
      /\ \A i \in DOMAIN o.link_mappings \ L : o.link_mappings[i].edge_type_id # id
  BY DEF At, LinksOf
<1> HIDE DEF w, A, L
<1>3. LeftOf(w.edge_types, es, A) /\ LeftOf(w.link_mappings, o.link_mappings, L)
  BY <1>0, <1>1, <1>2, LeftOut
<1>4. /\ ValidNodes(o) /\ ValidEdges(o) /\ ValidIndexes(o) /\ ValidObjectMappings(o)
      /\ ValidLinkMappings(o)
  BY DEF Sound, validate
<1>5. ValidNodes(w) /\ ValidIndexes(w) /\ ValidObjectMappings(w)
  BY <1>1, <1>4 DEF ValidNodes, ValidIndexes, ValidObjectMappings, validate_index_target
<1>6. ValidEdges(w)
  <2>1. Injects(w.edge_types, es) /\ ToSet(w.edge_types) \subseteq ToSet(es)
    BY <1>3 DEF LeftOf
  <2>2. Distinct(w.edge_types, LAMBDA e : <<e.label, e.source_node_id, e.target_node_id>>)
    BY <1>4, <2>1, InjectsKeys DEF ValidEdges
  <2> QED
    BY <1>1, <1>4, <2>1, <2>2 DEF ValidEdges
<1>7. ValidLinkMappings(w)
  BY <1>2, <1>3, <1>4 DEF ValidLinkMappings, LeftOf
<1> QED
  BY <1>5, <1>6, <1>7 DEF NothingDangles, w

LEMMA EdgePropertyDeletionComplete ==
    ASSUME NEW o, Sound(o), NEW k \in DOMAIN o.edge_types, NEW pid
    PROVE  NothingDangles(WithoutEdgeProperty(o, k, pid))
<1> DEFINE w == WithoutEdgeProperty(o, k, pid)
           es == o.edge_types
           e == es[k]
           f == [e EXCEPT !.properties = Left(e.properties, At(e.properties, pid))]
<1>0. o \in Ontology /\ es \in Seq(EdgeType) /\ e \in EdgeType /\ e.properties \in Seq(Property)
  BY SoundIds, OntologyLists, EntryFacts
<1>1. /\ w.node_types = o.node_types /\ w.edge_types = [es EXCEPT ![k] = f]
      /\ w.link_mappings = o.link_mappings
      /\ w.indexes = o.indexes /\ w.object_mappings = o.object_mappings
  BY <1>0 DEF WithoutEdgeProperty, WithEdge, Ontology
<1>2. /\ ValidNodes(o) /\ ValidEdges(o) /\ ValidIndexes(o) /\ ValidObjectMappings(o)
      /\ ValidLinkMappings(o)
  BY DEF Sound, validate
<1>3. /\ f.properties = Left(e.properties, At(e.properties, pid))
      /\ f.id = e.id /\ f.label = e.label /\ f.source_node_id = e.source_node_id
      /\ f.target_node_id = e.target_node_id /\ f.kind = e.kind /\ f.cardinality = e.cardinality
  BY <1>0 DEF EdgeType
<1> HIDE DEF w, f
<1>4. /\ DOMAIN w.edge_types = DOMAIN es
      /\ \A i \in DOMAIN es : w.edge_types[i] = IF i = k THEN f ELSE es[i]
  BY <1>0, <1>1
<1>5. ValidNodes(w) /\ ValidIndexes(w) /\ ValidObjectMappings(w)
  BY <1>1, <1>2 DEF ValidNodes, ValidIndexes, ValidObjectMappings, validate_index_target
<1>6. Ids(w.edge_types) = Ids(es)
  BY <1>3, <1>4 DEF Ids
<1>7. ValidEdges(w)
  <2>1. validate_property_defs(f.properties)
    BY <1>0, <1>2, <1>3, FewerProperties DEF ValidEdges, ToSet
  <2>2. Distinct(w.edge_types, LAMBDA x : <<x.label, x.source_node_id, x.target_node_id>>)
    BY <1>2, <1>3, <1>4 DEF ValidEdges, Distinct
  <2>3. \A x \in ToSet(w.edge_types) :
          /\ validate_property_defs(x.properties)
          /\ {x.source_node_id, x.target_node_id} \subseteq Ids(o.node_types)
          /\ x.kind = "composition" => x.cardinality \in {"one_to_one", "one_to_many"}
    <3> SUFFICES ASSUME NEW i \in DOMAIN es
                 PROVE  LET x == w.edge_types[i]
                        IN  /\ validate_property_defs(x.properties)
                            /\ {x.source_node_id, x.target_node_id} \subseteq Ids(o.node_types)
                            /\ x.kind = "composition" => x.cardinality \in {"one_to_one", "one_to_many"}
      BY <1>4 DEF ToSet
    <3>1. /\ validate_property_defs(es[i].properties)
          /\ {es[i].source_node_id, es[i].target_node_id} \subseteq Ids(o.node_types)
          /\ es[i].kind = "composition" => es[i].cardinality \in {"one_to_one", "one_to_many"}
      BY <1>2 DEF ValidEdges, ToSet
    <3>2. CASE i = k
      BY <1>3, <1>4, <2>1, <3>1, <3>2
    <3>3. CASE i # k
      BY <1>4, <3>1, <3>3
    <3> QED
      BY <3>2, <3>3
  <2> QED
    BY <1>1, <2>2, <2>3 DEF ValidEdges
<1>8. ValidLinkMappings(w)
  BY <1>1, <1>2, <1>6 DEF ValidLinkMappings
<1> QED
  BY <1>5, <1>7, <1>8 DEF NothingDangles, w

LEMMA FoundRewritten ==
    ASSUME NEW S, NEW s \in Seq(S), DistinctIds(s), NEW k \in DOMAIN s, NEW e \in S,
           e.id = s[k].id, NEW t, t = [s EXCEPT ![k] = e]
    PROVE  /\ t \in Seq(S) /\ DOMAIN t = DOMAIN s /\ Ids(t) = Ids(s) /\ DistinctIds(t)
           /\ t[k] = e /\ \A i \in DOMAIN s : i # k => t[i] = s[i]
           /\ Find(t, s[k].id) = e
           /\ \A x \in Ids(s) : x # s[k].id => Find(t, x) = Find(s, x)
<1>1. /\ t \in Seq(S) /\ DOMAIN t = DOMAIN s /\ t[k] = e
      /\ \A i \in DOMAIN s : i # k => t[i] = s[i]
  BY ListFacts
<1>2. \A i \in DOMAIN s : t[i].id = s[i].id
  BY <1>1
<1>3. Ids(t) = Ids(s) /\ DistinctIds(t)
  BY <1>1, <1>2 DEF Ids, DistinctIds
<1>4. \A i \in DOMAIN t : Find(t, t[i].id) = t[i]
  BY <1>1, <1>3, FoundAt
<1>5. \A i \in DOMAIN s : Find(s, s[i].id) = s[i]
  BY FoundAt
<1>6. \A x \in Ids(s) : x # s[k].id => Find(t, x) = Find(s, x)
  <2> SUFFICES ASSUME NEW i \in DOMAIN s, s[i].id # s[k].id
               PROVE  Find(t, s[i].id) = Find(s, s[i].id)
    BY DEF Ids
  <2>1. i # k /\ t[i] = s[i]
    BY <1>1
  <2> QED
    BY <1>1, <1>4, <1>5, <2>1
<1>7. Find(t, s[k].id) = e
  BY <1>1, <1>2, <1>4
<1> QED
  BY <1>1, <1>3, <1>6, <1>7

\* The node after its property went: what does not mention it stays valid.
LEMMA NodeWithoutFacts ==
    ASSUME NEW n \in NodeType, DistinctIds(n.properties), DistinctIds(n.constraints), NEW pid,
           NEW m, m = NodeWithout(n, pid)
    PROVE  /\ m \in NodeType /\ m.id = n.id /\ m.label = n.label /\ m.description = n.description
           /\ LeftOf(m.properties, n.properties, At(n.properties, pid))
           /\ LeftOf(m.constraints, n.constraints, Using(n.constraints, pid))
           /\ \A x \in Ids(n.properties) :
                 x = pid \/ (x \in Ids(m.properties) /\ Find(m.properties, x) = Find(n.properties, x))
           /\ \A c \in ToSet(m.constraints) :
                 c \in ToSet(n.constraints) /\ pid \notin ToSet(c.property_ids)
<1> DEFINE A == At(n.properties, pid)
           U == Using(n.constraints, pid)
<1>0. n.properties \in Seq(Property) /\ n.constraints \in Seq(ConstraintDef)
  BY DEF NodeType
<1>1. /\ m.id = n.id /\ m.label = n.label /\ m.description = n.description
      /\ m.properties = Left(n.properties, A) /\ m.constraints = Left(n.constraints, U)
  BY DEF NodeWithout, NodeType
<1>2. /\ A \subseteq DOMAIN n.properties /\ \A i \in A : n.properties[i].id = pid
      /\ U \subseteq DOMAIN n.constraints
      /\ \A i \in DOMAIN n.constraints \ U : pid \notin ToSet(n.constraints[i].property_ids)
  BY DEF At, Using
<1>3. Left(n.properties, A) \in Seq(Property) /\ Left(n.constraints, U) \in Seq(ConstraintDef)
  BY <1>0, LeftEntries
<1>4. m \in NodeType
  BY <1>3 DEF NodeWithout, NodeType
<1> HIDE DEF A, U
<1>5. LeftOf(m.properties, n.properties, A) /\ LeftOf(m.constraints, n.constraints, U)
  BY <1>0, <1>1, <1>2, LeftOut
<1>6. \A x \in Ids(n.properties) :
         x = pid \/ (x \in Ids(m.properties) /\ Find(m.properties, x) = Find(n.properties, x))
  BY <1>2, <1>5 DEF LeftOf
<1>7. \A c \in ToSet(m.constraints) :
         c \in ToSet(n.constraints) /\ pid \notin ToSet(c.property_ids)
  BY <1>2, <1>5 DEF LeftOf
<1> QED
  BY <1>1, <1>4, <1>5, <1>6, <1>7 DEF A, U

\* The entries of a mapping for the other properties.
LEMMA UnmapFacts ==
    ASSUME NEW m \in ObjectMapping, NEW pid
    PROVE  /\ Unmap(m, pid) \in ObjectMapping
           /\ Unmap(m, pid).id = m.id /\ Unmap(m, pid).node_type_id = m.node_type_id
           /\ Unmap(m, pid).relation = m.relation
           /\ ToSet(Unmap(m, pid).property_mappings) = ToSet(m.property_mappings) \ {pid}
           /\ Distinct(m.property_mappings, LAMBDA p : p)
              => Distinct(Unmap(m, pid).property_mappings, LAMBDA p : p)
<1> DEFINE ps == m.property_mappings
           K == {i \in DOMAIN ps : ps[i] # pid}
           qs == Picked(ps, K)
<1>0. ps \in Seq(PropertyId) /\ K \subseteq DOMAIN ps
  BY DEF ObjectMapping
<1>1. Unmap(m, pid) = [m EXCEPT !.property_mappings = qs]
  BY Zenon DEF Unmap, Retain
<1>2. qs \in Seq(PropertyId) /\ ToSet(qs) = {ps[i] : i \in K}
  BY <1>0, PickedList
<1>3. Picks(qs, ps, K)
  BY <1>0, PickedPicks
<1>4. Injects(qs, ps)
  BY <1>0, <1>3, PicksInject
<1>5. ToSet(qs) = ToSet(ps) \ {pid}
  BY <1>2 DEF ToSet
<1> HIDE DEF qs
<1>6. Distinct(ps, LAMBDA p : p) => Distinct(qs, LAMBDA p : p)
  BY <1>4, InjectsKeys
<1> QED
  BY <1>1, <1>2, <1>5, <1>6 DEF ObjectMapping

LEMMA NodePropertyDeletionComplete ==
    ASSUME NEW o, Sound(o), NEW k \in DOMAIN o.node_types, NEW pid
    PROVE  NothingDangles(WithoutNodeProperty(o, k, pid))
<1> DEFINE w == WithoutNodeProperty(o, k, pid)
           ns == o.node_types
           d == ns[k]
           m == NodeWithout(d, pid)
           X == IndexUses(o, d.id, pid)
           O == ObjectUses(o, d.id, pid)
<1>0. /\ o \in Ontology /\ ns \in Seq(NodeType) /\ d \in NodeType /\ DistinctIds(ns)
      /\ DistinctIds(d.properties) /\ DistinctIds(d.constraints)
      /\ o.indexes \in Seq(IndexDef) /\ DistinctIds(o.indexes)
      /\ o.object_mappings \in Seq(ObjectMapping)
  BY SoundIds, OntologyLists, EntryFacts
<1>1. /\ w.node_types = [ns EXCEPT ![k] = m] /\ w.edge_types = o.edge_types
      /\ w.indexes = Left(o.indexes, X) /\ w.object_mappings = Unmapped(o, d.id, pid)
      /\ w.link_mappings = o.link_mappings
  BY <1>0 DEF WithoutNodeProperty, Ontology
<1>2. /\ X \subseteq DOMAIN o.indexes
      /\ \A i \in DOMAIN o.indexes \ X :
            o.indexes[i].node_id # d.id \/ pid \notin ToSet(o.indexes[i].property_ids)
      /\ \A i \in DOMAIN o.object_mappings \ O :
            \/ o.object_mappings[i].node_type_id # d.id
            \/ pid \notin ToSet(o.object_mappings[i].property_mappings)
  BY DEF IndexUses, ObjectUses
<1>3. /\ DOMAIN Unmapped(o, d.id, pid) = DOMAIN o.object_mappings
      /\ \A i \in DOMAIN o.object_mappings :
            Unmapped(o, d.id, pid)[i] = IF i \in O THEN Unmap(o.object_mappings[i], pid)
                                        ELSE o.object_mappings[i]
  BY DEF Unmapped
<1>m. m = NodeWithout(d, pid) /\ d = ns[k]
  OBVIOUS
<1> HIDE DEF w, m, X, O, d
<1>4. /\ m \in NodeType /\ m.id = d.id /\ m.label = d.label
      /\ LeftOf(m.properties, d.properties, At(d.properties, pid))
      /\ \A x \in Ids(d.properties) :
            x = pid \/ (x \in Ids(m.properties) /\ Find(m.properties, x) = Find(d.properties, x))
      /\ \A c \in ToSet(m.constraints) :
            c \in ToSet(d.constraints) /\ pid \notin ToSet(c.property_ids)
  <2>1. d \in NodeType /\ DistinctIds(d.properties) /\ DistinctIds(d.constraints)
    BY <1>0
  <2>2. m = NodeWithout(d, pid)
    BY <1>m
  <2> QED
    BY <2>1, <2>2, NodeWithoutFacts
<1>5. /\ DOMAIN w.node_types = DOMAIN ns /\ Ids(w.node_types) = Ids(ns)
      /\ w.node_types[k] = m /\ \A i \in DOMAIN ns : i # k => w.node_types[i] = ns[i]
      /\ Find(w.node_types, d.id) = m
      /\ \A x \in Ids(ns) : x # d.id => Find(w.node_types, x) = Find(ns, x)
  <2>1. m \in NodeType /\ m.id = ns[k].id /\ w.node_types = [ns EXCEPT ![k] = m]
    BY <1>1, <1>4, <1>m
  <2> QED
    BY SMTT(60), <1>0, <1>m, <2>1, FoundRewritten
<1>6. /\ ValidNodes(o) /\ ValidEdges(o) /\ ValidIndexes(o) /\ ValidObjectMappings(o)
      /\ ValidLinkMappings(o)
  BY DEF Sound, validate
<1>7. Find(ns, d.id) = d
  BY <1>0, <1>m, FoundAt
<1>8. \A x \in Ids(ns) : \A y \in Ids(Find(ns, x).properties) :
         (x = d.id /\ y = pid) \/ y \in Ids(Find(w.node_types, x).properties)
  BY <1>4, <1>5, <1>7
<1>9. ValidNodes(w)
  <2>1. Distinct(w.node_types, LAMBDA x : x.id) /\ Distinct(w.node_types, LAMBDA x : x.label)
    BY <1>4, <1>5, <1>6, <1>m DEF ValidNodes, Distinct
  <2>2. \A i \in DOMAIN ns : /\ validate_property_defs(ns[i].properties)
                             /\ \A c \in ToSet(ns[i].constraints) :
                                   validate_constraint_fields(ns[i], c)
    BY <1>6 DEF ValidNodes, ToSet
  <2>3. validate_property_defs(m.properties)
    <3>1. Injects(m.properties, d.properties)
      BY <1>4 DEF LeftOf
    <3>2. validate_property_defs(d.properties)
      BY <1>m, <2>2
    <3> QED
      BY <3>1, <3>2, InjectsKeys DEF validate_property_defs
  <2>4. \A c \in ToSet(m.constraints) : validate_constraint_fields(m, c)
    BY ZenonT(60), <1>4, <1>m, <2>2 DEF validate_constraint_fields
  <2>5. \A i \in DOMAIN ns : /\ validate_property_defs(w.node_types[i].properties)
                             /\ \A c \in ToSet(w.node_types[i].constraints) :
                                   validate_constraint_fields(w.node_types[i], c)
    BY <1>5, <2>2, <2>3, <2>4
  <2>6. \A x \in ToSet(w.node_types) : /\ validate_property_defs(x.properties)
                                      /\ \A c \in ToSet(x.constraints) :
                                            validate_constraint_fields(x, c)
    <3> SUFFICES ASSUME NEW i \in DOMAIN ns
                 PROVE  LET x == w.node_types[i]
                        IN  /\ validate_property_defs(x.properties)
                            /\ \A c \in ToSet(x.constraints) : validate_constraint_fields(x, c)
      BY <1>5 DEF ToSet
    <3> QED
      BY <2>5
  <2> QED
    BY <2>1, <2>6 DEF ValidNodes
<1>10. ValidEdges(w) /\ ValidLinkMappings(w)
  BY <1>1, <1>5, <1>6 DEF ValidEdges, ValidLinkMappings
<1>11. ValidIndexes(w)
  <2>1. LeftOf(w.indexes, o.indexes, X)
    BY <1>0, <1>1, <1>2, LeftOut
  <2>2. \A x \in ToSet(w.indexes) :
           /\ x \in ToSet(o.indexes)
           /\ x.node_id # d.id \/ pid \notin ToSet(x.property_ids)
    BY <1>2, <2>1 DEF LeftOf
  <2> QED
    BY <1>5, <1>6, <1>8, <2>2 DEF ValidIndexes, validate_index_target
<1>12. ValidObjectMappings(w)
  <2> SUFFICES ASSUME NEW i \in DOMAIN o.object_mappings
               PROVE  LET x == w.object_mappings[i]
                      IN  /\ x.node_type_id \in Ids(w.node_types)
                          /\ Distinct(x.property_mappings, LAMBDA p : p)
                          /\ ToSet(x.property_mappings) \subseteq
                                 Ids(Find(w.node_types, x.node_type_id).properties)
    BY <1>1, <1>3 DEF ValidObjectMappings, ToSet
  <2> DEFINE y == o.object_mappings[i]
             x == w.object_mappings[i]
  <2>1. y \in ObjectMapping
    BY <1>0, ListFacts
  <2>2. /\ y.node_type_id \in Ids(ns) /\ Distinct(y.property_mappings, LAMBDA p : p)
        /\ ToSet(y.property_mappings) \subseteq Ids(Find(ns, y.node_type_id).properties)
    BY <1>6 DEF ValidObjectMappings, ToSet
  <2>3. x = IF i \in O THEN Unmap(y, pid) ELSE y
    BY <1>1, <1>3
  <2> HIDE DEF x, y
  <2>4. /\ x.node_type_id = y.node_type_id /\ Distinct(x.property_mappings, LAMBDA p : p)
        /\ ToSet(x.property_mappings) \subseteq ToSet(y.property_mappings)
        /\ i \in O => pid \notin ToSet(x.property_mappings)
    BY ZenonT(60), <2>1, <2>2, <2>3, UnmapFacts
  <2>5. i \notin O => y.node_type_id # d.id \/ pid \notin ToSet(y.property_mappings)
    BY <1>2 DEF y
  <2>6. i \notin O => x = y
    BY <2>3
  <2>7. y.node_type_id # d.id \/ pid \notin ToSet(x.property_mappings)
    BY <2>4, <2>5, <2>6
  <2>8. ToSet(x.property_mappings) \subseteq Ids(Find(w.node_types, x.node_type_id).properties)
    BY <1>8, <2>2, <2>4, <2>7
  <2> QED
    BY <1>5, <2>2, <2>4, <2>8 DEF x
<1> QED
  BY <1>9, <1>10, <1>11, <1>12 DEF NothingDangles, w

\* A command issued by itself that is not refused, whether its result is valid
\* or not.
LEMMA InnerOne ==
    ASSUME NEW o, NEW c, execute_inner(o, <<c>>).ok
    PROVE  ExecuteOne(o, c).ok /\ execute_inner(o, <<c>>).ont = ExecuteOne(o, c).ont
<1>1. execute_inner(o, <<c>>) = Then(Ok(o, <<>>), ExecuteOne(o, c))
  BY RunOfOne
<1>2. ExecuteOne(o, c).ok
  BY <1>1 DEF Then, When, Err
<1> QED
  BY <1>1, <1>2 DEF Then, When, Ok

LEMMA WhenOk ==
    ASSUME NEW cond, NEW new, NEW inverse, NEW r, r = When(cond, Ok(new, inverse)), r.ok
    PROVE  cond /\ r.ont = new /\ r.inverse = inverse
  BY DEF When, Ok, Err

LEMMA DeletionComplete ==
    ASSUME NEW o, Sound(o), NEW c \in Command,
           c.op \in {"delete_node", "delete_edge", "delete_property"}, ExecuteOne(o, c).ok
    PROVE  NothingDangles(ExecuteOne(o, c).ont)
<1>0. o \in Ontology
  BY SoundIds
<1>1. CASE c.op = "delete_node"
  <2>1. ExecuteOne(o, c) = DeleteNode(o, c)
    BY <1>1, Zenon DEF ExecuteOne
  <2>2. ExecuteOne(o, c).ont = WithoutNode(o, c.node_id)
    BY <1>0, <2>1, NodeDeletion, WhenOk
  <2> QED
    BY <2>2, NodeDeletionComplete
<1>2. CASE c.op = "delete_edge"
  <2>1. ExecuteOne(o, c) = DeleteEdge(o, c)
    BY <1>2, Zenon DEF ExecuteOne
  <2>2. ExecuteOne(o, c).ont = WithoutEdge(o, c.edge_id)
    BY <1>0, <2>1, EdgeDeletion, WhenOk
  <2> QED
    BY <2>2, EdgeDeletionComplete
<1>3. CASE c.op = "delete_property"
  <2>1. ExecuteOne(o, c) = DeleteProperty(o, c)
    BY <1>3, Zenon DEF ExecuteOne
  <2>2. c.owner \in Owner
    BY <1>3, CommandKinds DEF PropertyCommand, PropertyOps
  <2>3. OwnerExists(o, c.owner)
    <3>1. \E p, r : DeleteProperty(o, c) = When(OwnerExists(o, c.owner) /\ p, r)
      BY Zenon DEF DeleteProperty
    <3> QED
      BY <2>1, <3>1 DEF When, Err
  <2>4. CASE c.owner.kind = "node" /\ \E k \in DOMAIN o.node_types :
                                         o.node_types[k].id = c.owner.type_id
    <3>1. PICK k \in DOMAIN o.node_types : o.node_types[k].id = c.owner.type_id
      BY <2>4
    <3>2. ExecuteOne(o, c).ont = WithoutNodeProperty(o, k, c.property_id)
      BY <2>1, <2>2, <2>4, <3>1, NodePropertyDeletion, WhenOk
    <3> QED
      BY <3>2, NodePropertyDeletionComplete
  <2>5. CASE c.owner.kind # "node" /\ \E k \in DOMAIN o.edge_types :
                                         o.edge_types[k].id = c.owner.type_id
    <3>1. PICK k \in DOMAIN o.edge_types : o.edge_types[k].id = c.owner.type_id
      BY <2>5
    <3>2. ExecuteOne(o, c).ont = WithoutEdgeProperty(o, k, c.property_id)
      BY <2>1, <2>2, <2>5, <3>1, EdgePropertyDeletion, WhenOk
    <3> QED
      BY <3>2, EdgePropertyDeletionComplete
  <2> QED
    BY <2>3, <2>4, <2>5, OwnerPlace
<1> QED
  BY <1>1, <1>2, <1>3

\* The cascades of DeleteNode, DeleteEdge and DeleteProperty are complete: in
\* every ontology an editor can reach, for every command, no edge, mapping,
\* index or constraint is left that refers to what was deleted.
THEOREM EditorCascadesAreComplete == EditorSpec => []CascadesAreComplete
<1>1. EditorInv => CascadesAreComplete
  <2> SUFFICES ASSUME EditorInv, NEW c \in Deletes, execute_inner(ontology, <<c>>).ok
               PROVE  NothingDangles(execute_inner(ontology, <<c>>).ont)
    BY DEF CascadesAreComplete
  <2>1. c \in Command
    BY IssuedCommand DEF Deletes
  <2>2. c.op \in {"delete_node", "delete_edge", "delete_property"}
    BY DEF Deletes
  <2>3. /\ ExecuteOne(ontology, c).ok
        /\ execute_inner(ontology, <<c>>).ont = ExecuteOne(ontology, c).ont
    BY InnerOne
  <2> QED
    BY <2>1, <2>2, <2>3, DeletionComplete DEF EditorInv
<1> QED
  BY <1>1, EditorKeepsSound, PTL

-----------------------------------------------------------------------------
(* Retraction.                                                              *)

\* The ontologies an accepted batch goes through.
PassesThrough(a, o, n, cmds, b) ==
    /\ a[0] = o /\ a[n] = b
    /\ \A k \in 1..n : /\ ExecuteOne(a[k - 1], cmds[k]).ok
                       /\ a[k] = ExecuteOne(a[k - 1], cmds[k]).ont

LEMMA AcceptedRun ==
    ASSUME NEW o, NEW n \in Nat, NEW cmds, DOMAIN cmds = 1..n, execute_inner(o, cmds).ok
    PROVE  \E a : PassesThrough(a, o, n, cmds, execute_inner(o, cmds).ont)
<1>0. PICK g : ServerRuns(g, o, n, cmds)
  BY BatchRuns
<1>1. /\ g[0] = Ok(o, <<>>) /\ g[n] = execute_inner(o, cmds)
      /\ \A k \in 1..n : g[k] = IF g[k - 1].ok
                                THEN Then(g[k - 1], ExecuteOne(g[k - 1].ont, cmds[k]))
                                ELSE g[k - 1]
  BY <1>0 DEF ServerRuns
<1>2. ASSUME NEW k \in 0..n, ~g[k].ok PROVE FALSE
  <2> DEFINE T == {j \in Nat : j >= k /\ j <= n => ~g[j].ok}
  <2>1. 0 \in T
    BY <1>2
  <2>2. \A j \in Nat : j < n /\ j \in T => j + 1 \in T
    <3> SUFFICES ASSUME NEW j \in Nat, j < n, j \in T, j + 1 >= k
                 PROVE  ~g[j + 1].ok
      OBVIOUS
    <3>1. CASE j >= k
      <4>1. ~g[j].ok
        BY <3>1
      <4>2. j + 1 \in 1..n /\ (j + 1) - 1 = j
        OBVIOUS
      <4> QED
        BY <1>1, <4>1, <4>2
    <3>2. CASE j + 1 = k
      BY <1>2, <3>2
    <3> QED
      BY <3>1, <3>2
  <2> HIDE DEF T
  <2>3. n \in T
    <3>1. n \in 0..n /\ \A j \in 0..n : j \in T
      BY <2>1, <2>2, Upto
    <3> QED
      BY <3>1
  <2> QED
    BY <1>1, <2>3 DEF T
<1> DEFINE a == [k \in 0..n |-> g[k].ont]
<1>3. ASSUME NEW k \in 1..n
      PROVE  ExecuteOne(a[k - 1], cmds[k]).ok /\ a[k] = ExecuteOne(a[k - 1], cmds[k]).ont
  <2>1. k - 1 \in 0..n /\ k \in 0..n
    OBVIOUS
  <2> DEFINE r == ExecuteOne(g[k - 1].ont, cmds[k])
  <2>2. g[k] = Then(g[k - 1], r) /\ g[k].ok
    BY <1>1, <1>2, <2>1
  <2> HIDE DEF r
  <2>3. r.ok /\ g[k].ont = r.ont
    BY <2>2 DEF Then, When, Ok, Err
  <2> QED
    BY <2>1, <2>3 DEF r
<1>4. a[0] = o /\ a[n] = execute_inner(o, cmds).ont
  BY <1>1 DEF Ok
<1> HIDE DEF a
<1>5. PassesThrough(a, o, n, cmds, execute_inner(o, cmds).ont)
  BY <1>3, <1>4 DEF PassesThrough
<1> QED
  BY <1>5

LEMMA MappingGone ==
    ASSUME NEW o, NEW list, NEW S, o[list] \in Seq(S), list \in DOMAIN o, NEW c,
           DeleteMapping(o, list, c).ok
    PROVE  LET b == DeleteMapping(o, list, c).ont
           IN  /\ \A l \in DOMAIN o \ {list} : b[l] = o[l]
               /\ ToSet(b[list]) \subseteq ToSet(o[list])
               /\ c.id \notin Ids(b[list])
<1> DEFINE s == o[list]
           K == {i \in DOMAIN s : s[i].id # c.id}
<1>1. DeleteMapping(o, list, c) = When(c.id \in Ids(s),
          Ok([o EXCEPT ![list] = Picked(s, K)], <<CreateMappingCmd(list, Find(s, c.id))>>))
  BY Zenon DEF DeleteMapping, Retain
<1>2. DeleteMapping(o, list, c).ont = [o EXCEPT ![list] = Picked(s, K)]
  BY <1>1, WhenOk
<1>3. ToSet(Picked(s, K)) = {s[i] : i \in K}
  BY PickedList
<1>4. ToSet(Picked(s, K)) \subseteq ToSet(s)
  BY <1>3 DEF ToSet
<1>5. c.id \notin Ids(Picked(s, K))
  BY <1>3, IdsOfSet
<1> QED
  BY <1>2, <1>4, <1>5

RetractOps == {"delete_object_mapping", "delete_link_mapping", "delete_node", "delete_edge"}

\* What one command of a retraction does.
LEMMA RetractStep ==
    ASSUME NEW o \in Ontology, NEW c \in Command, c.op \in RetractOps, ExecuteOne(o, c).ok
    PROVE  LET b == ExecuteOne(o, c).ont
           IN  /\ b \in Ontology
               /\ ToSet(b.object_mappings) \subseteq ToSet(o.object_mappings)
               /\ ToSet(b.link_mappings) \subseteq ToSet(o.link_mappings)
               /\ c.op = "delete_object_mapping" => c.id \notin Ids(b.object_mappings)
               /\ c.op = "delete_link_mapping" => c.id \notin Ids(b.link_mappings)
               /\ \A x \in Ids(o.node_types) :
                     x \in Ids(b.node_types) \/ (c.op = "delete_node" /\ c.node_id = x)
<1> DEFINE b == ExecuteOne(o, c).ont
<1>0. /\ o.node_types \in Seq(NodeType) /\ o.edge_types \in Seq(EdgeType)
      /\ o.object_mappings \in Seq(ObjectMapping) /\ o.link_mappings \in Seq(LinkMapping)
      /\ {"node_types", "object_mappings", "link_mappings"} \subseteq DOMAIN o
  BY OntologyLists DEF Ontology
<1>1. b \in Ontology
  BY OneTyped DEF Typed
<1>2. CASE c.op = "delete_object_mapping"
  <2>1. ExecuteOne(o, c) = DeleteMapping(o, "object_mappings", c)
    BY <1>2, Zenon DEF ExecuteOne
  <2>2. /\ \A l \in DOMAIN o \ {"object_mappings"} : b[l] = o[l]
        /\ ToSet(b["object_mappings"]) \subseteq ToSet(o["object_mappings"])
        /\ c.id \notin Ids(b["object_mappings"])
    BY <1>0, <2>1, MappingGone
  <2> QED
    BY <1>0, <1>1, <1>2, <2>2
<1>3. CASE c.op = "delete_link_mapping"
  <2>1. ExecuteOne(o, c) = DeleteMapping(o, "link_mappings", c)
    BY <1>3, Zenon DEF ExecuteOne
  <2>2. /\ \A l \in DOMAIN o \ {"link_mappings"} : b[l] = o[l]
        /\ ToSet(b["link_mappings"]) \subseteq ToSet(o["link_mappings"])
        /\ c.id \notin Ids(b["link_mappings"])
    BY <1>0, <2>1, MappingGone
  <2> QED
    BY <1>0, <1>1, <1>3, <2>2
<1>4. CASE c.op = "delete_node"
  <2>1. ExecuteOne(o, c) = DeleteNode(o, c)
    BY <1>4, Zenon DEF ExecuteOne
  <2>2. b = WithoutNode(o, c.node_id)
    BY <2>1, NodeDeletion, WhenOk
  <2> DEFINE A == At(o.node_types, c.node_id)
             O == ObjectsOf(o, c.node_id)
             L == LinksOf(o, IncidentIds(o, c.node_id))
  <2>3. /\ b.node_types = Left(o.node_types, A)
        /\ b.object_mappings = Left(o.object_mappings, O)
        /\ b.link_mappings = Left(o.link_mappings, L)
    BY <2>2 DEF WithoutNode, Ontology
  <2>4. \A i \in A : o.node_types[i].id = c.node_id
    BY DEF At
  <2> HIDE DEF A, O, L, b
  <2>5. /\ ToSet(b.object_mappings) \subseteq ToSet(o.object_mappings)
        /\ ToSet(b.link_mappings) \subseteq ToSet(o.link_mappings)
    BY <1>0, <2>3, LeftIds
  <2>6. ToSet(b.node_types) = {o.node_types[i] : i \in DOMAIN o.node_types \ A}
    BY <1>0, <2>3, LeftEntries
  <2>7. \A x \in Ids(o.node_types) : x \in Ids(b.node_types) \/ c.node_id = x
    <3> SUFFICES ASSUME NEW i \in DOMAIN o.node_types, o.node_types[i].id # c.node_id
                 PROVE  o.node_types[i].id \in Ids(b.node_types)
      BY DEF Ids
    <3>1. o.node_types[i] \in ToSet(b.node_types)
      BY <2>4, <2>6
    <3> QED
      BY <3>1, IdsOfSet
  <2> QED
    BY <1>1, <1>4, <2>5, <2>7 DEF b
<1>5. CASE c.op = "delete_edge"
  <2>1. ExecuteOne(o, c) = DeleteEdge(o, c)
    BY <1>5, Zenon DEF ExecuteOne
  <2>2. b = WithoutEdge(o, c.edge_id)
    BY <2>1, EdgeDeletion, WhenOk
  <2> DEFINE L == LinksOf(o, {c.edge_id})
  <2>3. /\ b.node_types = o.node_types
        /\ b.object_mappings = o.object_mappings
        /\ b.link_mappings = Left(o.link_mappings, L)
    BY <2>2 DEF WithoutEdge, Ontology
  <2> HIDE DEF L, b
  <2>4. ToSet(b.link_mappings) \subseteq ToSet(o.link_mappings)
    BY <1>0, <2>3, LeftIds
  <2> QED
    BY <1>1, <1>5, <2>3, <2>4 DEF b
<1> QED
  BY <1>2, <1>3, <1>4, <1>5 DEF RetractOps

\* What an accepted run of such commands does.
LEMMA RetractRun ==
    ASSUME NEW o \in Ontology, NEW cmds \in Seq(Command),
           \A c \in ToSet(cmds) : c.op \in RetractOps, execute_inner(o, cmds).ok
    PROVE  LET b == execute_inner(o, cmds).ont
           IN  /\ ToSet(b.object_mappings) \subseteq ToSet(o.object_mappings)
               /\ ToSet(b.link_mappings) \subseteq ToSet(o.link_mappings)
               /\ \A c \in ToSet(cmds) :
                     /\ c.op = "delete_object_mapping" => c.id \notin Ids(b.object_mappings)
                     /\ c.op = "delete_link_mapping" => c.id \notin Ids(b.link_mappings)
               /\ \A x \in Ids(o.node_types) :
                     \/ x \in Ids(b.node_types)
                     \/ \E c \in ToSet(cmds) : c.op = "delete_node" /\ c.node_id = x
<1> DEFINE n == Len(cmds)
<1>0. n \in Nat /\ DOMAIN cmds = 1..n /\ \A k \in DOMAIN cmds : cmds[k] \in Command
  BY ListFacts
<1>1. \A k \in DOMAIN cmds : cmds[k] \in ToSet(cmds) /\ cmds[k].op \in RetractOps
  BY DEF ToSet
<1> HIDE DEF n
<1>a. PICK a : PassesThrough(a, o, n, cmds, execute_inner(o, cmds).ont)
  BY <1>0, AcceptedRun
<1>2. /\ a[0] = o /\ a[n] = execute_inner(o, cmds).ont
      /\ \A k \in 1..n : /\ ExecuteOne(a[k - 1], cmds[k]).ok
                         /\ a[k] = ExecuteOne(a[k - 1], cmds[k]).ont
  BY <1>a DEF PassesThrough
<1> DEFINE P(k) ==
        /\ a[k] \in Ontology
        /\ ToSet(a[k].object_mappings) \subseteq ToSet(o.object_mappings)
        /\ ToSet(a[k].link_mappings) \subseteq ToSet(o.link_mappings)
        /\ \A j \in 1..k :
              /\ cmds[j].op = "delete_object_mapping" => cmds[j].id \notin Ids(a[k].object_mappings)
              /\ cmds[j].op = "delete_link_mapping" => cmds[j].id \notin Ids(a[k].link_mappings)
        /\ \A x \in Ids(o.node_types) :
              \/ x \in Ids(a[k].node_types)
              \/ \E j \in 1..k : cmds[j].op = "delete_node" /\ cmds[j].node_id = x
       T == {k \in Nat : k <= n => P(k)}
<1>3. P(0)
  BY <1>2
<1>4. ASSUME NEW k \in Nat, k < n, P(k) PROVE P(k + 1)
  <2>1. k + 1 \in 1..n /\ (k + 1) - 1 = k
    BY <1>0, <1>4
  <2> DEFINE c == cmds[k + 1]
             b == a[k + 1]
  <2>2. c \in Command /\ c.op \in RetractOps
    BY <1>0, <1>1, <2>1
  <2>3. ExecuteOne(a[k], c).ok /\ b = ExecuteOne(a[k], c).ont
    BY <1>2, <2>1
  <2>4. a[k] \in Ontology
    BY <1>4
  <2> HIDE DEF c, b
  <2>5. /\ b \in Ontology
        /\ ToSet(b.object_mappings) \subseteq ToSet(a[k].object_mappings)
        /\ ToSet(b.link_mappings) \subseteq ToSet(a[k].link_mappings)
        /\ c.op = "delete_object_mapping" => c.id \notin Ids(b.object_mappings)
        /\ c.op = "delete_link_mapping" => c.id \notin Ids(b.link_mappings)
        /\ \A x \in Ids(a[k].node_types) :
              x \in Ids(b.node_types) \/ (c.op = "delete_node" /\ c.node_id = x)
    BY ZenonT(60), <2>2, <2>3, <2>4, RetractStep
  <2>6. /\ Ids(b.object_mappings) \subseteq Ids(a[k].object_mappings)
        /\ Ids(b.link_mappings) \subseteq Ids(a[k].link_mappings)
    BY <2>5, IdsOfSet
  <2>7. \A j \in 1..(k + 1) : j \in 1..k \/ cmds[j] = c
    BY DEF c
  <2>8. \A j \in 1..(k + 1) :
           /\ cmds[j].op = "delete_object_mapping" => cmds[j].id \notin Ids(b.object_mappings)
           /\ cmds[j].op = "delete_link_mapping" => cmds[j].id \notin Ids(b.link_mappings)
    BY <1>4, <2>5, <2>6, <2>7
  <2>9. \A x \in Ids(o.node_types) :
           \/ x \in Ids(b.node_types)
           \/ \E j \in 1..(k + 1) : cmds[j].op = "delete_node" /\ cmds[j].node_id = x
    <3> TAKE x \in Ids(o.node_types)
    <3>1. CASE x \in Ids(a[k].node_types)
      BY <2>1, <2>5, <3>1 DEF c
    <3>2. CASE \E j \in 1..k : cmds[j].op = "delete_node" /\ cmds[j].node_id = x
      BY <3>2
    <3> QED
      BY <1>4, <3>1, <3>2
  <2>10. /\ ToSet(b.object_mappings) \subseteq ToSet(o.object_mappings)
         /\ ToSet(b.link_mappings) \subseteq ToSet(o.link_mappings)
    BY <1>4, <2>5
  <2> QED
    BY <2>5, <2>8, <2>9, <2>10 DEF b
<1>5. 0 \in T /\ \A k \in Nat : k < n /\ k \in T => k + 1 \in T
  BY <1>0, <1>3, <1>4
<1> HIDE DEF P
<1>6. P(n)
  <2> HIDE DEF T
  <2>1. n \in T
    BY SMTT(60), <1>0, <1>5, Upto
  <2> QED
    BY <1>0, <2>1 DEF T
<1>7. ToSet(cmds) = {cmds[j] : j \in 1..n}
  BY <1>0 DEF ToSet
<1> QED
  BY <1>2, <1>6, <1>7 DEF P

LEMMA JoinedSet ==
    ASSUME NEW S, NEW a \in Seq(S), NEW b \in Seq(S)
    PROVE  a \o b \in Seq(S) /\ ToSet(a \o b) = ToSet(a) \cup ToSet(b)
<1> DEFINE s == a \o b
<1>1. /\ s \in Seq(S)
      /\ \A i \in DOMAIN a : i \in DOMAIN s /\ s[i] = a[i]
      /\ \A i \in DOMAIN b : Len(a) + i \in DOMAIN s /\ s[Len(a) + i] = b[i]
      /\ \A i \in DOMAIN s : \/ i \in DOMAIN a /\ i <= Len(a)
                             \/ i - Len(a) \in DOMAIN b /\ i = Len(a) + (i - Len(a))
  BY JoinFacts
<1> HIDE DEF s
<1>2. ToSet(s) \subseteq ToSet(a) \cup ToSet(b)
  <2> SUFFICES ASSUME NEW i \in DOMAIN s PROVE s[i] \in ToSet(a) \cup ToSet(b)
    BY DEF ToSet
  <2>1. (i \in DOMAIN a /\ s[i] = a[i]) \/ (i - Len(a) \in DOMAIN b /\ s[i] = b[i - Len(a)])
    BY <1>1
  <2> QED
    BY <2>1 DEF ToSet
<1>3. ToSet(a) \cup ToSet(b) \subseteq ToSet(s)
  BY <1>1 DEF ToSet
<1> QED
  BY <1>1, <1>2, <1>3 DEF s

LEMMA RetractBatch ==
    ASSUME NEW o \in Ontology, NEW drop
    PROVE  LET cmds == build_retract_source_batch(o, drop)
           IN  /\ cmds \in Seq(Command) /\ \A c \in ToSet(cmds) : c.op \in RetractOps
               /\ \A m \in ToSet(o.object_mappings) :
                     m.relation \in drop => DeleteObjectMappingCmd(m.id) \in ToSet(cmds)
               /\ \A m \in ToSet(o.link_mappings) :
                     m.relations \cap drop # {} => DeleteLinkMappingCmd(m.id) \in ToSet(cmds)
               /\ \A c \in ToSet(cmds) : c.op = "delete_node" =>
                     \A m \in ToSet(o.object_mappings) :
                        m.node_type_id = c.node_id => m.relation \in drop
<1> DEFINE oms == o.object_mappings
           lms == o.link_mappings
           ns == o.node_types
           es == o.edge_types
           K1 == {i \in DOMAIN oms : oms[i].relation \in drop}
           K2 == {i \in DOMAIN lms : lms[i].relations \cap drop # {}}
           objs == Picked(oms, K1)
           links == Picked(lms, K2)
           K3 == {i \in DOMAIN ns :
                     /\ ns[i].id \in {m.node_type_id : m \in ToSet(objs)}
                     /\ \A m \in ToSet(oms) : m.node_type_id = ns[i].id => m \in ToSet(objs)}
           K4 == {i \in DOMAIN es :
                     /\ es[i].id \in {m.edge_type_id : m \in ToSet(links)}
                     /\ \A m \in ToSet(lms) : m.edge_type_id = es[i].id => m \in ToSet(links)}
           nodes == Picked(ns, K3)
           edges == Picked(es, K4)
           A == [i \in DOMAIN objs |-> DeleteObjectMappingCmd(objs[i].id)]
           B == [i \in DOMAIN links |-> DeleteLinkMappingCmd(links[i].id)]
           C == [i \in DOMAIN nodes |-> DeleteNodeCmd(nodes[i].id)]
           D == [i \in DOMAIN edges |-> DeleteEdgeCmd(edges[i].id)]
           cmds == build_retract_source_batch(o, drop)
<1>1. cmds = A \o B \o C \o D
  BY Zenon DEF build_retract_source_batch, Each, Retain
<1>2. /\ oms \in Seq(ObjectMapping) /\ lms \in Seq(LinkMapping)
      /\ ns \in Seq(NodeType) /\ es \in Seq(EdgeType)
  BY OntologyLists
<1>3. /\ objs \in Seq(ObjectMapping) /\ ToSet(objs) = {oms[i] : i \in K1}
      /\ links \in Seq(LinkMapping) /\ ToSet(links) = {lms[i] : i \in K2}
      /\ nodes \in Seq(NodeType) /\ ToSet(nodes) = {ns[i] : i \in K3}
      /\ edges \in Seq(EdgeType) /\ ToSet(edges) = {es[i] : i \in K4}
  <2>1. K1 \subseteq DOMAIN oms /\ K2 \subseteq DOMAIN lms /\ K3 \subseteq DOMAIN ns /\ K4 \subseteq DOMAIN es
    OBVIOUS
  <2> HIDE DEF K1, K2, K3, K4
  <2>2. objs \in Seq(ObjectMapping) /\ ToSet(objs) = {oms[i] : i \in K1}
    BY <1>2, <2>1, PickedList
  <2>3. links \in Seq(LinkMapping) /\ ToSet(links) = {lms[i] : i \in K2}
    BY SMTT(60), <1>2, <2>1, PickedList
  <2>4. nodes \in Seq(NodeType) /\ ToSet(nodes) = {ns[i] : i \in K3}
    BY <1>2, <2>1, PickedList
  <2>5. edges \in Seq(EdgeType) /\ ToSet(edges) = {es[i] : i \in K4}
    BY ZenonT(60), <1>2, <2>1, PickedList
  <2> QED
    BY <2>2, <2>3, <2>4, <2>5
<1>4. /\ \A m \in ToSet(objs) : m.relation \in drop
      /\ \A m \in ToSet(oms) : m.relation \in drop => m \in ToSet(objs)
      /\ \A m \in ToSet(lms) : m.relations \cap drop # {} => m \in ToSet(links)
  BY <1>3 DEF ToSet
<1>5. \A n \in ToSet(nodes) : \A m \in ToSet(oms) : m.node_type_id = n.id => m.relation \in drop
  <2> SUFFICES ASSUME NEW i \in K3, NEW m \in ToSet(oms), m.node_type_id = ns[i].id
               PROVE  m.relation \in drop
    BY <1>3
  <2>1. m \in ToSet(objs)
    OBVIOUS
  <2> QED
    BY SMTT(60), <1>4, <2>1
<1> HIDE DEF objs, links, nodes, edges, K1, K2, K3, K4, cmds
<1>6. /\ \A m \in ObjectMapping : DeleteObjectMappingCmd(m.id) \in Command
      /\ \A m \in LinkMapping : DeleteLinkMappingCmd(m.id) \in Command
      /\ \A n \in NodeType : DeleteNodeCmd(n.id) \in Command
      /\ \A e \in EdgeType : DeleteEdgeCmd(e.id) \in Command
  <2>1. \A m \in ObjectMapping : DeleteObjectMappingCmd(m.id) \in MappingCommand
    BY DEF DeleteObjectMappingCmd, MappingCommand, ObjectMapping
  <2>2. \A m \in LinkMapping : DeleteLinkMappingCmd(m.id) \in MappingCommand
    BY DEF DeleteLinkMappingCmd, MappingCommand, LinkMapping
  <2>3. \A n \in NodeType : DeleteNodeCmd(n.id) \in NodeCommand
    BY DEF DeleteNodeCmd, NodeCommand, NodeType
  <2>4. \A e \in EdgeType : DeleteEdgeCmd(e.id) \in EdgeCommand
    BY DEF DeleteEdgeCmd, EdgeCommand, EdgeType
  <2> QED
    BY <2>1, <2>2, <2>3, <2>4 DEF Command
<1>7. /\ A \in Seq(Command) /\ B \in Seq(Command) /\ C \in Seq(Command) /\ D \in Seq(Command)
  <2>1. /\ \A i \in DOMAIN objs : objs[i] \in ObjectMapping
        /\ \A i \in DOMAIN links : links[i] \in LinkMapping
        /\ \A i \in DOMAIN nodes : nodes[i] \in NodeType
        /\ \A i \in DOMAIN edges : edges[i] \in EdgeType
    BY <1>3, ListFacts
  <2>2. A \in Seq(Command)
    BY <1>3, <1>6, <2>1, RewrittenList
  <2>3. B \in Seq(Command)
    BY <1>3, <1>6, <2>1, RewrittenList
  <2>4. C \in Seq(Command)
    BY SMTT(60), <1>3, <1>6, <2>1, RewrittenList
  <2>5. D \in Seq(Command)
    <3>1. D = [i \in DOMAIN edges |-> D[i]] /\ \A i \in DOMAIN edges : D[i] \in Command
      BY <1>6, <2>1
    <3> HIDE DEF D
    <3> QED
      BY SMTT(60), <1>3, <3>1, RewrittenList
  <2> QED
    BY <2>2, <2>3, <2>4, <2>5
<1>8. /\ ToSet(A) = {DeleteObjectMappingCmd(m.id) : m \in ToSet(objs)}
      /\ ToSet(B) = {DeleteLinkMappingCmd(m.id) : m \in ToSet(links)}
      /\ ToSet(C) = {DeleteNodeCmd(n.id) : n \in ToSet(nodes)}
      /\ ToSet(D) = {DeleteEdgeCmd(e.id) : e \in ToSet(edges)}
  BY DEF ToSet
<1> HIDE DEF A, B, C, D
<1>9. cmds \in Seq(Command) /\ ToSet(cmds) = ToSet(A) \cup ToSet(B) \cup ToSet(C) \cup ToSet(D)
  <2> DEFINE AB == A \o B
             ABC == AB \o C
  <2>1. AB \in Seq(Command) /\ ToSet(AB) = ToSet(A) \cup ToSet(B)
    BY <1>7, JoinedSet
  <2> HIDE DEF AB
  <2>2. ABC \in Seq(Command) /\ ToSet(ABC) = ToSet(AB) \cup ToSet(C)
    BY <1>7, <2>1, JoinedSet
  <2> HIDE DEF ABC
  <2>3. ABC \o D \in Seq(Command) /\ ToSet(ABC \o D) = ToSet(ABC) \cup ToSet(D)
    BY <1>7, <2>2, JoinedSet
  <2> QED
    BY <1>1, <2>1, <2>2, <2>3 DEF AB, ABC
<1>10. \A c \in ToSet(cmds) : c.op \in RetractOps
  BY <1>8, <1>9 DEF RetractOps, DeleteObjectMappingCmd, DeleteLinkMappingCmd, DeleteNodeCmd,
                    DeleteEdgeCmd
<1>11. /\ \A m \in ToSet(oms) : m.relation \in drop => DeleteObjectMappingCmd(m.id) \in ToSet(cmds)
       /\ \A m \in ToSet(lms) :
             m.relations \cap drop # {} => DeleteLinkMappingCmd(m.id) \in ToSet(cmds)
  BY <1>4, <1>8, <1>9
<1>12. \A c \in ToSet(cmds) : c.op = "delete_node" => \E n \in ToSet(nodes) : c.node_id = n.id
  BY <1>8, <1>9 DEF DeleteObjectMappingCmd, DeleteLinkMappingCmd, DeleteNodeCmd, DeleteEdgeCmd
<1> QED
  BY <1>5, <1>9, <1>10, <1>11, <1>12 DEF cmds

\* An accepted retraction of the tables of a source leaves no mapping that
\* reads them, and keeps every node that is still mapped from another table.
THEOREM EditorRetractionIsComplete == EditorSpec => []RetractionIsComplete
<1>1. EditorInv => RetractionIsComplete
  <2> SUFFICES ASSUME EditorInv, NEW drop \in SUBSET Table,
                      NEW r \in Done(build_retract_source_batch(ontology, drop))
               PROVE  /\ \A m \in ToSet(r.ont.object_mappings) : m.relation \notin drop
                      /\ \A m \in ToSet(r.ont.link_mappings) : m.relations \cap drop = {}
                      /\ \A n \in ToSet(ontology.node_types) :
                            (\E m \in ToSet(ontology.object_mappings) :
                                m.node_type_id = n.id /\ m.relation \notin drop)
                            => n.id \in Ids(r.ont.node_types)
    BY DEF RetractionIsComplete
  <2> DEFINE cmds == build_retract_source_batch(ontology, drop)
             b == execute_inner(ontology, cmds).ont
  <2>1. ontology \in Ontology
    BY SoundIds DEF EditorInv
  <2>2. execute_inner(ontology, cmds).ok /\ r.ont = b
    BY DEF Done, execute, Validated, When, Err
  <2>3. /\ cmds \in Seq(Command) /\ \A c \in ToSet(cmds) : c.op \in RetractOps
        /\ \A m \in ToSet(ontology.object_mappings) :
              m.relation \in drop => DeleteObjectMappingCmd(m.id) \in ToSet(cmds)
        /\ \A m \in ToSet(ontology.link_mappings) :
              m.relations \cap drop # {} => DeleteLinkMappingCmd(m.id) \in ToSet(cmds)
        /\ \A c \in ToSet(cmds) : c.op = "delete_node" =>
              \A m \in ToSet(ontology.object_mappings) :
                 m.node_type_id = c.node_id => m.relation \in drop
    BY <2>1, RetractBatch
  <2> HIDE DEF cmds
  <2>4. /\ ToSet(b.object_mappings) \subseteq ToSet(ontology.object_mappings)
        /\ ToSet(b.link_mappings) \subseteq ToSet(ontology.link_mappings)
        /\ \A c \in ToSet(cmds) :
              /\ c.op = "delete_object_mapping" => c.id \notin Ids(b.object_mappings)
              /\ c.op = "delete_link_mapping" => c.id \notin Ids(b.link_mappings)
        /\ \A x \in Ids(ontology.node_types) :
              \/ x \in Ids(b.node_types)
              \/ \E c \in ToSet(cmds) : c.op = "delete_node" /\ c.node_id = x
    BY <2>1, <2>2, <2>3, RetractRun
  <2> HIDE DEF b
  <2>5. ASSUME NEW m \in ToSet(b.object_mappings), m.relation \in drop PROVE FALSE
    <3>1. DeleteObjectMappingCmd(m.id) \in ToSet(cmds)
      BY <2>3, <2>4, <2>5
    <3>2. m.id \notin Ids(b.object_mappings)
      BY <2>4, <3>1 DEF DeleteObjectMappingCmd
    <3> QED
      BY <3>2, IdsOfSet
  <2>6. ASSUME NEW m \in ToSet(b.link_mappings), m.relations \cap drop # {} PROVE FALSE
    <3>1. DeleteLinkMappingCmd(m.id) \in ToSet(cmds)
      BY <2>3, <2>4, <2>6
    <3>2. m.id \notin Ids(b.link_mappings)
      BY <2>4, <3>1 DEF DeleteLinkMappingCmd
    <3> QED
      BY <3>2, IdsOfSet
  <2>7. ASSUME NEW n \in ToSet(ontology.node_types), NEW m \in ToSet(ontology.object_mappings),
               m.node_type_id = n.id, m.relation \notin drop
        PROVE  n.id \in Ids(b.node_types)
    <3>1. n.id \in Ids(ontology.node_types)
      BY IdsOfSet
    <3> QED
      BY <2>3, <2>4, <2>7, <3>1
  <2> QED
    BY <2>2, <2>5, <2>6, <2>7
<1> QED
  BY <1>1, EditorKeepsSound, PTL

-----------------------------------------------------------------------------
(* Undo: batches that are accepted, step by step.                           *)

RunsTo(a, cmds, b) == execute_inner(a, cmds).ok /\ execute_inner(a, cmds).ont = b

LEMMA RunsStepwise ==
    ASSUME NEW n \in Nat, NEW cmds, DOMAIN cmds = 1..n, NEW st,
           \A k \in 1..n : /\ ExecuteOne(st[k - 1], cmds[k]).ok
                           /\ ExecuteOne(st[k - 1], cmds[k]).ont = st[k]
    PROVE  RunsTo(st[0], cmds, st[n])
<1>0. PICK g : ServerRuns(g, st[0], n, cmds)
  BY BatchRuns
<1>1. /\ g[0] = Ok(st[0], <<>>) /\ g[n] = execute_inner(st[0], cmds)
      /\ \A k \in 1..n : g[k] = IF g[k - 1].ok
                                THEN Then(g[k - 1], ExecuteOne(g[k - 1].ont, cmds[k]))
                                ELSE g[k - 1]
  BY <1>0 DEF ServerRuns
<1> DEFINE T == {k \in Nat : k <= n => g[k].ok /\ g[k].ont = st[k]}
<1>2. 0 \in T
  BY <1>1 DEF Ok
<1>3. ASSUME NEW k \in Nat, k < n, k \in T PROVE k + 1 \in T
  <2>1. k + 1 \in 1..n /\ (k + 1) - 1 = k /\ g[k].ok /\ g[k].ont = st[k]
    BY <1>3
  <2> DEFINE r == ExecuteOne(st[k], cmds[k + 1])
  <2>2. g[k + 1] = Then(g[k], r) /\ r.ok /\ r.ont = st[k + 1]
    BY <1>1, <2>1
  <2> HIDE DEF r
  <2>3. g[k + 1].ok /\ g[k + 1].ont = st[k + 1]
    BY <2>2 DEF Then, When, Ok
  <2> QED
    BY <2>3
<1> HIDE DEF T
<1>4. n \in T
  <2>1. \A k \in 0..n : k \in T
    <3>1. \A k \in Nat : k < n /\ k \in T => k + 1 \in T
      BY <1>3
    <3> QED
      BY <1>2, <3>1, Upto
  <2> QED
    BY <2>1
<1> QED
  BY <1>1, <1>4 DEF T, RunsTo

LEMMA RunsOnce ==
    ASSUME NEW a, NEW c, ExecuteOne(a, c).ok
    PROVE  RunsTo(a, <<c>>, ExecuteOne(a, c).ont)
<1>1. execute_inner(a, <<c>>) = Then(Ok(a, <<>>), ExecuteOne(a, c))
  BY RunOfOne
<1> QED
  BY <1>1 DEF RunsTo, Then, When, Ok

LEMMA RunsOn ==
    ASSUME NEW a, NEW b, NEW d, NEW S, NEW s \in Seq(S), NEW t \in Seq(S),
           RunsTo(a, s, b), RunsTo(b, t, d)
    PROVE  RunsTo(a, s \o t, d)
<1> DEFINE m == Len(s)
           n == Len(t)
           u == s \o t
<1>1. /\ m \in Nat /\ n \in Nat /\ DOMAIN s = 1..m /\ DOMAIN t = 1..n /\ DOMAIN u = 1..(m + n)
      /\ \A i \in DOMAIN s : u[i] = s[i]
      /\ \A i \in DOMAIN t : u[m + i] = t[i]
  BY JoinFacts
<1> HIDE DEF m, n, u
<1>p. PICK p : PassesThrough(p, a, m, s, b)
  BY <1>1, AcceptedRun DEF RunsTo
<1>2. /\ p[0] = a /\ p[m] = b
      /\ \A k \in 1..m : /\ ExecuteOne(p[k - 1], s[k]).ok
                         /\ p[k] = ExecuteOne(p[k - 1], s[k]).ont
  BY <1>p DEF PassesThrough
<1>q. PICK q : PassesThrough(q, b, n, t, d)
  BY <1>1, AcceptedRun DEF RunsTo
<1>3. /\ q[0] = b /\ q[n] = d
      /\ \A k \in 1..n : /\ ExecuteOne(q[k - 1], t[k]).ok
                         /\ q[k] = ExecuteOne(q[k - 1], t[k]).ont
  BY <1>q DEF PassesThrough
<1> DEFINE st == [k \in 0..(m + n) |-> IF k <= m THEN p[k] ELSE q[k - m]]
<1>4. st[0] = a /\ st[m + n] = d
  <2>1. CASE n = 0
    BY <1>1, <1>2, <1>3, <2>1
  <2>2. CASE n # 0
    BY <1>1, <1>2, <1>3, <2>2
  <2> QED
    BY <2>1, <2>2
<1>5. ASSUME NEW k \in 1..(m + n)
      PROVE  ExecuteOne(st[k - 1], u[k]).ok /\ ExecuteOne(st[k - 1], u[k]).ont = st[k]
  <2>1. CASE k <= m
    <3>1. k \in 1..m /\ st[k - 1] = p[k - 1] /\ st[k] = p[k] /\ u[k] = s[k]
      BY SMTT(60), <1>1, <2>1
    <3> QED
      BY <1>2, <3>1
  <2>2. CASE k > m
    <3> DEFINE j == k - m
    <3>1. j \in 1..n /\ u[m + j] = t[j] /\ m + j = k
      BY <1>1, <2>2
    <3>2. st[k] = q[j]
      BY <1>1, <2>2
    <3>3. st[k - 1] = q[j - 1]
      <4>1. CASE k - 1 = m
        <5>1. st[k - 1] = p[m] /\ j - 1 = 0
          BY <1>1, <4>1
        <5> QED
          BY <1>2, <1>3, <5>1
      <4>2. CASE k - 1 > m
        <5>1. k - 1 \in 0..(m + n) /\ ~(k - 1 <= m) /\ (k - 1) - m = j - 1
          BY <1>1, <4>2
        <5> QED
          BY <5>1
      <4> QED
        BY <1>1, <2>2, <4>1, <4>2
    <3> HIDE DEF j
    <3> QED
      BY <1>3, <3>1, <3>2, <3>3
  <2> QED
    BY <1>1, <2>1, <2>2
<1> HIDE DEF st
<1>6. m + n \in Nat
  BY <1>1
<1>7. RunsTo(st[0], u, st[m + n])
  BY <1>1, <1>5, <1>6, RunsStepwise
<1> QED
  BY <1>4, <1>7 DEF u

WithField(a, f, s) == [a EXCEPT ![f] = s]

LEMMA PrefixFacts ==
    ASSUME NEW S, NEW t \in Seq(S)
    PROVE  /\ Len(t) \in Nat /\ SubSeq(t, 1, Len(t)) = t
           /\ \A j \in 0..Len(t) : /\ SubSeq(t, 1, j) \in Seq(S) /\ Len(SubSeq(t, 1, j)) = j
                                   /\ DOMAIN SubSeq(t, 1, j) = 1..j
                                   /\ \A i \in 1..j : SubSeq(t, 1, j)[i] = t[i]
           /\ \A j \in 1..Len(t) : Append(SubSeq(t, 1, j - 1), t[j]) = SubSeq(t, 1, j)
  OBVIOUS

-----------------------------------------------------------------------------
(* Ontologies that differ in the order of their lists only.                 *)

Back(g, f, S, T) == \A j \in T : g[j] \in S /\ f[g[j]] = j

LEMMA BijectionFacts ==
    ASSUME NEW S, NEW T, NEW f \in Bijection(S, T)
    PROVE  /\ \A i \in S : f[i] \in T
           /\ \A i, j \in S : f[i] = f[j] => i = j
           /\ \A j \in T : \E i \in S : f[i] = j
           /\ \E g : Back(g, f, S, T)
<1>1. \A i \in S : f[i] \in T
  BY DEF Bijection, Injection
<1>2. \A i, j \in S : f[i] = f[j] => i = j
  BY DEF Bijection, Injection, IsInjective
<1>3. \A j \in T : \E i \in S : f[i] = j
  BY DEF Bijection, Surjection
<1> DEFINE g == [j \in T |-> CHOOSE i \in S : f[i] = j]
<1>4. Back(g, f, S, T)
  BY <1>3 DEF Back
<1> QED
  BY <1>1, <1>2, <1>3, <1>4

NodeAlike(n, m) ==
    /\ n \in NodeType /\ m \in NodeType
    /\ m.id = n.id /\ m.label = n.label /\ m.description = n.description
    /\ Shuffles(n.properties, m.properties) /\ Shuffles(n.constraints, m.constraints)

EdgeAlike(e, f) ==
    /\ e \in EdgeType /\ f \in EdgeType
    /\ f.id = e.id /\ f.label = e.label /\ f.description = e.description
    /\ f.source_node_id = e.source_node_id /\ f.target_node_id = e.target_node_id
    /\ f.cardinality = e.cardinality /\ f.kind = e.kind
    /\ Shuffles(e.properties, f.properties)

NodesMatch(s, t) ==
    \E f \in Bijection(DOMAIN s, DOMAIN t) : \A i \in DOMAIN s : NodeAlike(s[i], t[f[i]])
EdgesMatch(s, t) ==
    \E f \in Bijection(DOMAIN s, DOMAIN t) : \A i \in DOMAIN s : EdgeAlike(s[i], t[f[i]])

Reordered(a, b) ==
    /\ b \in Ontology
    /\ NodesMatch(a.node_types, b.node_types) /\ EdgesMatch(a.edge_types, b.edge_types)
    /\ Shuffles(a.indexes, b.indexes)
    /\ Shuffles(a.object_mappings, b.object_mappings)
    /\ Shuffles(a.link_mappings, b.link_mappings)
    /\ b.segments = a.segments /\ b.table_inventory = a.table_inventory /\ b.rules = a.rules

LEMMA ShuffledFind ==
    ASSUME NEW S, NEW s \in Seq(S), NEW t \in Seq(S), Shuffles(s, t), DistinctIds(s)
    PROVE  /\ ToSet(t) = ToSet(s) /\ Ids(t) = Ids(s) /\ DistinctIds(t)
           /\ \A x \in Ids(s) : Find(t, x) = Find(s, x)
<1>1. ToSet(t) = ToSet(s) /\ Injects(t, s)
  BY ShufflesInject
<1>2. Ids(t) = Ids(s) /\ DistinctIds(t)
  BY <1>1, IdsOfSet, InjectsDistinct
<1>3. ASSUME NEW x \in Ids(s) PROVE Find(t, x) = Find(s, x)
  <2>1. PICK k \in DOMAIN s : Find(s, x) = s[k] /\ s[k].id = x
    BY Found
  <2>2. PICK j \in DOMAIN t : t[j] = s[k]
    BY <1>1 DEF ToSet
  <2>3. Find(t, t[j].id) = t[j]
    BY <1>2, FoundAt
  <2> QED
    BY <2>1, <2>2, <2>3
<1> QED
  BY <1>1, <1>2, <1>3

LEMMA AlikeNodeFacts ==
    ASSUME NEW n, NEW m, NodeAlike(n, m), DistinctIds(n.properties)
    PROVE  /\ ToSet(m.properties) = ToSet(n.properties) /\ Ids(m.properties) = Ids(n.properties)
           /\ \A x \in Ids(n.properties) : Find(m.properties, x) = Find(n.properties, x)
           /\ ToSet(m.constraints) = ToSet(n.constraints)
           /\ validate_property_defs(n.properties) => validate_property_defs(m.properties)
           /\ \A c : validate_constraint_fields(n, c) => validate_constraint_fields(m, c)
<1>1. /\ n.properties \in Seq(Property) /\ m.properties \in Seq(Property)
      /\ Shuffles(n.properties, m.properties) /\ Shuffles(n.constraints, m.constraints)
  BY DEF NodeAlike, NodeType
<1>2. /\ ToSet(m.properties) = ToSet(n.properties) /\ Ids(m.properties) = Ids(n.properties)
      /\ \A x \in Ids(n.properties) : Find(m.properties, x) = Find(n.properties, x)
  BY <1>1, ShuffledFind
<1>3. Injects(m.properties, n.properties) /\ ToSet(m.constraints) = ToSet(n.constraints)
  BY <1>1, ShufflesInject
<1>4. validate_property_defs(n.properties) => validate_property_defs(m.properties)
  BY <1>3, InjectsKeys DEF validate_property_defs
<1>5. \A c : validate_constraint_fields(n, c) => validate_constraint_fields(m, c)
  BY <1>2 DEF validate_constraint_fields
<1> QED
  BY <1>2, <1>3, <1>4, <1>5

LEMMA MatchedNodes ==
    ASSUME NEW s \in Seq(NodeType), NEW t \in Seq(NodeType), NodesMatch(s, t), DistinctIds(s),
           \A i \in DOMAIN s : DistinctIds(s[i].properties)
    PROVE  /\ \A j \in DOMAIN t : \E i \in DOMAIN s : NodeAlike(s[i], t[j])
           /\ Ids(t) = Ids(s) /\ DistinctIds(t)
           /\ Distinct(s, LAMBDA n : n.label) => Distinct(t, LAMBDA n : n.label)
           /\ \A x \in Ids(s) : NodeAlike(Find(s, x), Find(t, x))
<1>0. PICK f \in Bijection(DOMAIN s, DOMAIN t) : \A i \in DOMAIN s : NodeAlike(s[i], t[f[i]])
  BY DEF NodesMatch
<1>1. /\ \A i \in DOMAIN s : f[i] \in DOMAIN t
      /\ \A i, j \in DOMAIN s : f[i] = f[j] => i = j
      /\ \A j \in DOMAIN t : \E i \in DOMAIN s : f[i] = j
  BY BijectionFacts
<1>b. PICK g : Back(g, f, DOMAIN s, DOMAIN t)
  BY BijectionFacts
<1>g. \A j \in DOMAIN t : g[j] \in DOMAIN s /\ f[g[j]] = j
  BY <1>b DEF Back
<1>2. /\ \A i \in DOMAIN s : t[f[i]].id = s[i].id /\ t[f[i]].label = s[i].label
      /\ \A j \in DOMAIN t : t[j].id = s[g[j]].id /\ t[j].label = s[g[j]].label
  BY <1>0, <1>g DEF NodeAlike
<1>3. Ids(t) = Ids(s)
  <2>1. Ids(s) \subseteq Ids(t)
    BY <1>1, <1>2 DEF Ids
  <2>2. Ids(t) \subseteq Ids(s)
    BY SMTT(60), <1>g, <1>2 DEF Ids
  <2> QED
    BY <2>1, <2>2
<1>4. DistinctIds(t)
  BY <1>g, <1>2 DEF DistinctIds
<1>5. Distinct(s, LAMBDA n : n.label) => Distinct(t, LAMBDA n : n.label)
  BY <1>g, <1>2 DEF Distinct
<1>6. ASSUME NEW x \in Ids(s) PROVE NodeAlike(Find(s, x), Find(t, x))
  <2>1. PICK k \in DOMAIN s : Find(s, x) = s[k] /\ s[k].id = x
    BY Found
  <2>2. Find(t, t[f[k]].id) = t[f[k]]
    BY <1>1, <1>4, FoundAt
  <2> QED
    BY <1>0, <1>2, <2>1, <2>2
<1>7. \A j \in DOMAIN t : \E i \in DOMAIN s : NodeAlike(s[i], t[j])
  BY <1>0, <1>1
<1> QED
  BY <1>3, <1>4, <1>5, <1>6, <1>7

\* Property ids stay distinct across the nodes.
LEMMA MatchedPropertyIds ==
    ASSUME NEW s \in Seq(NodeType), NEW t \in Seq(NodeType), NodesMatch(s, t),
           PropertyIdsDistinct(s)
    PROVE  PropertyIdsDistinct(t)
<1>0. PICK f \in Bijection(DOMAIN s, DOMAIN t) : \A i \in DOMAIN s : NodeAlike(s[i], t[f[i]])
  BY DEF NodesMatch
<1>1. /\ \A i \in DOMAIN s : f[i] \in DOMAIN t
      /\ \A i, j \in DOMAIN s : f[i] = f[j] => i = j
      /\ \A j \in DOMAIN t : \E i \in DOMAIN s : f[i] = j
  BY BijectionFacts
<1> SUFFICES ASSUME NEW i \in DOMAIN t, NEW j \in DOMAIN t,
                    NEW k \in DOMAIN t[i].properties, NEW l \in DOMAIN t[j].properties,
                    t[i].properties[k].id = t[j].properties[l].id
             PROVE  i = j /\ k = l
  BY DEF PropertyIdsDistinct
<1>2. PICK x \in DOMAIN s : f[x] = i
  BY <1>1
<1>3. PICK y \in DOMAIN s : f[y] = j
  BY <1>1
<1>4. Injects(t[i].properties, s[x].properties) /\ Injects(t[j].properties, s[y].properties)
  BY <1>0, <1>2, <1>3, ShufflesInject DEF NodeAlike
<1>5. \E a \in DOMAIN s[x].properties : t[i].properties[k] = s[x].properties[a]
  BY <1>4 DEF Injects, Injection
<1>6. \E a \in DOMAIN s[y].properties : t[j].properties[l] = s[y].properties[a]
  BY <1>4 DEF Injects, Injection
<1>7. x = y
  BY <1>5, <1>6 DEF PropertyIdsDistinct
<1>8. i = j
  BY <1>2, <1>3, <1>7
<1>9. DistinctIds(s[x].properties)
  BY DEF PropertyIdsDistinct, DistinctIds
<1>10. DistinctIds(t[i].properties)
  BY <1>4, <1>9, InjectsDistinct
<1> QED
  BY <1>8, <1>10 DEF DistinctIds

LEMMA MatchedEdges ==
    ASSUME NEW s \in Seq(EdgeType), NEW t \in Seq(EdgeType), EdgesMatch(s, t), DistinctIds(s)
    PROVE  /\ \A j \in DOMAIN t : \E i \in DOMAIN s : EdgeAlike(s[i], t[j])
           /\ Ids(t) = Ids(s) /\ DistinctIds(t)
           /\ Distinct(s, LAMBDA e : <<e.label, e.source_node_id, e.target_node_id>>)
              => Distinct(t, LAMBDA e : <<e.label, e.source_node_id, e.target_node_id>>)
<1>0. PICK f \in Bijection(DOMAIN s, DOMAIN t) : \A i \in DOMAIN s : EdgeAlike(s[i], t[f[i]])
  BY DEF EdgesMatch
<1>1. /\ \A i \in DOMAIN s : f[i] \in DOMAIN t
      /\ \A i, j \in DOMAIN s : f[i] = f[j] => i = j
      /\ \A j \in DOMAIN t : \E i \in DOMAIN s : f[i] = j
  BY BijectionFacts
<1>b. PICK g : Back(g, f, DOMAIN s, DOMAIN t)
  BY BijectionFacts
<1>g. \A j \in DOMAIN t : g[j] \in DOMAIN s /\ f[g[j]] = j
  BY <1>b DEF Back
<1>2. /\ \A i \in DOMAIN s : t[f[i]].id = s[i].id
      /\ \A j \in DOMAIN t : /\ t[j].id = s[g[j]].id /\ t[j].label = s[g[j]].label
                            /\ t[j].source_node_id = s[g[j]].source_node_id
                            /\ t[j].target_node_id = s[g[j]].target_node_id
  BY <1>0, <1>g DEF EdgeAlike
<1>i. /\ \A i \in DOMAIN s : t[f[i]].id = s[i].id
      /\ \A j \in DOMAIN t : t[j].id = s[g[j]].id
  BY <1>2
<1>3. Ids(t) = Ids(s)
  <2>1. Ids(s) \subseteq Ids(t)
    <3> SUFFICES ASSUME NEW i \in DOMAIN s PROVE s[i].id \in Ids(t)
      BY DEF Ids
    <3>1. f[i] \in DOMAIN t /\ t[f[i]].id = s[i].id
      BY <1>1, <1>i
    <3> QED
      BY <3>1 DEF Ids
  <2>2. Ids(t) \subseteq Ids(s)
    BY <1>g, <1>i DEF Ids
  <2> QED
    BY <2>1, <2>2
<1>4. DistinctIds(t)
  BY <1>g, <1>i DEF DistinctIds
<1>5. Distinct(s, LAMBDA e : <<e.label, e.source_node_id, e.target_node_id>>)
      => Distinct(t, LAMBDA e : <<e.label, e.source_node_id, e.target_node_id>>)
  BY SMTT(60), <1>g, <1>2 DEF Distinct
<1>6. \A j \in DOMAIN t : \E i \in DOMAIN s : EdgeAlike(s[i], t[j])
  BY <1>0, <1>1
<1> QED
  BY <1>3, <1>4, <1>5, <1>6

LEMMA EmptyList ==
    ASSUME NEW S, NEW s \in Seq(S)
    PROVE  (s = <<>> <=> ToSet(s) = {}) /\ (s = <<>> <=> Ids(s) = {})
<1>1. s = <<>> <=> ToSet(s) = {}
  BY DEF ToSet
<1> QED
  BY <1>1, IdsOfSet

\* What is valid stays valid in another order.
LEMMA ReorderedValid ==
    ASSUME NEW a, Sound(a), NEW b, Reordered(a, b)
    PROVE  rebuild_indices(b) /\ validate(b)
<1> DEFINE ns == a.node_types
           ms == b.node_types
           es == a.edge_types
           fs == b.edge_types
<1>0. /\ a \in Ontology /\ b \in Ontology
      /\ ns \in Seq(NodeType) /\ ms \in Seq(NodeType) /\ es \in Seq(EdgeType) /\ fs \in Seq(EdgeType)
      /\ a.indexes \in Seq(IndexDef) /\ b.indexes \in Seq(IndexDef)
      /\ a.object_mappings \in Seq(ObjectMapping) /\ b.object_mappings \in Seq(ObjectMapping)
      /\ a.link_mappings \in Seq(LinkMapping) /\ b.link_mappings \in Seq(LinkMapping)
  BY SoundIds, OntologyLists DEF Reordered
<1>1. /\ DistinctIds(ns) /\ DistinctIds(es) /\ DistinctIds(a.object_mappings)
      /\ DistinctIds(a.link_mappings)
      /\ \A k \in DOMAIN ns : DistinctIds(ns[k].properties)
  BY SoundIds
<1>2. NodesMatch(ns, ms) /\ EdgesMatch(es, fs)
  BY DEF Reordered
<1>v. /\ HasContent(a) /\ ValidNodes(a) /\ ValidEdges(a) /\ ValidIndexes(a)
      /\ ValidObjectMappings(a) /\ ValidLinkMappings(a) /\ ValidRules(a) /\ ValidInventory(a)
      /\ ValidSegments(a) /\ PropertyIdsDistinct(ns)
      /\ Distinct(ns, LAMBDA n : n.label)
  BY DEF Sound, validate, rebuild_indices
<1> HIDE DEF ns, ms, es, fs
<1>3. /\ \A j \in DOMAIN ms : \E i \in DOMAIN ns : NodeAlike(ns[i], ms[j])
      /\ Ids(ms) = Ids(ns) /\ DistinctIds(ms)
      /\ Distinct(ms, LAMBDA n : n.label)
      /\ \A x \in Ids(ns) : NodeAlike(Find(ns, x), Find(ms, x))
  BY <1>0, <1>1, <1>2, <1>v, MatchedNodes
<1>4. PropertyIdsDistinct(ms)
  BY <1>0, <1>2, <1>v, MatchedPropertyIds
<1>5. /\ \A j \in DOMAIN fs : \E i \in DOMAIN es : EdgeAlike(es[i], fs[j])
      /\ Ids(fs) = Ids(es) /\ DistinctIds(fs)
      /\ Distinct(es, LAMBDA e : <<e.label, e.source_node_id, e.target_node_id>>)
         => Distinct(fs, LAMBDA e : <<e.label, e.source_node_id, e.target_node_id>>)
  BY <1>0, <1>1, <1>2, MatchedEdges
<1>6. \A x \in Ids(ns) : /\ ToSet(Find(ms, x).properties) = ToSet(Find(ns, x).properties)
                         /\ Ids(Find(ms, x).properties) = Ids(Find(ns, x).properties)
  <2> TAKE x \in Ids(ns)
  <2>1. PICK k \in DOMAIN ns : Find(ns, x) = ns[k]
    BY <1>0, Found
  <2>2. DistinctIds(Find(ns, x).properties)
    BY <1>1, <2>1
  <2>3. NodeAlike(Find(ns, x), Find(ms, x))
    BY <1>3
  <2> QED
    BY <2>2, <2>3, AlikeNodeFacts
<1>7. /\ ToSet(b.indexes) = ToSet(a.indexes)
      /\ ToSet(b.object_mappings) = ToSet(a.object_mappings)
      /\ DistinctIds(b.object_mappings)
      /\ ToSet(b.link_mappings) = ToSet(a.link_mappings)
      /\ DistinctIds(b.link_mappings)
  <2>1. /\ Shuffles(a.indexes, b.indexes)
        /\ Shuffles(a.object_mappings, b.object_mappings)
        /\ Shuffles(a.link_mappings, b.link_mappings)
    BY DEF Reordered
  <2>2. ToSet(b.indexes) = ToSet(a.indexes)
    BY <2>1, ShufflesInject
  <2>3. ToSet(b.object_mappings) = ToSet(a.object_mappings) /\ DistinctIds(b.object_mappings)
    BY <1>0, <1>1, <2>1, ShuffledFind
  <2>4. ToSet(b.link_mappings) = ToSet(a.link_mappings) /\ DistinctIds(b.link_mappings)
    BY <1>0, <1>1, <2>1, ShuffledFind
  <2> QED
    BY <2>2, <2>3, <2>4
<1>8. rebuild_indices(b)
  <2>1. /\ Distinct(ms, LAMBDA n : n.id) /\ Distinct(fs, LAMBDA e : e.id)
        /\ Distinct(b.object_mappings, LAMBDA m : m.id)
        /\ Distinct(b.link_mappings, LAMBDA m : m.id)
    BY <1>3, <1>5, <1>7 DEF DistinctIds, Distinct
  <2> QED
    BY <1>3, <1>4, <2>1 DEF rebuild_indices, ms, fs
<1>9. ValidNodes(b)
  <2>1. \A n \in ToSet(ms) : /\ validate_property_defs(n.properties)
                             /\ \A c \in ToSet(n.constraints) : validate_constraint_fields(n, c)
    <3> SUFFICES ASSUME NEW j \in DOMAIN ms
                 PROVE  /\ validate_property_defs(ms[j].properties)
                        /\ \A c \in ToSet(ms[j].constraints) : validate_constraint_fields(ms[j], c)
      BY DEF ToSet
    <3>1. PICK i \in DOMAIN ns : NodeAlike(ns[i], ms[j])
      BY <1>3
    <3>2. /\ validate_property_defs(ns[i].properties)
          /\ \A c \in ToSet(ns[i].constraints) : validate_constraint_fields(ns[i], c)
      <4>1. ns[i] \in ToSet(ns)
        BY DEF ToSet
      <4> QED
        BY <1>v, <4>1 DEF ValidNodes, ns
    <3>3. DistinctIds(ns[i].properties)
      BY <1>1
    <3>4. /\ ToSet(ms[j].constraints) = ToSet(ns[i].constraints)
          /\ validate_property_defs(ns[i].properties) => validate_property_defs(ms[j].properties)
          /\ \A c : validate_constraint_fields(ns[i], c) => validate_constraint_fields(ms[j], c)
      BY <3>1, <3>3, AlikeNodeFacts
    <3> QED
      BY <3>2, <3>4
  <2>2. Distinct(ms, LAMBDA n : n.id)
    BY <1>3 DEF DistinctIds, Distinct
  <2> QED
    BY <1>3, <2>1, <2>2 DEF ValidNodes, ms
<1>10. ValidEdges(b)
  <2>1. \A e \in ToSet(fs) :
          /\ validate_property_defs(e.properties)
          /\ {e.source_node_id, e.target_node_id} \subseteq Ids(ms)
          /\ e.kind = "composition" => e.cardinality \in {"one_to_one", "one_to_many"}
    <3> SUFFICES ASSUME NEW j \in DOMAIN fs
                 PROVE  LET e == fs[j]
                        IN  /\ validate_property_defs(e.properties)
                            /\ {e.source_node_id, e.target_node_id} \subseteq Ids(ms)
                            /\ e.kind = "composition" => e.cardinality \in {"one_to_one", "one_to_many"}
      BY DEF ToSet
    <3>1. PICK i \in DOMAIN es : EdgeAlike(es[i], fs[j])
      BY <1>5
    <3>2. /\ validate_property_defs(es[i].properties)
          /\ {es[i].source_node_id, es[i].target_node_id} \subseteq Ids(ns)
          /\ es[i].kind = "composition" => es[i].cardinality \in {"one_to_one", "one_to_many"}
      <4>1. es[i] \in ToSet(es)
        BY DEF ToSet
      <4> QED
        BY <1>v, <4>1 DEF ValidEdges, ns, es
    <3>3. Injects(fs[j].properties, es[i].properties)
      BY <3>1, ShufflesInject DEF EdgeAlike
    <3>4. validate_property_defs(fs[j].properties)
      BY <3>2, <3>3, InjectsKeys DEF validate_property_defs
    <3> QED
      BY <1>3, <3>1, <3>2, <3>4 DEF EdgeAlike
  <2>2. Distinct(fs, LAMBDA e : <<e.label, e.source_node_id, e.target_node_id>>)
    BY <1>5, <1>v DEF ValidEdges, es
  <2> QED
    BY <2>1, <2>2 DEF ValidEdges, fs, ms
<1>11. ValidIndexes(b) /\ ValidObjectMappings(b) /\ ValidLinkMappings(b)
  <2>1. ValidIndexes(b)
    BY <1>3, <1>6, <1>7, <1>v DEF ValidIndexes, validate_index_target, ns, ms
  <2>2. ValidObjectMappings(b)
    BY <1>3, <1>6, <1>7, <1>v DEF ValidObjectMappings, ns, ms
  <2>3. ValidLinkMappings(b)
    BY <1>5, <1>7, <1>v DEF ValidLinkMappings, es, fs
  <2> QED
    BY <2>1, <2>2, <2>3
<1>12. ValidRules(b) /\ ValidInventory(b) /\ ValidSegments(b)
  <2>1. b.segments = a.segments /\ b.table_inventory = a.table_inventory /\ b.rules = a.rules
    BY DEF Reordered
  <2>2. ValidRules(b)
    BY <1>3, <1>6, <1>v, <2>1 DEF ValidRules, ns, ms
  <2>3. ValidInventory(b)
    BY <1>3, <1>5, <1>v, <2>1 DEF ValidInventory, ns, ms, es, fs
  <2>4. ValidSegments(b)
    BY <1>3, <1>6, <1>v, <2>1 DEF ValidSegments, ns, ms
  <2> QED
    BY <2>2, <2>3, <2>4
<1>13. HasContent(b)
  <2>3. ns = <<>> <=> ms = <<>>
    BY <1>0, <1>3, EmptyList
  <2>4. es = <<>> <=> fs = <<>>
    BY <1>0, <1>5, EmptyList
  <2>5. /\ a.object_mappings = <<>> <=> b.object_mappings = <<>>
        /\ a.link_mappings = <<>> <=> b.link_mappings = <<>>
    BY <1>0, <1>7, EmptyList
  <2>6. b.rules = a.rules
    BY DEF Reordered
  <2> QED
    BY <1>v, <2>3, <2>4, <2>5, <2>6 DEF HasContent, ns, ms, es, fs
<1> QED
  BY <1>8, <1>9, <1>10, <1>11, <1>12, <1>13 DEF validate

Shape(n) == [n EXCEPT !.properties = ToBag(@), !.constraints = ToBag(@)]
EdgeShape(e) == [e EXCEPT !.properties = ToBag(@)]

LEMMA AlikeShapes ==
    /\ \A n, m : NodeAlike(n, m) => Shape(n) = Shape(m)
    /\ \A e, f : EdgeAlike(e, f) => EdgeShape(e) = EdgeShape(f)
<1>1. ASSUME NEW n, NEW m, NodeAlike(n, m) PROVE Shape(n) = Shape(m)
  <2>1. ToBag(n.properties) = ToBag(m.properties)
    <3>1. n.properties \in Seq(Property) /\ Shuffles(n.properties, m.properties)
      BY <1>1 DEF NodeAlike, NodeType
    <3> QED
      BY <3>1, ShufflesBag
  <2>2. ToBag(n.constraints) = ToBag(m.constraints)
    <3>1. n.constraints \in Seq(ConstraintDef) /\ Shuffles(n.constraints, m.constraints)
      BY <1>1 DEF NodeAlike, NodeType
    <3> QED
      BY <3>1, ShufflesBag
  <2> QED
    BY <1>1, <2>1, <2>2 DEF Shape, NodeAlike, NodeType
<1>2. ASSUME NEW e, NEW f, EdgeAlike(e, f) PROVE EdgeShape(e) = EdgeShape(f)
  <2>1. ToBag(e.properties) = ToBag(f.properties)
    <3>1. e.properties \in Seq(Property) /\ Shuffles(e.properties, f.properties)
      BY <1>2 DEF EdgeAlike, EdgeType
    <3> QED
      BY <3>1, ShufflesBag
  <2> QED
    BY <1>2, <2>1 DEF EdgeShape, EdgeAlike, EdgeType
<1> QED
  BY <1>1, <1>2

\* Two lists whose entries match make the same bag of shapes.
LEMMA ShapeBags ==
    /\ \A s \in Seq(NodeType), t \in Seq(NodeType) : NodesMatch(s, t) =>
          ToBag([i \in DOMAIN s |-> Shape(s[i])]) = ToBag([i \in DOMAIN t |-> Shape(t[i])])
    /\ \A s \in Seq(EdgeType), t \in Seq(EdgeType) : EdgesMatch(s, t) =>
          ToBag([i \in DOMAIN s |-> EdgeShape(s[i])]) = ToBag([i \in DOMAIN t |-> EdgeShape(t[i])])
<1>1. ASSUME NEW s \in Seq(NodeType), NEW t \in Seq(NodeType), NodesMatch(s, t)
      PROVE  ToBag([i \in DOMAIN s |-> Shape(s[i])]) = ToBag([i \in DOMAIN t |-> Shape(t[i])])
  <2> DEFINE u == [i \in DOMAIN s |-> Shape(s[i])]
             v == [i \in DOMAIN t |-> Shape(t[i])]
             R == {Shape(s[i]) : i \in DOMAIN s}
  <2>1. PICK f \in Bijection(DOMAIN s, DOMAIN t) : \A i \in DOMAIN s : NodeAlike(s[i], t[f[i]])
    BY <1>1 DEF NodesMatch
  <2>2. \A i \in DOMAIN s : f[i] \in DOMAIN t
    BY BijectionFacts
  <2>3. \A i \in DOMAIN s : v[f[i]] = u[i]
    BY <2>1, <2>2, AlikeShapes
  <2>4. DOMAIN u = DOMAIN s /\ DOMAIN v = DOMAIN t
    OBVIOUS
  <2>5. u \in Seq(R)
    <3>1. u = [i \in DOMAIN s |-> u[i]] /\ \A i \in DOMAIN s : u[i] \in R
      OBVIOUS
    <3> HIDE DEF u, R
    <3> QED
      BY <3>1, RewrittenList
  <2> HIDE DEF u, v, R
  <2>6. Shuffles(u, v)
    BY <2>3, <2>4 DEF Shuffles
  <2>7. ToBag(u) = ToBag(v)
    BY <2>5, <2>6, ShufflesBag
  <2> QED
    BY <2>7 DEF u, v
<1>2. ASSUME NEW s \in Seq(EdgeType), NEW t \in Seq(EdgeType), EdgesMatch(s, t)
      PROVE  ToBag([i \in DOMAIN s |-> EdgeShape(s[i])]) = ToBag([i \in DOMAIN t |-> EdgeShape(t[i])])
  <2> DEFINE u == [i \in DOMAIN s |-> EdgeShape(s[i])]
             v == [i \in DOMAIN t |-> EdgeShape(t[i])]
             R == {EdgeShape(s[i]) : i \in DOMAIN s}
  <2>1. PICK f \in Bijection(DOMAIN s, DOMAIN t) : \A i \in DOMAIN s : EdgeAlike(s[i], t[f[i]])
    BY <1>2 DEF EdgesMatch
  <2>2. \A i \in DOMAIN s : f[i] \in DOMAIN t
    BY BijectionFacts
  <2>3. \A i \in DOMAIN s : v[f[i]] = u[i]
    BY <2>1, <2>2, AlikeShapes
  <2>4. DOMAIN u = DOMAIN s /\ DOMAIN v = DOMAIN t
    OBVIOUS
  <2>5. u \in Seq(R)
    <3>1. u = [i \in DOMAIN s |-> u[i]] /\ \A i \in DOMAIN s : u[i] \in R
      OBVIOUS
    <3> HIDE DEF u, R
    <3> QED
      BY <3>1, RewrittenList
  <2> HIDE DEF u, v, R
  <2>6. Shuffles(u, v)
    BY <2>3, <2>4 DEF Shuffles
  <2>7. ToBag(u) = ToBag(v)
    BY <2>5, <2>6, ShufflesBag
  <2> QED
    BY <2>7 DEF u, v
<1> QED
  BY <1>1, <1>2

LEMMA ReorderedSame ==
    ASSUME NEW a \in Ontology, NEW b, Reordered(a, b)
    PROVE  Same(b, a)
<1>0. b \in Ontology
  BY DEF Reordered
<1> DEFINE N(o) == ToBag([i \in DOMAIN o.node_types |-> Shape(o.node_types[i])])
           E(o) == ToBag([i \in DOMAIN o.edge_types |-> EdgeShape(o.edge_types[i])])
           U(o) == [o EXCEPT !.node_types = N(o), !.edge_types = E(o),
                             !.indexes = ToBag(o.indexes),
                             !.object_mappings = ToBag(o.object_mappings),
                             !.link_mappings = ToBag(o.link_mappings)]
<1>1. \A o : Unordered(o) = U(o)
  BY Zenon DEF Unordered, Shape, EdgeShape
<1>2. N(a) = N(b) /\ E(a) = E(b)
  <2>1. /\ a.node_types \in Seq(NodeType) /\ b.node_types \in Seq(NodeType)
        /\ a.edge_types \in Seq(EdgeType) /\ b.edge_types \in Seq(EdgeType)
        /\ NodesMatch(a.node_types, b.node_types) /\ EdgesMatch(a.edge_types, b.edge_types)
    BY <1>0, OntologyLists DEF Reordered
  <2> QED
    BY <2>1, ShapeBags, Zenon
<1>3. /\ ToBag(a.indexes) = ToBag(b.indexes)
      /\ ToBag(a.object_mappings) = ToBag(b.object_mappings)
      /\ ToBag(a.link_mappings) = ToBag(b.link_mappings)
  <2>1. /\ a.indexes \in Seq(IndexDef) /\ a.object_mappings \in Seq(ObjectMapping)
        /\ a.link_mappings \in Seq(LinkMapping)
        /\ Shuffles(a.indexes, b.indexes)
        /\ Shuffles(a.object_mappings, b.object_mappings)
        /\ Shuffles(a.link_mappings, b.link_mappings)
    BY OntologyLists DEF Reordered
  <2> QED
    BY <2>1, ShufflesBag
<1>4. b.segments = a.segments /\ b.table_inventory = a.table_inventory /\ b.rules = a.rules
  BY DEF Reordered
<1>5. U(b) = U(a)
  <2> HIDE DEF N, E
  <2> QED
    BY <1>0, <1>2, <1>3, <1>4 DEF Ontology
<1> HIDE DEF U
<1> QED
  BY <1>1, <1>5 DEF Same

LEMMA AlikeItself ==
    /\ \A n \in NodeType : NodeAlike(n, n)
    /\ \A e \in EdgeType : EdgeAlike(e, e)
  BY ShufflesAlike DEF NodeAlike, EdgeAlike

\* The ways in which lists come back.
LEMMA ListsMatch ==
    /\ \A s \in Seq(NodeType), t \in Seq(NodeType) : Shuffles(s, t) => NodesMatch(s, t)
    /\ \A s \in Seq(EdgeType), t \in Seq(EdgeType) : Shuffles(s, t) => EdgesMatch(s, t)
    /\ \A s \in Seq(NodeType) : \A k \in DOMAIN s : \A m : NodeAlike(s[k], m) =>
          NodesMatch(s, [s EXCEPT ![k] = m])
    /\ \A s \in Seq(EdgeType) : \A k \in DOMAIN s : \A f : EdgeAlike(s[k], f) =>
          EdgesMatch(s, [s EXCEPT ![k] = f])
<1>0. /\ \A s \in Seq(NodeType) : \A i \in DOMAIN s : s[i] \in NodeType
      /\ \A s \in Seq(EdgeType) : \A i \in DOMAIN s : s[i] \in EdgeType
  BY ListFacts
<1>1. ASSUME NEW s \in Seq(NodeType), NEW t \in Seq(NodeType), Shuffles(s, t)
      PROVE  NodesMatch(s, t)
  BY <1>0, <1>1, AlikeItself DEF NodesMatch, Shuffles
<1>2. ASSUME NEW s \in Seq(EdgeType), NEW t \in Seq(EdgeType), Shuffles(s, t)
      PROVE  EdgesMatch(s, t)
  BY <1>0, <1>2, AlikeItself DEF EdgesMatch, Shuffles
<1>b. \A S : [i \in S |-> i] \in Bijection(S, S)
  BY DEF Bijection, Injection, IsInjective, Surjection
<1>3. ASSUME NEW s \in Seq(NodeType), NEW k \in DOMAIN s, NEW m, NodeAlike(s[k], m)
      PROVE  NodesMatch(s, [s EXCEPT ![k] = m])
  <2> DEFINE t == [s EXCEPT ![k] = m]
             f == [i \in DOMAIN s |-> i]
  <2>1. DOMAIN t = DOMAIN s /\ \A i \in DOMAIN s : t[i] = IF i = k THEN m ELSE s[i]
    OBVIOUS
  <2>2. f \in Bijection(DOMAIN s, DOMAIN t)
    BY <1>b, <2>1
  <2> HIDE DEF t
  <2>3. \A i \in DOMAIN s : NodeAlike(s[i], t[f[i]])
    BY <1>0, <1>3, <2>1, AlikeItself
  <2> QED
    BY <2>2, <2>3 DEF NodesMatch, t
<1>4. ASSUME NEW s \in Seq(EdgeType), NEW k \in DOMAIN s, NEW m, EdgeAlike(s[k], m)
      PROVE  EdgesMatch(s, [s EXCEPT ![k] = m])
  <2> DEFINE t == [s EXCEPT ![k] = m]
             f == [i \in DOMAIN s |-> i]
  <2>1. DOMAIN t = DOMAIN s /\ \A i \in DOMAIN s : t[i] = IF i = k THEN m ELSE s[i]
    OBVIOUS
  <2>2. f \in Bijection(DOMAIN s, DOMAIN t)
    BY <1>b, <2>1
  <2> HIDE DEF t
  <2>3. \A i \in DOMAIN s : EdgeAlike(s[i], t[f[i]])
    BY <1>0, <1>4, <2>1, AlikeItself
  <2> QED
    BY <2>2, <2>3 DEF EdgesMatch, t
<1> QED
  BY <1>1, <1>2, <1>3, <1>4

LEMMA ReorderedItself ==
    ASSUME NEW o \in Ontology
    PROVE  Reordered(o, o)
  BY OntologyLists, ListsMatch, ShufflesAlike DEF Reordered

-----------------------------------------------------------------------------
(* What the server accepts, the browser computes too, inverse included.     *)

Mirrored(o, c) ==
    ExecuteOne(o, c).ok =>
        FeApplyOne(o, c) = Applied(ExecuteOne(o, c).ont, ExecuteOne(o, c).inverse)

LEMMA MirroredForm ==
    ASSUME NEW o, NEW c, NEW cond, NEW new, NEW inverse,
           ExecuteOne(o, c) = When(cond, Ok(new, inverse)),
           cond => FeApplyOne(o, c) = Applied(new, inverse)
    PROVE  Mirrored(o, c)
<1> SUFFICES ASSUME ExecuteOne(o, c).ok
             PROVE  FeApplyOne(o, c) = Applied(ExecuteOne(o, c).ont, ExecuteOne(o, c).inverse)
  BY DEF Mirrored
<1>1. cond /\ ExecuteOne(o, c).ont = new /\ ExecuteOne(o, c).inverse = inverse
  BY WhenOk
<1> QED
  BY <1>1

CreationOps == {"add_node", "create_node_type", "add_edge", "create_edge_type", "add_property",
                "add_constraint", "add_index", "create_object_mapping", "create_link_mapping",
                "update_object_mapping", "update_link_mapping"}

\* These commands are carried out alike in any ontology at all.
LEMMA CreationMirrored ==
    ASSUME NEW o, NEW c, c.op \in CreationOps
    PROVE  Mirrored(o, c)
<1>1. CASE c.op = "add_node"
  <2>1. ExecuteOne(o, c) = AddNode(o, c)
    BY <1>1, Zenon DEF ExecuteOne
  <2>2. FeApplyOne(o, c) = Push(o, "node_types", NewNode(c), DeleteNodeCmd(c.id))
    BY <1>1, Zenon DEF FeApplyOne
  <2>3. NewNode(c).id = c.id
    BY DEF NewNode
  <2> QED
    BY <2>1, <2>2, <2>3, MirroredForm DEF AddNode, CreateNodeType, Push
<1>2. CASE c.op = "create_node_type"
  <2>1. ExecuteOne(o, c) = CreateNodeType(o, c.node)
    BY <1>2, Zenon DEF ExecuteOne
  <2>2. FeApplyOne(o, c) = Push(o, "node_types", c.node, DeleteNodeCmd(c.node.id))
    BY <1>2, Zenon DEF FeApplyOne
  <2> QED
    BY <2>1, <2>2, MirroredForm DEF CreateNodeType, Push
<1>3. CASE c.op = "add_edge"
  <2>1. ExecuteOne(o, c) = AddEdge(o, c)
    BY <1>3, Zenon DEF ExecuteOne
  <2>2. FeApplyOne(o, c) = Push(o, "edge_types", NewEdge(c), DeleteEdgeCmd(c.id))
    BY <1>3, Zenon DEF FeApplyOne
  <2>3. NewEdge(c).id = c.id
    BY DEF NewEdge
  <2> QED
    BY <2>1, <2>2, <2>3, MirroredForm DEF AddEdge, CreateEdgeType, Push
<1>4. CASE c.op = "create_edge_type"
  <2>1. ExecuteOne(o, c) = CreateEdgeType(o, c.edge)
    BY <1>4, Zenon DEF ExecuteOne
  <2>2. FeApplyOne(o, c) = Push(o, "edge_types", c.edge, DeleteEdgeCmd(c.edge.id))
    BY <1>4, Zenon DEF FeApplyOne
  <2> QED
    BY <2>1, <2>2, MirroredForm DEF CreateEdgeType, Push
<1>5. CASE c.op = "add_property"
  <2>1. ExecuteOne(o, c) = AddProperty(o, c)
    BY <1>5, Zenon DEF ExecuteOne
  <2>2. FeApplyOne(o, c) = FeAddProperty(o, c)
    BY <1>5, Zenon DEF FeApplyOne
  <2> QED
    BY <2>1, <2>2, MirroredForm DEF AddProperty, FeAddProperty
<1>6. CASE c.op = "add_constraint"
  <2>1. ExecuteOne(o, c) = AddConstraint(o, c)
    BY <1>6, Zenon DEF ExecuteOne
  <2>2. FeApplyOne(o, c) = FeAddConstraint(o, c)
    BY <1>6, Zenon DEF FeApplyOne
  <2> QED
    BY <2>1, <2>2, MirroredForm DEF AddConstraint, FeAddConstraint
<1>7. CASE c.op = "add_index"
  <2>1. ExecuteOne(o, c) = AddIndex(o, c)
    BY <1>7, Zenon DEF ExecuteOne
  <2>2. FeApplyOne(o, c) = Push(o, "indexes", c.index,
                                [op |-> "remove_index", index_id |-> c.index.id])
    BY <1>7, Zenon DEF FeApplyOne
  <2> QED
    BY <2>1, <2>2, MirroredForm DEF AddIndex, Push
<1>8. CASE c.op = "create_object_mapping"
  <2>1. ExecuteOne(o, c) = CreateMapping(o, "object_mappings", c.mapping)
    BY <1>8, Zenon DEF ExecuteOne
  <2>2. FeApplyOne(o, c) = Push(o, "object_mappings", c.mapping, DeleteObjectMappingCmd(c.mapping.id))
    BY <1>8, Zenon DEF FeApplyOne
  <2> QED
    BY <2>1, <2>2, MirroredForm DEF CreateMapping, DeleteMappingCmd, Push
<1>9. CASE c.op = "create_link_mapping"
  <2>1. ExecuteOne(o, c) = CreateMapping(o, "link_mappings", c.mapping)
    BY <1>9, Zenon DEF ExecuteOne
  <2>2. FeApplyOne(o, c) = Push(o, "link_mappings", c.mapping, DeleteLinkMappingCmd(c.mapping.id))
    BY <1>9, Zenon DEF FeApplyOne
  <2> QED
    BY <2>1, <2>2, MirroredForm DEF CreateMapping, DeleteMappingCmd, Push
<1>10. CASE c.op = "update_object_mapping"
  <2>1. ExecuteOne(o, c) = UpdateMapping(o, "object_mappings", c)
    BY <1>10, Zenon DEF ExecuteOne
  <2>2. FeApplyOne(o, c) = FeReplace(o, "object_mappings", c)
    BY <1>10, Zenon DEF FeApplyOne
  <2> QED
    BY <2>1, <2>2, MirroredForm DEF UpdateMapping, FeReplace, Unless
<1>11. CASE c.op = "update_link_mapping"
  <2>1. ExecuteOne(o, c) = UpdateMapping(o, "link_mappings", c)
    BY <1>11, Zenon DEF ExecuteOne
  <2>2. FeApplyOne(o, c) = FeReplace(o, "link_mappings", c)
    BY <1>11, Zenon DEF FeApplyOne
  <2> QED
    BY <2>1, <2>2, MirroredForm DEF UpdateMapping, FeReplace, Unless
<1> QED
  BY <1>1, <1>2, <1>3, <1>4, <1>5, <1>6, <1>7, <1>8, <1>9, <1>10, <1>11 DEF CreationOps

LEMMA DropMirrored ==
    ASSUME NEW o, NEW c, NEW list, NEW id, NEW restore,
           ExecuteOne(o, c) = When(id \in Ids(o[list]),
               Ok([o EXCEPT ![list] = Picked(@, {i \in DOMAIN @ : @[i].id # id})], <<restore>>)),
           FeApplyOne(o, c) = FeDrop(o, list, id, restore)
    PROVE  Mirrored(o, c)
<1> DEFINE new == [o EXCEPT ![list] = Picked(@, {i \in DOMAIN @ : @[i].id # id})]
<1>1. FeApplyOne(o, c) = Unless(id \notin Ids(o[list]), o, Applied(new, <<restore>>))
  BY Zenon DEF FeDrop, Keep, Retain
<1> HIDE DEF new
<1>2. ExecuteOne(o, c) = When(id \in Ids(o[list]), Ok(new, <<restore>>))
  BY DEF new
<1>3. id \in Ids(o[list]) => FeApplyOne(o, c) = Applied(new, <<restore>>)
  BY <1>1 DEF Unless
<1> QED
  BY ONLY <1>2, <1>3, MirroredForm

LEMMA RemovalMirrored ==
    ASSUME NEW o, NEW c,
           c.op \in {"remove_index", "delete_object_mapping", "delete_link_mapping",
                     "remove_constraint"}
    PROVE  Mirrored(o, c)
<1>1. CASE c.op = "remove_index"
  <2>1. ExecuteOne(o, c) = RemoveIndex(o, c)
    BY <1>1, Zenon DEF ExecuteOne
  <2>2. FeApplyOne(o, c) = FeDrop(o, "indexes", c.index_id, AddIndexCmd(Find(o.indexes, c.index_id)))
    BY <1>1, Zenon DEF FeApplyOne
  <2>3. ExecuteOne(o, c) = When(c.index_id \in Ids(o["indexes"]),
            Ok([o EXCEPT !["indexes"] = Picked(@, {i \in DOMAIN @ : @[i].id # c.index_id})],
               <<AddIndexCmd(Find(o.indexes, c.index_id))>>))
    BY <2>1, Zenon DEF RemoveIndex, Retain
  <2> QED
    BY <2>2, <2>3, DropMirrored
<1>2. CASE c.op = "delete_object_mapping"
  <2>1. ExecuteOne(o, c) = DeleteMapping(o, "object_mappings", c)
    BY <1>2, Zenon DEF ExecuteOne
  <2>2. FeApplyOne(o, c) = FeDrop(o, "object_mappings", c.id,
                                  CreateObjectMappingCmd(Find(o.object_mappings, c.id)))
    BY <1>2, Zenon DEF FeApplyOne
  <2>3. ExecuteOne(o, c) = When(c.id \in Ids(o["object_mappings"]),
            Ok([o EXCEPT !["object_mappings"] = Picked(@, {i \in DOMAIN @ : @[i].id # c.id})],
               <<CreateObjectMappingCmd(Find(o.object_mappings, c.id))>>))
    BY <2>1, Zenon DEF DeleteMapping, CreateMappingCmd, Retain
  <2> QED
    BY <2>2, <2>3, DropMirrored
<1>3. CASE c.op = "delete_link_mapping"
  <2>1. ExecuteOne(o, c) = DeleteMapping(o, "link_mappings", c)
    BY <1>3, Zenon DEF ExecuteOne
  <2>2. FeApplyOne(o, c) = FeDrop(o, "link_mappings", c.id,
                                  CreateLinkMappingCmd(Find(o.link_mappings, c.id)))
    BY <1>3, Zenon DEF FeApplyOne
  <2>0. "link_mappings" # "object_mappings"
    OBVIOUS
  <2>3. ExecuteOne(o, c) = When(c.id \in Ids(o["link_mappings"]),
            Ok([o EXCEPT !["link_mappings"] = Picked(@, {i \in DOMAIN @ : @[i].id # c.id})],
               <<CreateLinkMappingCmd(Find(o.link_mappings, c.id))>>))
    BY <2>0, <2>1, Zenon DEF DeleteMapping, CreateMappingCmd, Retain
  <2> QED
    BY <2>2, <2>3, DropMirrored
<1>4. CASE c.op = "remove_constraint"
  <2>1. ExecuteOne(o, c) = RemoveConstraint(o, c)
    BY <1>4, Zenon DEF ExecuteOne
  <2>2. FeApplyOne(o, c) = FeRemoveConstraint(o, c)
    BY <1>4, Zenon DEF FeApplyOne
  <2> QED
    BY <2>1, <2>2, MirroredForm DEF RemoveConstraint, FeRemoveConstraint, Unless, Keep
<1> QED
  BY <1>1, <1>2, <1>3, <1>4

-----------------------------------------------------------------------------
(* The commands that set one field of a node or an edge.                    *)

FieldOps == {"rename_node", "update_node_description", "rename_edge",
             "update_edge_cardinality", "update_edge_description"}
ListOf(c) == IF c.op \in {"rename_node", "update_node_description"}
             THEN "node_types" ELSE "edge_types"
TargetOf(c) == IF c.op \in {"rename_node", "update_node_description"}
               THEN c.node_id ELSE c.edge_id
FieldOf(c) == IF c.op \in {"rename_node", "rename_edge"} THEN "label"
              ELSE IF c.op = "update_edge_cardinality" THEN "cardinality" ELSE "description"
ArgOf(c) == IF c.op \in {"rename_node", "rename_edge"} THEN "new_label" ELSE FieldOf(c)

\* A label must be free.
NodeLabelFree(o, c) ==
    \A n \in ToSet(o.node_types) : n.label = c.new_label => n.id = c.node_id
EdgeLabelFree(o, c) ==
    \A e \in ToSet(o.edge_types) :
        Signature(e) = Signature([Find(o.edge_types, c.edge_id) EXCEPT !.label = c.new_label])
        => e.id = c.edge_id
FieldFree(o, c) == /\ c.op = "rename_node" => NodeLabelFree(o, c)
                   /\ c.op = "rename_edge" => EdgeLabelFree(o, c)

SetAll(s, id, field, v) ==
    [i \in DOMAIN s |-> IF s[i].id = id THEN [s[i] EXCEPT ![field] = v] ELSE s[i]]

FieldSet(o, c) ==
    When(TargetOf(c) \in Ids(o[ListOf(c)]) /\ FieldFree(o, c),
         Ok([o EXCEPT ![ListOf(c)] = SetAll(@, TargetOf(c), FieldOf(c), c[ArgOf(c)])],
            <<[c EXCEPT ![ArgOf(c)] = Find(o[ListOf(c)], TargetOf(c))[FieldOf(c)]]>>))

LEMMA FieldParts ==
    ASSUME NEW c, c.op \in FieldOps
    PROVE  /\ c.op = "rename_node" => /\ ListOf(c) = "node_types" /\ TargetOf(c) = c.node_id
                                      /\ FieldOf(c) = "label" /\ ArgOf(c) = "new_label"
           /\ c.op = "update_node_description" =>
                 /\ ListOf(c) = "node_types" /\ TargetOf(c) = c.node_id
                 /\ FieldOf(c) = "description" /\ ArgOf(c) = "description"
           /\ c.op = "rename_edge" => /\ ListOf(c) = "edge_types" /\ TargetOf(c) = c.edge_id
                                      /\ FieldOf(c) = "label" /\ ArgOf(c) = "new_label"
           /\ c.op = "update_edge_cardinality" =>
                 /\ ListOf(c) = "edge_types" /\ TargetOf(c) = c.edge_id
                 /\ FieldOf(c) = "cardinality" /\ ArgOf(c) = "cardinality"
           /\ c.op = "update_edge_description" =>
                 /\ ListOf(c) = "edge_types" /\ TargetOf(c) = c.edge_id
                 /\ FieldOf(c) = "description" /\ ArgOf(c) = "description"
           /\ \A o : c.op = "rename_node" => (FieldFree(o, c) <=> NodeLabelFree(o, c))
           /\ \A o : c.op = "rename_edge" => (FieldFree(o, c) <=> EdgeLabelFree(o, c))
           /\ \A o : c.op \notin {"rename_node", "rename_edge"} => FieldFree(o, c)
BY DEF FieldOps, ListOf, TargetOf, FieldOf, ArgOf, FieldFree

\* What the server makes of such a command, and the browser.
LEMMA FieldForms ==
    ASSUME NEW o, Sound(o), NEW c, c.op \in FieldOps
    PROVE  /\ ExecuteOne(o, c) = FieldSet(o, c)
           /\ FeApplyOne(o, c)
                 = FeSetField(o, ListOf(c), TargetOf(c), FieldOf(c), c, ArgOf(c))
<1>1. CASE c.op = "rename_node"
  <2>0. /\ ListOf(c) = "node_types" /\ TargetOf(c) = c.node_id /\ FieldOf(c) = "label"
        /\ ArgOf(c) = "new_label" /\ (FieldFree(o, c) <=> NodeLabelFree(o, c))
    BY <1>1, FieldParts
  <2>1. ExecuteOne(o, c) = RenameNode(o, c)
    BY <1>1, Zenon DEF ExecuteOne
  <2>2. FeApplyOne(o, c) = FeSetField(o, "node_types", c.node_id, "label", c, "new_label")
    BY <1>1, Zenon DEF FeApplyOne
  <2>3. ExecuteOne(o, c) = When(c.node_id \in Ids(o["node_types"]) /\ NodeLabelFree(o, c),
            Ok([o EXCEPT !["node_types"] = SetAll(@, c.node_id, "label", c["new_label"])],
               <<[c EXCEPT !["new_label"] = Find(o["node_types"], c.node_id)["label"]]>>))
    BY <2>1, Zenon DEF RenameNode, MapById, SetAll, NodeLabelFree
  <2> QED
    BY <2>0, <2>2, <2>3, Zenon DEF FieldSet
<1>2. CASE c.op = "update_node_description"
  <2>0. /\ ListOf(c) = "node_types" /\ TargetOf(c) = c.node_id /\ FieldOf(c) = "description"
        /\ ArgOf(c) = "description" /\ FieldFree(o, c)
    BY <1>2, FieldParts
  <2>1. ExecuteOne(o, c) = UpdateNodeDescription(o, c)
    BY <1>2, Zenon DEF ExecuteOne
  <2>2. FeApplyOne(o, c)
            = FeSetField(o, "node_types", c.node_id, "description", c, "description")
    BY <1>2, Zenon DEF FeApplyOne
  <2>3. ExecuteOne(o, c) = When(c.node_id \in Ids(o["node_types"]),
            Ok([o EXCEPT !["node_types"] = SetAll(@, c.node_id, "description", c["description"])],
               <<[c EXCEPT !["description"] = Find(o["node_types"], c.node_id)["description"]]>>))
    BY <2>1, Zenon DEF UpdateNodeDescription, MapById, SetAll
  <2> QED
    BY <2>0, <2>2, <2>3, Zenon DEF FieldSet, When
<1>3. CASE c.op = "rename_edge"
  <2>0. /\ ListOf(c) = "edge_types" /\ TargetOf(c) = c.edge_id /\ FieldOf(c) = "label"
        /\ ArgOf(c) = "new_label" /\ (FieldFree(o, c) <=> EdgeLabelFree(o, c))
    BY <1>3, FieldParts
  <2> DEFINE es == o.edge_types
             renamed == [Find(es, c.edge_id) EXCEPT !.label = c.new_label]
             a == [i \in DOMAIN es |-> IF es[i].id = c.edge_id THEN renamed ELSE es[i]]
  <2>1. ExecuteOne(o, c) = RenameEdge(o, c)
    BY <1>3, Zenon DEF ExecuteOne
  <2>2. FeApplyOne(o, c) = FeSetField(o, "edge_types", c.edge_id, "label", c, "new_label")
    BY <1>3, Zenon DEF FeApplyOne
  <2>3. ExecuteOne(o, c) = When(c.edge_id \in Ids(o["edge_types"]) /\ EdgeLabelFree(o, c),
            Ok([o EXCEPT !["edge_types"] = a],
               <<[c EXCEPT !["new_label"] = Find(o["edge_types"], c.edge_id)["label"]]>>))
    BY <2>1, Zenon DEF RenameEdge, MapById, EdgeLabelFree
  <2>4. a = SetAll(es, c.edge_id, "label", c["new_label"])
    <3>1. es \in Seq(EdgeType) /\ DistinctIds(es)
      BY OntologyLists, SoundIds
    <3>2. \A i \in DOMAIN es : es[i].id = c.edge_id => Find(es, c.edge_id) = es[i]
      BY <3>1, FoundAt
    <3> HIDE DEF es
    <3> QED
      BY <3>2 DEF SetAll
  <2> HIDE DEF a
  <2> QED
    BY <2>0, <2>2, <2>3, <2>4, Zenon DEF FieldSet
<1>4. CASE c.op = "update_edge_cardinality"
  <2>0. /\ ListOf(c) = "edge_types" /\ TargetOf(c) = c.edge_id /\ FieldOf(c) = "cardinality"
        /\ ArgOf(c) = "cardinality" /\ FieldFree(o, c)
    BY <1>4, FieldParts
  <2>1. ExecuteOne(o, c) = UpdateEdgeCardinality(o, c)
    BY <1>4, Zenon DEF ExecuteOne
  <2>2. FeApplyOne(o, c)
            = FeSetField(o, "edge_types", c.edge_id, "cardinality", c, "cardinality")
    BY <1>4, Zenon DEF FeApplyOne
  <2>3. ExecuteOne(o, c) = When(c.edge_id \in Ids(o["edge_types"]),
            Ok([o EXCEPT !["edge_types"] = SetAll(@, c.edge_id, "cardinality", c["cardinality"])],
               <<[c EXCEPT !["cardinality"] = Find(o["edge_types"], c.edge_id)["cardinality"]]>>))
    BY <2>1, Zenon DEF UpdateEdgeCardinality, MapById, SetAll
  <2> QED
    BY <2>0, <2>2, <2>3, Zenon DEF FieldSet, When
<1>5. CASE c.op = "update_edge_description"
  <2>0. /\ ListOf(c) = "edge_types" /\ TargetOf(c) = c.edge_id /\ FieldOf(c) = "description"
        /\ ArgOf(c) = "description" /\ FieldFree(o, c)
    BY <1>5, FieldParts
  <2>1. ExecuteOne(o, c) = UpdateEdgeDescription(o, c)
    BY <1>5, Zenon DEF ExecuteOne
  <2>2. FeApplyOne(o, c)
            = FeSetField(o, "edge_types", c.edge_id, "description", c, "description")
    BY <1>5, Zenon DEF FeApplyOne
  <2>3. ExecuteOne(o, c) = When(c.edge_id \in Ids(o["edge_types"]),
            Ok([o EXCEPT !["edge_types"] = SetAll(@, c.edge_id, "description", c["description"])],
               <<[c EXCEPT !["description"] = Find(o["edge_types"], c.edge_id)["description"]]>>))
    BY <2>1, Zenon DEF UpdateEdgeDescription, MapById, SetAll
  <2> QED
    BY <2>0, <2>2, <2>3, Zenon DEF FieldSet, When
<1> QED
  BY <1>1, <1>2, <1>3, <1>4, <1>5 DEF FieldOps

LEMMA FieldsMirrored ==
    ASSUME NEW o, Sound(o), NEW c, c.op \in FieldOps
    PROVE  Mirrored(o, c)
<1> DEFINE cond == TargetOf(c) \in Ids(o[ListOf(c)]) /\ FieldFree(o, c)
           new == [o EXCEPT ![ListOf(c)] = SetAll(@, TargetOf(c), FieldOf(c), c[ArgOf(c)])]
           inv == <<[c EXCEPT ![ArgOf(c)] = Find(o[ListOf(c)], TargetOf(c))[FieldOf(c)]]>>
<1>1. ExecuteOne(o, c) = When(cond, Ok(new, inv))
  BY FieldForms, Zenon DEF FieldSet
<1>2. FeApplyOne(o, c) = Unless(TargetOf(c) \notin Ids(o[ListOf(c)]), o, Applied(new, inv))
  BY FieldForms, Zenon DEF FeSetField, MapById, SetAll
<1>3. cond => TargetOf(c) \in Ids(o[ListOf(c)])
  OBVIOUS
<1> HIDE DEF cond, new, inv
<1>4. cond => FeApplyOne(o, c) = Applied(new, inv)
  BY <1>2, <1>3 DEF Unless
<1> QED
  BY ONLY <1>1, <1>4, MirroredForm

LEMMA DeletionMirrored ==
    ASSUME NEW o, Sound(o), NEW c \in Command,
           c.op \in {"delete_node", "delete_edge", "delete_property"}
    PROVE  Mirrored(o, c)
<1>0. o \in Ontology
  BY DEF Sound
<1>1. CASE c.op = "delete_node"
  <2> DEFINE cond == c.node_id \in Ids(o.node_types)
  <2>1. ExecuteOne(o, c) = DeleteNode(o, c)
    BY <1>1, Zenon DEF ExecuteOne
  <2>2. FeApplyOne(o, c) = FeDeleteNode(o, c)
    BY <1>1, Zenon DEF FeApplyOne
  <2>3. ExecuteOne(o, c) = When(cond, Ok(WithoutNode(o, c.node_id), NodeRestored(o, c.node_id)))
    BY <1>0, <2>1, NodeDeletion
  <2>4. cond => FeApplyOne(o, c) = Applied(WithoutNode(o, c.node_id), NodeRestored(o, c.node_id))
    BY <1>0, <2>2, NodeDeletion DEF Unless
  <2> HIDE DEF cond
  <2> QED
    BY ONLY <2>3, <2>4, MirroredForm
<1>2. CASE c.op = "delete_edge"
  <2> DEFINE cond == c.edge_id \in Ids(o.edge_types)
  <2>1. ExecuteOne(o, c) = DeleteEdge(o, c)
    BY <1>2, Zenon DEF ExecuteOne
  <2>2. FeApplyOne(o, c) = FeDeleteEdge(o, c)
    BY <1>2, Zenon DEF FeApplyOne
  <2>3. ExecuteOne(o, c) = When(cond, Ok(WithoutEdge(o, c.edge_id), EdgeRestored(o, c.edge_id)))
    BY <1>0, <2>1, EdgeDeletion
  <2>4. cond => FeApplyOne(o, c) = Applied(WithoutEdge(o, c.edge_id), EdgeRestored(o, c.edge_id))
    BY <1>0, <2>2, EdgeDeletion DEF Unless
  <2> HIDE DEF cond
  <2> QED
    BY ONLY <2>3, <2>4, MirroredForm
<1>3. CASE c.op = "delete_property"
  <2>1. ExecuteOne(o, c) = DeleteProperty(o, c)
    BY <1>3, Zenon DEF ExecuteOne
  <2>2. FeApplyOne(o, c) = FeDeleteProperty(o, c)
    BY <1>3, Zenon DEF FeApplyOne
  <2>3. c.owner \in Owner
    BY <1>3, CommandKinds DEF PropertyOps, PropertyCommand
  <2>4. SUFFICES ASSUME ExecuteOne(o, c).ok
                 PROVE  Mirrored(o, c)
    BY DEF Mirrored
  <2>5. OwnerExists(o, c.owner)
    <3>1. \E p, r : DeleteProperty(o, c) = When(OwnerExists(o, c.owner) /\ p, r)
      BY Zenon DEF DeleteProperty
    <3> QED
      BY <2>1, <2>4, <3>1 DEF When, Err
  <2>6. \/ c.owner.kind = "node" /\ \E k \in DOMAIN o.node_types : o.node_types[k].id = c.owner.type_id
        \/ c.owner.kind # "node" /\ \E k \in DOMAIN o.edge_types : o.edge_types[k].id = c.owner.type_id
    BY <2>3, <2>5, OwnerPlace
  <2>7. CASE c.owner.kind = "node"
    <3>1. PICK k \in DOMAIN o.node_types : o.node_types[k].id = c.owner.type_id
      BY <2>6, <2>7
    <3> DEFINE cond == c.property_id \in Ids(o.node_types[k].properties)
               new == WithoutNodeProperty(o, k, c.property_id)
               inv == NodePropertyRestored(o, k, c.owner, c.property_id)
    <3>2. ExecuteOne(o, c) = When(cond, Ok(new, inv))
      BY <2>1, <2>3, <2>7, <3>1, NodePropertyDeletion
    <3>3. FeApplyOne(o, c) = Unless(~cond, o, Applied(new, inv))
      BY <2>2, <2>3, <2>7, <3>1, FeNodePropertyDeletion
    <3> HIDE DEF cond, new, inv
    <3>4. cond => FeApplyOne(o, c) = Applied(new, inv)
      BY <3>3 DEF Unless
    <3> QED
      BY ONLY <3>2, <3>4, MirroredForm
  <2>8. CASE c.owner.kind # "node"
    <3>1. PICK k \in DOMAIN o.edge_types : o.edge_types[k].id = c.owner.type_id
      BY <2>6, <2>8
    <3> DEFINE cond == c.property_id \in Ids(o.edge_types[k].properties)
               new == WithoutEdgeProperty(o, k, c.property_id)
               inv == EdgePropertyRestored(o, k, c.owner, c.property_id)
    <3>2. ExecuteOne(o, c) = When(cond, Ok(new, inv))
      BY <2>1, <2>3, <2>8, <3>1, EdgePropertyDeletion
    <3>3. FeApplyOne(o, c) = Unless(~cond, o, Applied(new, inv))
      BY <2>2, <2>3, <2>8, <3>1, FeEdgePropertyDeletion
    <3> HIDE DEF cond, new, inv
    <3>4. cond => FeApplyOne(o, c) = Applied(new, inv)
      BY <3>3 DEF Unless
    <3> QED
      BY ONLY <3>2, <3>4, MirroredForm
  <2> QED
    BY <2>7, <2>8
<1> QED
  BY <1>1, <1>2, <1>3

\* Where the owner of a command is, and what the two sides see of it.
LEMMA OwnerSeen ==
    ASSUME NEW o, Sound(o), NEW owner \in Owner, OwnerExists(o, owner)
    PROVE  /\ FeOwner(o, owner.type_id).properties = OwnerProperties(o, owner)
           /\ OwnerProperties(o, owner) \in Seq(Property) /\ DistinctIds(OwnerProperties(o, owner))
           /\ owner.type_id \in Ids(o.node_types) \cup Ids(o.edge_types)
<1>0. o \in Ontology
  BY DEF Sound
<1>1. \/ owner.kind = "node" /\ \E k \in DOMAIN o.node_types : o.node_types[k].id = owner.type_id
      \/ owner.kind # "node" /\ \E k \in DOMAIN o.edge_types : o.edge_types[k].id = owner.type_id
  BY OwnerPlace
<1>2. owner.type_id \in Ids(o.node_types) \cup Ids(o.edge_types)
  BY <1>1 DEF Ids
<1>3. CASE owner.kind = "node"
  <2>1. PICK k \in DOMAIN o.node_types : o.node_types[k].id = owner.type_id
    BY <1>1, <1>3
  <2>2. FeOwner(o, owner.type_id) = o.node_types[k] /\ OwnerProperties(o, owner) = o.node_types[k].properties
    BY <1>3, <2>1, NodeOwnerAt
  <2> QED
    BY <1>0, <1>2, <2>2, SoundIds, EntryFacts
<1>4. CASE owner.kind # "node"
  <2>1. PICK k \in DOMAIN o.edge_types : o.edge_types[k].id = owner.type_id
    BY <1>1, <1>4
  <2>2. FeOwner(o, owner.type_id) = o.edge_types[k] /\ OwnerProperties(o, owner) = o.edge_types[k].properties
    BY <1>4, <2>1, EdgeOwnerAt
  <2> QED
    BY <1>0, <1>2, <2>2, SoundIds, EntryFacts
<1> QED
  BY <1>3, <1>4

PatchOn(p, patch) == [f \in DOMAIN p |-> IF f \in DOMAIN patch THEN patch[f] ELSE p[f]]

\* An update of a property, as both sides carry it out.
LEMMA UpdateForms ==
    ASSUME NEW o, Sound(o), NEW c, c.owner \in Owner, OwnerExists(o, c.owner)
    PROVE  LET ps == OwnerProperties(o, c.owner)
               old == Find(ps, c.property_id)
               cond == OwnerExists(o, c.owner) /\ c.property_id \in Ids(ps)
               new == WithProperties(o, c.owner, [i \in DOMAIN ps |->
                          IF ps[i].id = c.property_id THEN PatchOn(ps[i], c.patch) ELSE ps[i]])
               inv == <<[c EXCEPT !.patch = [f \in DOMAIN c.patch |-> old[f]]]>>
           IN  /\ UpdateProperty(o, c) = When(cond, Ok(new, inv))
               /\ DOMAIN c.patch \subseteq FePatchFields =>
                     FeUpdateProperty(o, c) = Unless(~cond, o, Applied(new, inv))
<1> DEFINE ps == OwnerProperties(o, c.owner)
           old == Find(ps, c.property_id)
           cond == OwnerExists(o, c.owner) /\ c.property_id \in Ids(ps)
           a == [i \in DOMAIN ps |->
                    IF ps[i].id = c.property_id THEN PatchOn(ps[i], c.patch) ELSE ps[i]]
           b == [i \in DOMAIN ps |->
                    IF ps[i].id = c.property_id THEN PatchOn(old, c.patch) ELSE ps[i]]
           inv == <<[c EXCEPT !.patch = [f \in DOMAIN c.patch |-> old[f]]]>>
<1>1. UpdateProperty(o, c) = When(cond, Ok(WithProperties(o, c.owner, b), inv))
  BY Zenon DEF UpdateProperty, MapById, PatchOn
<1>2. ps \in Seq(Property) /\ DistinctIds(ps)
  BY OwnerSeen
<1>3. a = b
  <2>1. \A i \in DOMAIN ps : ps[i].id = c.property_id => old = ps[i]
    BY <1>2, FoundAt
  <2> HIDE DEF ps, old
  <2> QED
    BY <2>1
<1>4. ASSUME DOMAIN c.patch \subseteq FePatchFields
      PROVE  FeUpdateProperty(o, c) = Unless(~cond, o, Applied(WithProperties(o, c.owner, a), inv))
  <2> DEFINE fps == FeOwner(o, c.owner.type_id).properties
             set == DOMAIN c.patch \cap FePatchFields
  <2>1. FeUpdateProperty(o, c) =
          Unless(~(/\ c.owner.type_id \in Ids(o.node_types) \cup Ids(o.edge_types)
                   /\ c.property_id \in Ids(fps)), o,
            Applied(WithProperties(o, c.owner, [i \in DOMAIN ps |->
                        IF ps[i].id = c.property_id
                        THEN [f \in DOMAIN ps[i] |-> IF f \in set THEN c.patch[f] ELSE ps[i][f]]
                        ELSE ps[i]]),
                    <<[c EXCEPT !.patch = [f \in set |-> Find(fps, c.property_id)[f]]]>>))
    BY Zenon DEF FeUpdateProperty, MapById, FeHasProperty
  <2>2. set = DOMAIN c.patch
    BY <1>4
  <2>3. fps = ps /\ c.owner.type_id \in Ids(o.node_types) \cup Ids(o.edge_types)
    BY OwnerSeen
  <2> HIDE DEF ps, fps, set
  <2> QED
    BY <2>1, <2>2, <2>3, Zenon DEF PatchOn
<1> QED
  BY <1>1, <1>3, <1>4

\* What the server accepts, the browser computes too, but for default values.
LEMMA OneMirrored ==
    ASSUME NEW o, Sound(o), NEW c \in Command,
           c.op = "update_property" => DOMAIN c.patch \subseteq FePatchFields
    PROVE  Mirrored(o, c)
<1>1. CASE c.op = "update_property"
  <2>1. ExecuteOne(o, c) = UpdateProperty(o, c)
    BY <1>1, Zenon DEF ExecuteOne
  <2>2. FeApplyOne(o, c) = FeUpdateProperty(o, c)
    BY <1>1, Zenon DEF FeApplyOne
  <2>3. c.owner \in Owner
    BY <1>1, CommandKinds DEF PropertyOps, PropertyCommand
  <2>4. SUFFICES ASSUME ExecuteOne(o, c).ok
                 PROVE  Mirrored(o, c)
    BY DEF Mirrored
  <2>5. OwnerExists(o, c.owner)
    <3>1. \E p, r : UpdateProperty(o, c) = When(OwnerExists(o, c.owner) /\ p, r)
      BY Zenon DEF UpdateProperty
    <3> QED
      BY <2>1, <2>4, <3>1 DEF When, Err
  <2> DEFINE ps == OwnerProperties(o, c.owner)
             old == Find(ps, c.property_id)
             cond == OwnerExists(o, c.owner) /\ c.property_id \in Ids(ps)
             new == WithProperties(o, c.owner, [i \in DOMAIN ps |->
                        IF ps[i].id = c.property_id THEN PatchOn(ps[i], c.patch) ELSE ps[i]])
             inv == <<[c EXCEPT !.patch = [f \in DOMAIN c.patch |-> old[f]]]>>
  <2>6. /\ UpdateProperty(o, c) = When(cond, Ok(new, inv))
        /\ DOMAIN c.patch \subseteq FePatchFields =>
              FeUpdateProperty(o, c) = Unless(~cond, o, Applied(new, inv))
    BY <2>3, <2>5, UpdateForms
  <2> HIDE DEF cond, new, inv
  <2>7. ExecuteOne(o, c) = When(cond, Ok(new, inv))
    BY <2>1, <2>6
  <2>8. cond => FeApplyOne(o, c) = Applied(new, inv)
    BY <1>1, <2>2, <2>6 DEF Unless
  <2> QED
    BY ONLY <2>7, <2>8, MirroredForm
<1>2. CASE c.op # "update_property"
  <2>1. c.op \in Ops
    BY CommandKinds
  <2> QED
    BY <1>2, <2>1, CreationMirrored, RemovalMirrored, FieldsMirrored, DeletionMirrored
       DEF Ops, CreationOps, FieldOps
<1> QED
  BY <1>1, <1>2

-----------------------------------------------------------------------------
(* What the inverse of a command makes of the result.                       *)

Undoes(o, r) == \E b : RunsTo(r.ont, r.inverse, b) /\ Reordered(o, b)

LEMMA UndoneOnce ==
    ASSUME NEW o \in Ontology, NEW new, NEW d, ExecuteOne(new, d).ok,
           Reordered(o, ExecuteOne(new, d).ont), NEW r, r.ont = new, r.inverse = <<d>>
    PROVE  Undoes(o, r)
BY RunsOnce DEF Undoes

LEMMA UndoneExactly ==
    ASSUME NEW o \in Ontology, NEW new, NEW d, ExecuteOne(new, d).ok,
           ExecuteOne(new, d).ont = o, NEW r, r.ont = new, r.inverse = <<d>>
    PROVE  Undoes(o, r)
BY UndoneOnce, ReorderedItself

\* Setting a field back.
LEMMA SetAllFacts ==
    ASSUME NEW S, NEW s \in Seq(S), DistinctIds(s), NEW k \in DOMAIN s,
           NEW f \in DOMAIN s[k], f # "id", "id" \in DOMAIN s[k],
           s[k] = [x \in DOMAIN s[k] |-> s[k][x]], NEW v,
           NEW t, t = SetAll(s, s[k].id, f, v)
    PROVE  /\ DOMAIN t = DOMAIN s /\ \A i \in DOMAIN s : t[i].id = s[i].id
           /\ t[k] = [s[k] EXCEPT ![f] = v]
           /\ \A i \in DOMAIN s : i # k => t[i] = s[i]
           /\ Ids(t) = Ids(s)
           /\ SetAll(t, s[k].id, f, s[k][f]) = s
<1>1. DOMAIN t = DOMAIN s
  BY DEF SetAll
<1>2. t[k] = [s[k] EXCEPT ![f] = v]
  BY DEF SetAll
<1>3. \A i \in DOMAIN s : i # k => t[i] = s[i]
  BY DEF SetAll, DistinctIds
<1>4. t[k].id = s[k].id
  BY <1>2
<1>5. \A i \in DOMAIN s : t[i].id = s[i].id
  BY <1>3, <1>4
<1>6. Ids(t) = Ids(s)
  BY <1>1, <1>5 DEF Ids
<1>7. [t[k] EXCEPT ![f] = s[k][f]] = s[k]
  BY <1>2
<1>8. SetAll(t, s[k].id, f, s[k][f])
        = [i \in DOMAIN t |-> IF t[i].id = s[k].id THEN [t[i] EXCEPT ![f] = s[k][f]] ELSE t[i]]
  BY DEF SetAll
<1>9. \A i \in DOMAIN s : (IF t[i].id = s[k].id THEN [t[i] EXCEPT ![f] = s[k][f]] ELSE t[i]) = s[i]
  BY <1>3, <1>4, <1>5, <1>7 DEF DistinctIds
<1>10. s = [i \in DOMAIN s |-> s[i]]
  BY ListFacts
<1> QED
  BY <1>1, <1>2, <1>3, <1>5, <1>6, <1>8, <1>9, <1>10

LEMMA FieldCommand ==
    ASSUME NEW c \in Command, c.op \in FieldOps, NEW v
    PROVE  LET d == [c EXCEPT ![ArgOf(c)] = v]
           IN  /\ d.op = c.op /\ ListOf(d) = ListOf(c) /\ TargetOf(d) = TargetOf(c)
               /\ FieldOf(d) = FieldOf(c) /\ ArgOf(d) = ArgOf(c) /\ d[ArgOf(c)] = v
               /\ ListOf(c) = "node_types" =>
                     FieldOf(c) \in {"label", "description"}
               /\ ListOf(c) = "edge_types" =>
                     FieldOf(c) \in {"label", "description", "cardinality"}
               /\ ListOf(c) \in {"node_types", "edge_types"}
               /\ c.op = "rename_node" => c.node_id = TargetOf(c) /\ d.node_id = c.node_id /\ d.new_label = v
               /\ c.op = "rename_edge" => c.edge_id = TargetOf(c) /\ d.edge_id = c.edge_id /\ d.new_label = v
<1> DEFINE d == [c EXCEPT ![ArgOf(c)] = v]
<1>1. /\ c.op \in NodeOps => c \in NodeCommand
      /\ c.op \in EdgeOps => c \in EdgeCommand
  BY CommandKinds
<1>2. CASE c.op = "rename_node"
  <2>1. c \in [op : {"rename_node"}, node_id : NodeId, new_label : Text]
    BY <1>1, <1>2 DEF NodeOps, NodeCommand
  <2>2. ArgOf(c) = "new_label"
    BY <1>2 DEF ArgOf
  <2>3. d.op = c.op /\ d.node_id = c.node_id /\ d.new_label = v
    BY <2>1, <2>2
  <2> QED
    BY <1>2, <2>2, <2>3 DEF ListOf, TargetOf, FieldOf, ArgOf
<1>3. CASE c.op = "update_node_description"
  <2>1. c \in [op : {"update_node_description"}, node_id : NodeId, description : Text]
    BY <1>1, <1>3 DEF NodeOps, NodeCommand
  <2>2. ArgOf(c) = "description"
    BY <1>3 DEF ArgOf, FieldOf
  <2>3. d.op = c.op /\ d.node_id = c.node_id /\ d.description = v
    BY <2>1, <2>2
  <2> QED
    BY <1>3, <2>2, <2>3 DEF ListOf, TargetOf, FieldOf, ArgOf
<1>4. CASE c.op = "rename_edge"
  <2>1. c \in [op : {"rename_edge"}, edge_id : EdgeId, new_label : Text]
    BY <1>1, <1>4 DEF EdgeOps, EdgeCommand
  <2>2. ArgOf(c) = "new_label"
    BY <1>4 DEF ArgOf
  <2>3. d.op = c.op /\ d.edge_id = c.edge_id /\ d.new_label = v
    BY <2>1, <2>2
  <2> QED
    BY <1>4, <2>2, <2>3 DEF ListOf, TargetOf, FieldOf, ArgOf
<1>5. CASE c.op = "update_edge_cardinality"
  <2>1. c \in [op : {"update_edge_cardinality"}, edge_id : EdgeId, cardinality : Cardinalities]
    BY <1>1, <1>5 DEF EdgeOps, EdgeCommand
  <2>2. ArgOf(c) = "cardinality"
    BY <1>5 DEF ArgOf, FieldOf
  <2>3. d.op = c.op /\ d.edge_id = c.edge_id /\ d.cardinality = v
    BY <2>1, <2>2
  <2> QED
    BY <1>5, <2>2, <2>3 DEF ListOf, TargetOf, FieldOf, ArgOf
<1>6. CASE c.op = "update_edge_description"
  <2>1. c \in [op : {"update_edge_description"}, edge_id : EdgeId, description : Text]
    BY <1>1, <1>6 DEF EdgeOps, EdgeCommand
  <2>2. ArgOf(c) = "description"
    BY <1>6 DEF ArgOf, FieldOf
  <2>3. d.op = c.op /\ d.edge_id = c.edge_id /\ d.description = v
    BY <2>1, <2>2
  <2> QED
    BY <1>6, <2>2, <2>3 DEF ListOf, TargetOf, FieldOf, ArgOf
<1> QED
  BY <1>2, <1>3, <1>4, <1>5, <1>6 DEF FieldOps

LEMMA OntologyFields ==
    ASSUME NEW o \in Ontology
    PROVE  /\ o = [x \in DOMAIN o |-> o[x]]
           /\ DOMAIN o = {"node_types", "edge_types", "indexes", "object_mappings",
                          "link_mappings", "segments", "table_inventory", "rules"}
BY DEF Ontology

\* Both lists hold records with an id.
LEMMA ListEntries ==
    ASSUME NEW o, Sound(o), NEW list \in {"node_types", "edge_types"}
    PROVE  \E S : /\ o[list] \in Seq(S) /\ DistinctIds(o[list])
                  /\ \A x \in S : /\ x = [f \in DOMAIN x |-> x[f]] /\ "id" \in DOMAIN x
                                  /\ {"label", "description", "properties"} \subseteq DOMAIN x
                                  /\ list = "edge_types" => "cardinality" \in DOMAIN x
<1>1. CASE list = "node_types"
  <2>1. \A x \in NodeType : /\ x = [f \in DOMAIN x |-> x[f]]
                            /\ {"id", "label", "description", "properties"} \subseteq DOMAIN x
    BY DEF NodeType
  <2> QED
    BY <1>1, <2>1, SoundIds, OntologyLists
<1>2. CASE list = "edge_types"
  <2>1. \A x \in EdgeType : /\ x = [f \in DOMAIN x |-> x[f]]
                            /\ {"id", "label", "description", "properties", "cardinality"} \subseteq DOMAIN x
    BY DEF EdgeType
  <2> QED
    BY <1>2, <2>1, SoundIds, OntologyLists
<1> QED
  BY <1>1, <1>2

LEMMA FieldUndone ==
    ASSUME NEW o, Sound(o), NEW c \in Command, c.op \in FieldOps,
           ExecuteOne(o, c).ok, Sound(ExecuteOne(o, c).ont)
    PROVE  Undoes(o, ExecuteOne(o, c))
<1> DEFINE L == ListOf(c)
           id == TargetOf(c)
           f == FieldOf(c)
           s == o[L]
           old == Find(s, id)[f]
           d == [c EXCEPT ![ArgOf(c)] = old]
           t == SetAll(s, id, f, c[ArgOf(c)])
           b == [o EXCEPT ![L] = t]
           g == id \in Ids(s) /\ FieldFree(o, c)
<1>1. ExecuteOne(o, c) = When(g, Ok(b, <<d>>))
  BY FieldForms, Zenon DEF FieldSet
<1>2. g /\ ExecuteOne(o, c).ont = b /\ ExecuteOne(o, c).inverse = <<d>>
  <2> HIDE DEF g, b, d
  <2> QED
    BY <1>1, WhenOk
<1>3. /\ d.op = c.op /\ ListOf(d) = L /\ TargetOf(d) = id /\ FieldOf(d) = f
      /\ ArgOf(d) = ArgOf(c) /\ d[ArgOf(c)] = old
      /\ L = "node_types" => f \in {"label", "description"}
      /\ L = "edge_types" => f \in {"label", "description", "cardinality"}
      /\ L \in {"node_types", "edge_types"}
      /\ c.op = "rename_node" => c.node_id = id /\ d.node_id = c.node_id /\ d.new_label = old
      /\ c.op = "rename_edge" => c.edge_id = id /\ d.edge_id = c.edge_id /\ d.new_label = old
  <2> HIDE DEF old
  <2> QED
    BY FieldCommand
<1>4. o \in Ontology
  BY DEF Sound
<1>5. o = [x \in DOMAIN o |-> o[x]] /\ L \in DOMAIN o
  BY <1>3, <1>4, OntologyFields
<1>6. PICK S : /\ s \in Seq(S) /\ DistinctIds(s)
               /\ \A x \in S : /\ x = [y \in DOMAIN x |-> x[y]] /\ "id" \in DOMAIN x
                               /\ {"label", "description", "properties"} \subseteq DOMAIN x
                               /\ L = "edge_types" => "cardinality" \in DOMAIN x
  BY <1>3, ListEntries
<1>7. PICK k \in DOMAIN s : s[k].id = id
  BY <1>2 DEF Ids
<1>8. s[k] \in S
  BY <1>6, <1>7, ListFacts
<1>9. /\ f \in DOMAIN s[k] /\ f # "id" /\ "id" \in DOMAIN s[k]
      /\ s[k] = [x \in DOMAIN s[k] |-> s[k][x]]
  BY <1>3, <1>6, <1>8
<1>10. Find(s, id) = s[k] /\ old = s[k][f]
  BY <1>6, <1>7, FoundAt
<1>11. /\ DOMAIN t = DOMAIN s /\ \A i \in DOMAIN s : t[i].id = s[i].id
       /\ t[k] = [s[k] EXCEPT ![f] = c[ArgOf(c)]]
       /\ \A i \in DOMAIN s : i # k => t[i] = s[i]
       /\ Ids(t) = Ids(s)
       /\ SetAll(t, id, f, s[k][f]) = s
  <2> DEFINE v == c[ArgOf(c)]
  <2> HIDE DEF f, s, v, id
  <2>1. t = SetAll(s, s[k].id, f, v)
    BY <1>7 DEF v
  <2>2. /\ DOMAIN t = DOMAIN s /\ \A i \in DOMAIN s : t[i].id = s[i].id
        /\ t[k] = [s[k] EXCEPT ![f] = v]
        /\ \A i \in DOMAIN s : i # k => t[i] = s[i]
        /\ Ids(t) = Ids(s)
        /\ SetAll(t, s[k].id, f, s[k][f]) = s
    <3> HIDE DEF t
    <3> QED
      BY <1>6, <1>9, <2>1, SetAllFacts
  <2> QED
    BY <2>2, <1>7 DEF v
<1>12. b[L] = t /\ [b EXCEPT ![L] = s] = o
  <2> HIDE DEF t, L
  <2>1. b[L] = t
    BY <1>5
  <2>2. DOMAIN b = DOMAIN o /\ \A x \in DOMAIN o : x # L => b[x] = o[x]
    BY <1>5
  <2>3. \A x \in DOMAIN o : [b EXCEPT ![L] = s][x] = o[x]
    BY <2>2, <1>5
  <2>4. [b EXCEPT ![L] = s] = [x \in DOMAIN o |-> [b EXCEPT ![L] = s][x]]
    BY <2>2
  <2> QED
    BY <2>1, <2>3, <2>4, <1>5
<1>13. FieldFree(b, d)
  <2>1. c.op = "rename_node" => NodeLabelFree(b, d)
    <3> SUFFICES ASSUME c.op = "rename_node"
                 PROVE  NodeLabelFree(b, d)
      OBVIOUS
    <3>1. L = "node_types" /\ f = "label"
      BY DEF ListOf, FieldOf
    <3>2. \A x, y \in DOMAIN s : s[x].label = s[y].label => x = y
      BY <3>1 DEF Sound, rebuild_indices, Distinct
    <3>3. \A i \in DOMAIN t : t[i].label = old => t[i].id = id
      BY <3>1, <3>2, <1>7, <1>10, <1>11
    <3>4. \A n \in ToSet(t) : n.label = old => n.id = id
      BY <3>3 DEF ToSet
    <3>5. b.node_types = t /\ d.node_id = id /\ d.new_label = old
      BY <3>1, <1>3, <1>12
    <3> HIDE DEF t, b, d, old, s
    <3> QED
      BY <3>4, <3>5 DEF NodeLabelFree
  <2>2. c.op = "rename_edge" => EdgeLabelFree(b, d)
    <3> SUFFICES ASSUME c.op = "rename_edge"
                 PROVE  EdgeLabelFree(b, d)
      OBVIOUS
    <3>1. L = "edge_types" /\ f = "label"
      BY DEF ListOf, FieldOf
    <3>2. \A x, y \in DOMAIN s : Signature(s[x]) = Signature(s[y]) => x = y
      BY <3>1 DEF Sound, validate, ValidEdges, Distinct, Signature
    <3>3. t \in Seq(EdgeType) /\ DistinctIds(t)
      BY <3>1, <1>2, <1>12, OntologyLists, SoundIds DEF Sound
    <3>4. Find(t, id) = t[k]
      BY <3>3, <1>11, <1>7, FoundAt
    <3>5. [t[k] EXCEPT !.label = old] = s[k]
      BY <3>1, <1>9, <1>10, <1>11
    <3>6. \A i \in DOMAIN t : Signature(t[i]) = Signature(s[k]) => t[i].id = id
      BY <3>2, <1>7, <1>11
    <3>7. \A e \in ToSet(t) : Signature(e) = Signature(s[k]) => e.id = id
      BY <3>6 DEF ToSet
    <3>8. b.edge_types = t /\ d.edge_id = id /\ d.new_label = old
      BY <3>1, <1>3, <1>12
    <3> HIDE DEF t, b, d, old, s
    <3> QED
      BY <3>4, <3>5, <3>7, <3>8, <1>3 DEF EdgeLabelFree
  <2> HIDE DEF d, b
  <2> QED
    BY <2>1, <2>2, <1>3 DEF FieldFree
<1>14. ExecuteOne(b, d).ok /\ ExecuteOne(b, d).ont = o
  <2>1. ExecuteOne(b, d) = FieldSet(b, d)
    <3>1. Sound(b) /\ d.op \in FieldOps
      BY <1>2, <1>3
    <3> HIDE DEF b, d
    <3> QED
      BY <3>1, FieldForms
  <2> DEFINE w == <<[d EXCEPT ![ArgOf(c)] = Find(b[L], id)[f]]>>
             h == id \in Ids(b[L]) /\ FieldFree(b, d)
             n == [b EXCEPT ![L] = SetAll(b[L], id, f, old)]
  <2>2. FieldSet(b, d) = When(h, Ok(n, w))
    <3> HIDE DEF L, id, f, old, b, d
    <3>1. FieldSet(b, d) = When(TargetOf(d) \in Ids(b[ListOf(d)]) /\ FieldFree(b, d),
              Ok([b EXCEPT ![ListOf(d)] = SetAll(b[ListOf(d)], TargetOf(d), FieldOf(d), d[ArgOf(d)])],
                 <<[d EXCEPT ![ArgOf(d)] = Find(b[ListOf(d)], TargetOf(d))[FieldOf(d)]]>>))
      BY Zenon DEF FieldSet
    <3> QED
      BY <3>1, <1>3
  <2>3. h
    BY <1>2, <1>11, <1>12, <1>13
  <2>4. n = o
    <3> HIDE DEF t, b, old, L, f, id
    <3> QED
      BY <1>10, <1>11, <1>12
  <2> HIDE DEF h, n, w, b, d
  <2>5. ExecuteOne(b, d) = When(h, Ok(n, w))
    BY <2>1, <2>2
  <2>6. When(h, Ok(n, w)).ok /\ When(h, Ok(n, w)).ont = n
    BY <2>3 DEF When, Ok
  <2> QED
    BY ONLY <2>4, <2>5, <2>6
<1> DEFINE r == ExecuteOne(o, c)
<1>15. r.ont = b /\ r.inverse = <<d>>
  BY <1>2
<1> HIDE DEF b, d, r
<1>16. Undoes(o, r)
  BY <1>4, <1>14, <1>15, UndoneExactly
<1> QED
  BY <1>16 DEF r

-----------------------------------------------------------------------------
(* Adding an entry to a list and dropping one are each other's inverse.     *)

OthersAt(s, id) == {i \in DOMAIN s : s[i].id # id}

LEMMA OthersLeft ==
    ASSUME NEW s, NEW id
    PROVE  Left(s, At(s, id)) = Picked(s, OthersAt(s, id))
<1>1. DOMAIN s \ At(s, id) = OthersAt(s, id)
  BY DEF At, OthersAt
<1> QED
  BY <1>1 DEF Left

LEMMA AddedDropped ==
    ASSUME NEW S, NEW s \in Seq(S), NEW x \in S, x.id \notin Ids(s)
    PROVE  /\ x.id \in Ids(Append(s, x))
           /\ Picked(Append(s, x), OthersAt(Append(s, x), x.id)) = s
           /\ Left(Append(s, x), At(Append(s, x), x.id)) = s
<1> DEFINE t == Append(s, x)
<1>1. /\ t \in Seq(S) /\ DOMAIN t = 1..(Len(s) + 1)
      /\ \A i \in 1..Len(s) : t[i] = s[i]
      /\ t[Len(s) + 1] = x
  BY AppendList
<1>2. Len(s) \in Nat /\ DOMAIN s = 1..Len(s)
  BY ListFacts
<1> HIDE DEF t
<1>3. At(t, x.id) = {Len(s) + 1}
  <2>1. \A i \in 1..Len(s) : t[i].id # x.id
    BY <1>1, <1>2 DEF Ids
  <2> QED
    BY <2>1, <1>1, <1>2 DEF At
<1>4. Left(t, At(t, x.id)) = s
  BY <1>3, LeftLast DEF t
<1>5. x.id \in Ids(t)
  BY <1>1, <1>2 DEF Ids
<1> QED
  BY <1>4, <1>5, OthersLeft DEF t

LEMMA DroppedAdded ==
    ASSUME NEW S, NEW s \in Seq(S), DistinctIds(s), NEW id \in Ids(s)
    PROVE  LET t == Picked(s, OthersAt(s, id))
               u == Append(t, Find(s, id))
           IN  /\ Find(s, id).id = id /\ id \notin Ids(t) /\ t \in Seq(S)
               /\ u \in Seq(S) /\ Shuffles(s, u)
<1> DEFINE K == OthersAt(s, id)
           t == Picked(s, K)
<1>1. PICK k \in DOMAIN s : s[k].id = id
  BY DEF Ids
<1>2. Find(s, id) = s[k] /\ s[k] \in S
  BY <1>1, FoundAt, ListFacts
<1>3. K \subseteq DOMAIN s /\ DOMAIN s \ K = {k}
  BY <1>1 DEF OthersAt, DistinctIds
<1>4. Picks(t, s, K) /\ t \in Seq(S) /\ ToSet(t) = {s[i] : i \in K}
  BY <1>3, PickedPicks, PickedList
<1>5. id \notin Ids(t)
  BY <1>4, IdsOfSet DEF OthersAt
<1>6. Picks(<<s[k]>>, s, {k})
  <2>1. [i \in 1..1 |-> k] \in Bijection(1..1, {k})
    BY DEF Bijection, Injection, Surjection, IsInjective
  <2>2. <<s[k]>> = [j \in 1..1 |-> s[[i \in 1..1 |-> k][j]]]
    OBVIOUS
  <2> QED
    BY <2>1, <2>2 DEF Picks
<1>7. t \o <<s[k]>> \in Seq(S) /\ Shuffles(s, t \o <<s[k]>>)
  <2> HIDE DEF t, K
  <2> QED
    BY <1>3, <1>4, <1>6, SplitShuffles
<1>8. Append(t, s[k]) = t \o <<s[k]>>
  BY <1>2, <1>4, AppendList
<1> HIDE DEF t, K
<1> QED
  BY <1>1, <1>2, <1>4, <1>5, <1>7, <1>8 DEF t, K

\* The same for a list of an ontology.
LEMMA ListAddedDropped ==
    ASSUME NEW o \in Ontology, NEW list \in DOMAIN o, NEW S, o[list] \in Seq(S),
           NEW x \in S, x.id \notin Ids(o[list]),
           NEW b, b = [o EXCEPT ![list] = Append(@, x)]
    PROVE  /\ x.id \in Ids(b[list])
           /\ [b EXCEPT ![list] = Picked(b[list], OthersAt(b[list], x.id))] = o
<1>1. b[list] = Append(o[list], x) /\ DOMAIN b = DOMAIN o
      /\ \A l \in DOMAIN o : l # list => b[l] = o[l]
  OBVIOUS
<1>2. x.id \in Ids(b[list]) /\ Picked(b[list], OthersAt(b[list], x.id)) = o[list]
  BY <1>1, AddedDropped
<1>3. o = [l \in DOMAIN o |-> o[l]]
  BY OntologyFields
<1>4. b = [l \in DOMAIN b |-> b[l]]
  BY <1>3
<1> QED
  BY <1>1, <1>2, <1>3, <1>4

LEMMA ListDroppedAdded ==
    ASSUME NEW o, Sound(o), NEW list \in {"indexes", "object_mappings", "link_mappings"},
           NEW id \in Ids(o[list]),
           NEW b, b = [o EXCEPT ![list] = Picked(o[list], OthersAt(o[list], id))]
    PROVE  /\ Find(o[list], id).id = id /\ id \notin Ids(b[list])
           /\ Reordered(o, [b EXCEPT ![list] = Append(b[list], Find(o[list], id))])
<1> DEFINE u == Append(b[list], Find(o[list], id))
           a == [b EXCEPT ![list] = u]
<1>1. o \in Ontology
  BY DEF Sound
<1>2. PICK S : /\ o[list] \in Seq(S) /\ DistinctIds(o[list])
               /\ \A x \in Seq(S) : [o EXCEPT ![list] = x] \in Ontology
  BY <1>1, SoundIds, OntologyLists, WithLists
<1>3. list \in DOMAIN o /\ o = [l \in DOMAIN o |-> o[l]]
  BY <1>1, OntologyFields
<1>4. b[list] = Picked(o[list], OthersAt(o[list], id))
  BY <1>3
<1>5. /\ Find(o[list], id).id = id /\ id \notin Ids(b[list])
      /\ u \in Seq(S) /\ Shuffles(o[list], u)
  BY <1>2, <1>4, DroppedAdded
<1>6. a = [o EXCEPT ![list] = u]
  <2> HIDE DEF u
  <2> QED
    BY <1>3
<1> HIDE DEF u
<1>7. a \in Ontology
  BY <1>2, <1>5, <1>6
<1>8. a[list] = u /\ \A l \in DOMAIN o : l # list => a[l] = o[l]
  BY <1>3, <1>6
<1> HIDE DEF a
<1>9. \A l \in {"indexes", "object_mappings", "link_mappings"} : Shuffles(o[l], a[l])
  BY <1>1, <1>5, <1>8, OntologyFields, ShufflesAlike
<1>10. /\ a.node_types = o.node_types /\ a.edge_types = o.edge_types
       /\ a.segments = o.segments /\ a.table_inventory = o.table_inventory /\ a.rules = o.rules
  BY <1>1, <1>8, OntologyFields
<1>11. Reordered(o, a)
  BY <1>1, <1>7, <1>9, <1>10, ReorderedItself DEF Reordered
<1> QED
  BY <1>5, <1>11 DEF a, u

Adds(o, c, list, x, d) ==
    ExecuteOne(o, c) = When(x.id \notin Ids(o[list]),
                            Ok([o EXCEPT ![list] = Append(@, x)], <<d>>))
Drops(b, d, list, id, w) ==
    ExecuteOne(b, d) = When(id \in Ids(b[list]),
        Ok([b EXCEPT ![list] = Picked(b[list], OthersAt(b[list], id))], w))

LEMMA AdditionUndone ==
    ASSUME NEW o \in Ontology, NEW list \in DOMAIN o, NEW S, o[list] \in Seq(S),
           NEW x \in S, NEW c, NEW d, Adds(o, c, list, x, d),
           \A b : \E w : Drops(b, d, list, x.id, w), ExecuteOne(o, c).ok
    PROVE  Undoes(o, ExecuteOne(o, c))
<1> DEFINE b == [o EXCEPT ![list] = Append(@, x)]
           g == x.id \notin Ids(o[list])
           r == ExecuteOne(o, c)
<1>1. g /\ r.ont = b /\ r.inverse = <<d>>
  <2>1. r = When(g, Ok(b, <<d>>))
    BY Zenon DEF Adds
  <2> HIDE DEF g, b
  <2> QED
    BY <2>1, WhenOk
<1> DEFINE a == [b EXCEPT ![list] = Picked(b[list], OthersAt(b[list], x.id))]
<1>2. x.id \in Ids(b[list]) /\ a = o
  <2>1. x.id \notin Ids(o[list])
    BY <1>1
  <2> HIDE DEF a, b
  <2>2. b = [o EXCEPT ![list] = Append(@, x)]
    BY DEF b
  <2> QED
    BY <2>1, <2>2, ListAddedDropped DEF a
<1>3. PICK w : Drops(b, d, list, x.id, w)
  OBVIOUS
<1>4. ExecuteOne(b, d) = When(x.id \in Ids(b[list]), Ok(a, w))
  <2> HIDE DEF b
  <2> QED
    BY <1>3, Zenon DEF Drops
<1> HIDE DEF a, b
<1>5. ExecuteOne(b, d).ok /\ ExecuteOne(b, d).ont = o
  BY <1>2, <1>4 DEF When, Ok
<1> HIDE DEF r
<1>6. Undoes(o, r)
  BY <1>1, <1>5, UndoneExactly
<1> QED
  BY <1>6 DEF r

LEMMA DropUndone ==
    ASSUME NEW o, Sound(o), NEW list \in {"indexes", "object_mappings", "link_mappings"},
           NEW c, NEW d, NEW id, Drops(o, c, list, id, <<d>>),
           \A b : \E w : Adds(b, d, list, Find(o[list], id), w), ExecuteOne(o, c).ok
    PROVE  Undoes(o, ExecuteOne(o, c))
<1> DEFINE b == [o EXCEPT ![list] = Picked(o[list], OthersAt(o[list], id))]
           x == Find(o[list], id)
           g == id \in Ids(o[list])
           r == ExecuteOne(o, c)
<1>1. g /\ r.ont = b /\ r.inverse = <<d>>
  <2>1. r = When(g, Ok(b, <<d>>))
    BY Zenon DEF Drops
  <2> HIDE DEF g, b
  <2> QED
    BY <2>1, WhenOk
<1> DEFINE a == [b EXCEPT ![list] = Append(b[list], x)]
<1>2. x.id = id /\ id \notin Ids(b[list]) /\ Reordered(o, a)
  <2>1. id \in Ids(o[list])
    BY <1>1
  <2> HIDE DEF a, b, x
  <2>2. b = [o EXCEPT ![list] = Picked(o[list], OthersAt(o[list], id))]
    BY DEF b
  <2> QED
    BY <2>1, <2>2, ListDroppedAdded DEF a, x
<1>3. PICK w : Adds(b, d, list, x, w)
  OBVIOUS
<1>4. ExecuteOne(b, d) = When(x.id \notin Ids(b[list]), Ok(a, <<w>>))
  <2> HIDE DEF b, x
  <2> QED
    BY <1>3, Zenon DEF Adds
<1> HIDE DEF a, b, x
<1>5. ExecuteOne(b, d).ok /\ ExecuteOne(b, d).ont = a
  BY <1>2, <1>4 DEF When, Ok
<1> HIDE DEF r
<1>6. Undoes(o, r)
  <2>1. o \in Ontology
    BY DEF Sound
  <2> QED
    BY <1>1, <1>2, <1>5, <2>1, UndoneOnce
<1> QED
  BY <1>6 DEF r

LEMMA AdditionForms ==
    ASSUME NEW o, NEW c
    PROVE  /\ c.op = "add_index" => Adds(o, c, "indexes", c.index,
                 [op |-> "remove_index", index_id |-> c.index.id])
           /\ c.op = "create_object_mapping" =>
                 Adds(o, c, "object_mappings", c.mapping, DeleteObjectMappingCmd(c.mapping.id))
           /\ c.op = "create_link_mapping" =>
                 Adds(o, c, "link_mappings", c.mapping, DeleteLinkMappingCmd(c.mapping.id))
<1>1. c.op = "add_index" => ExecuteOne(o, c) = AddIndex(o, c)
  BY Zenon DEF ExecuteOne
<1>2. c.op = "create_object_mapping" =>
         ExecuteOne(o, c) = CreateMapping(o, "object_mappings", c.mapping)
  BY Zenon DEF ExecuteOne
<1>3. c.op = "create_link_mapping" =>
         ExecuteOne(o, c) = CreateMapping(o, "link_mappings", c.mapping)
  BY Zenon DEF ExecuteOne
<1>4. AddIndex(o, c) = When(c.index.id \notin Ids(o["indexes"]),
          Ok([o EXCEPT !["indexes"] = Append(@, c.index)],
             <<[op |-> "remove_index", index_id |-> c.index.id]>>))
  BY Zenon DEF AddIndex
<1>5. CreateMapping(o, "object_mappings", c.mapping)
        = When(c.mapping.id \notin Ids(o["object_mappings"]),
               Ok([o EXCEPT !["object_mappings"] = Append(@, c.mapping)],
                  <<DeleteObjectMappingCmd(c.mapping.id)>>))
  BY Zenon DEF CreateMapping, DeleteMappingCmd
<1>6. CreateMapping(o, "link_mappings", c.mapping)
        = When(c.mapping.id \notin Ids(o["link_mappings"]),
               Ok([o EXCEPT !["link_mappings"] = Append(@, c.mapping)],
                  <<DeleteLinkMappingCmd(c.mapping.id)>>))
  <2>1. DeleteMappingCmd("link_mappings", c.mapping.id) = DeleteLinkMappingCmd(c.mapping.id)
    BY DEF DeleteMappingCmd
  <2> QED
    BY <2>1, Zenon DEF CreateMapping
<1> QED
  BY <1>1, <1>2, <1>3, <1>4, <1>5, <1>6, Zenon DEF Adds

LEMMA DropForms ==
    ASSUME NEW o, NEW c
    PROVE  /\ c.op = "remove_index" =>
                 Drops(o, c, "indexes", c.index_id, <<AddIndexCmd(Find(o.indexes, c.index_id))>>)
           /\ c.op = "delete_object_mapping" =>
                 Drops(o, c, "object_mappings", c.id,
                       <<CreateObjectMappingCmd(Find(o.object_mappings, c.id))>>)
           /\ c.op = "delete_link_mapping" =>
                 Drops(o, c, "link_mappings", c.id,
                       <<CreateLinkMappingCmd(Find(o.link_mappings, c.id))>>)
<1>1. c.op = "remove_index" => ExecuteOne(o, c) = RemoveIndex(o, c)
  BY Zenon DEF ExecuteOne
<1>2. c.op = "delete_object_mapping" =>
         ExecuteOne(o, c) = DeleteMapping(o, "object_mappings", c)
  BY Zenon DEF ExecuteOne
<1>3. c.op = "delete_link_mapping" =>
         ExecuteOne(o, c) = DeleteMapping(o, "link_mappings", c)
  BY Zenon DEF ExecuteOne
<1>4. RemoveIndex(o, c) = When(c.index_id \in Ids(o["indexes"]),
          Ok([o EXCEPT !["indexes"] = Picked(o["indexes"], OthersAt(o["indexes"], c.index_id))],
             <<AddIndexCmd(Find(o["indexes"], c.index_id))>>))
  BY Zenon DEF RemoveIndex, Retain, OthersAt
<1>5. DeleteMapping(o, "object_mappings", c) = When(c.id \in Ids(o["object_mappings"]),
          Ok([o EXCEPT !["object_mappings"]
                  = Picked(o["object_mappings"], OthersAt(o["object_mappings"], c.id))],
             <<CreateObjectMappingCmd(Find(o["object_mappings"], c.id))>>))
  BY Zenon DEF DeleteMapping, CreateMappingCmd, Retain, OthersAt
<1>6. DeleteMapping(o, "link_mappings", c) = When(c.id \in Ids(o["link_mappings"]),
          Ok([o EXCEPT !["link_mappings"]
                  = Picked(o["link_mappings"], OthersAt(o["link_mappings"], c.id))],
             <<CreateLinkMappingCmd(Find(o["link_mappings"], c.id))>>))
  <2>1. \A m : CreateMappingCmd("link_mappings", m) = CreateLinkMappingCmd(m)
    BY DEF CreateMappingCmd
  <2> QED
    BY <2>1, Zenon DEF DeleteMapping, Retain, OthersAt
<1> QED
  BY <1>1, <1>2, <1>3, <1>4, <1>5, <1>6, Zenon DEF Drops

LEMMA EntriesUndone ==
    ASSUME NEW o, Sound(o), NEW c \in Command, ExecuteOne(o, c).ok,
           c.op \in {"add_index", "remove_index", "create_object_mapping",
                     "delete_object_mapping", "create_link_mapping", "delete_link_mapping"}
    PROVE  Undoes(o, ExecuteOne(o, c))
<1>1. /\ c.op \in IndexOps => c \in IndexCommand
      /\ c.op \in MappingOps => c \in MappingCommand
  BY CommandKinds
<1>2. o \in Ontology
  BY DEF Sound
<1>3. /\ {"indexes", "object_mappings", "link_mappings"} \subseteq DOMAIN o
      /\ o["indexes"] \in Seq(IndexDef) /\ o["object_mappings"] \in Seq(ObjectMapping)
      /\ o["link_mappings"] \in Seq(LinkMapping)
  BY <1>2, OntologyFields, OntologyLists
<1>4. CASE c.op = "add_index"
  <2> DEFINE d == [op |-> "remove_index", index_id |-> c.index.id]
  <2>1. c.index \in IndexDef
    BY <1>1, <1>4 DEF IndexOps, IndexCommand
  <2>2. d.op = "remove_index" /\ d.index_id = c.index.id
    OBVIOUS
  <2>3. Adds(o, c, "indexes", c.index, d)
    BY <1>4, AdditionForms
  <2> HIDE DEF d
  <2>4. \A b : \E w : Drops(b, d, "indexes", c.index.id, w)
    BY <2>2, DropForms
  <2> QED
    BY <1>2, <1>3, <2>1, <2>3, <2>4, AdditionUndone
<1>5. CASE c.op = "remove_index"
  <2> DEFINE d == AddIndexCmd(Find(o.indexes, c.index_id))
  <2>1. d.op = "add_index" /\ d.index = Find(o.indexes, c.index_id)
    BY DEF AddIndexCmd
  <2>2. Drops(o, c, "indexes", c.index_id, <<d>>)
    BY <1>5, DropForms
  <2> HIDE DEF d
  <2>3. \A b : \E w : Adds(b, d, "indexes", Find(o["indexes"], c.index_id), w)
    BY <2>1, AdditionForms
  <2> QED
    BY <2>2, <2>3, DropUndone
<1>6. CASE c.op = "create_object_mapping"
  <2> DEFINE d == DeleteObjectMappingCmd(c.mapping.id)
  <2>1. c.mapping \in ObjectMapping
    BY <1>1, <1>6 DEF MappingOps, MappingCommand
  <2>2. d.op = "delete_object_mapping" /\ d.id = c.mapping.id
    BY DEF DeleteObjectMappingCmd
  <2>3. Adds(o, c, "object_mappings", c.mapping, d)
    BY <1>6, AdditionForms
  <2> HIDE DEF d
  <2>4. \A b : \E w : Drops(b, d, "object_mappings", c.mapping.id, w)
    BY <2>2, DropForms
  <2> QED
    BY <1>2, <1>3, <2>1, <2>3, <2>4, AdditionUndone
<1>7. CASE c.op = "delete_object_mapping"
  <2> DEFINE d == CreateObjectMappingCmd(Find(o.object_mappings, c.id))
  <2>1. d.op = "create_object_mapping" /\ d.mapping = Find(o.object_mappings, c.id)
    BY DEF CreateObjectMappingCmd
  <2>2. Drops(o, c, "object_mappings", c.id, <<d>>)
    BY <1>7, DropForms
  <2> HIDE DEF d
  <2>3. \A b : \E w : Adds(b, d, "object_mappings", Find(o["object_mappings"], c.id), w)
    BY <2>1, AdditionForms
  <2> QED
    BY <2>2, <2>3, DropUndone
<1>8. CASE c.op = "create_link_mapping"
  <2> DEFINE d == DeleteLinkMappingCmd(c.mapping.id)
  <2>1. c.mapping \in LinkMapping
    BY <1>1, <1>8 DEF MappingOps, MappingCommand
  <2>2. d.op = "delete_link_mapping" /\ d.id = c.mapping.id
    BY DEF DeleteLinkMappingCmd
  <2>3. Adds(o, c, "link_mappings", c.mapping, d)
    BY <1>8, AdditionForms
  <2> HIDE DEF d
  <2>4. \A b : \E w : Drops(b, d, "link_mappings", c.mapping.id, w)
    BY <2>2, DropForms
  <2> QED
    BY <1>2, <1>3, <2>1, <2>3, <2>4, AdditionUndone
<1>9. CASE c.op = "delete_link_mapping"
  <2> DEFINE d == CreateLinkMappingCmd(Find(o.link_mappings, c.id))
  <2>1. d.op = "create_link_mapping" /\ d.mapping = Find(o.link_mappings, c.id)
    BY DEF CreateLinkMappingCmd
  <2>2. Drops(o, c, "link_mappings", c.id, <<d>>)
    BY <1>9, DropForms
  <2> HIDE DEF d
  <2>3. \A b : \E w : Adds(b, d, "link_mappings", Find(o["link_mappings"], c.id), w)
    BY <2>1, AdditionForms
  <2> QED
    BY <2>2, <2>3, DropUndone
<1> QED
  BY <1>4, <1>5, <1>6, <1>7, <1>8, <1>9

-----------------------------------------------------------------------------
(* Updates: the inverse writes the old value over the new one.              *)

Replaced(s, id, x) == [i \in DOMAIN s |-> IF s[i].id = id THEN x ELSE s[i]]

LEMMA ReplacedBack ==
    ASSUME NEW S, NEW s \in Seq(S), DistinctIds(s), NEW id \in Ids(s), NEW x, x.id = id
    PROVE  /\ Ids(Replaced(s, id, x)) = Ids(s) /\ Find(s, id).id = id
           /\ Replaced(Replaced(s, id, x), id, Find(s, id)) = s
<1> DEFINE t == Replaced(s, id, x)
<1>1. PICK k \in DOMAIN s : s[k].id = id
  BY DEF Ids
<1>2. Find(s, id) = s[k]
  BY <1>1, FoundAt
<1>3. DOMAIN t = DOMAIN s /\ t[k] = x /\ \A i \in DOMAIN s : i # k => t[i] = s[i]
  BY <1>1 DEF Replaced, DistinctIds
<1>4. Ids(t) = Ids(s)
  <2> HIDE DEF t
  <2> QED
    BY <1>1, <1>3 DEF Ids
<1>5. Replaced(t, id, s[k]) = [i \in DOMAIN t |-> IF t[i].id = id THEN s[k] ELSE t[i]]
  BY DEF Replaced
<1>6. s = [i \in DOMAIN s |-> s[i]]
  BY ListFacts
<1>7. \A i \in DOMAIN s : (IF t[i].id = id THEN s[k] ELSE t[i]) = s[i]
  <2> HIDE DEF t
  <2> QED
    BY <1>1, <1>3 DEF DistinctIds
<1>8. Replaced(t, id, s[k]) = s
  <2> HIDE DEF t
  <2> QED
    BY <1>3, <1>5, <1>6, <1>7
<1> QED
  BY <1>1, <1>2, <1>4, <1>8

LEMMA UpdateMappingForm ==
    ASSUME NEW o, NEW list, NEW c
    PROVE  UpdateMapping(o, list, c) = When(c.mapping.id = c.id /\ c.id \in Ids(o[list]),
               Ok([o EXCEPT ![list] = Replaced(o[list], c.id, c.mapping)],
                  <<[c EXCEPT !.mapping = Find(o[list], c.id)]>>))
BY Zenon DEF UpdateMapping, MapById, Replaced

LEMMA UpdateCommands ==
    ASSUME NEW a, NEW e
    PROVE  /\ e.op = "update_object_mapping" => ExecuteOne(a, e) = UpdateMapping(a, "object_mappings", e)
           /\ e.op = "update_link_mapping" => ExecuteOne(a, e) = UpdateMapping(a, "link_mappings", e)
           /\ e.op = "update_property" => ExecuteOne(a, e) = UpdateProperty(a, e)
<1>1. e.op = "update_object_mapping" => ExecuteOne(a, e) = UpdateMapping(a, "object_mappings", e)
  BY Zenon DEF ExecuteOne
<1>2. e.op = "update_link_mapping" => ExecuteOne(a, e) = UpdateMapping(a, "link_mappings", e)
  BY Zenon DEF ExecuteOne
<1>3. e.op = "update_property" => ExecuteOne(a, e) = UpdateProperty(a, e)
  BY Zenon DEF ExecuteOne
<1> QED
  BY <1>1, <1>2, <1>3

LEMMA MappingUndone ==
    ASSUME NEW o, Sound(o), NEW c \in Command, ExecuteOne(o, c).ok,
           c.op \in {"update_object_mapping", "update_link_mapping"}
    PROVE  Undoes(o, ExecuteOne(o, c))
<1> DEFINE list == IF c.op = "update_object_mapping" THEN "object_mappings" ELSE "link_mappings"
           s == o[list]
           old == Find(s, c.id)
           d == [c EXCEPT !.mapping = old]
           b == [o EXCEPT ![list] = Replaced(s, c.id, c.mapping)]
           g == c.mapping.id = c.id /\ c.id \in Ids(s)
           r == ExecuteOne(o, c)
<1>1. o \in Ontology
  BY DEF Sound
<1>2. o = [l \in DOMAIN o |-> o[l]] /\ list \in DOMAIN o
  BY <1>1, OntologyFields
<1>3. PICK S : s \in Seq(S) /\ DistinctIds(s)
  BY <1>1, OntologyLists, SoundIds
<1>4. /\ DOMAIN c = {"op", "id", "mapping"} /\ c = [x \in DOMAIN c |-> c[x]]
  <2>1. c \in MappingCommand
    BY CommandKinds DEF MappingOps
  <2>2. \/ c \in [op : {"update_object_mapping"}, id : MappingId, mapping : ObjectMapping]
        \/ c \in [op : {"update_link_mapping"}, id : MappingId, mapping : LinkMapping]
    BY <2>1 DEF MappingCommand
  <2> QED
    BY <2>2
<1>5. d.op = c.op /\ d.id = c.id /\ d.mapping = old
  <2> HIDE DEF old
  <2> QED
    BY <1>4
<1>6. \A a, e : e.op = c.op => ExecuteOne(a, e) = UpdateMapping(a, list, e)
  <2>1. ASSUME NEW a, NEW e, e.op = c.op
        PROVE  ExecuteOne(a, e) = UpdateMapping(a, list, e)
    BY <2>1, UpdateCommands
  <2> QED
    BY <2>1
<1>7. r = When(g, Ok(b, <<d>>))
  <2>1. r = UpdateMapping(o, list, c)
    BY <1>6
  <2> HIDE DEF list
  <2> QED
    BY <2>1, UpdateMappingForm, Zenon
<1>8. g /\ r.ont = b /\ r.inverse = <<d>>
  <2> HIDE DEF g, b, d
  <2> QED
    BY <1>7, WhenOk
<1>9. /\ Ids(Replaced(s, c.id, c.mapping)) = Ids(s) /\ old.id = c.id
      /\ Replaced(Replaced(s, c.id, c.mapping), c.id, old) = s
  BY <1>3, <1>8, ReplacedBack
<1> DEFINE t == Replaced(s, c.id, c.mapping)
<1>10. b[list] = t
  <2> HIDE DEF list
  <2> QED
    BY <1>2
<1>11. [b EXCEPT ![list] = s] = o
  <2> HIDE DEF t, list
  <2>1. DOMAIN b = DOMAIN o /\ \A l \in DOMAIN o : l # list => b[l] = o[l]
    BY <1>2
  <2>2. \A l \in DOMAIN o : [b EXCEPT ![list] = s][l] = o[l]
    BY <2>1, <1>2
  <2>3. [b EXCEPT ![list] = s] = [l \in DOMAIN o |-> [b EXCEPT ![list] = s][l]]
    BY <2>1
  <2> QED
    BY <2>2, <2>3, <1>2
<1>12. ExecuteOne(b, d).ok /\ ExecuteOne(b, d).ont = o
  <2>1. ExecuteOne(b, d) = UpdateMapping(b, list, d)
    BY <1>5, <1>6
  <2> DEFINE h == d.mapping.id = d.id /\ d.id \in Ids(b[list])
             n == [b EXCEPT ![list] = Replaced(b[list], d.id, d.mapping)]
             w == <<[d EXCEPT !.mapping = Find(b[list], d.id)]>>
  <2>2. UpdateMapping(b, list, d) = When(h, Ok(n, w))
    <3> HIDE DEF b, d, list
    <3> QED
      BY UpdateMappingForm, Zenon
  <2>3. h
    BY <1>5, <1>8, <1>9, <1>10
  <2>4. n = o
    <3> HIDE DEF b, d, s, list, old, t
    <3> QED
      BY <1>5, <1>9, <1>10, <1>11 DEF t
  <2> HIDE DEF h, n, w, b, d
  <2> QED
    BY <2>1, <2>2, <2>3, <2>4 DEF When, Ok
<1> HIDE DEF r, b, d
<1>13. Undoes(o, r)
  BY <1>1, <1>8, <1>12, UndoneExactly
<1> QED
  BY <1>13 DEF r

-----------------------------------------------------------------------------
(* The property list of an owner, replaced and replaced again.              *)

LEMMA OwnerTwice ==
    ASSUME NEW o, Sound(o), NEW owner \in Owner, OwnerExists(o, owner), NEW ps,
           NEW b, b = WithProperties(o, owner, ps)
    PROVE  /\ OwnerExists(b, owner) /\ OwnerProperties(b, owner) = ps
           /\ \A qs : WithProperties(b, owner, qs) = WithProperties(o, owner, qs)
           /\ WithProperties(o, owner, OwnerProperties(o, owner)) = o
<1> DEFINE C == Collection(owner)
           id == owner.type_id
           s == o[C]
           Set(u, qs) == [i \in DOMAIN u |-> IF u[i].id = id THEN [u[i] EXCEPT !.properties = qs]
                                                             ELSE u[i]]
           t == Set(s, ps)
<1>1. o \in Ontology
  BY DEF Sound
<1>2. C \in {"node_types", "edge_types"}
  BY DEF Collection
<1>3. C \in DOMAIN o /\ o = [l \in DOMAIN o |-> o[l]]
  BY <1>1, <1>2, OntologyFields
<1>4. PICK S : /\ s \in Seq(S) /\ DistinctIds(s)
               /\ \A x \in S : /\ x = [y \in DOMAIN x |-> x[y]] /\ "id" \in DOMAIN x
                               /\ "properties" \in DOMAIN x
  BY <1>2, ListEntries
<1>5. PICK k \in DOMAIN s : s[k].id = id
  BY DEF OwnerExists, Ids
<1>6. \A u, qs : MapById(u, id, LAMBDA x : [x EXCEPT !.properties = qs]) = Set(u, qs)
  BY Zenon DEF MapById
<1>7. \A a, qs : WithProperties(a, owner, qs) = [a EXCEPT ![C] = Set(a[C], qs)]
  BY ZenonT(60), <1>6 DEF WithProperties
<1>8. \A i \in DOMAIN s : s[i] \in S
  BY <1>4, ListFacts
<1>9. /\ DOMAIN t = DOMAIN s /\ t[k] = [s[k] EXCEPT !.properties = ps]
      /\ \A i \in DOMAIN s : i # k => t[i] = s[i]
  BY <1>4, <1>5 DEF DistinctIds
<1>10. /\ t[k].properties = ps /\ t[k].id = id
       /\ \A qs : [t[k] EXCEPT !.properties = qs] = [s[k] EXCEPT !.properties = qs]
       /\ [s[k] EXCEPT !.properties = s[k].properties] = s[k]
  <2>1. s[k] = [y \in DOMAIN s[k] |-> s[k][y]] /\ {"id", "properties"} \subseteq DOMAIN s[k]
    BY <1>4, <1>5, <1>8
  <2> HIDE DEF s, t
  <2> QED
    BY <2>1, <1>5, <1>9
<1>11. \A qs : Set(t, qs) = Set(s, qs)
  <2> SUFFICES ASSUME NEW qs PROVE Set(t, qs) = Set(s, qs)
    OBVIOUS
  <2>1. DOMAIN Set(t, qs) = DOMAIN s /\ DOMAIN Set(s, qs) = DOMAIN s
    BY <1>9
  <2>2. \A i \in DOMAIN s : Set(t, qs)[i] = Set(s, qs)[i]
    <3> TAKE i \in DOMAIN s
    <3>1. CASE i = k
      <4> HIDE DEF s, t
      <4> QED
        BY <3>1, <1>5, <1>9, <1>10
    <3>2. CASE i # k
      <4>1. t[i] = s[i] /\ s[i].id # id
        BY <3>2, <1>4, <1>5, <1>9 DEF DistinctIds
      <4> HIDE DEF s, t
      <4> QED
        BY <4>1, <1>9
    <3> QED
      BY <3>1, <3>2
  <2> HIDE DEF s, t
  <2> QED
    BY <2>1, <2>2
<1>12. Set(s, s[k].properties) = s
  <2>1. s = [i \in DOMAIN s |-> s[i]]
    BY <1>4, ListFacts
  <2>2. \A i \in DOMAIN s : s[i].id = id => i = k
    BY <1>4, <1>5 DEF DistinctIds
  <2> HIDE DEF s
  <2> QED
    BY <2>1, <2>2, <1>10
<1>13. t \in Seq({t[i] : i \in DOMAIN s}) /\ DistinctIds(t) /\ id \in Ids(t)
  <2>1. t = [i \in DOMAIN s |-> t[i]]
    OBVIOUS
  <2>2. t \in Seq({t[i] : i \in DOMAIN s})
    <3> HIDE DEF t, s
    <3> QED
      BY <2>1, <1>4, RewrittenList
  <2>3. \A i \in DOMAIN s : t[i].id = s[i].id
    <3> HIDE DEF t, s
    <3> QED
      BY <1>5, <1>9, <1>10
  <2> HIDE DEF t, s
  <2> QED
    BY <2>2, <2>3, <1>4, <1>5, <1>9 DEF DistinctIds, Ids
<1>14. Find(t, id) = t[k] /\ Find(s, id) = s[k]
  <2> HIDE DEF t, s
  <2>1. k \in DOMAIN t /\ t[k].id = id
    BY <1>5, <1>9, <1>10
  <2>2. Find(t, t[k].id) = t[k]
    BY <2>1, <1>13, FoundAt
  <2>3. Find(s, s[k].id) = s[k]
    BY <1>4, <1>5, FoundAt
  <2> QED
    BY <2>1, <2>2, <2>3, <1>5
<1>15. b = [o EXCEPT ![C] = t]
  BY <1>7
<1> HIDE DEF t, s
<1>16. b[C] = t
  BY <1>3, <1>15
<1>17. OwnerExists(b, owner) /\ OwnerProperties(b, owner) = ps
  BY <1>10, <1>13, <1>14, <1>16 DEF OwnerExists, OwnerProperties
<1>18. \A u : [b EXCEPT ![C] = u] = [o EXCEPT ![C] = u]
  BY <1>15
<1>19. OwnerProperties(o, owner) = s[k].properties
  BY <1>14 DEF OwnerProperties, s
<1>20. \A qs : WithProperties(b, owner, qs) = WithProperties(o, owner, qs)
  <2> TAKE qs
  <2>1. Set(b[C], qs) = Set(o[C], qs)
    BY <1>11, <1>16 DEF s
  <2>2. WithProperties(b, owner, qs) = [b EXCEPT ![C] = Set(b[C], qs)]
    BY <1>7
  <2>3. WithProperties(o, owner, qs) = [o EXCEPT ![C] = Set(o[C], qs)]
    BY <1>7
  <2> HIDE DEF Set
  <2> QED
    BY <2>1, <2>2, <2>3, <1>18
<1>21. WithProperties(o, owner, s[k].properties) = o
  <2>1. WithProperties(o, owner, s[k].properties) = [o EXCEPT ![C] = Set(o[C], s[k].properties)]
    BY <1>7
  <2>2. Set(o[C], s[k].properties) = o[C]
    BY <1>12 DEF s
  <2> HIDE DEF Set
  <2> QED
    BY <2>1, <2>2, <1>3
<1> QED
  BY <1>17, <1>19, <1>20, <1>21

PatchAll(ps, pid, patch) ==
    [i \in DOMAIN ps |-> IF ps[i].id = pid THEN PatchOn(ps[i], patch) ELSE ps[i]]
OldOf(p, patch) == [f \in DOMAIN patch |-> p[f]]

\* A patch sets fields of a property, and not its id.
LEMMA PatchFields ==
    ASSUME NEW patch \in Patch
    PROVE  DOMAIN patch \subseteq {"name", "nullable", "default_value"}
BY PatchForm

LEMMA PatchedBack ==
    ASSUME NEW ps \in Seq(Property), DistinctIds(ps), NEW pid \in Ids(ps), NEW patch,
           DOMAIN patch \subseteq {"name", "nullable", "default_value"}
    PROVE  LET t == PatchAll(ps, pid, patch)
           IN  Ids(t) = Ids(ps) /\ PatchAll(t, pid, OldOf(Find(ps, pid), patch)) = ps
<1> DEFINE t == PatchAll(ps, pid, patch)
           old == OldOf(Find(ps, pid), patch)
<1>1. PICK k \in DOMAIN ps : ps[k].id = pid
  BY DEF Ids
<1>2. Find(ps, pid) = ps[k]
  BY <1>1, FoundAt
<1>3. ps[k] \in Property
  BY ListFacts
<1>4. ps[k] = [f \in DOMAIN ps[k] |-> ps[k][f]]
      /\ DOMAIN ps[k] = {"id", "name", "nullable", "default_value"}
  BY <1>3 DEF Property
<1>5. DOMAIN t = DOMAIN ps /\ t[k] = PatchOn(ps[k], patch)
      /\ \A i \in DOMAIN ps : i # k => t[i] = ps[i]
  BY <1>1 DEF PatchAll, DistinctIds
<1>6. t[k].id = pid
  <2> HIDE DEF t
  <2> QED
    BY <1>1, <1>4, <1>5 DEF PatchOn
<1>7. PatchOn(t[k], old) = ps[k]
  <2>1. DOMAIN old = DOMAIN patch /\ \A f \in DOMAIN patch : old[f] = ps[k][f]
    BY <1>2 DEF OldOf
  <2> DEFINE p == PatchOn(ps[k], patch)
  <2>2. DOMAIN p = DOMAIN ps[k] /\ \A f \in DOMAIN ps[k] : f \notin DOMAIN patch => p[f] = ps[k][f]
    BY DEF PatchOn
  <2>3. \A f \in DOMAIN p : (IF f \in DOMAIN old THEN old[f] ELSE p[f]) = ps[k][f]
    <3> HIDE DEF p, old
    <3> QED
      BY <2>1, <2>2
  <2>4. PatchOn(p, old) = [f \in DOMAIN p |-> IF f \in DOMAIN old THEN old[f] ELSE p[f]]
    BY DEF PatchOn
  <2> HIDE DEF p, old, t
  <2>5. PatchOn(p, old) = [f \in DOMAIN ps[k] |-> ps[k][f]]
    BY <2>2, <2>3, <2>4
  <2> QED
    BY <1>4, <1>5, <2>5 DEF p
<1> HIDE DEF t, old
<1>8. \A i \in DOMAIN ps : t[i].id = ps[i].id
  BY <1>1, <1>5, <1>6
<1>9. Ids(t) = Ids(ps)
  BY <1>5, <1>8 DEF Ids
<1>10. PatchAll(t, pid, old)
         = [i \in DOMAIN t |-> IF t[i].id = pid THEN PatchOn(t[i], old) ELSE t[i]]
  BY DEF PatchAll
<1>11. \A i \in DOMAIN ps : (IF t[i].id = pid THEN PatchOn(t[i], old) ELSE t[i]) = ps[i]
  BY <1>1, <1>5, <1>6, <1>7, <1>8 DEF DistinctIds
<1>12. ps = [i \in DOMAIN ps |-> ps[i]]
  BY ListFacts
<1> QED
  BY <1>5, <1>9, <1>10, <1>11, <1>12 DEF t, old

LEMMA PropertyUpdateUndone ==
    ASSUME NEW o, Sound(o), NEW c \in Command, c.op = "update_property",
           ExecuteOne(o, c).ok, Sound(ExecuteOne(o, c).ont)
    PROVE  Undoes(o, ExecuteOne(o, c))
<1> DEFINE ow == c.owner
           pid == c.property_id
           ps == OwnerProperties(o, ow)
           t == PatchAll(ps, pid, c.patch)
           b == WithProperties(o, ow, t)
           old == OldOf(Find(ps, pid), c.patch)
           d == [c EXCEPT !.patch = old]
           g == OwnerExists(o, ow) /\ pid \in Ids(ps)
           r == ExecuteOne(o, c)
<1>1. c \in [op : {"update_property"}, owner : Owner, property_id : PropertyId, patch : Patch]
  BY CommandKinds DEF PropertyOps, PropertyCommand
<1>2. ow \in Owner /\ c.patch \in Patch /\ DOMAIN c.patch \subseteq {"name", "nullable", "default_value"}
  BY <1>1, PatchFields
<1>3. d.op = "update_property" /\ d.owner = ow /\ d.property_id = pid /\ d.patch = old
  <2> HIDE DEF old
  <2> QED
    BY <1>1
<1>4. \A a, e : e.op = "update_property" => ExecuteOne(a, e) = UpdateProperty(a, e)
  BY UpdateCommands
<1>5. OwnerExists(o, ow)
  <2>1. \E p, q : UpdateProperty(o, c) = When(OwnerExists(o, c.owner) /\ p, q)
    BY Zenon DEF UpdateProperty
  <2> QED
    BY <1>4, <2>1 DEF When, Err
<1>6. r = When(g, Ok(b, <<d>>))
  <2>1. r = UpdateProperty(o, c)
    BY <1>4
  <2>2. UpdateProperty(o, c) = When(g, Ok(b, <<d>>))
    BY <1>2, <1>5, UpdateForms DEF PatchAll, OldOf
  <2> QED
    BY <2>1, <2>2
<1>7. g /\ r.ont = b /\ r.inverse = <<d>>
  <2> HIDE DEF g, b, d
  <2> QED
    BY <1>6, WhenOk
<1>8. ps \in Seq(Property) /\ DistinctIds(ps)
  BY <1>2, <1>5, OwnerSeen
<1>9. Ids(t) = Ids(ps) /\ PatchAll(t, pid, old) = ps
  BY <1>2, <1>7, <1>8, PatchedBack
<1>10. /\ OwnerExists(b, ow) /\ OwnerProperties(b, ow) = t
       /\ WithProperties(b, ow, ps) = o
  <2> HIDE DEF t
  <2> QED
    BY <1>2, <1>5, OwnerTwice
<1>11. ExecuteOne(b, d).ok /\ ExecuteOne(b, d).ont = o
  <2>1. ExecuteOne(b, d) = UpdateProperty(b, d)
    BY <1>3, <1>4
  <2>2. Sound(b)
    BY <1>7
  <2> DEFINE h == OwnerExists(b, ow) /\ pid \in Ids(t)
             n == WithProperties(b, ow, PatchAll(t, pid, old))
             w == <<[d EXCEPT !.patch = OldOf(Find(t, pid), old)]>>
  <2>3. UpdateProperty(b, d) = When(h, Ok(n, w))
    <3> HIDE DEF b, d, old, t
    <3>1. UpdateProperty(b, d) = When(OwnerExists(b, d.owner) /\ d.property_id \in Ids(OwnerProperties(b, d.owner)),
             Ok(WithProperties(b, d.owner, PatchAll(OwnerProperties(b, d.owner), d.property_id, d.patch)),
                <<[d EXCEPT !.patch = OldOf(Find(OwnerProperties(b, d.owner), d.property_id), d.patch)]>>))
      BY <1>2, <1>3, <1>10, <2>2, UpdateForms DEF PatchAll, OldOf
    <3> QED
      BY <3>1, <1>3, <1>10
  <2>4. h /\ n = o
    BY <1>7, <1>9, <1>10
  <2> HIDE DEF h, n, w, b, d
  <2> QED
    BY <2>1, <2>3, <2>4 DEF When, Ok
<1>12. o \in Ontology
  BY DEF Sound
<1> HIDE DEF r, b, d
<1>13. Undoes(o, r)
  BY <1>7, <1>11, <1>12, UndoneExactly
<1> QED
  BY <1>13 DEF r

-----------------------------------------------------------------------------
(* Nothing refers yet to what a command has just added.                     *)

LEMMA NodeAddedUndone ==
    ASSUME NEW o, Sound(o), NEW n \in NodeType, n.id \notin Ids(o.node_types),
           NEW b, b = [o EXCEPT !.node_types = Append(@, n)], b \in Ontology
    PROVE  LET d == DeleteNodeCmd(n.id)
           IN  ExecuteOne(b, d).ok /\ ExecuteOne(b, d).ont = o
<1> DEFINE id == n.id
           d == DeleteNodeCmd(id)
<1>1. o \in Ontology
  BY DEF Sound
<1>2. /\ b.node_types = Append(o.node_types, n) /\ b.edge_types = o.edge_types
      /\ b.indexes = o.indexes /\ b.object_mappings = o.object_mappings
      /\ b.link_mappings = o.link_mappings
      /\ \A x \in DOMAIN o : x # "node_types" => b[x] = o[x]
      /\ DOMAIN b = DOMAIN o /\ b = [x \in DOMAIN b |-> b[x]]
  BY <1>1, OntologyFields
<1>3. /\ id \in Ids(b.node_types)
      /\ Left(b.node_types, At(b.node_types, id)) = o.node_types
  BY <1>1, <1>2, OntologyLists, AddedDropped
<1>4. IncidentEdges(b, id) = {} /\ IncidentIds(b, id) = {}
  <2>1. \A i \in DOMAIN o.edge_types :
           {o.edge_types[i].source_node_id, o.edge_types[i].target_node_id} \subseteq Ids(o.node_types)
    BY DEF Sound, validate, ValidEdges, ToSet
  <2>2. IncidentEdges(b, id) = {}
    BY <2>1, <1>2 DEF IncidentEdges
  <2> QED
    BY <2>2 DEF IncidentIds
<1>5. IndexesOf(b, id) = {}
  <2>1. \A i \in DOMAIN o.indexes : o.indexes[i].node_id \in Ids(o.node_types)
    BY DEF Sound, validate, ValidIndexes, validate_index_target, ToSet
  <2> QED
    BY <2>1, <1>2 DEF IndexesOf
<1>6. ObjectsOf(b, id) = {}
  <2>1. \A i \in DOMAIN o.object_mappings : o.object_mappings[i].node_type_id \in Ids(o.node_types)
    BY DEF Sound, validate, ValidObjectMappings, ToSet
  <2> QED
    BY <2>1, <1>2 DEF ObjectsOf
<1>7. LinksOf(b, {}) = {}
  BY DEF LinksOf
<1>8. /\ Left(b.edge_types, {}) = b.edge_types /\ Left(b.indexes, {}) = b.indexes
      /\ Left(b.object_mappings, {}) = b.object_mappings
      /\ Left(b.link_mappings, {}) = b.link_mappings
  BY OntologyLists, LeftAll
<1>9. WithoutNode(b, id) = o
  <2>1. WithoutNode(b, id) = [b EXCEPT !.node_types = o.node_types, !.edge_types = b.edge_types,
            !.link_mappings = b.link_mappings, !.indexes = b.indexes,
            !.object_mappings = b.object_mappings]
    BY <1>3, <1>4, <1>5, <1>6, <1>7, <1>8 DEF WithoutNode
  <2> DEFINE a == [b EXCEPT !.node_types = o.node_types, !.edge_types = b.edge_types,
            !.link_mappings = b.link_mappings, !.indexes = b.indexes,
            !.object_mappings = b.object_mappings]
  <2>2. a = [x \in DOMAIN b |-> a[x]]
    OBVIOUS
  <2>3. \A x \in DOMAIN o : a[x] = o[x]
    BY <1>1, <1>2, OntologyFields
  <2> HIDE DEF a
  <2>4. a = o
    BY <2>2, <2>3, <1>1, <1>2, OntologyFields
  <2> QED
    BY <2>1, <2>4 DEF a
<1>10. ExecuteOne(b, d) = DeleteNode(b, d) /\ d.node_id = id
  <2>1. d.op = "delete_node" /\ d.node_id = id
    BY DEF DeleteNodeCmd
  <2> QED
    BY <2>1, Zenon DEF ExecuteOne
<1> DEFINE h == id \in Ids(b.node_types)
           w == NodeRestored(b, id)
<1>11. DeleteNode(b, d) = When(h, Ok(WithoutNode(b, id), w))
  BY <1>10, NodeDeletion
<1> HIDE DEF h, w, d
<1>12. ExecuteOne(b, d).ok /\ ExecuteOne(b, d).ont = o
  BY <1>3, <1>9, <1>10, <1>11 DEF h, When, Ok
<1> QED
  BY <1>12 DEF d

LEMMA EdgeAddedUndone ==
    ASSUME NEW o, Sound(o), NEW e \in EdgeType, e.id \notin Ids(o.edge_types),
           NEW b, b = [o EXCEPT !.edge_types = Append(@, e)], b \in Ontology
    PROVE  LET d == DeleteEdgeCmd(e.id)
           IN  ExecuteOne(b, d).ok /\ ExecuteOne(b, d).ont = o
<1> DEFINE id == e.id
           d == DeleteEdgeCmd(id)
<1>1. o \in Ontology
  BY DEF Sound
<1>2. /\ b.edge_types = Append(o.edge_types, e) /\ b.link_mappings = o.link_mappings
      /\ \A x \in DOMAIN o : x # "edge_types" => b[x] = o[x]
      /\ DOMAIN b = DOMAIN o /\ b = [x \in DOMAIN b |-> b[x]]
  BY <1>1, OntologyFields
<1>3. /\ id \in Ids(b.edge_types)
      /\ Left(b.edge_types, At(b.edge_types, id)) = o.edge_types
  BY <1>1, <1>2, OntologyLists, AddedDropped
<1>4. LinksOf(b, {id}) = {}
  <2>1. \A i \in DOMAIN o.link_mappings : o.link_mappings[i].edge_type_id \in Ids(o.edge_types)
    BY DEF Sound, validate, ValidLinkMappings, ToSet
  <2> QED
    BY <2>1, <1>2 DEF LinksOf
<1>5. Left(b.link_mappings, {}) = b.link_mappings
  BY OntologyLists, LeftAll
<1>6. WithoutEdge(b, id) = o
  <2>1. WithoutEdge(b, id) = [b EXCEPT !.edge_types = o.edge_types, !.link_mappings = b.link_mappings]
    BY <1>3, <1>4, <1>5 DEF WithoutEdge
  <2> DEFINE a == [b EXCEPT !.edge_types = o.edge_types, !.link_mappings = b.link_mappings]
  <2>2. a = [x \in DOMAIN b |-> a[x]]
    OBVIOUS
  <2>3. \A x \in DOMAIN o : a[x] = o[x]
    BY <1>1, <1>2, OntologyFields
  <2> HIDE DEF a
  <2>4. a = o
    BY <2>2, <2>3, <1>1, <1>2, OntologyFields
  <2> QED
    BY <2>1, <2>4 DEF a
<1>7. ExecuteOne(b, d) = DeleteEdge(b, d) /\ d.edge_id = id
  <2>1. d.op = "delete_edge" /\ d.edge_id = id
    BY DEF DeleteEdgeCmd
  <2> QED
    BY <2>1, Zenon DEF ExecuteOne
<1> DEFINE h == id \in Ids(b.edge_types)
           w == EdgeRestored(b, id)
<1>8. DeleteEdge(b, d) = When(h, Ok(WithoutEdge(b, id), w))
  BY <1>7, EdgeDeletion
<1> HIDE DEF h, w, d
<1>9. ExecuteOne(b, d).ok /\ ExecuteOne(b, d).ont = o
  BY <1>3, <1>6, <1>7, <1>8 DEF h, When, Ok
<1> QED
  BY <1>9 DEF d

LEMMA CreateForms ==
    ASSUME NEW o, NEW n, NEW e
    PROVE  /\ CreateNodeType(o, n) = When(\A x \in ToSet(o.node_types) : x.id # n.id /\ x.label # n.label,
                  Ok([o EXCEPT !.node_types = Append(@, n)], <<DeleteNodeCmd(n.id)>>))
           /\ CreateEdgeType(o, e) = When(/\ {e.source_node_id, e.target_node_id} \subseteq Ids(o.node_types)
                                          /\ \A x \in ToSet(o.edge_types) :
                                                x.id # e.id /\ Signature(x) # Signature(e),
                  Ok([o EXCEPT !.edge_types = Append(@, e)], <<DeleteEdgeCmd(e.id)>>))
BY Zenon DEF CreateNodeType, CreateEdgeType

LEMMA CreationUndone ==
    ASSUME NEW o, Sound(o), NEW c \in Command, ExecuteOne(o, c).ok, Sound(ExecuteOne(o, c).ont),
           c.op \in {"add_node", "create_node_type", "add_edge", "create_edge_type"}
    PROVE  Undoes(o, ExecuteOne(o, c))
<1> DEFINE r == ExecuteOne(o, c)
<1>0. o \in Ontology /\ r.ont \in Ontology
  BY DEF Sound
<1>1. ASSUME NEW n \in NodeType, r = CreateNodeType(o, n)
      PROVE  Undoes(o, r)
  <2> DEFINE g == \A x \in ToSet(o.node_types) : x.id # n.id /\ x.label # n.label
             b == [o EXCEPT !.node_types = Append(@, n)]
             d == DeleteNodeCmd(n.id)
  <2>1. r = When(g, Ok(b, <<d>>))
    BY <1>1, CreateForms
  <2>2. g /\ r.ont = b /\ r.inverse = <<d>>
    <3> HIDE DEF g, b, d
    <3> QED
      BY <2>1, WhenOk
  <2>3. n.id \notin Ids(o.node_types)
    BY <2>2, IdsOfSet
  <2>4. ExecuteOne(b, d).ok /\ ExecuteOne(b, d).ont = o
    <3>1. b = [o EXCEPT !.node_types = Append(@, n)] /\ b \in Ontology
      BY <1>0, <2>2
    <3> HIDE DEF b
    <3> QED
      BY <2>3, <3>1, NodeAddedUndone
  <2> HIDE DEF r, b, d
  <2> QED
    BY <1>0, <2>2, <2>4, UndoneExactly
<1>2. ASSUME NEW e \in EdgeType, r = CreateEdgeType(o, e)
      PROVE  Undoes(o, r)
  <2> DEFINE g == /\ {e.source_node_id, e.target_node_id} \subseteq Ids(o.node_types)
                  /\ \A x \in ToSet(o.edge_types) : x.id # e.id /\ Signature(x) # Signature(e)
             b == [o EXCEPT !.edge_types = Append(@, e)]
             d == DeleteEdgeCmd(e.id)
  <2>1. r = When(g, Ok(b, <<d>>))
    BY <1>2, CreateForms
  <2>2. g /\ r.ont = b /\ r.inverse = <<d>>
    <3> HIDE DEF g, b, d
    <3> QED
      BY <2>1, WhenOk
  <2>3. e.id \notin Ids(o.edge_types)
    BY <2>2, IdsOfSet
  <2>4. ExecuteOne(b, d).ok /\ ExecuteOne(b, d).ont = o
    <3>1. b = [o EXCEPT !.edge_types = Append(@, e)] /\ b \in Ontology
      BY <1>0, <2>2
    <3> HIDE DEF b
    <3> QED
      BY <2>3, <3>1, EdgeAddedUndone
  <2> HIDE DEF r, b, d
  <2> QED
    BY <1>0, <2>2, <2>4, UndoneExactly
<1>3. /\ c.op \in NodeOps => c \in NodeCommand
      /\ c.op \in EdgeOps => c \in EdgeCommand
  BY CommandKinds
<1>4. CASE c.op = "add_node"
  <2>1. r = CreateNodeType(o, NewNode(c))
    <3>1. r = AddNode(o, c)
      BY <1>4, Zenon DEF ExecuteOne
    <3> QED
      BY <3>1 DEF AddNode
  <2>2. NewNode(c) \in NodeType
    <3>1. c \in [op : {"add_node"}, id : NodeId, label : Text, description : Text]
      BY <1>3, <1>4 DEF NodeOps, NodeCommand
    <3> QED
      BY <3>1 DEF NewNode, NodeType
  <2> HIDE DEF r
  <2>3. Undoes(o, r)
    BY <2>1, <2>2, <1>1
  <2> QED
    BY <2>3 DEF r
<1>5. CASE c.op = "create_node_type"
  <2>1. r = CreateNodeType(o, c.node)
    BY <1>5, Zenon DEF ExecuteOne
  <2>2. c.node \in NodeType
    BY <1>3, <1>5 DEF NodeOps, NodeCommand
  <2> HIDE DEF r
  <2>3. Undoes(o, r)
    BY <2>1, <2>2, <1>1
  <2> QED
    BY <2>3 DEF r
<1>6. CASE c.op = "add_edge"
  <2>1. r = CreateEdgeType(o, NewEdge(c))
    <3>1. r = AddEdge(o, c)
      BY <1>6, Zenon DEF ExecuteOne
    <3> QED
      BY <3>1 DEF AddEdge
  <2>2. NewEdge(c) \in EdgeType
    <3>1. c \in [op : {"add_edge"}, id : EdgeId, label : Text, source_node_id : NodeId,
                 target_node_id : NodeId, cardinality : Cardinalities]
      BY <1>3, <1>6 DEF EdgeOps, EdgeCommand
    <3>2. /\ c.id \in EdgeId /\ c.label \in Text /\ c.source_node_id \in NodeId
          /\ c.target_node_id \in NodeId /\ c.cardinality \in Cardinalities
      BY <3>1
    <3>3. <<>> \in Seq(Property)
      OBVIOUS
    <3> QED
      BY <3>2, <3>3, TextAssumption DEF NewEdge, EdgeType
  <2> HIDE DEF r
  <2>3. Undoes(o, r)
    BY <2>1, <2>2, <1>2
  <2> QED
    BY <2>3 DEF r
<1>7. CASE c.op = "create_edge_type"
  <2>1. r = CreateEdgeType(o, c.edge)
    BY <1>7, Zenon DEF ExecuteOne
  <2>2. c.edge \in EdgeType
    BY <1>3, <1>7 DEF EdgeOps, EdgeCommand
  <2> HIDE DEF r
  <2>3. Undoes(o, r)
    BY <2>1, <2>2, <1>2
  <2> QED
    BY <2>3 DEF r
<1> QED
  BY <1>4, <1>5, <1>6, <1>7

\* What a valid ontology says of a node's own properties.
LEMMA PropertyReferences ==
    ASSUME NEW o, Sound(o), NEW k \in DOMAIN o.node_types
    PROVE  /\ \A i \in DOMAIN o.node_types[k].constraints :
                 ToSet(o.node_types[k].constraints[i].property_ids) \subseteq Ids(o.node_types[k].properties)
           /\ \A i \in DOMAIN o.indexes : o.indexes[i].node_id = o.node_types[k].id =>
                 ToSet(o.indexes[i].property_ids) \subseteq Ids(o.node_types[k].properties)
           /\ \A i \in DOMAIN o.object_mappings :
                 o.object_mappings[i].node_type_id = o.node_types[k].id =>
                 ToSet(o.object_mappings[i].property_mappings) \subseteq Ids(o.node_types[k].properties)
<1>1. Find(o.node_types, o.node_types[k].id) = o.node_types[k]
  <2>1. o.node_types \in Seq(NodeType) /\ DistinctIds(o.node_types)
    BY SoundIds, OntologyLists
  <2> QED
    BY <2>1, FoundAt
<1>2. \A i \in DOMAIN o.node_types[k].constraints :
         validate_constraint_fields(o.node_types[k], o.node_types[k].constraints[i])
  BY DEF Sound, validate, ValidNodes, ToSet
<1>3. \A i \in DOMAIN o.indexes : validate_index_target(o, o.indexes[i])
  BY DEF Sound, validate, ValidIndexes, ToSet
<1>4. \A i \in DOMAIN o.object_mappings : ToSet(o.object_mappings[i].property_mappings)
         \subseteq Ids(Find(o.node_types, o.object_mappings[i].node_type_id).properties)
  BY DEF Sound, validate, ValidObjectMappings, ToSet
<1>5. \A i \in DOMAIN o.node_types[k].constraints :
         ToSet(o.node_types[k].constraints[i].property_ids) \subseteq Ids(o.node_types[k].properties)
  BY <1>2 DEF validate_constraint_fields
<1>6. \A i \in DOMAIN o.indexes : ToSet(o.indexes[i].property_ids)
         \subseteq Ids(Find(o.node_types, o.indexes[i].node_id).properties)
  BY <1>3 DEF validate_index_target
<1> QED
  BY <1>1, <1>4, <1>5, <1>6

LEMMA NodePropertyAddedUndone ==
    ASSUME NEW o, Sound(o), NEW owner \in Owner, owner.kind = "node",
           NEW k \in DOMAIN o.node_types, o.node_types[k].id = owner.type_id,
           NEW p \in Property, p.id \notin Ids(o.node_types[k].properties),
           NEW b, Sound(b),
           b = WithNode(o, k, [o.node_types[k] EXCEPT !.properties = Append(@, p)])
    PROVE  /\ p.id \in Ids(b.node_types[k].properties) /\ k \in DOMAIN b.node_types
           /\ b.node_types[k].id = owner.type_id
           /\ WithoutNodeProperty(b, k, p.id) = o
<1> DEFINE n == o.node_types[k]
           m == [n EXCEPT !.properties = Append(@, p)]
           pid == p.id
           id == owner.type_id
<1>1. o \in Ontology /\ b \in Ontology
  BY DEF Sound
<1>2. /\ n \in NodeType /\ n.properties \in Seq(Property) /\ n.constraints \in Seq(ConstraintDef)
  BY <1>1, EntryFacts
<1>3. /\ DOMAIN b = DOMAIN o /\ b = [x \in DOMAIN b |-> b[x]] /\ o = [x \in DOMAIN o |-> o[x]]
      /\ b.node_types = [o.node_types EXCEPT ![k] = m]
      /\ \A x \in DOMAIN o : x # "node_types" => b[x] = o[x]
      /\ b.indexes = o.indexes /\ b.object_mappings = o.object_mappings
      /\ {"node_types", "indexes", "object_mappings"} \subseteq DOMAIN o
  <2> HIDE DEF m
  <2> QED
    BY <1>1, OntologyFields DEF WithNode, m
<1>4. DOMAIN b.node_types = DOMAIN o.node_types /\ b.node_types[k] = m
  <2> HIDE DEF m
  <2> QED
    BY <1>3
<1>5. m.id = id /\ m.properties = Append(n.properties, p) /\ m.constraints = n.constraints
  BY <1>2 DEF NodeType
<1>6. /\ pid \in Ids(m.properties)
      /\ Left(m.properties, At(m.properties, pid)) = n.properties
  BY <1>2, <1>5, AddedDropped
<1>7. Using(n.constraints, pid) = {}
  BY PropertyReferences DEF Using
<1>8. IndexUses(b, id, pid) = {}
  BY ZenonT(60), <1>3, PropertyReferences DEF IndexUses
<1>9. ObjectUses(b, id, pid) = {}
  BY ZenonT(60), <1>3, PropertyReferences DEF ObjectUses
<1>10. NodeWithout(m, pid) = n
  <2>1. Left(n.constraints, {}) = n.constraints
    BY <1>2, LeftAll
  <2>2. NodeWithout(m, pid) = [m EXCEPT !.properties = n.properties, !.constraints = n.constraints]
    BY <2>1, <1>5, <1>6, <1>7 DEF NodeWithout
  <2> QED
    BY <2>2, <1>2 DEF NodeType
<1>11. Unmapped(b, id, pid) = o.object_mappings
  <2>1. o.object_mappings = [i \in DOMAIN o.object_mappings |-> o.object_mappings[i]]
    BY <1>1, OntologyLists, ListFacts
  <2> QED
    BY <2>1, <1>3, <1>9 DEF Unmapped
<1>12. Left(b.indexes, IndexUses(b, id, pid)) = o.indexes
  <2>1. Left(o.indexes, {}) = o.indexes
    BY <1>1, OntologyLists, LeftAll
  <2> QED
    BY <2>1, <1>3, <1>8
<1>13. [b.node_types EXCEPT ![k] = n] = o.node_types
  <2>1. o.node_types = [i \in DOMAIN o.node_types |-> o.node_types[i]]
    BY <1>1, OntologyLists, ListFacts
  <2> HIDE DEF m
  <2> QED
    BY <2>1, <1>3
<1> HIDE DEF m
<1>14. WithoutNodeProperty(b, k, pid)
         = [b EXCEPT !.node_types = o.node_types, !.indexes = o.indexes,
                     !.object_mappings = o.object_mappings]
  BY <1>4, <1>5, <1>10, <1>11, <1>12, <1>13 DEF WithoutNodeProperty
<1>15. WithoutNodeProperty(b, k, pid) = o
  <2> DEFINE a == [b EXCEPT !.node_types = o.node_types, !.indexes = o.indexes,
                            !.object_mappings = o.object_mappings]
  <2>1. a = [x \in DOMAIN o |-> a[x]] /\ \A x \in DOMAIN o : a[x] = o[x]
    BY <1>3
  <2> HIDE DEF a
  <2>2. a = o
    BY <2>1, <1>3
  <2> QED
    BY <2>2, <1>14 DEF a
<1> QED
  BY <1>4, <1>5, <1>6, <1>15

LEMMA EdgePropertyAddedUndone ==
    ASSUME NEW o, Sound(o), NEW k \in DOMAIN o.edge_types,
           NEW p \in Property, p.id \notin Ids(o.edge_types[k].properties), NEW b,
           b = WithEdge(o, k, [o.edge_types[k] EXCEPT !.properties = Append(@, p)])
    PROVE  /\ p.id \in Ids(b.edge_types[k].properties) /\ k \in DOMAIN b.edge_types
           /\ b.edge_types[k].id = o.edge_types[k].id
           /\ WithoutEdgeProperty(b, k, p.id) = o
<1> DEFINE e == o.edge_types[k]
           f == [e EXCEPT !.properties = Append(@, p)]
<1>1. o \in Ontology
  BY DEF Sound
<1>2. e \in EdgeType /\ e.properties \in Seq(Property)
  BY <1>1, EntryFacts
<1>3. /\ DOMAIN b = DOMAIN o /\ b = [x \in DOMAIN b |-> b[x]] /\ o = [x \in DOMAIN o |-> o[x]]
      /\ b.edge_types = [o.edge_types EXCEPT ![k] = f] /\ "edge_types" \in DOMAIN o
      /\ \A x \in DOMAIN o : x # "edge_types" => b[x] = o[x]
  <2>1. b = [o EXCEPT !.edge_types = [o.edge_types EXCEPT ![k] = f]]
    BY DEF WithEdge
  <2> HIDE DEF f
  <2> QED
    BY ZenonT(60), <2>1, <1>1, OntologyFields
<1>4. DOMAIN b.edge_types = DOMAIN o.edge_types /\ b.edge_types[k] = f
  <2> HIDE DEF f
  <2> QED
    BY <1>3
<1>5. f.id = e.id /\ f.properties = Append(e.properties, p)
  BY <1>2 DEF EdgeType
<1>6. p.id \in Ids(f.properties) /\ Left(f.properties, At(f.properties, p.id)) = e.properties
  BY <1>2, <1>5, AddedDropped
<1>7. [f EXCEPT !.properties = e.properties] = e
  BY <1>2 DEF EdgeType
<1> HIDE DEF f
<1>8. [b.edge_types EXCEPT ![k] = e] = o.edge_types
  <2>1. o.edge_types = [i \in DOMAIN o.edge_types |-> o.edge_types[i]]
    BY <1>1, OntologyLists, ListFacts
  <2> QED
    BY <2>1, <1>3
<1>9. WithoutEdgeProperty(b, k, p.id) = [b EXCEPT !.edge_types = o.edge_types]
  BY <1>4, <1>6, <1>7, <1>8 DEF WithoutEdgeProperty, WithEdge
<1>10. [b EXCEPT !.edge_types = o.edge_types] = o
  <2> DEFINE a == [b EXCEPT !.edge_types = o.edge_types]
  <2>1. a = [x \in DOMAIN o |-> a[x]] /\ \A x \in DOMAIN o : a[x] = o[x]
    BY <1>3
  <2> HIDE DEF a
  <2>2. a = o
    BY <2>1, <1>3
  <2> QED
    BY <2>2 DEF a
<1> QED
  BY <1>4, <1>5, <1>6, <1>9, <1>10

LEMMA PropertyAddedUndone ==
    ASSUME NEW o, Sound(o), NEW c \in Command, c.op = "add_property",
           ExecuteOne(o, c).ok, Sound(ExecuteOne(o, c).ont)
    PROVE  Undoes(o, ExecuteOne(o, c))
<1> DEFINE ow == c.owner
           p == c.property
           r == ExecuteOne(o, c)
           g == OwnerExists(o, ow) /\ p.id \notin Ids(OwnerProperties(o, ow))
           b == WithProperties(o, ow, Append(OwnerProperties(o, ow), p))
           d == DeletePropertyCmd(ow, p.id)
<1>1. c \in [op : {"add_property"}, owner : Owner, property : Property]
  BY CommandKinds DEF PropertyOps, PropertyCommand
<1>2. ow \in Owner /\ p \in Property
  BY <1>1
<1>3. r = When(g, Ok(b, <<d>>))
  <2>1. r = AddProperty(o, c)
    BY Zenon DEF ExecuteOne
  <2> QED
    BY <2>1, Zenon DEF AddProperty
<1>4. g /\ r.ont = b /\ r.inverse = <<d>>
  <2> HIDE DEF g, b, d
  <2> QED
    BY <1>3, WhenOk
<1>5. d.owner = ow /\ d.property_id = p.id /\ ExecuteOne(b, d) = DeleteProperty(b, d)
  <2>1. d.op = "delete_property" /\ d.owner = ow /\ d.property_id = p.id
    BY DEF DeletePropertyCmd
  <2> HIDE DEF b, d
  <2> QED
    BY <2>1, Zenon DEF ExecuteOne
<1>6. Sound(b) /\ o \in Ontology
  BY <1>4 DEF Sound
<1>7. ExecuteOne(b, d).ok /\ ExecuteOne(b, d).ont = o
  <2>1. CASE ow.kind = "node"
    <3>1. PICK k \in DOMAIN o.node_types : o.node_types[k].id = ow.type_id
      BY <1>4, <2>1, OwnerPlace
    <3>2. /\ OwnerProperties(o, ow) = o.node_types[k].properties
          /\ \A ps : WithProperties(o, ow, ps)
                        = WithNode(o, k, [o.node_types[k] EXCEPT !.properties = ps])
      BY <1>2, <2>1, <3>1, NodeOwnerAt
    <3>3. b = WithNode(o, k, [o.node_types[k] EXCEPT !.properties = Append(@, p)])
      BY <3>2
    <3>4. p.id \notin Ids(o.node_types[k].properties)
      BY <1>4, <3>2
    <3> HIDE DEF b, d
    <3>5. /\ p.id \in Ids(b.node_types[k].properties) /\ k \in DOMAIN b.node_types
          /\ b.node_types[k].id = ow.type_id
          /\ WithoutNodeProperty(b, k, p.id) = o
      BY <1>2, <1>6, <2>1, <3>1, <3>3, <3>4, NodePropertyAddedUndone
    <3>6. DeleteProperty(b, d) = When(d.property_id \in Ids(b.node_types[k].properties),
              Ok(WithoutNodeProperty(b, k, d.property_id), NodePropertyRestored(b, k, d.owner, d.property_id)))
      BY <1>2, <1>5, <1>6, <2>1, <3>5, NodePropertyDeletion
    <3> QED
      BY <1>5, <3>5, <3>6 DEF When, Ok
  <2>2. CASE ow.kind # "node"
    <3>1. PICK k \in DOMAIN o.edge_types : o.edge_types[k].id = ow.type_id
      BY <1>4, <2>2, OwnerPlace
    <3>2. /\ OwnerProperties(o, ow) = o.edge_types[k].properties
          /\ \A ps : WithProperties(o, ow, ps)
                        = WithEdge(o, k, [o.edge_types[k] EXCEPT !.properties = ps])
      BY <1>2, <2>2, <3>1, EdgeOwnerAt
    <3>3. b = WithEdge(o, k, [o.edge_types[k] EXCEPT !.properties = Append(@, p)])
      BY <3>2
    <3>4. p.id \notin Ids(o.edge_types[k].properties)
      BY <1>4, <3>2
    <3> HIDE DEF b, d
    <3>5. /\ p.id \in Ids(b.edge_types[k].properties) /\ k \in DOMAIN b.edge_types
          /\ b.edge_types[k].id = ow.type_id
          /\ WithoutEdgeProperty(b, k, p.id) = o
      BY <1>2, <3>1, <3>3, <3>4, EdgePropertyAddedUndone
    <3>6. DeleteProperty(b, d) = When(d.property_id \in Ids(b.edge_types[k].properties),
              Ok(WithoutEdgeProperty(b, k, d.property_id), EdgePropertyRestored(b, k, d.owner, d.property_id)))
      BY <1>2, <1>5, <1>6, <2>2, <3>5, EdgePropertyDeletion
    <3> QED
      BY <1>5, <3>5, <3>6 DEF When, Ok
  <2> QED
    BY <2>1, <2>2
<1> HIDE DEF r, b, d
<1>8. Undoes(o, r)
  BY <1>4, <1>6, <1>7, UndoneExactly
<1> QED
  BY <1>8 DEF r

-----------------------------------------------------------------------------
(* A node or an edge, put in its place again.                               *)

LEMMA NodeTwice ==
    ASSUME NEW o \in Ontology, NEW k \in DOMAIN o.node_types, NEW m, NEW n
    PROVE  WithNode(WithNode(o, k, m), k, n) = WithNode(o, k, n)
<1> DEFINE s == o.node_types
           t == [s EXCEPT ![k] = m]
           b == [o EXCEPT !.node_types = t]
<1>1. o = [x \in DOMAIN o |-> o[x]] /\ "node_types" \in DOMAIN o
  BY OntologyFields
<1>2. [t EXCEPT ![k] = n] = [s EXCEPT ![k] = n]
  <2> HIDE DEF s
  <2> QED
    OBVIOUS
<1>3. b = WithNode(o, k, m) /\ b.node_types = t
  <2>1. b = WithNode(o, k, m)
    BY DEF WithNode
  <2> HIDE DEF t
  <2> QED
    BY <2>1, <1>1
<1>4. WithNode(b, k, n) = [b EXCEPT !.node_types = [t EXCEPT ![k] = n]]
  <2> HIDE DEF t, b
  <2> QED
    BY <1>3 DEF WithNode
<1>5. \A u : [b EXCEPT !.node_types = u] = [o EXCEPT !.node_types = u]
  <2> HIDE DEF t
  <2> QED
    BY <1>1
<1> HIDE DEF t, b
<1> QED
  BY <1>2, <1>3, <1>4, <1>5 DEF WithNode

LEMMA WithNodeFacts ==
    ASSUME NEW o \in Ontology, NEW k \in DOMAIN o.node_types, NEW m
    PROVE  /\ WithNode(o, k, m).node_types = [o.node_types EXCEPT ![k] = m]
           /\ DOMAIN WithNode(o, k, m).node_types = DOMAIN o.node_types
           /\ WithNode(o, k, m).node_types[k] = m
           /\ \A i \in DOMAIN o.node_types : i # k =>
                 WithNode(o, k, m).node_types[i] = o.node_types[i]
           /\ \A x \in DOMAIN o : x # "node_types" => WithNode(o, k, m)[x] = o[x]
           /\ DOMAIN WithNode(o, k, m) = DOMAIN o
           /\ WithNode(o, k, o.node_types[k]) = o
           /\ m \in NodeType => WithNode(o, k, m) \in Ontology
<1> DEFINE s == o.node_types
           t == [s EXCEPT ![k] = m]
           b == [o EXCEPT !.node_types = t]
<1>0. k \in DOMAIN s
  OBVIOUS
<1>1. s \in Seq(NodeType) /\ s = [i \in DOMAIN s |-> s[i]]
  BY OntologyLists, ListFacts
<1>2. o = [x \in DOMAIN o |-> o[x]] /\ "node_types" \in DOMAIN o
  BY OntologyFields
<1>3. DOMAIN t = DOMAIN s /\ t[k] = m /\ \A i \in DOMAIN s : i # k => t[i] = s[i]
  <2> HIDE DEF s
  <2> QED
    BY <1>0
<1>5. [s EXCEPT ![k] = s[k]] = s
  <2> HIDE DEF s
  <2> QED
    BY <1>1
<1>6. m \in NodeType => t \in Seq(NodeType)
  <2> SUFFICES ASSUME m \in NodeType PROVE t \in Seq(NodeType)
    OBVIOUS
  <2>1. \A i \in DOMAIN s : t[i] \in NodeType
    BY <1>1, <1>3, ListFacts
  <2>2. t = [i \in DOMAIN s |-> t[i]]
    <3> HIDE DEF s
    <3> QED
      OBVIOUS
  <2> HIDE DEF s, t
  <2> QED
    BY <2>1, <2>2, <1>1, RewrittenList
<1>7. b = WithNode(o, k, m)
  BY DEF WithNode
<1>8. b.node_types = t /\ DOMAIN b = DOMAIN o /\ \A x \in DOMAIN o : x # "node_types" => b[x] = o[x]
  <2> HIDE DEF t
  <2> QED
    BY <1>2
<1>10. WithNode(o, k, s[k]) = o
  <2>1. WithNode(o, k, s[k]) = [o EXCEPT !.node_types = s]
    BY <1>5 DEF WithNode
  <2> HIDE DEF s
  <2> QED
    BY <2>1, <1>2 DEF s
<1>11. m \in NodeType => b \in Ontology
  <2> HIDE DEF t
  <2> QED
    BY <1>6, WithLists
<1> HIDE DEF b, t
<1> QED
  BY <1>3, <1>7, <1>8, <1>10, <1>11 DEF t

LEMMA EdgeTwice ==
    ASSUME NEW o \in Ontology, NEW k \in DOMAIN o.edge_types, NEW m, NEW n
    PROVE  WithEdge(WithEdge(o, k, m), k, n) = WithEdge(o, k, n)
<1> DEFINE s == o.edge_types
           t == [s EXCEPT ![k] = m]
           b == [o EXCEPT !.edge_types = t]
<1>1. o = [x \in DOMAIN o |-> o[x]] /\ "edge_types" \in DOMAIN o
  BY OntologyFields
<1>2. [t EXCEPT ![k] = n] = [s EXCEPT ![k] = n]
  <2> HIDE DEF s
  <2> QED
    OBVIOUS
<1>3. b = WithEdge(o, k, m) /\ b.edge_types = t
  <2>1. b = WithEdge(o, k, m)
    BY DEF WithEdge
  <2> HIDE DEF t
  <2> QED
    BY <2>1, <1>1
<1>4. WithEdge(b, k, n) = [b EXCEPT !.edge_types = [t EXCEPT ![k] = n]]
  <2> HIDE DEF t, b
  <2> QED
    BY <1>3 DEF WithEdge
<1>5. \A u : [b EXCEPT !.edge_types = u] = [o EXCEPT !.edge_types = u]
  <2> HIDE DEF t
  <2> QED
    BY <1>1
<1> HIDE DEF t, b
<1> QED
  BY <1>2, <1>3, <1>4, <1>5 DEF WithEdge

LEMMA WithEdgeFacts ==
    ASSUME NEW o \in Ontology, NEW k \in DOMAIN o.edge_types, NEW m
    PROVE  /\ WithEdge(o, k, m).edge_types = [o.edge_types EXCEPT ![k] = m]
           /\ DOMAIN WithEdge(o, k, m).edge_types = DOMAIN o.edge_types
           /\ WithEdge(o, k, m).edge_types[k] = m
           /\ \A i \in DOMAIN o.edge_types : i # k =>
                 WithEdge(o, k, m).edge_types[i] = o.edge_types[i]
           /\ \A x \in DOMAIN o : x # "edge_types" => WithEdge(o, k, m)[x] = o[x]
           /\ DOMAIN WithEdge(o, k, m) = DOMAIN o
           /\ m \in EdgeType => WithEdge(o, k, m) \in Ontology
<1> DEFINE s == o.edge_types
           t == [s EXCEPT ![k] = m]
           b == [o EXCEPT !.edge_types = t]
<1>0. k \in DOMAIN s
  OBVIOUS
<1>1. s \in Seq(EdgeType) /\ s = [i \in DOMAIN s |-> s[i]]
  BY OntologyLists, ListFacts
<1>2. o = [x \in DOMAIN o |-> o[x]] /\ "edge_types" \in DOMAIN o
  BY OntologyFields
<1>3. DOMAIN t = DOMAIN s /\ t[k] = m /\ \A i \in DOMAIN s : i # k => t[i] = s[i]
  <2> HIDE DEF s
  <2> QED
    BY <1>0
<1>6. m \in EdgeType => t \in Seq(EdgeType)
  <2> SUFFICES ASSUME m \in EdgeType PROVE t \in Seq(EdgeType)
    OBVIOUS
  <2>1. \A i \in DOMAIN s : t[i] \in EdgeType
    BY <1>1, <1>3, ListFacts
  <2>2. t = [i \in DOMAIN s |-> t[i]]
    <3> HIDE DEF s
    <3> QED
      OBVIOUS
  <2> HIDE DEF s, t
  <2> QED
    BY <2>1, <2>2, <1>1, RewrittenList
<1>7. b = WithEdge(o, k, m)
  BY DEF WithEdge
<1>8. b.edge_types = t /\ DOMAIN b = DOMAIN o /\ \A x \in DOMAIN o : x # "edge_types" => b[x] = o[x]
  <2> HIDE DEF t
  <2> QED
    BY <1>2
<1>11. m \in EdgeType => b \in Ontology
  <2> HIDE DEF t
  <2> QED
    BY <1>6, WithLists
<1> HIDE DEF b, t
<1> QED
  BY <1>3, <1>7, <1>8, <1>11 DEF t

LEMMA AlikeReordered ==
    ASSUME NEW o \in Ontology
    PROVE  /\ \A k \in DOMAIN o.node_types : \A m :
                 NodeAlike(o.node_types[k], m) => Reordered(o, WithNode(o, k, m))
           /\ \A k \in DOMAIN o.edge_types : \A m :
                 EdgeAlike(o.edge_types[k], m) => Reordered(o, WithEdge(o, k, m))
<1>1. o.node_types \in Seq(NodeType) /\ o.edge_types \in Seq(EdgeType)
  BY OntologyLists
<1>2. ASSUME NEW k \in DOMAIN o.node_types, NEW m, NodeAlike(o.node_types[k], m)
      PROVE  Reordered(o, WithNode(o, k, m))
  <2> DEFINE b == WithNode(o, k, m)
  <2>1. m \in NodeType
    BY <1>2 DEF NodeAlike
  <2>2. /\ b.node_types = [o.node_types EXCEPT ![k] = m] /\ b \in Ontology
        /\ \A x \in DOMAIN o : x # "node_types" => b[x] = o[x]
    BY <2>1, WithNodeFacts
  <2>3. NodesMatch(o.node_types, b.node_types)
    BY <1>1, <1>2, <2>2, ListsMatch
  <2> HIDE DEF b
  <2>4. Reordered(o, b)
    BY <2>2, <2>3, OntologyFields, ReorderedItself DEF Reordered
  <2> QED
    BY <2>4 DEF b
<1>3. ASSUME NEW k \in DOMAIN o.edge_types, NEW m, EdgeAlike(o.edge_types[k], m)
      PROVE  Reordered(o, WithEdge(o, k, m))
  <2> DEFINE b == WithEdge(o, k, m)
  <2>1. m \in EdgeType
    BY <1>3 DEF EdgeAlike
  <2>2. /\ b.edge_types = [o.edge_types EXCEPT ![k] = m] /\ b \in Ontology
        /\ \A x \in DOMAIN o : x # "edge_types" => b[x] = o[x]
    BY <2>1, WithEdgeFacts
  <2>3. EdgesMatch(o.edge_types, b.edge_types)
    BY <1>1, <1>3, <2>2, ListsMatch
  <2> HIDE DEF b
  <2>4. Reordered(o, b)
    BY <2>2, <2>3, OntologyFields, ReorderedItself DEF Reordered
  <2> QED
    BY <2>4 DEF b
<1> QED
  BY <1>2, <1>3

-----------------------------------------------------------------------------
(* The constraints of a node.                                               *)

ConstraintsOn(n, cs) == [n EXCEPT !.constraints = cs]

LEMMA ConstraintForms ==
    ASSUME NEW o, NEW S, o.node_types \in Seq(S), DistinctIds(o.node_types),
           NEW k \in DOMAIN o.node_types, NEW c, c.node_id = o.node_types[k].id
    PROVE  LET n == o.node_types[k]
               x == c.constraint
           IN  /\ c.op = "add_constraint" =>
                     ExecuteOne(o, c) = When(x.id \notin Ids(n.constraints),
                         Ok(WithNode(o, k, ConstraintsOn(n, Append(n.constraints, x))),
                            <<[op |-> "remove_constraint", node_id |-> n.id, constraint_id |-> x.id]>>))
               /\ c.op = "remove_constraint" =>
                     ExecuteOne(o, c) = When(c.constraint_id \in Ids(n.constraints),
                         Ok(WithNode(o, k, ConstraintsOn(n,
                                Picked(n.constraints, OthersAt(n.constraints, c.constraint_id)))),
                            <<AddConstraintCmd(n.id, Find(n.constraints, c.constraint_id))>>))
<1> DEFINE s == o.node_types
           n == s[k]
           x == c.constraint
           t == [i \in DOMAIN s |-> IF s[i].id = c.node_id
                                    THEN [s[i] EXCEPT !.constraints = Append(s[i].constraints, x)]
                                    ELSE s[i]]
           u == [i \in DOMAIN s |-> IF s[i].id = c.node_id
                                    THEN [s[i] EXCEPT !.constraints =
                                             Picked(s[i].constraints, OthersAt(s[i].constraints, c.constraint_id))]
                                    ELSE s[i]]
<1>1. Find(s, c.node_id) = n /\ c.node_id \in Ids(s)
  <2>1. Find(s, n.id) = n
    BY FoundAt
  <2> QED
    BY <2>1 DEF Ids
<1>2. t = [s EXCEPT ![k] = t[k]]
  <2>1. t = [i \in DOMAIN s |-> IF s[i].id = s[k].id THEN t[i] ELSE s[i]]
    OBVIOUS
  <2> HIDE DEF t
  <2>2. k \in DOMAIN s /\ s \in Seq(S) /\ DistinctIds(s)
    OBVIOUS
  <2> HIDE DEF s
  <2> QED
    BY <2>1, <2>2, MappedAt
<1>3. u = [s EXCEPT ![k] = u[k]]
  <2>1. u = [i \in DOMAIN s |-> IF s[i].id = s[k].id THEN u[i] ELSE s[i]]
    OBVIOUS
  <2> HIDE DEF u
  <2>2. k \in DOMAIN s /\ s \in Seq(S) /\ DistinctIds(s)
    OBVIOUS
  <2> HIDE DEF s
  <2> QED
    BY <2>1, <2>2, MappedAt
<1>4. /\ t[k] = ConstraintsOn(n, Append(n.constraints, x))
      /\ u[k] = ConstraintsOn(n, Picked(n.constraints, OthersAt(n.constraints, c.constraint_id)))
  BY DEF ConstraintsOn
<1>5. AddConstraint(o, c) = When(c.node_id \in Ids(s) /\ x.id \notin Ids(Find(s, c.node_id).constraints),
          Ok([o EXCEPT !.node_types = t],
             <<[op |-> "remove_constraint", node_id |-> c.node_id, constraint_id |-> x.id]>>))
  BY Zenon DEF AddConstraint, MapById
<1>6. RemoveConstraint(o, c) = When(c.node_id \in Ids(s) /\ c.constraint_id \in Ids(Find(s, c.node_id).constraints),
          Ok([o EXCEPT !.node_types = u],
             <<AddConstraintCmd(c.node_id, Find(Find(s, c.node_id).constraints, c.constraint_id))>>))
  BY Zenon DEF RemoveConstraint, MapById, Retain, OthersAt
<1>7. /\ c.op = "add_constraint" => ExecuteOne(o, c) = AddConstraint(o, c)
      /\ c.op = "remove_constraint" => ExecuteOne(o, c) = RemoveConstraint(o, c)
  BY Zenon DEF ExecuteOne
<1>8. /\ [o EXCEPT !.node_types = t] = WithNode(o, k, t[k])
      /\ [o EXCEPT !.node_types = u] = WithNode(o, k, u[k])
  <2> HIDE DEF t, u
  <2> QED
    BY <1>2, <1>3 DEF WithNode
<1> DEFINE P == x.id \notin Ids(n.constraints)
           Q == c.constraint_id \in Ids(n.constraints)
           V == <<[op |-> "remove_constraint", node_id |-> n.id, constraint_id |-> x.id]>>
           W == <<AddConstraintCmd(n.id, Find(n.constraints, c.constraint_id))>>
<1>9. AddConstraint(o, c) = When(P, Ok(WithNode(o, k, t[k]), V))
  <2> HIDE DEF t, u
  <2> QED
    BY <1>1, <1>5, <1>8 DEF When
<1>10. RemoveConstraint(o, c) = When(Q, Ok(WithNode(o, k, u[k]), W))
  <2> HIDE DEF t, u
  <2> QED
    BY <1>1, <1>6, <1>8 DEF When
<1> HIDE DEF t, u
<1> QED
  BY <1>4, <1>7, <1>9, <1>10

LEMMA ConstraintsAlike ==
    ASSUME NEW n \in NodeType
    PROVE  /\ n.constraints \in Seq(ConstraintDef)
           /\ ConstraintsOn(n, n.constraints) = n
           /\ \A cs : ConstraintsOn(n, cs).id = n.id /\ ConstraintsOn(n, cs).constraints = cs
           /\ \A cs, ds : ConstraintsOn(ConstraintsOn(n, cs), ds) = ConstraintsOn(n, ds)
           /\ \A cs \in Seq(ConstraintDef) : ConstraintsOn(n, cs) \in NodeType
           /\ \A cs \in Seq(ConstraintDef) :
                 Shuffles(n.constraints, cs) => NodeAlike(n, ConstraintsOn(n, cs))
<1>1. /\ n.constraints \in Seq(ConstraintDef)
      /\ ConstraintsOn(n, n.constraints) = n
      /\ \A cs : ConstraintsOn(n, cs).id = n.id /\ ConstraintsOn(n, cs).constraints = cs
      /\ \A cs, ds : ConstraintsOn(ConstraintsOn(n, cs), ds) = ConstraintsOn(n, ds)
      /\ \A cs \in Seq(ConstraintDef) : ConstraintsOn(n, cs) \in NodeType
  BY DEF NodeType, ConstraintsOn
<1>2. ASSUME NEW cs \in Seq(ConstraintDef), Shuffles(n.constraints, cs)
      PROVE  NodeAlike(n, ConstraintsOn(n, cs))
  <2> DEFINE m == ConstraintsOn(n, cs)
  <2>1. /\ m.id = n.id /\ m.label = n.label /\ m.description = n.description
        /\ m.properties = n.properties /\ m.constraints = cs
    BY DEF NodeType, ConstraintsOn
  <2>2. m \in NodeType
    BY <1>1
  <2> HIDE DEF m
  <2>3. NodeAlike(n, m)
    BY <1>2, <2>1, <2>2, ShufflesAlike DEF NodeAlike
  <2> QED
    BY <2>3 DEF m
<1> QED
  BY <1>1, <1>2

LEMMA NodePlaced ==
    ASSUME NEW o \in Ontology, NEW k \in DOMAIN o.node_types, NEW m, NEW b, b = WithNode(o, k, m)
    PROVE  k \in DOMAIN b.node_types /\ b.node_types[k] = m
<1>1. "node_types" \in DOMAIN o
  BY OntologyFields
<1>2. b.node_types = [o.node_types EXCEPT ![k] = m]
  BY <1>1 DEF WithNode
<1> QED
  BY <1>2

LEMMA ConstraintUndone ==
    ASSUME NEW o, Sound(o), NEW c \in Command, ExecuteOne(o, c).ok,
           c.op \in {"add_constraint", "remove_constraint"}, Sound(ExecuteOne(o, c).ont)
    PROVE  Undoes(o, ExecuteOne(o, c))
<1> DEFINE r == ExecuteOne(o, c)
<1>1. o \in Ontology /\ o.node_types \in Seq(NodeType) /\ DistinctIds(o.node_types)
  BY OntologyLists, SoundIds DEF Sound
<1>2. c.node_id \in Ids(o.node_types)
  <2>1. \E p, q, v, w : /\ AddConstraint(o, c) = When(c.node_id \in Ids(o.node_types) /\ p, v)
                        /\ RemoveConstraint(o, c) = When(c.node_id \in Ids(o.node_types) /\ q, w)
    BY Zenon DEF AddConstraint, RemoveConstraint
  <2>2. /\ c.op = "add_constraint" => r = AddConstraint(o, c)
        /\ c.op = "remove_constraint" => r = RemoveConstraint(o, c)
    BY Zenon DEF ExecuteOne
  <2> QED
    BY <2>1, <2>2 DEF When, Err
<1>3. PICK k \in DOMAIN o.node_types : o.node_types[k].id = c.node_id
  BY <1>2 DEF Ids
<1> DEFINE n == o.node_types[k]
           cs == n.constraints
<1>4. n \in NodeType /\ DistinctIds(cs)
  BY <1>1, <1>3, SoundIds, ListFacts
<1>5. /\ cs \in Seq(ConstraintDef)
      /\ ConstraintsOn(n, cs) = n
      /\ \A ds : ConstraintsOn(n, ds).id = n.id /\ ConstraintsOn(n, ds).constraints = ds
      /\ \A ds, es : ConstraintsOn(ConstraintsOn(n, ds), es) = ConstraintsOn(n, es)
      /\ \A ds \in Seq(ConstraintDef) :
            Shuffles(cs, ds) => NodeAlike(n, ConstraintsOn(n, ds))
  BY <1>4, ConstraintsAlike
<1>6. ASSUME NEW m, NEW b, b = WithNode(o, k, m), Sound(b)
      PROVE  /\ b.node_types \in Seq(NodeType) /\ DistinctIds(b.node_types)
             /\ k \in DOMAIN b.node_types /\ b.node_types[k] = m
             /\ \A a : WithNode(b, k, a) = WithNode(o, k, a)
  <2>1. b \in Ontology /\ b.node_types \in Seq(NodeType) /\ DistinctIds(b.node_types)
    BY <1>6, OntologyLists, SoundIds DEF Sound
  <2>2. k \in DOMAIN b.node_types /\ b.node_types[k] = m
    BY <1>1, <1>6, NodePlaced
  <2>3. \A a : WithNode(b, k, a) = WithNode(o, k, a)
    BY <1>1, <1>6, NodeTwice
  <2> QED
    BY <2>1, <2>2, <2>3
<1>7. CASE c.op = "add_constraint"
  <2> DEFINE x == c.constraint
             m == ConstraintsOn(n, Append(cs, x))
             b == WithNode(o, k, m)
             d == [op |-> "remove_constraint", node_id |-> n.id, constraint_id |-> x.id]
             g == x.id \notin Ids(cs)
  <2>1. r = When(g, Ok(b, <<d>>))
    BY <1>1, <1>3, <1>7, ConstraintForms
  <2>2. g /\ r.ont = b /\ r.inverse = <<d>>
    <3> HIDE DEF g, b, d
    <3> QED
      BY <2>1, WhenOk
  <2>3. x \in ConstraintDef
    BY <1>7, CommandKinds DEF ConstraintOps, ConstraintCommand
  <2>4. /\ x.id \in Ids(Append(cs, x))
        /\ Picked(Append(cs, x), OthersAt(Append(cs, x), x.id)) = cs
    BY <1>5, <2>2, <2>3, AddedDropped
  <2>5. m.id = n.id /\ m.constraints = Append(cs, x) /\ ConstraintsOn(m, cs) = n
    BY ZenonT(60), <1>5
  <2>6. d.op = "remove_constraint" /\ d.node_id = n.id /\ d.constraint_id = x.id
    OBVIOUS
  <2>7. Sound(b)
    BY <2>2
  <2> HIDE DEF m, d, r
  <2>8. /\ b.node_types \in Seq(NodeType) /\ DistinctIds(b.node_types)
        /\ k \in DOMAIN b.node_types /\ b.node_types[k] = m
        /\ \A a : WithNode(b, k, a) = WithNode(o, k, a)
    BY <1>6, <2>7
  <2> HIDE DEF b
  <2>9. ExecuteOne(b, d) = When(d.constraint_id \in Ids(m.constraints),
            Ok(WithNode(b, k, ConstraintsOn(m, Picked(m.constraints, OthersAt(m.constraints, d.constraint_id)))),
               <<AddConstraintCmd(m.id, Find(m.constraints, d.constraint_id))>>))
    <3>1. k \in DOMAIN b.node_types /\ d.node_id = b.node_types[k].id
      BY <2>5, <2>6, <2>8
    <3> HIDE DEF n
    <3>2. ExecuteOne(b, d) = When(d.constraint_id \in Ids(b.node_types[k].constraints),
              Ok(WithNode(b, k, ConstraintsOn(b.node_types[k], Picked(b.node_types[k].constraints,
                     OthersAt(b.node_types[k].constraints, d.constraint_id)))),
                 <<AddConstraintCmd(b.node_types[k].id, Find(b.node_types[k].constraints, d.constraint_id))>>))
      <4> DEFINE q == b.node_types[k]
      <4>1. d.op = "remove_constraint" /\ d.node_id = q.id
        BY <2>6, <3>1
      <4> HIDE DEF q
      <4>2. ExecuteOne(b, d) = When(d.constraint_id \in Ids(q.constraints),
              Ok(WithNode(b, k, ConstraintsOn(q, Picked(q.constraints,
                     OthersAt(q.constraints, d.constraint_id)))),
                 <<AddConstraintCmd(q.id, Find(q.constraints, d.constraint_id))>>))
        BY ONLY ZenonT(60), <2>8, <3>1, <4>1, ConstraintForms DEF q
      <4> QED
        BY <4>2 DEF q
    <3> QED
      BY <2>8, <3>2
  <2>10. WithNode(o, k, n) = o
    BY <1>1, WithNodeFacts
  <2>11. ExecuteOne(b, d).ok /\ ExecuteOne(b, d).ont = o
    BY <2>4, <2>5, <2>6, <2>8, <2>9, <2>10 DEF When, Ok
  <2>12. Undoes(o, r)
    BY <1>1, <2>2, <2>11, UndoneExactly
  <2> QED
    BY <2>12 DEF r
<1>8. CASE c.op = "remove_constraint"
  <2> DEFINE cid == c.constraint_id
             ds == Picked(cs, OthersAt(cs, cid))
             m == ConstraintsOn(n, ds)
             b == WithNode(o, k, m)
             x == Find(cs, cid)
             d == AddConstraintCmd(n.id, x)
             g == cid \in Ids(cs)
             es == Append(ds, x)
  <2>1. r = When(g, Ok(b, <<d>>))
    BY ZenonT(60), <1>1, <1>3, <1>8, ConstraintForms
  <2>2. g /\ r.ont = b /\ r.inverse = <<d>>
    <3> HIDE DEF g, b, d
    <3> QED
      BY <2>1, WhenOk
  <2>3. /\ x.id = cid /\ cid \notin Ids(ds) /\ es \in Seq(ConstraintDef) /\ Shuffles(cs, es)
    BY <1>4, <1>5, <2>2, DroppedAdded
  <2> HIDE DEF es, ds
  <2>4. m.id = n.id /\ m.constraints = ds /\ ConstraintsOn(m, es) = ConstraintsOn(n, es)
    BY <1>5
  <2>5. d.op = "add_constraint" /\ d.node_id = n.id /\ d.constraint = x
    BY DEF AddConstraintCmd
  <2>6. Sound(b)
    BY <2>2
  <2> HIDE DEF m, d, r, x
  <2>7. /\ b.node_types \in Seq(NodeType) /\ DistinctIds(b.node_types)
        /\ k \in DOMAIN b.node_types /\ b.node_types[k] = m
        /\ \A a : WithNode(b, k, a) = WithNode(o, k, a)
    BY <1>6, <2>6
  <2> HIDE DEF b
  <2>8. ExecuteOne(b, d) = When(d.constraint.id \notin Ids(m.constraints),
            Ok(WithNode(b, k, ConstraintsOn(m, Append(m.constraints, d.constraint))),
               <<[op |-> "remove_constraint", node_id |-> m.id, constraint_id |-> d.constraint.id]>>))
    BY ZenonT(60), <2>4, <2>5, <2>7, ConstraintForms
  <2>9. Append(m.constraints, d.constraint) = es
    BY <2>4, <2>5 DEF es
  <2>10. ExecuteOne(b, d).ok /\ ExecuteOne(b, d).ont = WithNode(o, k, ConstraintsOn(n, es))
    BY <2>3, <2>4, <2>5, <2>7, <2>8, <2>9 DEF When, Ok
  <2>11. Reordered(o, WithNode(o, k, ConstraintsOn(n, es)))
    BY <1>1, <1>5, <2>3, AlikeReordered
  <2>12. Undoes(o, r)
    BY <1>1, <2>2, <2>10, <2>11, UndoneOnce
  <2> QED
    BY <2>12 DEF r
<1> QED
  BY <1>7, <1>8

-----------------------------------------------------------------------------
(* What was taken out of a list is put back behind the rest, entry by entry. *)
(* F is the ontology as a function of that list.                            *)

Grows(F, S, s, p, cmds) ==
    \A i \in DOMAIN p : \A u \in Seq(S) :
        ToSet(u) \subseteq ToSet(s) /\ p[i].id \notin Ids(u) =>
            /\ ExecuteOne(F[u], cmds[i]).ok
            /\ ExecuteOne(F[u], cmds[i]).ont = F[Append(u, p[i])]

LEMMA RestBack ==
    ASSUME NEW S, NEW s \in Seq(S), DistinctIds(s), NEW K, K \subseteq DOMAIN s,
           NEW p, p = Picked(s, K), NEW F, NEW cmds, DOMAIN cmds = DOMAIN p,
           Grows(F, S, s, p, cmds)
    PROVE  \E t \in Seq(S) : Shuffles(s, t) /\ RunsTo(F[Left(s, K)], cmds, F[t])
<1> DEFINE L == Left(s, K)
           t == L \o p
           m == Len(L)
           n == Len(p)
           st == [j \in 0..n |-> F[SubSeq(t, 1, m + j)]]
<1>1. L \in Seq(S) /\ Picks(L, s, DOMAIN s \ K)
  <2>1. DOMAIN s \ K \subseteq DOMAIN s
    OBVIOUS
  <2> QED
    BY <2>1, PickedPicks, PickedList DEF Left
<1>2. p \in Seq(S) /\ Picks(p, s, K)
  BY PickedPicks, PickedList
<1>3. t \in Seq(S) /\ Shuffles(s, t)
  <2>1. DOMAIN s \ (DOMAIN s \ K) = K /\ DOMAIN s \ K \subseteq DOMAIN s
    OBVIOUS
  <2>2. Picks(p, s, DOMAIN s \ (DOMAIN s \ K))
    BY <1>2, <2>1
  <2> HIDE DEF L
  <2> QED
    BY <1>1, <2>1, <2>2, SplitShuffles
<1>4. ToSet(t) = ToSet(s) /\ DistinctIds(t)
  BY <1>3, ShuffledFind
<1>5. /\ m \in Nat /\ n \in Nat /\ Len(t) = m + n /\ DOMAIN p = 1..n /\ DOMAIN t = 1..(m + n)
      /\ \A i \in 1..n : t[m + i] = p[i]
  BY <1>1, <1>2, JoinFacts
<1>6. /\ SubSeq(t, 1, m) = L /\ SubSeq(t, 1, m + n) = t
  <2> HIDE DEF L
  <2>1. t = L \o p /\ L \in Seq(S) /\ p \in Seq(S)
    BY <1>1, <1>2
  <2> QED
    BY <2>1
<1> HIDE DEF L, m, n, t
<1>7. \A k \in 1..n : /\ SubSeq(t, 1, m + k - 1) \in Seq(S)
                      /\ Append(SubSeq(t, 1, m + k - 1), p[k]) = SubSeq(t, 1, m + k)
                      /\ ToSet(SubSeq(t, 1, m + k - 1)) \subseteq ToSet(s)
                      /\ p[k].id \notin Ids(SubSeq(t, 1, m + k - 1))
  <2> TAKE k \in 1..n
  <2> DEFINE u == SubSeq(t, 1, m + k - 1)
  <2>1. m + k - 1 \in 0..Len(t) /\ m + k \in 1..Len(t) /\ (m + k) - 1 = m + k - 1
    BY <1>5
  <2>2. /\ u \in Seq(S) /\ DOMAIN u = 1..(m + k - 1)
        /\ \A i \in 1..(m + k - 1) : u[i] = t[i]
    BY <1>3, <2>1, PrefixFacts
  <2>3. Append(u, t[m + k]) = SubSeq(t, 1, m + k)
    BY <1>3, <2>1, PrefixFacts
  <2> HIDE DEF u
  <2>4. \A i \in DOMAIN u : i \in DOMAIN t /\ i # m + k /\ u[i] = t[i]
    BY SMTT(60), <1>5, <2>1, <2>2
  <2>5. ToSet(u) \subseteq ToSet(t)
    BY <2>4 DEF ToSet
  <2>6. m + k \in DOMAIN t /\ t[m + k] = p[k]
    BY <1>5
  <2>7. p[k].id \notin Ids(u)
    BY <2>4, <2>6, <1>4 DEF Ids, DistinctIds
  <2> QED
    BY <2>2, <2>3, <2>5, <2>6, <2>7, <1>4 DEF u
<1>8. \A k \in 1..n : /\ ExecuteOne(st[k - 1], cmds[k]).ok
                      /\ ExecuteOne(st[k - 1], cmds[k]).ont = st[k]
  <2> TAKE k \in 1..n
  <2>1. k \in DOMAIN p
    BY <1>5
  <2>2. k - 1 \in 0..n /\ k \in 0..n /\ m + (k - 1) = m + k - 1
    BY <1>5
  <2>3. st[k - 1] = F[SubSeq(t, 1, m + k - 1)] /\ st[k] = F[SubSeq(t, 1, m + k)]
    BY <2>2
  <2> DEFINE u == SubSeq(t, 1, m + k - 1)
  <2>4. u \in Seq(S) /\ ToSet(u) \subseteq ToSet(s) /\ p[k].id \notin Ids(u)
    BY <1>7
  <2> HIDE DEF u
  <2>5. ExecuteOne(F[u], cmds[k]).ok /\ ExecuteOne(F[u], cmds[k]).ont = F[Append(u, p[k])]
    BY <2>1, <2>4 DEF Grows
  <2>6. Append(u, p[k]) = SubSeq(t, 1, m + k)
    BY <1>7 DEF u
  <2> HIDE DEF st
  <2> QED
    BY <2>3, <2>5, <2>6 DEF u
<1>9. st[0] = F[L] /\ st[n] = F[t]
  <2>1. 0 \in 0..n /\ n \in 0..n /\ m + 0 = m
    BY <1>5
  <2> QED
    BY <2>1, <1>6
<1>10. DOMAIN cmds = 1..n
  BY <1>5
<1>11. RunsTo(st[0], cmds, st[n])
  <2> HIDE DEF st
  <2> QED
    BY <1>5, <1>8, <1>10, RunsStepwise
<1> QED
  BY <1>3, <1>9, <1>11 DEF L

\* A list of the ontology whose entries only have to differ in their ids.
LEMMA ListBack ==
    ASSUME NEW a, a = [x \in DOMAIN a |-> a[x]], NEW f \in DOMAIN a,
           NEW S, NEW s \in Seq(S), DistinctIds(s), NEW K, K \subseteq DOMAIN s,
           a[f] = Left(s, K), NEW p, p = Picked(s, K), NEW cmds, DOMAIN cmds = DOMAIN p,
           \A i \in DOMAIN p : \A x : \E w : Adds(x, cmds[i], f, p[i], w)
    PROVE  \E t \in Seq(S) : Shuffles(s, t) /\ RunsTo(a, cmds, WithField(a, f, t))
<1> DEFINE F == [u \in Seq(S) |-> WithField(a, f, u)]
<1>1. \A u \in Seq(S) : F[u] = WithField(a, f, u)
  OBVIOUS
<1>2. \A u : WithField(a, f, u)[f] = u
  BY DEF WithField
<1>3. \A u, v : [WithField(a, f, u) EXCEPT ![f] = v] = WithField(a, f, v)
  BY DEF WithField
<1>4. WithField(a, f, a[f]) = a
  BY DEF WithField
<1>5. p \in Seq(S)
  BY PickedList
<1> HIDE DEF F
<1>6. Grows(F, S, s, p, cmds)
  <2> SUFFICES ASSUME NEW i \in DOMAIN p, NEW u \in Seq(S), p[i].id \notin Ids(u)
               PROVE  /\ ExecuteOne(F[u], cmds[i]).ok
                      /\ ExecuteOne(F[u], cmds[i]).ont = F[Append(u, p[i])]
    BY DEF Grows
  <2> DEFINE x == WithField(a, f, u)
  <2>1. PICK w : Adds(x, cmds[i], f, p[i], w)
    OBVIOUS
  <2> HIDE DEF x
  <2>2. ExecuteOne(x, cmds[i]) = When(p[i].id \notin Ids(x[f]),
                                      Ok([x EXCEPT ![f] = Append(x[f], p[i])], <<w>>))
    BY <2>1, Zenon DEF Adds
  <2>3. x[f] = u /\ F[u] = x
    BY <1>1, <1>2 DEF x
  <2> DEFINE v == Append(u, p[i])
  <2>4. v \in Seq(S)
    BY <1>5, ListFacts, AppendList
  <2> HIDE DEF v
  <2>5. [x EXCEPT ![f] = v] = F[v]
    BY <1>1, <1>3, <2>4 DEF x
  <2>6. ExecuteOne(x, cmds[i]) = When(p[i].id \notin Ids(u), Ok([x EXCEPT ![f] = v], <<w>>))
    BY <2>2, <2>3 DEF v
  <2>7. ExecuteOne(x, cmds[i]).ok /\ ExecuteOne(x, cmds[i]).ont = [x EXCEPT ![f] = v]
    BY <2>6 DEF When, Ok
  <2> QED
    BY <2>3, <2>5, <2>7 DEF v
<1>7. PICK t \in Seq(S) : Shuffles(s, t) /\ RunsTo(F[Left(s, K)], cmds, F[t])
  BY <1>6, RestBack
<1>8. Left(s, K) \in Seq(S)
  BY LeftEntries
<1> QED
  BY <1>1, <1>4, <1>7, <1>8

\* The commands an inverse is made of are commands.
IsEach(q, p) == q \in Seq(Command) /\ DOMAIN q = DOMAIN p

LEMMA EachCommand ==
    ASSUME NEW S, NEW p \in Seq(S), NEW q, q = [i \in DOMAIN p |-> q[i]],
           \A i \in DOMAIN p : q[i] \in Command
    PROVE  IsEach(q, p)
BY RewrittenList DEF IsEach

LEMMA RestoringCommands ==
    /\ \A n \in NodeType : CreateNodeCmd(n) \in Command
    /\ \A e \in EdgeType : CreateEdgeCmd(e) \in Command
    /\ \A i \in IndexDef : AddIndexCmd(i) \in Command
    /\ \A m \in ObjectMapping : CreateObjectMappingCmd(m) \in Command
    /\ \A m \in ObjectMapping : UpdateObjectMappingCmd(m) \in Command
    /\ \A m \in LinkMapping : CreateLinkMappingCmd(m) \in Command
    /\ \A n \in NodeId, x \in ConstraintDef : AddConstraintCmd(n, x) \in Command
    /\ \A ow \in Owner, p \in Property : AddPropertyCmd(ow, p) \in Command
<1>1. \A n \in NodeType : CreateNodeCmd(n) \in NodeCommand
  BY DEF CreateNodeCmd, NodeCommand
<1>2. \A e \in EdgeType : CreateEdgeCmd(e) \in EdgeCommand
  BY DEF CreateEdgeCmd, EdgeCommand
<1>3. \A i \in IndexDef : AddIndexCmd(i) \in IndexCommand
  BY DEF AddIndexCmd, IndexCommand
<1>4. \A m \in ObjectMapping : CreateObjectMappingCmd(m) \in MappingCommand
  BY DEF CreateObjectMappingCmd, MappingCommand
<1>5. \A m \in ObjectMapping : UpdateObjectMappingCmd(m) \in MappingCommand
  BY DEF UpdateObjectMappingCmd, MappingCommand, ObjectMapping
<1>6. \A m \in LinkMapping : CreateLinkMappingCmd(m) \in MappingCommand
  BY DEF CreateLinkMappingCmd, MappingCommand
<1>7. \A n \in NodeId, x \in ConstraintDef : AddConstraintCmd(n, x) \in ConstraintCommand
  BY DEF AddConstraintCmd, ConstraintCommand
<1>8. \A ow \in Owner, p \in Property : AddPropertyCmd(ow, p) \in PropertyCommand
  BY DEF AddPropertyCmd, PropertyCommand
<1> QED
  BY <1>1, <1>2, <1>3, <1>4, <1>5, <1>6, <1>7, <1>8 DEF Command

LEMMA EachRestored ==
    /\ \A p \in Seq(EdgeType) : IsEach(Each(p, CreateEdgeCmd), p)
    /\ \A p \in Seq(IndexDef) : IsEach(Each(p, AddIndexCmd), p)
    /\ \A p \in Seq(ObjectMapping) : IsEach(Each(p, CreateObjectMappingCmd), p)
    /\ \A p \in Seq(ObjectMapping) : IsEach(Each(p, UpdateObjectMappingCmd), p)
    /\ \A p \in Seq(LinkMapping) : IsEach(Each(p, CreateLinkMappingCmd), p)
    /\ \A n \in NodeId, p \in Seq(ConstraintDef) :
          IsEach(Each(p, LAMBDA x : AddConstraintCmd(n, x)), p)
<1>1. ASSUME NEW p \in Seq(EdgeType) PROVE IsEach(Each(p, CreateEdgeCmd), p)
  <2> DEFINE q == [i \in DOMAIN p |-> CreateEdgeCmd(p[i])]
  <2>1. q = [i \in DOMAIN p |-> q[i]] /\ \A i \in DOMAIN p : q[i] \in Command
    BY ListFacts, RestoringCommands
  <2> HIDE DEF q
  <2>2. IsEach(q, p)
    BY <2>1, EachCommand
  <2> QED
    BY <2>2 DEF Each, q
<1>2. ASSUME NEW p \in Seq(IndexDef) PROVE IsEach(Each(p, AddIndexCmd), p)
  <2> DEFINE q == [i \in DOMAIN p |-> AddIndexCmd(p[i])]
  <2>1. q = [i \in DOMAIN p |-> q[i]] /\ \A i \in DOMAIN p : q[i] \in Command
    BY ListFacts, RestoringCommands
  <2> HIDE DEF q
  <2>2. IsEach(q, p)
    BY <2>1, EachCommand
  <2> QED
    BY <2>2 DEF Each, q
<1>3. ASSUME NEW p \in Seq(ObjectMapping)
      PROVE  IsEach(Each(p, CreateObjectMappingCmd), p) /\ IsEach(Each(p, UpdateObjectMappingCmd), p)
  <2> DEFINE q == [i \in DOMAIN p |-> CreateObjectMappingCmd(p[i])]
             u == [i \in DOMAIN p |-> UpdateObjectMappingCmd(p[i])]
  <2>1. /\ q = [i \in DOMAIN p |-> q[i]] /\ \A i \in DOMAIN p : q[i] \in Command
        /\ u = [i \in DOMAIN p |-> u[i]] /\ \A i \in DOMAIN p : u[i] \in Command
    BY ListFacts, RestoringCommands
  <2> HIDE DEF q, u
  <2>2. IsEach(q, p) /\ IsEach(u, p)
    BY <2>1, EachCommand
  <2> QED
    BY <2>2 DEF Each, q, u
<1>4. ASSUME NEW p \in Seq(LinkMapping) PROVE IsEach(Each(p, CreateLinkMappingCmd), p)
  <2> DEFINE q == [i \in DOMAIN p |-> CreateLinkMappingCmd(p[i])]
  <2>1. q = [i \in DOMAIN p |-> q[i]] /\ \A i \in DOMAIN p : q[i] \in Command
    BY ListFacts, RestoringCommands
  <2> HIDE DEF q
  <2>2. IsEach(q, p)
    BY <2>1, EachCommand
  <2> QED
    BY <2>2 DEF Each, q
<1>5. ASSUME NEW n \in NodeId, NEW p \in Seq(ConstraintDef)
      PROVE  IsEach(Each(p, LAMBDA x : AddConstraintCmd(n, x)), p)
  <2> DEFINE q == [i \in DOMAIN p |-> AddConstraintCmd(n, p[i])]
  <2>1. q = [i \in DOMAIN p |-> q[i]] /\ \A i \in DOMAIN p : q[i] \in Command
    BY ListFacts, RestoringCommands
  <2> HIDE DEF q
  <2>2. IsEach(q, p)
    BY <2>1, EachCommand
  <2> QED
    BY <2>2 DEF Each, q
<1> QED
  BY <1>1, <1>2, <1>3, <1>4, <1>5

\* An edge of a valid ontology fits in where it was taken out.
LEMMA EdgeFits ==
    ASSUME NEW o, Sound(o), NEW e \in ToSet(o.edge_types), NEW x,
           ToSet(x.edge_types) \subseteq ToSet(o.edge_types),
           e.id \notin Ids(x.edge_types), Ids(o.node_types) \subseteq Ids(x.node_types)
    PROVE  /\ ExecuteOne(x, CreateEdgeCmd(e)).ok
           /\ ExecuteOne(x, CreateEdgeCmd(e)).ont
                 = WithField(x, "edge_types", Append(x.edge_types, e))
<1> DEFINE d == CreateEdgeCmd(e)
           g == /\ {e.source_node_id, e.target_node_id} \subseteq Ids(x.node_types)
                /\ \A y \in ToSet(x.edge_types) : y.id # e.id /\ Signature(y) # Signature(e)
           w == <<DeleteEdgeCmd(e.id)>>
           n == WithField(x, "edge_types", Append(x.edge_types, e))
<1>1. ExecuteOne(x, d) = When(g, Ok(n, w))
  <2>1. d.op = "create_edge_type" /\ d.edge = e
    BY DEF CreateEdgeCmd
  <2>2. ExecuteOne(x, d) = CreateEdgeType(x, d.edge)
    <3> HIDE DEF d
    <3> QED
      BY <2>1, Zenon DEF ExecuteOne
  <2> HIDE DEF d
  <2> QED
    BY ZenonT(60), <2>1, <2>2, CreateForms DEF WithField
<1>2. e \in ToSet(o.edge_types) /\ e.id \notin Ids(x.edge_types)
  OBVIOUS
<1>3. {e.source_node_id, e.target_node_id} \subseteq Ids(x.node_types)
  BY <1>2 DEF Sound, validate, ValidEdges
<1>4. \A y, z \in ToSet(o.edge_types) : Signature(y) = Signature(z) => y = z
  BY DEF Sound, validate, ValidEdges, Distinct, Signature, ToSet
<1>5. \A y \in ToSet(x.edge_types) : y.id # e.id
  BY <1>2, IdsOfSet
<1>6. g
  BY <1>2, <1>3, <1>4, <1>5
<1> HIDE DEF g, n, w, d
<1>7. ExecuteOne(x, d).ok /\ ExecuteOne(x, d).ont = n
  BY <1>1, <1>6 DEF When, Ok
<1> QED
  BY <1>7 DEF n, d

LEMMA EdgeDeletionUndone ==
    ASSUME NEW o, Sound(o), NEW c \in Command, c.op = "delete_edge", ExecuteOne(o, c).ok
    PROVE  Undoes(o, ExecuteOne(o, c))
<1> DEFINE r == ExecuteOne(o, c)
           id == c.edge_id
           s == o.edge_types
           ls == o.link_mappings
           K == LinksOf(o, {id})
           p == Picked(ls, K)
           g == id \in Ids(s)
           b == WithoutEdge(o, id)
           w == EdgeRestored(o, id)
<1>1. /\ o \in Ontology /\ s \in Seq(EdgeType) /\ DistinctIds(s)
      /\ ls \in Seq(LinkMapping) /\ DistinctIds(ls)
  BY SoundIds, OntologyLists DEF Sound
<1>2. g /\ r.ont = b /\ r.inverse = w
  <2>1. r = When(g, Ok(b, w))
    <3>1. r = DeleteEdge(o, c)
      BY Zenon DEF ExecuteOne
    <3> QED
      BY <3>1, <1>1, EdgeDeletion
  <2> HIDE DEF g, b, w
  <2> QED
    BY <2>1, WhenOk
<1>3. PICK k \in DOMAIN s : s[k].id = id
  BY <1>2 DEF Ids
<1> DEFINE e == s[k]
           q == Each(p, CreateLinkMappingCmd)
           u == Append(Left(s, At(s, id)), e)
           b1 == [b EXCEPT !.edge_types = u]
<1>4. Find(s, id) = e /\ e \in EdgeType
  BY <1>1, <1>3, FoundAt, ListFacts
<1>5. w = <<CreateEdgeCmd(e)>> \o q
  BY <1>4 DEF EdgeRestored
<1>6. u \in Seq(EdgeType) /\ Shuffles(s, u) /\ id \notin Ids(Left(s, At(s, id)))
  BY <1>1, <1>2, <1>4, DroppedAdded, OthersLeft
<1>7. /\ DOMAIN o = {"node_types", "edge_types", "indexes", "object_mappings",
                     "link_mappings", "segments", "table_inventory", "rules"}
      /\ o = [x \in DOMAIN o |-> o[x]]
  BY <1>1, OntologyFields
<1>8. /\ b.edge_types = Left(s, At(s, id)) /\ b.link_mappings = Left(ls, K)
      /\ b.node_types = o.node_types /\ DOMAIN b = DOMAIN o /\ b = [x \in DOMAIN b |-> b[x]]
      /\ \A x \in DOMAIN o : x \notin {"edge_types", "link_mappings"} => b[x] = o[x]
  BY <1>7 DEF WithoutEdge
<1> HIDE DEF b, w, u
<1>9. /\ b1.edge_types = u /\ b1.link_mappings = Left(ls, K)
      /\ DOMAIN b1 = DOMAIN o /\ b1 = [x \in DOMAIN b1 |-> b1[x]]
      /\ \A x \in DOMAIN o : x \notin {"edge_types", "link_mappings"} => b1[x] = o[x]
  BY <1>7, <1>8
<1>10. RunsTo(b, <<CreateEdgeCmd(e)>>, b1)
  <2>1. ToSet(b.edge_types) \subseteq ToSet(s) /\ e.id \notin Ids(b.edge_types)
    BY <1>1, <1>3, <1>6, <1>8, LeftIds
  <2>2. e \in ToSet(o.edge_types) /\ Ids(o.node_types) \subseteq Ids(b.node_types)
    BY <1>3, <1>8 DEF ToSet
  <2>3. /\ ExecuteOne(b, CreateEdgeCmd(e)).ok
        /\ ExecuteOne(b, CreateEdgeCmd(e)).ont = WithField(b, "edge_types", Append(b.edge_types, e))
    <3> HIDE DEF e
    <3> QED
      BY <2>1, <2>2, EdgeFits
  <2>4. WithField(b, "edge_types", Append(b.edge_types, e)) = b1
    BY <1>8 DEF u, WithField
  <2> HIDE DEF e, b1
  <2> QED
    BY <2>3, <2>4, RunsOnce
<1> HIDE DEF b1
<1>11. p \in Seq(LinkMapping) /\ K \subseteq DOMAIN ls
  BY <1>1, PickedList DEF LinksOf
<1>12. q \in Seq(Command) /\ DOMAIN q = DOMAIN p
  <2> HIDE DEF p
  <2> QED
    BY <1>11, EachRestored DEF IsEach
<1>13. \A i \in DOMAIN p : \A x : \E v : Adds(x, q[i], "link_mappings", p[i], v)
  <2> TAKE i \in DOMAIN p
  <2>1. q[i].op = "create_link_mapping" /\ q[i].mapping = p[i]
    BY DEF Each, CreateLinkMappingCmd
  <2> HIDE DEF q, p
  <2> QED
    BY <2>1, AdditionForms
<1>14. PICK t \in Seq(LinkMapping) :
          Shuffles(ls, t) /\ RunsTo(b1, q, WithField(b1, "link_mappings", t))
  <2>1. "link_mappings" \in DOMAIN b1 /\ b1["link_mappings"] = Left(ls, K)
    BY <1>7, <1>9
  <2>2. p = Picked(ls, K)
    OBVIOUS
  <2> HIDE DEF q, p, K, ls
  <2> QED
    BY <1>1, <1>9, <1>11, <1>12, <1>13, <2>1, <2>2, ListBack
<1> DEFINE a == WithField(b1, "link_mappings", t)
<1>15. RunsTo(b, w, a)
  <2>1. <<CreateEdgeCmd(e)>> \in Seq(Command)
    BY <1>4, RestoringCommands
  <2> HIDE DEF a, q, e
  <2> QED
    BY <1>5, <1>10, <1>12, <1>14, <2>1, RunsOn DEF a
<1>16. Reordered(o, a)
  <2>1. /\ a.edge_types = u /\ a.link_mappings = t /\ DOMAIN a = DOMAIN o
        /\ \A x \in DOMAIN o : x \notin {"edge_types", "link_mappings"} => a[x] = o[x]
    BY <1>7, <1>9 DEF WithField
  <2>2. a = [[o EXCEPT !.edge_types = u] EXCEPT !.link_mappings = t]
    <3> DEFINE z == [[o EXCEPT !.edge_types = u] EXCEPT !.link_mappings = t]
    <3>1. a = [x \in DOMAIN o |-> a[x]]
      BY <1>9 DEF WithField
    <3>2. z = [x \in DOMAIN o |-> z[x]] /\ \A x \in DOMAIN o : z[x] = a[x]
      BY <1>7, <2>1
    <3> HIDE DEF a, z
    <3>3. a = z
      BY <3>1, <3>2
    <3> QED
      BY <3>3 DEF z
  <2> HIDE DEF a
  <2>3. a \in Ontology
    BY <1>1, <1>6, <2>2, WithLists
  <2>4. EdgesMatch(s, u)
    BY <1>1, <1>6, ListsMatch
  <2> QED
    BY <1>1, <1>7, <1>14, <2>1, <2>3, <2>4, ReorderedItself DEF Reordered
<1> HIDE DEF r, a
<1>17. Undoes(o, r)
  BY <1>2, <1>15, <1>16 DEF Undoes
<1> QED
  BY <1>17 DEF r

EntryType(f) == IF f = "indexes" THEN IndexDef
                ELSE IF f = "object_mappings" THEN ObjectMapping ELSE LinkMapping
Restored(f, p) == IF f = "indexes" THEN Each(p, AddIndexCmd)
                  ELSE IF f = "object_mappings" THEN Each(p, CreateObjectMappingCmd)
                  ELSE Each(p, CreateLinkMappingCmd)

LEMMA OntologyOf ==
    ASSUME NEW o \in Ontology, NEW a, a = [x \in DOMAIN a |-> a[x]], DOMAIN a = DOMAIN o,
           a.node_types \in Seq(NodeType), a.edge_types \in Seq(EdgeType),
           a.indexes \in Seq(IndexDef), a.object_mappings \in Seq(ObjectMapping),
           a.link_mappings \in Seq(LinkMapping), a.segments = o.segments,
           a.table_inventory = o.table_inventory, a.rules = o.rules
    PROVE  a \in Ontology
<1>1. DOMAIN a = {"node_types", "edge_types", "indexes", "object_mappings",
                  "link_mappings", "segments", "table_inventory", "rules"}
  BY OntologyFields
<1>2. /\ o.segments \in SUBSET [target_node_type_id : NodeId, referenced_properties : SUBSET Text]
      /\ o.table_inventory \in SUBSET [contributed_node_ids : SUBSET NodeId,
                                       contributed_edge_ids : SUBSET EdgeId]
      /\ o.rules \in SUBSET [node_type_id : NodeId, property_id : PropertyId]
  BY DEF Ontology
<1> QED
  BY <1>1, <1>2 DEF Ontology

LEMMA ListChunk ==
    ASSUME NEW o, Sound(o), NEW f \in {"indexes", "object_mappings", "link_mappings"},
           NEW K, K \subseteq DOMAIN o[f], NEW a, a = [x \in DOMAIN a |-> a[x]], f \in DOMAIN a,
           a[f] = Left(o[f], K), NEW p, p = Picked(o[f], K)
    PROVE  /\ Restored(f, p) \in Seq(Command)
           /\ \E t \in Seq(EntryType(f)) :
                 Shuffles(o[f], t) /\ RunsTo(a, Restored(f, p), WithField(a, f, t))
<1> DEFINE S == EntryType(f)
           s == o[f]
           q == Restored(f, p)
<1>1. s \in Seq(S) /\ DistinctIds(s)
  BY SoundIds, OntologyLists DEF EntryType
<1>2. p \in Seq(S)
  BY <1>1, PickedList
<1>3. q \in Seq(Command) /\ DOMAIN q = DOMAIN p
  BY <1>2, EachRestored DEF IsEach, Restored, EntryType
<1>4. \A i \in DOMAIN p : \A x : \E v : Adds(x, q[i], f, p[i], v)
  <2> TAKE i \in DOMAIN p
  <2>1. CASE f = "indexes"
    <3>1. q[i] = AddIndexCmd(p[i])
      BY <2>1 DEF Restored, Each
    <3>2. q[i].op = "add_index" /\ q[i].index = p[i]
      BY <3>1 DEF AddIndexCmd
    <3> HIDE DEF q
    <3> QED
      BY <2>1, <3>2, AdditionForms
  <2>2. CASE f = "object_mappings"
    <3>1. q[i] = CreateObjectMappingCmd(p[i])
      BY <2>2 DEF Restored, Each
    <3>2. q[i].op = "create_object_mapping" /\ q[i].mapping = p[i]
      BY <3>1 DEF CreateObjectMappingCmd
    <3> HIDE DEF q
    <3> QED
      BY <2>2, <3>2, AdditionForms
  <2>3. CASE f = "link_mappings"
    <3>1. q[i] = CreateLinkMappingCmd(p[i])
      BY <2>3 DEF Restored, Each
    <3>2. q[i].op = "create_link_mapping" /\ q[i].mapping = p[i]
      BY <3>1 DEF CreateLinkMappingCmd
    <3> HIDE DEF q
    <3> QED
      BY <2>3, <3>2, AdditionForms
  <2> QED
    BY <2>1, <2>2, <2>3
<1>5. K \subseteq DOMAIN s /\ a[f] = Left(s, K) /\ p = Picked(s, K)
  OBVIOUS
<1> HIDE DEF S, s, q
<1>6. \E t \in Seq(S) : Shuffles(s, t) /\ RunsTo(a, q, WithField(a, f, t))
  BY <1>1, <1>3, <1>4, <1>5, ListBack
<1> QED
  BY <1>3, <1>6 DEF S, s, q

LEMMA NodeFits ==
    ASSUME NEW o, Sound(o), NEW n \in ToSet(o.node_types), NEW x,
           ToSet(x.node_types) \subseteq ToSet(o.node_types), n.id \notin Ids(x.node_types)
    PROVE  /\ ExecuteOne(x, CreateNodeCmd(n)).ok
           /\ ExecuteOne(x, CreateNodeCmd(n)).ont
                 = WithField(x, "node_types", Append(x.node_types, n))
<1> DEFINE d == CreateNodeCmd(n)
           g == \A y \in ToSet(x.node_types) : y.id # n.id /\ y.label # n.label
           w == <<DeleteNodeCmd(n.id)>>
           b == WithField(x, "node_types", Append(x.node_types, n))
<1>1. ExecuteOne(x, d) = When(g, Ok(b, w))
  <2>1. d.op = "create_node_type" /\ d.node = n
    BY DEF CreateNodeCmd
  <2>2. ExecuteOne(x, d) = CreateNodeType(x, d.node)
    <3> HIDE DEF d
    <3> QED
      BY <2>1, Zenon DEF ExecuteOne
  <2> DEFINE m == d.node
  <2>3. m = n
    BY <2>1
  <2>4. CreateNodeType(x, n) = When(g, Ok([x EXCEPT !.node_types = Append(@, n)], w))
    BY Zenon DEF CreateNodeType
  <2>5. [x EXCEPT !.node_types = Append(@, n)] = b
    BY DEF WithField
  <2> HIDE DEF d, g, b, w
  <2> QED
    BY <2>2, <2>3, <2>4, <2>5
<1>2. \A y, z \in ToSet(o.node_types) : y.label = z.label => y = z
  BY DEF Sound, rebuild_indices, Distinct, ToSet
<1>3. \A y \in ToSet(x.node_types) : y.id # n.id
  BY IdsOfSet
<1>4. g
  BY <1>2, <1>3
<1> HIDE DEF g, b, w, d
<1>5. ExecuteOne(x, d).ok /\ ExecuteOne(x, d).ont = b
  BY <1>1, <1>4 DEF When, Ok
<1> QED
  BY <1>5 DEF b, d

\* The edges of a node come back once the node is there.
LEMMA EdgeChunk ==
    ASSUME NEW o, Sound(o), NEW K, K \subseteq DOMAIN o.edge_types, NEW a,
           a = [x \in DOMAIN a |-> a[x]], {"node_types", "edge_types"} \subseteq DOMAIN a,
           a.edge_types = Left(o.edge_types, K), Ids(o.node_types) \subseteq Ids(a.node_types),
           NEW p, p = Picked(o.edge_types, K)
    PROVE  /\ Each(p, CreateEdgeCmd) \in Seq(Command)
           /\ \E t \in Seq(EdgeType) : /\ Shuffles(o.edge_types, t)
                                       /\ RunsTo(a, Each(p, CreateEdgeCmd), WithField(a, "edge_types", t))
<1> DEFINE s == o.edge_types
           q == Each(p, CreateEdgeCmd)
           F == [u \in Seq(EdgeType) |-> WithField(a, "edge_types", u)]
<1>1. s \in Seq(EdgeType) /\ DistinctIds(s)
  BY SoundIds, OntologyLists
<1>2. p \in Seq(EdgeType) /\ ToSet(p) \subseteq ToSet(s)
  <2> HIDE DEF s
  <2>1. p = Picked(s, K) /\ K \subseteq DOMAIN s
    BY DEF s
  <2>2. p \in Seq(EdgeType) /\ ToSet(p) = {s[i] : i \in K}
    BY <1>1, <2>1, PickedList
  <2> QED
    BY <2>1, <2>2 DEF ToSet
<1>3. q \in Seq(Command) /\ DOMAIN q = DOMAIN p
  BY <1>2, EachRestored DEF IsEach
<1>4. /\ \A u \in Seq(EdgeType) : F[u] = WithField(a, "edge_types", u)
      /\ \A u : /\ WithField(a, "edge_types", u).edge_types = u
                /\ WithField(a, "edge_types", u).node_types = a.node_types
      /\ \A u, v : WithField(WithField(a, "edge_types", u), "edge_types", v) = WithField(a, "edge_types", v)
      /\ WithField(a, "edge_types", a.edge_types) = a
  BY DEF WithField
<1>5. \A i \in DOMAIN p : q[i] = CreateEdgeCmd(p[i]) /\ p[i] \in ToSet(s) /\ p[i] \in EdgeType
  BY ZenonT(60), <1>2, ListFacts DEF Each, ToSet
<1> HIDE DEF F, q
<1>6. Grows(F, EdgeType, s, p, q)
  <2> SUFFICES ASSUME NEW i \in DOMAIN p, NEW u \in Seq(EdgeType), ToSet(u) \subseteq ToSet(s),
                      p[i].id \notin Ids(u)
               PROVE  /\ ExecuteOne(F[u], q[i]).ok
                      /\ ExecuteOne(F[u], q[i]).ont = F[Append(u, p[i])]
    BY DEF Grows
  <2> DEFINE x == WithField(a, "edge_types", u)
             e == p[i]
             v == Append(u, e)
  <2>1. F[u] = x /\ x.edge_types = u /\ x.node_types = a.node_types
    BY <1>4
  <2>2. e \in ToSet(o.edge_types)
    BY <1>5
  <2>3. e.id \notin Ids(x.edge_types) /\ ToSet(x.edge_types) \subseteq ToSet(o.edge_types)
    BY <2>1
  <2>4. Ids(o.node_types) \subseteq Ids(x.node_types)
    BY <2>1
  <2>5. v \in Seq(EdgeType)
    BY <1>5, AppendList
  <2> HIDE DEF x, e
  <2>6. /\ ExecuteOne(x, CreateEdgeCmd(e)).ok
        /\ ExecuteOne(x, CreateEdgeCmd(e)).ont = WithField(x, "edge_types", Append(x.edge_types, e))
    BY <2>2, <2>3, <2>4, EdgeFits
  <2>7. WithField(x, "edge_types", Append(x.edge_types, e)) = WithField(a, "edge_types", v)
    <3>1. Append(x.edge_types, e) = v
      BY <2>1
    <3> HIDE DEF v
    <3> QED
      BY <3>1, <1>4 DEF x
  <2>8. F[v] = WithField(a, "edge_types", v)
    BY <1>4, <2>5
  <2> QED
    BY <1>5, <2>1, <2>6, <2>7, <2>8 DEF e
<1>7. K \subseteq DOMAIN s /\ p = Picked(s, K) /\ a.edge_types = Left(s, K)
  OBVIOUS
<1> HIDE DEF s
<1>8. PICK t \in Seq(EdgeType) : Shuffles(s, t) /\ RunsTo(F[Left(s, K)], q, F[t])
  BY <1>1, <1>3, <1>6, <1>7, RestBack
<1>9. Left(s, K) \in Seq(EdgeType)
  BY <1>1, LeftEntries
<1>10. F[Left(s, K)] = a /\ F[t] = WithField(a, "edge_types", t)
  BY <1>4, <1>7, <1>9
<1> QED
  BY <1>3, <1>8, <1>10 DEF s, q

LEMMA FieldsOf ==
    ASSUME NEW a, a = [x \in DOMAIN a |-> a[x]], NEW f \in DOMAIN a, NEW s
    PROVE  /\ DOMAIN WithField(a, f, s) = DOMAIN a
           /\ WithField(a, f, s) = [x \in DOMAIN WithField(a, f, s) |-> WithField(a, f, s)[x]]
           /\ WithField(a, f, s)[f] = s
           /\ \A x \in DOMAIN a : x # f => WithField(a, f, s)[x] = a[x]
BY DEF WithField

LEMMA RunsFurther ==
    ASSUME NEW a, NEW b, NEW d, NEW s \in Seq(Command), NEW t \in Seq(Command),
           RunsTo(a, s, b), RunsTo(b, t, d)
    PROVE  s \o t \in Seq(Command) /\ RunsTo(a, s \o t, d)
BY RunsOn

LEMMA NodeDeletionUndone ==
    ASSUME NEW o, Sound(o), NEW c \in Command, c.op = "delete_node", ExecuteOne(o, c).ok
    PROVE  Undoes(o, ExecuteOne(o, c))
<1> DEFINE r == ExecuteOne(o, c)
           id == c.node_id
           s == o.node_types
           E == IncidentEdges(o, id)
           X == IndexesOf(o, id)
           M == ObjectsOf(o, id)
           L == LinksOf(o, IncidentIds(o, id))
           g == id \in Ids(s)
           b == WithoutNode(o, id)
           w == NodeRestored(o, id)
<1>1. /\ o \in Ontology /\ s \in Seq(NodeType) /\ DistinctIds(s)
  BY SoundIds, OntologyLists DEF Sound
<1>2. g /\ r.ont = b /\ r.inverse = w
  <2>1. r = When(g, Ok(b, w))
    <3>1. r = DeleteNode(o, c)
      BY Zenon DEF ExecuteOne
    <3> QED
      BY <3>1, <1>1, NodeDeletion
  <2> HIDE DEF g, b, w
  <2> QED
    BY <2>1, WhenOk
<1>3. PICK k \in DOMAIN s : s[k].id = id
  BY <1>2 DEF Ids
<1> DEFINE n == s[k]
           u == Append(Left(s, At(s, id)), n)
           qe == Each(Picked(o.edge_types, E), CreateEdgeCmd)
           qx == Restored("indexes", Picked(o.indexes, X))
           qm == Restored("object_mappings", Picked(o.object_mappings, M))
           ql == Restored("link_mappings", Picked(o.link_mappings, L))
<1>4. Find(s, id) = n /\ n \in NodeType /\ n \in ToSet(s)
  BY <1>1, <1>3, FoundAt, ListFacts DEF ToSet
<1>5. w = <<CreateNodeCmd(n)>> \o qe \o qx \o qm \o ql
  BY <1>4 DEF NodeRestored, Restored
<1>6. u \in Seq(NodeType) /\ Shuffles(s, u) /\ id \notin Ids(Left(s, At(s, id)))
  BY <1>1, <1>2, <1>4, DroppedAdded, OthersLeft
<1>7. /\ DOMAIN o = {"node_types", "edge_types", "indexes", "object_mappings",
                     "link_mappings", "segments", "table_inventory", "rules"}
      /\ o = [x \in DOMAIN o |-> o[x]]
  BY <1>1, OntologyFields
<1>8. /\ b.node_types = Left(s, At(s, id)) /\ b.edge_types = Left(o.edge_types, E)
      /\ b.indexes = Left(o.indexes, X) /\ b.object_mappings = Left(o.object_mappings, M)
      /\ b.link_mappings = Left(o.link_mappings, L)
      /\ DOMAIN b = DOMAIN o /\ b = [x \in DOMAIN b |-> b[x]]
      /\ b.segments = o.segments /\ b.table_inventory = o.table_inventory /\ b.rules = o.rules
  BY <1>7 DEF WithoutNode
<1>9. /\ E \subseteq DOMAIN o.edge_types /\ X \subseteq DOMAIN o.indexes
      /\ M \subseteq DOMAIN o.object_mappings /\ L \subseteq DOMAIN o.link_mappings
  BY DEF IncidentEdges, IndexesOf, ObjectsOf, LinksOf
<1> DEFINE a1 == WithField(b, "node_types", u)
<1> HIDE DEF b, w, u, E, X, M, L
<1>10. /\ a1.node_types = u /\ DOMAIN a1 = DOMAIN o /\ a1 = [x \in DOMAIN a1 |-> a1[x]]
       /\ \A x \in DOMAIN o : x # "node_types" => a1[x] = b[x]
  BY <1>7, <1>8, FieldsOf
<1>11. RunsTo(b, <<CreateNodeCmd(n)>>, a1)
  <2>1. ToSet(b.node_types) \subseteq ToSet(s) /\ n.id \notin Ids(b.node_types)
    BY <1>1, <1>3, <1>6, <1>8, LeftIds
  <2>2. /\ ExecuteOne(b, CreateNodeCmd(n)).ok
        /\ ExecuteOne(b, CreateNodeCmd(n)).ont = WithField(b, "node_types", Append(b.node_types, n))
    <3> HIDE DEF n
    <3> QED
      BY <2>1, <1>4, NodeFits
  <2>3. WithField(b, "node_types", Append(b.node_types, n)) = a1
    BY <1>8 DEF u
  <2> HIDE DEF n, a1
  <2> QED
    BY <2>2, <2>3, RunsOnce
<1> HIDE DEF a1
<1>12. /\ qe \in Seq(Command)
       /\ \E t \in Seq(EdgeType) :
             Shuffles(o.edge_types, t) /\ RunsTo(a1, qe, WithField(a1, "edge_types", t))
  <2>1. Ids(s) \subseteq Ids(a1.node_types)
    BY <1>1, <1>6, <1>10, ShuffledFind
  <2>2. a1.edge_types = Left(o.edge_types, E) /\ {"node_types", "edge_types"} \subseteq DOMAIN a1
    BY <1>7, <1>8, <1>10
  <2> QED
    BY <1>9, <1>10, <2>1, <2>2, EdgeChunk
<1>13. PICK te \in Seq(EdgeType) :
          Shuffles(o.edge_types, te) /\ RunsTo(a1, qe, WithField(a1, "edge_types", te))
  BY <1>12
<1> DEFINE a2 == WithField(a1, "edge_types", te)
<1>14. /\ a2.node_types = u /\ a2.edge_types = te
       /\ DOMAIN a2 = DOMAIN o /\ a2 = [x \in DOMAIN a2 |-> a2[x]]
       /\ \A x \in DOMAIN o : x \notin {"node_types", "edge_types"} => a2[x] = b[x]
  <2>1. "edge_types" \in DOMAIN a1 /\ a1 = [x \in DOMAIN a1 |-> a1[x]] /\ DOMAIN a1 = DOMAIN o
    BY <1>7, <1>10
  <2>2. /\ DOMAIN a2 = DOMAIN a1 /\ a2 = [x \in DOMAIN a2 |-> a2[x]] /\ a2["edge_types"] = te
        /\ \A x \in DOMAIN a1 : x # "edge_types" => a2[x] = a1[x]
    BY <2>1, FieldsOf
  <2> HIDE DEF a2, u
  <2> QED
    BY <1>7, <1>10, <2>1, <2>2
<1> HIDE DEF a2
<1>15. /\ qx \in Seq(Command)
       /\ \E t \in Seq(IndexDef) :
             Shuffles(o.indexes, t) /\ RunsTo(a2, qx, WithField(a2, "indexes", t))
  <2>1. a2["indexes"] = Left(o["indexes"], X) /\ "indexes" \in DOMAIN a2 /\ X \subseteq DOMAIN o["indexes"]
    BY <1>7, <1>8, <1>9, <1>14
  <2>2. EntryType("indexes") = IndexDef
    BY DEF EntryType
  <2> QED
    BY <1>14, <2>1, <2>2, ListChunk
<1>16. PICK tx \in Seq(IndexDef) :
          Shuffles(o.indexes, tx) /\ RunsTo(a2, qx, WithField(a2, "indexes", tx))
  BY <1>15
<1> DEFINE a3 == WithField(a2, "indexes", tx)
<1>17. /\ a3.node_types = u /\ a3.edge_types = te /\ a3.indexes = tx
       /\ DOMAIN a3 = DOMAIN o /\ a3 = [x \in DOMAIN a3 |-> a3[x]]
       /\ \A x \in DOMAIN o : x \notin {"node_types", "edge_types", "indexes"} => a3[x] = b[x]
  <2>1. "indexes" \in DOMAIN a2 /\ a2 = [x \in DOMAIN a2 |-> a2[x]] /\ DOMAIN a2 = DOMAIN o
    BY <1>7, <1>14
  <2>2. /\ DOMAIN a3 = DOMAIN a2 /\ a3 = [x \in DOMAIN a3 |-> a3[x]] /\ a3["indexes"] = tx
        /\ \A x \in DOMAIN a2 : x # "indexes" => a3[x] = a2[x]
    BY <2>1, FieldsOf
  <2> HIDE DEF a3, u
  <2> QED
    BY <1>7, <1>14, <2>1, <2>2
<1> HIDE DEF a3
<1>18. /\ qm \in Seq(Command)
       /\ \E t \in Seq(ObjectMapping) :
             Shuffles(o.object_mappings, t) /\ RunsTo(a3, qm, WithField(a3, "object_mappings", t))
  <2>1. /\ a3["object_mappings"] = Left(o["object_mappings"], M) /\ "object_mappings" \in DOMAIN a3
        /\ M \subseteq DOMAIN o["object_mappings"]
    BY <1>7, <1>8, <1>9, <1>17
  <2>2. EntryType("object_mappings") = ObjectMapping
    BY DEF EntryType
  <2> QED
    BY <1>17, <2>1, <2>2, ListChunk
<1>19. PICK tm \in Seq(ObjectMapping) :
          Shuffles(o.object_mappings, tm) /\ RunsTo(a3, qm, WithField(a3, "object_mappings", tm))
  BY <1>18
<1> DEFINE a4 == WithField(a3, "object_mappings", tm)
<1>20. /\ a4.node_types = u /\ a4.edge_types = te /\ a4.indexes = tx /\ a4.object_mappings = tm
       /\ DOMAIN a4 = DOMAIN o /\ a4 = [x \in DOMAIN a4 |-> a4[x]]
       /\ \A x \in DOMAIN o :
             x \notin {"node_types", "edge_types", "indexes", "object_mappings"} => a4[x] = b[x]
  <2>1. "object_mappings" \in DOMAIN a3 /\ a3 = [x \in DOMAIN a3 |-> a3[x]] /\ DOMAIN a3 = DOMAIN o
    BY <1>7, <1>17
  <2>2. /\ DOMAIN a4 = DOMAIN a3 /\ a4 = [x \in DOMAIN a4 |-> a4[x]] /\ a4["object_mappings"] = tm
        /\ \A x \in DOMAIN a3 : x # "object_mappings" => a4[x] = a3[x]
    BY <2>1, FieldsOf
  <2> HIDE DEF a4, u
  <2> QED
    BY <1>7, <1>17, <2>1, <2>2
<1> HIDE DEF a4
<1>21. /\ ql \in Seq(Command)
       /\ \E t \in Seq(LinkMapping) :
             Shuffles(o.link_mappings, t) /\ RunsTo(a4, ql, WithField(a4, "link_mappings", t))
  <2>1. /\ a4["link_mappings"] = Left(o["link_mappings"], L) /\ "link_mappings" \in DOMAIN a4
        /\ L \subseteq DOMAIN o["link_mappings"]
    BY <1>7, <1>8, <1>9, <1>20
  <2>2. EntryType("link_mappings") = LinkMapping
    BY DEF EntryType
  <2> QED
    BY <1>20, <2>1, <2>2, ListChunk
<1>22. PICK tl \in Seq(LinkMapping) :
          Shuffles(o.link_mappings, tl) /\ RunsTo(a4, ql, WithField(a4, "link_mappings", tl))
  BY <1>21
<1> DEFINE a == WithField(a4, "link_mappings", tl)
<1>23. /\ a.node_types = u /\ a.edge_types = te /\ a.indexes = tx /\ a.object_mappings = tm
       /\ a.link_mappings = tl /\ DOMAIN a = DOMAIN o /\ a = [x \in DOMAIN a |-> a[x]]
       /\ a.segments = o.segments /\ a.table_inventory = o.table_inventory /\ a.rules = o.rules
  <2>1. "link_mappings" \in DOMAIN a4 /\ a4 = [x \in DOMAIN a4 |-> a4[x]] /\ DOMAIN a4 = DOMAIN o
    BY <1>7, <1>20
  <2>2. /\ DOMAIN a = DOMAIN a4 /\ a = [x \in DOMAIN a |-> a[x]] /\ a["link_mappings"] = tl
        /\ \A x \in DOMAIN a4 : x # "link_mappings" => a[x] = a4[x]
    BY <2>1, FieldsOf
  <2> HIDE DEF a, u
  <2> QED
    BY <1>7, <1>8, <1>20, <2>1, <2>2
<1> HIDE DEF a
<1>24. RunsTo(b, w, a)
  <2>1. <<CreateNodeCmd(n)>> \in Seq(Command)
    BY <1>4, RestoringCommands
  <2> HIDE DEF qe, qx, qm, ql, n
  <2> DEFINE w1 == <<CreateNodeCmd(n)>> \o qe
             w2 == w1 \o qx
             w3 == w2 \o qm
  <2>2. w1 \in Seq(Command) /\ RunsTo(b, w1, a2)
    BY <2>1, <1>11, <1>12, <1>13, RunsFurther DEF a2
  <2> HIDE DEF w1
  <2>3. w2 \in Seq(Command) /\ RunsTo(b, w2, a3)
    BY <2>2, <1>15, <1>16, RunsFurther DEF a3
  <2> HIDE DEF w2
  <2>4. w3 \in Seq(Command) /\ RunsTo(b, w3, a4)
    BY <2>3, <1>18, <1>19, RunsFurther DEF a4
  <2> HIDE DEF w3
  <2>5. RunsTo(b, w3 \o ql, a)
    BY <2>4, <1>21, <1>22, RunsFurther DEF a
  <2> QED
    BY <2>5, <1>5 DEF w1, w2, w3
<1>25. Reordered(o, a)
  <2>1. a \in Ontology
    BY <1>1, <1>6, <1>23, OntologyOf
  <2>2. NodesMatch(s, u) /\ EdgesMatch(o.edge_types, te)
    BY <1>1, <1>6, <1>13, ListsMatch, OntologyLists
  <2> QED
    BY <1>16, <1>19, <1>22, <1>23, <2>1, <2>2 DEF Reordered
<1> HIDE DEF r, a
<1>26. Undoes(o, r)
  BY <1>2, <1>24, <1>25 DEF Undoes
<1> QED
  BY <1>26 DEF r

-----------------------------------------------------------------------------
(* What went with a property is put back.                                   *)

PropertiesOn(n, ps) == [n EXCEPT !.properties = ps]

LEMMA NodePut ==
    ASSUME NEW o \in Ontology, NEW k \in DOMAIN o.node_types, NEW m \in NodeType,
           NEW b, b = WithNode(o, k, m)
    PROVE  /\ b \in Ontology /\ b.node_types \in Seq(NodeType)
           /\ DOMAIN b.node_types = DOMAIN o.node_types /\ b.node_types[k] = m
           /\ \A j \in DOMAIN o.node_types : j # k => b.node_types[j] = o.node_types[j]
           /\ \A y : WithNode(b, k, y) = WithNode(o, k, y)
           /\ DOMAIN b = DOMAIN o /\ \A x \in DOMAIN o : x # "node_types" => b[x] = o[x]
<1>1. b \in Ontology
  BY WithNodeFacts
<1>2. o = [x \in DOMAIN o |-> o[x]] /\ "node_types" \in DOMAIN o
  BY OntologyFields
<1>3. /\ b.node_types = [o.node_types EXCEPT ![k] = m] /\ DOMAIN b = DOMAIN o
      /\ \A x \in DOMAIN o : x # "node_types" => b[x] = o[x]
  <2> DEFINE t == [o.node_types EXCEPT ![k] = m]
  <2>1. b = [o EXCEPT !.node_types = t]
    BY DEF WithNode
  <2> HIDE DEF t
  <2>2. b.node_types = t /\ DOMAIN b = DOMAIN o /\ \A x \in DOMAIN o : x # "node_types" => b[x] = o[x]
    BY <1>2, <2>1
  <2> QED
    BY <2>2 DEF t
<1>4. \A y : WithNode(b, k, y) = WithNode(o, k, y)
  BY NodeTwice
<1>5. /\ DOMAIN b.node_types = DOMAIN o.node_types /\ b.node_types[k] = m
      /\ \A j \in DOMAIN o.node_types : j # k => b.node_types[j] = o.node_types[j]
  BY <1>3
<1> QED
  BY <1>1, <1>3, <1>4, <1>5, OntologyLists

LEMMA EdgePut ==
    ASSUME NEW o \in Ontology, NEW k \in DOMAIN o.edge_types, NEW m, NEW b, b = WithEdge(o, k, m)
    PROVE  /\ k \in DOMAIN b.edge_types /\ b.edge_types[k] = m
           /\ \A y : WithEdge(b, k, y) = WithEdge(o, k, y)
<1>1. "edge_types" \in DOMAIN o
  BY OntologyFields
<1>2. b.edge_types = [o.edge_types EXCEPT ![k] = m]
  BY <1>1 DEF WithEdge
<1>3. \A y : WithEdge(b, k, y) = WithEdge(o, k, y)
  BY EdgeTwice
<1> QED
  BY <1>2, <1>3

LEMMA NodePropertyBack ==
    ASSUME NEW b, Sound(b), NEW owner \in Owner, owner.kind = "node",
           NEW k \in DOMAIN b.node_types, b.node_types[k].id = owner.type_id,
           NEW p, p.id \notin Ids(b.node_types[k].properties)
    PROVE  /\ ExecuteOne(b, AddPropertyCmd(owner, p)).ok
           /\ ExecuteOne(b, AddPropertyCmd(owner, p)).ont
                 = WithNode(b, k, PropertiesOn(b.node_types[k], Append(b.node_types[k].properties, p)))
<1> DEFINE d == AddPropertyCmd(owner, p)
           g == OwnerExists(b, owner) /\ p.id \notin Ids(OwnerProperties(b, owner))
           new == WithProperties(b, owner, Append(OwnerProperties(b, owner), p))
           w == <<DeletePropertyCmd(owner, p.id)>>
<1>1. d.op = "add_property" /\ d.owner = owner /\ d.property = p
  BY DEF AddPropertyCmd
<1>2. ExecuteOne(b, d) = When(g, Ok(new, w))
  <2> HIDE DEF d
  <2>1. ExecuteOne(b, d) = AddProperty(b, d)
    BY <1>1, Zenon DEF ExecuteOne
  <2>2. AddProperty(b, d) = When(OwnerExists(b, d.owner) /\ d.property.id \notin Ids(OwnerProperties(b, d.owner)),
            Ok(WithProperties(b, d.owner, Append(OwnerProperties(b, d.owner), d.property)),
               <<DeletePropertyCmd(d.owner, d.property.id)>>))
    BY Zenon DEF AddProperty
  <2> QED
    BY <1>1, <2>1, <2>2
<1>3. g /\ new = WithNode(b, k, PropertiesOn(b.node_types[k], Append(b.node_types[k].properties, p)))
  <2>1. /\ OwnerExists(b, owner) /\ OwnerProperties(b, owner) = b.node_types[k].properties
        /\ \A ps : WithProperties(b, owner, ps) = WithNode(b, k, [b.node_types[k] EXCEPT !.properties = ps])
    BY NodeOwnerAt
  <2> DEFINE qs == Append(b.node_types[k].properties, p)
  <2>2. new = WithProperties(b, owner, qs)
    BY <2>1
  <2> HIDE DEF qs, new
  <2>3. new = WithNode(b, k, PropertiesOn(b.node_types[k], qs))
    BY <2>1, <2>2 DEF PropertiesOn
  <2> QED
    BY <2>1, <2>3 DEF qs
<1> HIDE DEF d, g, new, w
<1>4. ExecuteOne(b, d).ok /\ ExecuteOne(b, d).ont = new
  BY <1>2, <1>3 DEF When, Ok
<1> QED
  BY <1>3, <1>4 DEF d

LEMMA EdgePropertyBack ==
    ASSUME NEW b, Sound(b), NEW owner \in Owner, owner.kind # "node",
           NEW k \in DOMAIN b.edge_types, b.edge_types[k].id = owner.type_id,
           NEW p, p.id \notin Ids(b.edge_types[k].properties)
    PROVE  /\ ExecuteOne(b, AddPropertyCmd(owner, p)).ok
           /\ ExecuteOne(b, AddPropertyCmd(owner, p)).ont
                 = WithEdge(b, k, [b.edge_types[k] EXCEPT !.properties = Append(b.edge_types[k].properties, p)])
<1> DEFINE d == AddPropertyCmd(owner, p)
           g == OwnerExists(b, owner) /\ p.id \notin Ids(OwnerProperties(b, owner))
           new == WithProperties(b, owner, Append(OwnerProperties(b, owner), p))
           w == <<DeletePropertyCmd(owner, p.id)>>
<1>1. d.op = "add_property" /\ d.owner = owner /\ d.property = p
  BY DEF AddPropertyCmd
<1>2. ExecuteOne(b, d) = When(g, Ok(new, w))
  <2> HIDE DEF d
  <2>1. ExecuteOne(b, d) = AddProperty(b, d)
    BY <1>1, Zenon DEF ExecuteOne
  <2>2. AddProperty(b, d) = When(OwnerExists(b, d.owner) /\ d.property.id \notin Ids(OwnerProperties(b, d.owner)),
            Ok(WithProperties(b, d.owner, Append(OwnerProperties(b, d.owner), d.property)),
               <<DeletePropertyCmd(d.owner, d.property.id)>>))
    BY Zenon DEF AddProperty
  <2> QED
    BY <1>1, <2>1, <2>2
<1>3. g /\ new = WithEdge(b, k, [b.edge_types[k] EXCEPT !.properties = Append(b.edge_types[k].properties, p)])
  <2>1. /\ OwnerExists(b, owner) /\ OwnerProperties(b, owner) = b.edge_types[k].properties
        /\ \A ps : WithProperties(b, owner, ps) = WithEdge(b, k, [b.edge_types[k] EXCEPT !.properties = ps])
    BY EdgeOwnerAt
  <2> DEFINE qs == Append(b.edge_types[k].properties, p)
  <2>2. new = WithProperties(b, owner, qs)
    BY <2>1
  <2> HIDE DEF qs, new
  <2>3. new = WithEdge(b, k, [b.edge_types[k] EXCEPT !.properties = qs])
    BY <2>1, <2>2
  <2> QED
    BY <2>1, <2>3 DEF qs
<1> HIDE DEF d, g, new, w
<1>4. ExecuteOne(b, d).ok /\ ExecuteOne(b, d).ont = new
  BY <1>2, <1>3 DEF When, Ok
<1> QED
  BY <1>3, <1>4 DEF d

LEMMA EdgePropertyDeletionUndone ==
    ASSUME NEW o, Sound(o), NEW owner \in Owner, owner.kind # "node",
           NEW k \in DOMAIN o.edge_types, o.edge_types[k].id = owner.type_id,
           NEW pid \in Ids(o.edge_types[k].properties),
           Sound(WithoutEdgeProperty(o, k, pid)), NEW r,
           r.ont = WithoutEdgeProperty(o, k, pid), r.inverse = EdgePropertyRestored(o, k, owner, pid)
    PROVE  Undoes(o, r)
<1> DEFINE e == o.edge_types[k]
           ps == e.properties
           p == Find(ps, pid)
           qs == Left(ps, At(ps, pid))
           f == [e EXCEPT !.properties = qs]
           b == WithEdge(o, k, f)
           d == AddPropertyCmd(owner, p)
           us == Append(qs, p)
<1>1. o \in Ontology /\ e \in EdgeType /\ ps \in Seq(Property) /\ DistinctIds(ps)
  BY EntryFacts, SoundIds DEF Sound
<1>2. b = WithoutEdgeProperty(o, k, pid) /\ r.inverse = <<d>>
  BY DEF WithoutEdgeProperty, EdgePropertyRestored
<1>3. p.id = pid /\ pid \notin Ids(qs) /\ us \in Seq(Property) /\ Shuffles(ps, us)
  BY <1>1, DroppedAdded, OthersLeft
<1>4. f.id = e.id /\ f.properties = qs /\ [f EXCEPT !.properties = us] = [e EXCEPT !.properties = us]
  BY <1>1 DEF EdgeType
<1> HIDE DEF us, qs
<1>5. EdgeAlike(e, [e EXCEPT !.properties = us])
  BY <1>1, <1>3 DEF EdgeType, EdgeAlike
<1> HIDE DEF f, p, b, d
<1>6. k \in DOMAIN b.edge_types /\ b.edge_types[k] = f /\ \A m : WithEdge(b, k, m) = WithEdge(o, k, m)
  BY <1>1, EdgePut DEF b
<1>7. /\ ExecuteOne(b, d).ok
      /\ ExecuteOne(b, d).ont = WithEdge(b, k, [f EXCEPT !.properties = Append(f.properties, p)])
  <2>1. Sound(b) /\ k \in DOMAIN b.edge_types /\ b.edge_types[k].id = owner.type_id
    BY <1>2, <1>4, <1>6
  <2>2. p.id \notin Ids(b.edge_types[k].properties)
    BY <1>3, <1>4, <1>6
  <2>3. /\ ExecuteOne(b, AddPropertyCmd(owner, p)).ok
        /\ ExecuteOne(b, AddPropertyCmd(owner, p)).ont
              = WithEdge(b, k, [b.edge_types[k] EXCEPT !.properties = Append(b.edge_types[k].properties, p)])
    BY ZenonT(60), <2>1, <2>2, EdgePropertyBack
  <2> QED
    BY <1>6, <2>3 DEF d
<1>8. ExecuteOne(b, d).ont = WithEdge(o, k, [e EXCEPT !.properties = us])
  <2>1. Append(f.properties, p) = us
    BY <1>4 DEF us
  <2> QED
    BY <1>4, <1>6, <1>7, <2>1
<1>9. Reordered(o, WithEdge(o, k, [e EXCEPT !.properties = us]))
  BY <1>1, <1>5, AlikeReordered
<1> QED
  BY <1>1, <1>2, <1>7, <1>8, <1>9, UndoneOnce

\* Running the commands gives a node at a place its constraints, in some order.
ConstraintsBack(a, k, s, q) ==
    \E t \in Seq(ConstraintDef) :
        Shuffles(s, t) /\ RunsTo(a, q, WithNode(a, k, ConstraintsOn(a.node_types[k], t)))

LEMMA ConstraintChunk ==
    ASSUME NEW a \in Ontology, DistinctIds(a.node_types), NEW k \in DOMAIN a.node_types,
           NEW s \in Seq(ConstraintDef), DistinctIds(s), NEW K, K \subseteq DOMAIN s,
           a.node_types[k].constraints = Left(s, K), NEW id \in NodeId, a.node_types[k].id = id,
           NEW p, p = Picked(s, K), NEW q, q = [i \in DOMAIN p |-> AddConstraintCmd(id, p[i])]
    PROVE  /\ q \in Seq(Command)
           /\ ConstraintsBack(a, k, s, q)
<1> DEFINE ns == a.node_types
           m == ns[k]
           F == [u \in Seq(ConstraintDef) |-> WithNode(a, k, ConstraintsOn(m, u))]
<1>1. ns \in Seq(NodeType) /\ m \in NodeType
  BY EntryFacts, OntologyLists
<1>2. p \in Seq(ConstraintDef)
  BY PickedList
<1>3. q \in Seq(Command) /\ DOMAIN q = DOMAIN p
  <2>1. IsEach(Each(p, LAMBDA x : AddConstraintCmd(id, x)), p)
    BY <1>2, EachRestored
  <2>2. Each(p, LAMBDA x : AddConstraintCmd(id, x)) = q
    BY DEF Each
  <2> QED
    BY <2>1, <2>2 DEF IsEach
<1>4. \A i \in DOMAIN p : q[i].op = "add_constraint" /\ q[i].node_id = id /\ q[i].constraint = p[i] /\ p[i] \in ConstraintDef
  BY <1>2, ListFacts DEF AddConstraintCmd
<1>5. /\ ConstraintsOn(m, m.constraints) = m
      /\ \A cs : ConstraintsOn(m, cs).id = m.id /\ ConstraintsOn(m, cs).constraints = cs
      /\ \A cs, ds : ConstraintsOn(ConstraintsOn(m, cs), ds) = ConstraintsOn(m, ds)
      /\ \A cs \in Seq(ConstraintDef) : ConstraintsOn(m, cs) \in NodeType
  BY <1>1, ConstraintsAlike
<1>6. Grows(F, ConstraintDef, s, p, q)
  <2> SUFFICES ASSUME NEW i \in DOMAIN p, NEW u \in Seq(ConstraintDef), p[i].id \notin Ids(u)
               PROVE  /\ ExecuteOne(F[u], q[i]).ok
                      /\ ExecuteOne(F[u], q[i]).ont = F[Append(u, p[i])]
    BY DEF Grows
  <2> DEFINE n == ConstraintsOn(m, u)
             x == WithNode(a, k, n)
             v == Append(u, p[i])
             c == q[i]
             g == c.constraint.id \notin Ids(n.constraints)
             new == WithNode(x, k, ConstraintsOn(n, Append(n.constraints, c.constraint)))
             w == <<[op |-> "remove_constraint", node_id |-> n.id, constraint_id |-> c.constraint.id]>>
  <2>1. F[u] = x /\ n \in NodeType /\ n.id = m.id /\ n.constraints = u
    BY <1>5
  <2>2. v \in Seq(ConstraintDef)
    BY <1>4, AppendList
  <2>3. F[v] = WithNode(a, k, ConstraintsOn(m, v))
    BY <2>2
  <2>4. ConstraintsOn(n, v) = ConstraintsOn(m, v)
    BY <1>5
  <2> HIDE DEF n
  <2>5. /\ x.node_types[k] = n /\ DOMAIN x.node_types = DOMAIN ns
        /\ \A j \in DOMAIN ns : j # k => x.node_types[j] = ns[j]
        /\ x \in Ontology /\ \A y : WithNode(x, k, y) = WithNode(a, k, y)
    <3>1. x = WithNode(a, k, n)
      OBVIOUS
    <3> HIDE DEF x
    <3> QED
      BY <2>1, <3>1, NodePut
  <2> HIDE DEF x, F
  <2>6. x.node_types \in Seq(NodeType) /\ DistinctIds(x.node_types) /\ k \in DOMAIN x.node_types
    <3>1. \A j \in DOMAIN ns : x.node_types[j].id = ns[j].id
      BY <2>1, <2>5
    <3>2. DistinctIds(x.node_types)
      BY <2>5, <3>1 DEF DistinctIds
    <3> QED
      BY <2>5, <3>2, OntologyLists
  <2>7. ExecuteOne(x, c) = When(g, Ok(new, w))
    <3> HIDE DEF c
    <3>1. c.op = "add_constraint" /\ c.node_id = x.node_types[k].id
      BY <1>4, <2>1, <2>5 DEF c
    <3>2. ExecuteOne(x, c) = When(c.constraint.id \notin Ids(x.node_types[k].constraints),
              Ok(WithNode(x, k, ConstraintsOn(x.node_types[k], Append(x.node_types[k].constraints, c.constraint))),
                 <<[op |-> "remove_constraint", node_id |-> x.node_types[k].id, constraint_id |-> c.constraint.id]>>))
      BY <2>6, <3>1, ConstraintForms
    <3> QED
      BY <2>5, <3>2
  <2>8. c.constraint = p[i] /\ g
    BY <1>4, <2>1
  <2>9. new = F[v]
    <3>1. Append(n.constraints, c.constraint) = v
      BY <2>1, <2>8
    <3> HIDE DEF v
    <3> QED
      BY <3>1, <2>3, <2>4, <2>5
  <2> HIDE DEF g, new, w, c
  <2>10. ExecuteOne(x, c).ok /\ ExecuteOne(x, c).ont = new
    BY <2>7, <2>8 DEF When, Ok
  <2> QED
    BY <2>1, <2>9, <2>10 DEF c, v
<1> HIDE DEF F
<1>7. PICK t \in Seq(ConstraintDef) : Shuffles(s, t) /\ RunsTo(F[Left(s, K)], q, F[t])
  BY <1>3, <1>6, RestBack
<1>8. F[Left(s, K)] = a /\ F[t] = WithNode(a, k, ConstraintsOn(m, t))
  <2>1. Left(s, K) \in Seq(ConstraintDef)
    BY LeftEntries
  <2>2. WithNode(a, k, m) = a
    BY WithNodeFacts
  <2>3. F[Left(s, K)] = WithNode(a, k, ConstraintsOn(m, Left(s, K)))
    BY <2>1 DEF F
  <2> QED
    BY <1>5, <2>2, <2>3 DEF F
<1> QED
  BY <1>3, <1>7, <1>8 DEF ConstraintsBack

LEMMA ObjectUpdateForm ==
    ASSUME NEW x, NEW m, m.id \in Ids(x.object_mappings)
    PROVE  /\ ExecuteOne(x, UpdateObjectMappingCmd(m)).ok
           /\ ExecuteOne(x, UpdateObjectMappingCmd(m)).ont
                 = WithField(x, "object_mappings", Replaced(x.object_mappings, m.id, m))
<1> DEFINE d == UpdateObjectMappingCmd(m)
           g == d.mapping.id = d.id /\ d.id \in Ids(x["object_mappings"])
           new == [x EXCEPT !["object_mappings"] = Replaced(x["object_mappings"], d.id, d.mapping)]
           w == <<[d EXCEPT !.mapping = Find(x["object_mappings"], d.id)]>>
<1>1. d.op = "update_object_mapping" /\ d.id = m.id /\ d.mapping = m
  BY DEF UpdateObjectMappingCmd
<1>2. g /\ new = WithField(x, "object_mappings", Replaced(x.object_mappings, m.id, m))
  <2> HIDE DEF d
  <2> QED
    BY <1>1 DEF WithField
<1>3. ExecuteOne(x, d) = When(g, Ok(new, w))
  <2> HIDE DEF d
  <2>1. ExecuteOne(x, d) = UpdateMapping(x, "object_mappings", d)
    BY <1>1, Zenon DEF ExecuteOne
  <2> QED
    BY <2>1, UpdateMappingForm
<1> HIDE DEF d, g, new, w
<1>4. ExecuteOne(x, d).ok /\ ExecuteOne(x, d).ont = new
  BY <1>2, <1>3 DEF When, Ok
<1> QED
  BY <1>2, <1>4 DEF d

LEMMA MappingsBack ==
    ASSUME NEW s \in Seq(ObjectMapping), DistinctIds(s), NEW K, K \subseteq DOMAIN s,
           NEW a, a = [x \in DOMAIN a |-> a[x]], "object_mappings" \in DOMAIN a,
           NEW t, t = a.object_mappings, t = [i \in DOMAIN s |-> t[i]],
           \A i \in DOMAIN s : t[i].id = s[i].id /\ (i \notin K => t[i] = s[i]),
           NEW p, p = Picked(s, K)
    PROVE  /\ Each(p, UpdateObjectMappingCmd) \in Seq(Command)
           /\ RunsTo(a, Each(p, UpdateObjectMappingCmd), WithField(a, "object_mappings", s))
<1> DEFINE q == Each(p, UpdateObjectMappingCmd)
           n == Len(p)
           Renewed(j, i) == \E l \in 1..j : p[l].id = s[i].id
           back(j) == [i \in DOMAIN s |-> IF Renewed(j, i) THEN s[i] ELSE t[i]]
           st == [j \in 0..n |-> WithField(a, "object_mappings", back(j))]
<1>1. p \in Seq(ObjectMapping) /\ ToSet(p) = {s[i] : i \in K}
  BY PickedList
<1>2. q \in Seq(Command) /\ DOMAIN q = DOMAIN p
  BY <1>1, EachRestored DEF IsEach
<1>3. n \in Nat /\ DOMAIN p = 1..n /\ s = [i \in DOMAIN s |-> s[i]]
  BY <1>1, ListFacts
<1>4. \A l \in DOMAIN p : \E i \in K : p[l] = s[i]
  <2> TAKE l \in DOMAIN p
  <2>1. p[l] \in ToSet(p)
    BY Zenon DEF ToSet
  <2> QED
    BY <1>1, <2>1, Zenon
<1>5. \A i \in K : \E l \in DOMAIN p : p[l] = s[i]
  <2> TAKE i \in K
  <2>1. s[i] \in ToSet(p)
    BY <1>1, Zenon
  <2> QED
    BY <2>1, Zenon DEF ToSet
<1>6. \A i \in DOMAIN p : q[i] = UpdateObjectMappingCmd(p[i])
  BY DEF Each
<1>7. \A j : \A i \in DOMAIN s : back(j)[i].id = s[i].id
  OBVIOUS
<1>8. \A u : /\ WithField(a, "object_mappings", u).object_mappings = u
             /\ \A v : WithField(WithField(a, "object_mappings", u), "object_mappings", v)
                          = WithField(a, "object_mappings", v)
  BY DEF WithField
<1> HIDE DEF q, n
<1>9. \A j \in 1..n : Replaced(back(j - 1), p[j].id, p[j]) = back(j)
  <2> TAKE j \in 1..n
  <2> DEFINE u == back(j - 1)
             v == Replaced(u, p[j].id, p[j])
  <2>1. PICK e \in K : p[j] = s[e]
    BY <1>3, <1>4
  <2>2. \A i : Renewed(j, i) <=> Renewed(j - 1, i) \/ p[j].id = s[i].id
    <3> TAKE i
    <3>1. 1..j = (1..(j - 1)) \cup {j}
      BY <1>3
    <3> QED
      BY <3>1
  <2>3. \A i \in DOMAIN s : p[j].id = s[i].id => p[j] = s[i]
    BY <2>1 DEF DistinctIds
  <2> HIDE DEF Renewed
  <2>4. v = [i \in DOMAIN s |-> IF u[i].id = p[j].id THEN p[j] ELSE u[i]]
    BY DEF Replaced
  <2>5. \A i \in DOMAIN s : (IF u[i].id = p[j].id THEN p[j] ELSE u[i]) = back(j)[i]
    BY <1>7, <2>2, <2>3
  <2> QED
    BY <2>4, <2>5
<1>10. back(0) = t /\ back(n) = s
  <2>1. \A i : ~Renewed(0, i)
    OBVIOUS
  <2>2. \A i \in DOMAIN s : ~Renewed(n, i) => t[i] = s[i]
    BY <1>3, <1>5
  <2> HIDE DEF Renewed
  <2>3. back(0) = t
    BY <2>1
  <2>4. back(n) = s
    BY <1>3, <2>2
  <2> QED
    BY <2>3, <2>4
<1>11. \A j \in 1..n : p[j].id \in Ids(back(j - 1))
  <2> TAKE j \in 1..n
  <2>1. PICK e \in K : p[j] = s[e]
    BY <1>3, <1>4
  <2>2. e \in DOMAIN back(j - 1) /\ back(j - 1)[e].id = p[j].id
    BY <1>7, <2>1
  <2> HIDE DEF back
  <2> QED
    BY <2>2 DEF Ids
<1> HIDE DEF back
<1>12. \A j \in 1..n : ExecuteOne(st[j - 1], q[j]).ok /\ ExecuteOne(st[j - 1], q[j]).ont = st[j]
  <2> TAKE j \in 1..n
  <2> DEFINE x == WithField(a, "object_mappings", back(j - 1))
             m == p[j]
  <2>1. j - 1 \in 0..n /\ j \in 0..n /\ j \in DOMAIN p
    BY <1>3
  <2>2. st[j - 1] = x /\ st[j] = WithField(a, "object_mappings", back(j)) /\ q[j] = UpdateObjectMappingCmd(m)
    BY <2>1, <1>6
  <2>3. x.object_mappings = back(j - 1) /\ m.id \in Ids(back(j - 1)) /\ Replaced(back(j - 1), m.id, m) = back(j)
    BY <1>8, <1>9, <1>11
  <2>4. WithField(x, "object_mappings", back(j)) = WithField(a, "object_mappings", back(j))
    BY <1>8
  <2> HIDE DEF x, m, st
  <2>5. /\ ExecuteOne(x, UpdateObjectMappingCmd(m)).ok
        /\ ExecuteOne(x, UpdateObjectMappingCmd(m)).ont
              = WithField(x, "object_mappings", Replaced(x.object_mappings, m.id, m))
    BY <2>3, ObjectUpdateForm
  <2> QED
    BY <2>2, <2>3, <2>4, <2>5
<1>13. st[0] = a /\ st[n] = WithField(a, "object_mappings", s)
  <2>1. 0 \in 0..n /\ n \in 0..n
    BY <1>3
  <2>2. WithField(a, "object_mappings", t) = a
    BY DEF WithField
  <2> QED
    BY <1>10, <2>1, <2>2
<1>14. RunsTo(st[0], q, st[n])
  <2> HIDE DEF st
  <2> QED
    BY <1>2, <1>3, <1>12, RunsStepwise
<1> QED
  BY <1>2, <1>13, <1>14 DEF q

\* The fields of the ontology a node's property is taken out of.
LEMMA PropertyFields ==
    ASSUME NEW o \in Ontology, NEW k \in DOMAIN o.node_types, NEW pid, NEW id,
           o.node_types[k].id = id, NEW b, b = WithoutNodeProperty(o, k, pid)
    PROVE  /\ b.node_types = [o.node_types EXCEPT ![k] = NodeWithout(o.node_types[k], pid)]
           /\ b.indexes = Left(o.indexes, IndexUses(o, id, pid))
           /\ b.object_mappings = Unmapped(o, id, pid)
           /\ DOMAIN b = DOMAIN o
           /\ \A x \in DOMAIN o : x \notin {"node_types", "indexes", "object_mappings"} => b[x] = o[x]
<1> DEFINE t == [o.node_types EXCEPT ![k] = NodeWithout(o.node_types[k], pid)]
           u == Left(o.indexes, IndexUses(o, id, pid))
           v == Unmapped(o, id, pid)
<1>1. /\ o = [x \in DOMAIN o |-> o[x]] /\ {"node_types", "indexes", "object_mappings"} \subseteq DOMAIN o
  BY OntologyFields
<1>2. b = [o EXCEPT !.node_types = t, !.indexes = u, !.object_mappings = v]
  BY DEF WithoutNodeProperty
<1> HIDE DEF t, u, v
<1>3. /\ b.node_types = t /\ b.indexes = u /\ b.object_mappings = v /\ DOMAIN b = DOMAIN o
      /\ \A x \in DOMAIN o : x \notin {"node_types", "indexes", "object_mappings"} => b[x] = o[x]
  BY <1>1, <1>2
<1> QED
  BY <1>3 DEF t, u, v

\* The node, with its property and its constraints back.
AlikeWith(n, m) == \A cs \in Seq(ConstraintDef) :
    Shuffles(n.constraints, cs) => NodeAlike(n, ConstraintsOn(m, cs))

NodeIsBack(n, pid, p, m, us) ==
    /\ m.id = n.id /\ p.id = pid /\ pid \notin Ids(m.properties)
    /\ m.constraints = Left(n.constraints, Using(n.constraints, pid))
    /\ m \in NodeType
    /\ PropertiesOn(m, us) \in NodeType /\ PropertiesOn(m, us).id = n.id
    /\ PropertiesOn(m, us).constraints = m.constraints
    /\ AlikeWith(n, PropertiesOn(m, us))

LEMMA NodeBack ==
    ASSUME NEW n \in NodeType, DistinctIds(n.properties), NEW pid \in Ids(n.properties),
           NEW p, p = Find(n.properties, pid), NEW m, m = NodeWithout(n, pid),
           NEW us, us = Append(m.properties, p)
    PROVE  NodeIsBack(n, pid, p, m, us)
<1> DEFINE ps == n.properties
           qs == Left(ps, At(ps, pid))
           cs0 == Left(n.constraints, Using(n.constraints, pid))
<1>1. ps \in Seq(Property) /\ n.constraints \in Seq(ConstraintDef)
  BY DEF NodeType
<1>2. m = [n EXCEPT !.properties = qs, !.constraints = cs0]
  BY DEF NodeWithout
<1>3. /\ p.id = pid /\ pid \notin Ids(qs) /\ qs \in Seq(Property)
      /\ Append(qs, p) \in Seq(Property) /\ Shuffles(ps, Append(qs, p))
  BY <1>1, DroppedAdded, OthersLeft
<1>4. cs0 \in Seq(ConstraintDef)
  BY <1>1, LeftEntries
<1> HIDE DEF qs, cs0, ps
<1>5. m \in NodeType /\ m.properties = qs /\ m.constraints = cs0 /\ m.id = n.id
  BY <1>2, <1>3, <1>4 DEF NodeType
<1>6. us \in Seq(Property) /\ Shuffles(ps, us)
  BY <1>3, <1>5
<1>7. /\ PropertiesOn(m, us) \in NodeType /\ PropertiesOn(m, us).id = n.id
      /\ PropertiesOn(m, us).constraints = m.constraints
  BY <1>5, <1>6 DEF NodeType, PropertiesOn
<1>8. ASSUME NEW cs \in Seq(ConstraintDef), Shuffles(n.constraints, cs)
      PROVE  NodeAlike(n, ConstraintsOn(PropertiesOn(m, us), cs))
  <2> DEFINE x == ConstraintsOn(PropertiesOn(m, us), cs)
  <2>1. x = [n EXCEPT !.properties = us, !.constraints = cs]
    <3>1. PropertiesOn(m, us) = [n EXCEPT !.properties = us, !.constraints = cs0]
      BY <1>2 DEF NodeType, PropertiesOn
    <3> QED
      BY <3>1 DEF NodeType, ConstraintsOn
  <2>2. /\ x \in NodeType /\ x.id = n.id /\ x.label = n.label /\ x.description = n.description
        /\ x.properties = us /\ x.constraints = cs
    BY <1>6, <2>1 DEF NodeType
  <2> HIDE DEF x
  <2>3. NodeAlike(n, x)
    BY <1>6, <1>8, <2>2 DEF NodeAlike, ps
  <2> QED
    BY <2>3 DEF x
<1> QED
  BY <1>3, <1>5, <1>7, <1>8 DEF cs0, AlikeWith, NodeIsBack

LEMMA NodePropertyDeletionUndone ==
    ASSUME NEW o, Sound(o), NEW owner \in Owner, owner.kind = "node",
           NEW k \in DOMAIN o.node_types, o.node_types[k].id = owner.type_id,
           NEW pid \in Ids(o.node_types[k].properties),
           NEW b, Sound(b), b = WithoutNodeProperty(o, k, pid),
           NEW r, r.ont = b, r.inverse = NodePropertyRestored(o, k, owner, pid)
    PROVE  Undoes(o, r)
<1> DEFINE s == o.node_types
           n == s[k]
           id == owner.type_id
           C == Using(n.constraints, pid)
           X == IndexUses(o, id, pid)
           M == ObjectUses(o, id, pid)
           p == Find(n.properties, pid)
           nb == NodeWithout(n, pid)
           us == Append(nb.properties, p)
           m == PropertiesOn(nb, us)
           qc == Each(Picked(n.constraints, C), LAMBDA x : AddConstraintCmd(id, x))
           qx == Restored("indexes", Picked(o.indexes, X))
           qm == Each(Picked(o.object_mappings, M), UpdateObjectMappingCmd)
           w == r.inverse
<1>1. /\ o \in Ontology /\ b \in Ontology /\ s \in Seq(NodeType) /\ DistinctIds(s)
      /\ DistinctIds(b.node_types) /\ n \in NodeType /\ n.constraints \in Seq(ConstraintDef)
      /\ DistinctIds(n.properties) /\ DistinctIds(n.constraints)
      /\ o.object_mappings \in Seq(ObjectMapping) /\ DistinctIds(o.object_mappings)
  BY SoundIds, OntologyLists, EntryFacts DEF Sound
<1>2. w = <<AddPropertyCmd(owner, p)>> \o qc \o qx \o qm
  BY DEF NodePropertyRestored, Restored
<1>3. /\ nb.id = n.id /\ p.id = pid /\ pid \notin Ids(nb.properties)
      /\ nb.constraints = Left(n.constraints, C)
      /\ nb \in NodeType /\ m \in NodeType /\ m.id = n.id
      /\ m.constraints = nb.constraints
      /\ AlikeWith(n, m)
  <2>1. /\ n \in NodeType /\ DistinctIds(n.properties) /\ pid \in Ids(n.properties)
        /\ nb = NodeWithout(n, pid) /\ p = Find(n.properties, pid) /\ us = Append(nb.properties, p)
    BY <1>1
  <2> HIDE DEF n, nb, us, p
  <2>2. NodeIsBack(n, pid, p, nb, us)
    BY ONLY <2>1, NodeBack
  <2> QED
    BY <2>2 DEF NodeIsBack
<1>4. p \in Property /\ id \in NodeId
  <2>1. n.properties \in Seq(Property)
    BY <1>1 DEF NodeType
  <2>2. p \in Property
    BY <2>1, FoundTyped
  <2> QED
    BY <1>1, <2>2 DEF NodeType
<1>5. /\ b.node_types = [s EXCEPT ![k] = nb]
      /\ b.indexes = Left(o.indexes, X) /\ b.object_mappings = Unmapped(o, id, pid)
      /\ DOMAIN b = DOMAIN o
      /\ \A x \in DOMAIN o : x \notin {"node_types", "indexes", "object_mappings"} => b[x] = o[x]
  <2> HIDE DEF nb
  <2> QED
    BY <1>1, PropertyFields DEF nb
<1>6. /\ DOMAIN o = {"node_types", "edge_types", "indexes", "object_mappings",
                     "link_mappings", "segments", "table_inventory", "rules"}
  BY <1>1, OntologyFields
<1>7. C \subseteq DOMAIN n.constraints /\ X \subseteq DOMAIN o.indexes /\ M \subseteq DOMAIN o.object_mappings
  BY DEF Using, IndexUses, ObjectUses
<1> HIDE DEF w, C, X, M, p, nb
<1>8. k \in DOMAIN b.node_types /\ b.node_types[k] = nb
  <2> HIDE DEF s
  <2> QED
    BY <1>5 DEF s
\* The property.
<1> DEFINE a1 == WithNode(b, k, m)
<1>9. RunsTo(b, <<AddPropertyCmd(owner, p)>>, a1)
  <2>1. b.node_types[k].id = owner.type_id /\ p.id \notin Ids(b.node_types[k].properties)
    BY <1>3, <1>8
  <2>2. /\ ExecuteOne(b, AddPropertyCmd(owner, p)).ok
        /\ ExecuteOne(b, AddPropertyCmd(owner, p)).ont
              = WithNode(b, k, PropertiesOn(b.node_types[k], Append(b.node_types[k].properties, p)))
    BY <1>8, <2>1, NodePropertyBack
  <2>3. ExecuteOne(b, AddPropertyCmd(owner, p)).ont = a1
    BY <1>8, <2>2
  <2> HIDE DEF a1
  <2> QED
    BY <2>2, <2>3, RunsOnce
<1> HIDE DEF m
<1>10. /\ a1 \in Ontology /\ a1.node_types \in Seq(NodeType)
       /\ DOMAIN a1.node_types = DOMAIN b.node_types /\ a1.node_types[k] = m
       /\ \A j \in DOMAIN b.node_types : j # k => a1.node_types[j] = b.node_types[j]
       /\ \A y : WithNode(a1, k, y) = WithNode(b, k, y)
       /\ DOMAIN a1 = DOMAIN b /\ \A x \in DOMAIN b : x # "node_types" => a1[x] = b[x]
  <2>1. a1 = WithNode(b, k, m)
    OBVIOUS
  <2>2. b \in Ontology /\ k \in DOMAIN b.node_types /\ m \in NodeType
    BY <1>1, <1>3, <1>8
  <2> HIDE DEF a1
  <2> QED
    BY ONLY <2>2, <2>1, NodePut
<1> HIDE DEF a1
<1>11. DistinctIds(a1.node_types)
  <2>1. \A j \in DOMAIN b.node_types : a1.node_types[j].id = b.node_types[j].id
    BY <1>3, <1>8, <1>10
  <2> QED
    BY <1>1, <1>10, <2>1 DEF DistinctIds
\* Its constraints.
<1>12. /\ qc \in Seq(Command)
       /\ \E t \in Seq(ConstraintDef) :
             Shuffles(n.constraints, t) /\ RunsTo(a1, qc, WithNode(a1, k, ConstraintsOn(m, t)))
  <2>1. /\ k \in DOMAIN a1.node_types /\ a1.node_types[k].constraints = Left(n.constraints, C)
        /\ a1.node_types[k].id = id
    BY <1>3, <1>8, <1>10
  <2> DEFINE pc == Picked(n.constraints, C)
  <2>2. qc = [i \in DOMAIN pc |-> AddConstraintCmd(id, pc[i])]
    BY DEF Each
  <2>3. pc = Picked(n.constraints, C)
    OBVIOUS
  <2> HIDE DEF n, id, qc, pc
  <2>4. qc \in Seq(Command) /\ ConstraintsBack(a1, k, n.constraints, qc)
    <3>1. /\ a1 \in Ontology /\ n.constraints \in Seq(ConstraintDef) /\ DistinctIds(n.constraints)
          /\ id \in NodeId /\ C \subseteq DOMAIN n.constraints
      BY <1>1, <1>4, <1>7, <1>10
    <3> QED
      BY ONLY <3>1, <1>11, <2>1, <2>2, <2>3, ConstraintChunk
  <2> QED
    BY <1>10, <2>4 DEF ConstraintsBack
<1>13. PICK tc \in Seq(ConstraintDef) :
          Shuffles(n.constraints, tc) /\ RunsTo(a1, qc, WithNode(a1, k, ConstraintsOn(m, tc)))
  BY <1>12
<1> DEFINE m2 == ConstraintsOn(m, tc)
           a2 == WithNode(a1, k, m2)
<1>14. NodeAlike(n, m2) /\ m2 \in NodeType
  BY <1>3, <1>13 DEF NodeAlike, AlikeWith
<1> HIDE DEF m2
<1>15. /\ a2.node_types = [s EXCEPT ![k] = m2]
       /\ DOMAIN a2 = DOMAIN o /\ a2 = [x \in DOMAIN a2 |-> a2[x]]
       /\ \A x \in DOMAIN o : x # "node_types" => a2[x] = b[x]
  <2>1. a2 = WithNode(b, k, m2)
    BY <1>10
  <2> DEFINE t == [b.node_types EXCEPT ![k] = m2]
  <2>2. a2 = [b EXCEPT !.node_types = t]
    BY <2>1 DEF WithNode
  <2>3. b = [x \in DOMAIN b |-> b[x]] /\ "node_types" \in DOMAIN b
    BY <1>1, OntologyFields
  <2>4. t = [s EXCEPT ![k] = m2]
    <3> HIDE DEF s
    <3> QED
      BY <1>5
  <2> HIDE DEF t, a2
  <2>5. /\ a2.node_types = t /\ DOMAIN a2 = DOMAIN b /\ a2 = [x \in DOMAIN a2 |-> a2[x]]
        /\ \A x \in DOMAIN b : x # "node_types" => a2[x] = b[x]
    BY <2>2, <2>3
  <2> QED
    BY <2>4, <2>5, <1>5
<1> HIDE DEF a2
\* The indexes.
<1>16. /\ qx \in Seq(Command)
       /\ \E t \in Seq(IndexDef) :
             Shuffles(o.indexes, t) /\ RunsTo(a2, qx, WithField(a2, "indexes", t))
  <2>1. a2["indexes"] = Left(o["indexes"], X) /\ "indexes" \in DOMAIN a2 /\ X \subseteq DOMAIN o["indexes"]
    BY <1>5, <1>6, <1>7, <1>15
  <2>2. EntryType("indexes") = IndexDef
    BY DEF EntryType
  <2> QED
    BY <1>15, <2>1, <2>2, ListChunk
<1>17. PICK tx \in Seq(IndexDef) :
          Shuffles(o.indexes, tx) /\ RunsTo(a2, qx, WithField(a2, "indexes", tx))
  BY <1>16
<1> DEFINE a3 == WithField(a2, "indexes", tx)
<1>18. /\ a3.node_types = [s EXCEPT ![k] = m2] /\ a3.indexes = tx
       /\ DOMAIN a3 = DOMAIN o /\ a3 = [x \in DOMAIN a3 |-> a3[x]]
       /\ \A x \in DOMAIN o : x \notin {"node_types", "indexes"} => a3[x] = b[x]
  <2>1. "indexes" \in DOMAIN a2 /\ a2 = [x \in DOMAIN a2 |-> a2[x]] /\ DOMAIN a2 = DOMAIN o
    BY <1>6, <1>15
  <2>2. /\ DOMAIN a3 = DOMAIN a2 /\ a3 = [x \in DOMAIN a3 |-> a3[x]] /\ a3["indexes"] = tx
        /\ \A x \in DOMAIN a2 : x # "indexes" => a3[x] = a2[x]
    BY <2>1, FieldsOf
  <2> DEFINE t == [s EXCEPT ![k] = m2]
  <2>3. a2.node_types = t
    BY <1>15
  <2> HIDE DEF a3, t
  <2>4. a3.node_types = t
    BY <1>6, <2>1, <2>2, <2>3
  <2> QED
    BY <1>15, <2>1, <2>2, <2>4 DEF t
<1> HIDE DEF a3
\* The mappings.
<1>19. /\ qm \in Seq(Command)
       /\ RunsTo(a3, qm, WithField(a3, "object_mappings", o.object_mappings))
  <2> DEFINE os == o.object_mappings
             t == a3.object_mappings
  <2>1. t = Unmapped(o, id, pid) /\ "object_mappings" \in DOMAIN a3
    BY <1>5, <1>6, <1>18
  <2>2. /\ t = [i \in DOMAIN os |-> t[i]]
        /\ \A i \in DOMAIN os : t[i] = IF i \in M THEN Unmap(os[i], pid) ELSE os[i]
    BY <2>1 DEF Unmapped, M
  <2>3. \A i \in DOMAIN os : t[i].id = os[i].id /\ (i \notin M => t[i] = os[i])
    <3>1. \A i \in DOMAIN os : os[i] \in ObjectMapping
      BY <1>1, ListFacts
    <3>2. \A x \in ObjectMapping : Unmap(x, pid).id = x.id
      BY DEF Unmap, ObjectMapping
    <3> HIDE DEF t
    <3> QED
      BY <2>2, <3>1, <3>2
  <2>4. os \in Seq(ObjectMapping) /\ DistinctIds(os) /\ M \subseteq DOMAIN os
    BY <1>1, <1>7
  <2>5. t = a3.object_mappings
    OBVIOUS
  <2> HIDE DEF t, os
  <2>6. /\ Each(Picked(os, M), UpdateObjectMappingCmd) \in Seq(Command)
        /\ RunsTo(a3, Each(Picked(os, M), UpdateObjectMappingCmd), WithField(a3, "object_mappings", os))
    BY <1>18, <2>1, <2>2, <2>3, <2>4, <2>5, MappingsBack
  <2> QED
    BY <2>6 DEF os
<1> DEFINE a == WithField(a3, "object_mappings", o.object_mappings)
<1>20. /\ a.node_types = [s EXCEPT ![k] = m2] /\ a.indexes = tx /\ a.object_mappings = o.object_mappings
       /\ DOMAIN a = DOMAIN o /\ a = [x \in DOMAIN a |-> a[x]]
       /\ a.edge_types = o.edge_types /\ a.link_mappings = o.link_mappings
       /\ a.segments = o.segments /\ a.table_inventory = o.table_inventory /\ a.rules = o.rules
  <2>1. "object_mappings" \in DOMAIN a3 /\ a3 = [x \in DOMAIN a3 |-> a3[x]] /\ DOMAIN a3 = DOMAIN o
    BY <1>6, <1>18
  <2>2. /\ DOMAIN a = DOMAIN a3 /\ a = [x \in DOMAIN a |-> a[x]]
        /\ a["object_mappings"] = o.object_mappings
        /\ \A x \in DOMAIN a3 : x # "object_mappings" => a[x] = a3[x]
    BY <2>1, FieldsOf
  <2> DEFINE t == [s EXCEPT ![k] = m2]
  <2>3. a3.node_types = t
    BY <1>18
  <2> HIDE DEF a, t
  <2>4. a.node_types = t /\ a.indexes = tx
    BY <1>6, <1>18, <2>1, <2>2, <2>3
  <2>5. /\ a.edge_types = o.edge_types /\ a.link_mappings = o.link_mappings
        /\ a.segments = o.segments /\ a.table_inventory = o.table_inventory /\ a.rules = o.rules
    BY <1>5, <1>6, <1>18, <2>1, <2>2
  <2> QED
    BY <2>1, <2>2, <2>4, <2>5 DEF t
<1> HIDE DEF a
<1>21. RunsTo(b, w, a)
  <2>1. <<AddPropertyCmd(owner, p)>> \in Seq(Command)
    BY <1>4, RestoringCommands
  <2> DEFINE w0 == <<AddPropertyCmd(owner, p)>>
  <2> HIDE DEF qc, qx, qm, w0
  <2> DEFINE w1 == w0 \o qc
             w2 == w1 \o qx
  <2>2. w1 \in Seq(Command) /\ RunsTo(b, w1, a2)
    BY <2>1, <1>9, <1>12, <1>13, RunsFurther DEF a2, m2, w0
  <2> HIDE DEF w1
  <2>3. w2 \in Seq(Command) /\ RunsTo(b, w2, a3)
    BY <2>2, <1>16, <1>17, RunsFurther DEF a3
  <2> HIDE DEF w2
  <2>4. RunsTo(b, w2 \o qm, a)
    BY <2>3, <1>19, RunsFurther DEF a
  <2> QED
    BY <2>4, <1>2 DEF w0, w1, w2
<1>22. Reordered(o, a)
  <2> DEFINE t == [s EXCEPT ![k] = m2]
  <2>1. t \in Seq(NodeType)
    <3>1. t = [i \in DOMAIN s |-> t[i]] /\ t[k] = m2 /\ \A i \in DOMAIN s : i # k => t[i] = s[i]
      <4>1. k \in DOMAIN s
        OBVIOUS
      <4> HIDE DEF s
      <4> QED
        BY <4>1
    <3>2. \A i \in DOMAIN s : t[i] \in NodeType
      BY <1>1, <1>14, <3>1, ListFacts
    <3> HIDE DEF t
    <3> QED
      BY <1>1, <3>1, <3>2, RewrittenList
  <2>2. NodesMatch(s, t)
    BY <1>1, <1>14, ListsMatch
  <2>3. a.node_types = t
    BY <1>20
  <2> HIDE DEF t
  <2>4. a \in Ontology
    BY <1>1, <1>17, <1>20, <2>1, <2>3, OntologyOf, OntologyLists
  <2>5. Shuffles(o.indexes, a.indexes)
    BY <1>17, <1>20
  <2> QED
    BY <1>1, <1>20, <2>2, <2>3, <2>4, <2>5, ReorderedItself DEF Reordered
<1> QED
  BY <1>21, <1>22 DEF Undoes, w

LEMMA PropertyDeletionUndone ==
    ASSUME NEW o, Sound(o), NEW c \in Command, c.op = "delete_property",
           ExecuteOne(o, c).ok, Sound(ExecuteOne(o, c).ont)
    PROVE  Undoes(o, ExecuteOne(o, c))
<1> DEFINE ow == c.owner
           pid == c.property_id
           r == ExecuteOne(o, c)
<1>1. ow \in Owner
  BY CommandKinds DEF PropertyOps, PropertyCommand
<1>2. r = DeleteProperty(o, c)
  BY Zenon DEF ExecuteOne
<1>3. OwnerExists(o, ow)
  <2>1. \E p, q : DeleteProperty(o, c) = When(OwnerExists(o, c.owner) /\ p, q)
    BY Zenon DEF DeleteProperty
  <2> QED
    BY <1>2, <2>1 DEF When, Err
<1> HIDE DEF r
<1>4. r.ok /\ Sound(r.ont)
  BY DEF r
<1>5. CASE ow.kind = "node"
  <2>1. PICK k \in DOMAIN o.node_types : o.node_types[k].id = ow.type_id
    BY <1>3, <1>5, OwnerPlace
  <2> DEFINE g == pid \in Ids(o.node_types[k].properties)
             b == WithoutNodeProperty(o, k, pid)
             w == NodePropertyRestored(o, k, ow, pid)
  <2>2. r = When(g, Ok(b, w))
    BY <1>1, <1>2, <1>5, <2>1, NodePropertyDeletion
  <2> HIDE DEF g, b, w
  <2>3. g /\ r.ont = b /\ r.inverse = w
    BY <1>4, <2>2 DEF When, Ok, Err
  <2>4. Undoes(o, r)
    BY <1>1, <1>4, <1>5, <2>1, <2>3, NodePropertyDeletionUndone DEF g, b, w
  <2> QED
    BY <2>4 DEF r
<1>6. CASE ow.kind # "node"
  <2>1. PICK k \in DOMAIN o.edge_types : o.edge_types[k].id = ow.type_id
    BY <1>3, <1>6, OwnerPlace
  <2> DEFINE g == pid \in Ids(o.edge_types[k].properties)
             b == WithoutEdgeProperty(o, k, pid)
             w == EdgePropertyRestored(o, k, ow, pid)
  <2>2. r = When(g, Ok(b, w))
    BY <1>1, <1>2, <1>6, <2>1, EdgePropertyDeletion
  <2> HIDE DEF g, b, w
  <2>3. g /\ r.ont = b /\ r.inverse = w
    BY <1>4, <2>2 DEF When, Ok, Err
  <2>4. Undoes(o, r)
    BY <1>1, <1>4, <1>6, <2>1, <2>3, EdgePropertyDeletionUndone DEF g, b, w
  <2> QED
    BY <2>4 DEF r
<1> QED
  BY <1>5, <1>6

\* Every command is undone by the inverse it returns.
LEMMA OneUndone ==
    ASSUME NEW o, Sound(o), NEW c \in Command, ExecuteOne(o, c).ok, Sound(ExecuteOne(o, c).ont)
    PROVE  Undoes(o, ExecuteOne(o, c))
<1>1. c.op \in Ops
  BY CommandKinds
<1>2. CASE c.op \in FieldOps
  BY <1>2, FieldUndone
<1>3. CASE c.op \in {"add_index", "remove_index", "create_object_mapping",
                     "delete_object_mapping", "create_link_mapping", "delete_link_mapping"}
  BY <1>3, EntriesUndone
<1>4. CASE c.op \in {"update_object_mapping", "update_link_mapping"}
  BY <1>4, MappingUndone
<1>5. CASE c.op \in {"add_node", "create_node_type", "add_edge", "create_edge_type"}
  BY <1>5, CreationUndone
<1>6. CASE c.op \in {"add_constraint", "remove_constraint"}
  BY <1>6, ConstraintUndone
<1>7. CASE c.op = "delete_node"
  BY <1>7, NodeDeletionUndone
<1>8. CASE c.op = "delete_edge"
  BY <1>8, EdgeDeletionUndone
<1>9. CASE c.op = "add_property"
  BY <1>9, PropertyAddedUndone
<1>10. CASE c.op = "update_property"
  BY <1>10, PropertyUpdateUndone
<1>11. CASE c.op = "delete_property"
  BY <1>11, PropertyDeletionUndone
<1> QED
  BY <1>1, <1>2, <1>3, <1>4, <1>5, <1>6, <1>7, <1>8, <1>9, <1>10, <1>11 DEF Ops, FieldOps

-----------------------------------------------------------------------------
(* The commands an inverse is made of.                                      *)

Creates(q) == q \in Seq(Command) /\ \A i \in DOMAIN q : q[i].op \in CreationOps

\* One command, which patches no field that c does not patch.
Reverts(c, d) ==
    d \in Command /\ (d.op = "update_property" =>
                          c.op = "update_property" /\ DOMAIN d.patch \subseteq DOMAIN c.patch)

InverseKind(c, w) == Creates(w) \/ \E d : w = <<d>> /\ Reverts(c, d)

LEMMA CreatesBoth ==
    ASSUME NEW a, Creates(a), NEW b, Creates(b)
    PROVE  Creates(a \o b)
<1> DEFINE s == a \o b
<1>1. a \in Seq(Command) /\ b \in Seq(Command)
  BY DEF Creates
<1>2. /\ s \in Seq(Command)
      /\ \A i \in DOMAIN a : s[i] = a[i]
      /\ \A i \in DOMAIN b : s[Len(a) + i] = b[i]
      /\ \A i \in DOMAIN s : \/ i \in DOMAIN a /\ i <= Len(a)
                             \/ i - Len(a) \in DOMAIN b /\ i = Len(a) + (i - Len(a))
  BY <1>1, JoinFacts
<1> HIDE DEF s
<1>3. ASSUME NEW i \in DOMAIN s PROVE s[i].op \in CreationOps
  <2>1. CASE i \in DOMAIN a
    BY <1>2, <2>1 DEF Creates
  <2>2. CASE i - Len(a) \in DOMAIN b /\ i = Len(a) + (i - Len(a))
    <3>1. s[i] = b[i - Len(a)]
      BY <1>2, <2>2
    <3> QED
      BY <2>2, <3>1 DEF Creates
  <2> QED
    BY <1>2, <2>1, <2>2
<1>4. Creates(s)
  BY <1>2, <1>3 DEF Creates
<1> QED
  BY <1>4 DEF s

LEMMA CreatesOne ==
    ASSUME NEW d \in Command, d.op \in CreationOps
    PROVE  Creates(<<d>>)
BY DEF Creates

LEMMA CreatesEach ==
    /\ \A p \in Seq(EdgeType) : Creates(Each(p, CreateEdgeCmd))
    /\ \A p \in Seq(IndexDef) : Creates(Each(p, AddIndexCmd))
    /\ \A p \in Seq(ObjectMapping) : Creates(Each(p, CreateObjectMappingCmd))
    /\ \A p \in Seq(ObjectMapping) : Creates(Each(p, UpdateObjectMappingCmd))
    /\ \A p \in Seq(LinkMapping) : Creates(Each(p, CreateLinkMappingCmd))
    /\ \A n \in NodeId, p \in Seq(ConstraintDef) :
          Creates(Each(p, LAMBDA x : AddConstraintCmd(n, x)))
<1>1. \A p \in Seq(EdgeType) : Creates(Each(p, CreateEdgeCmd))
  BY EachRestored DEF IsEach, Creates, CreationOps, Each, CreateEdgeCmd
<1>2. \A p \in Seq(IndexDef) : Creates(Each(p, AddIndexCmd))
  BY EachRestored DEF IsEach, Creates, CreationOps, Each, AddIndexCmd
<1>3. \A p \in Seq(ObjectMapping) : Creates(Each(p, CreateObjectMappingCmd))
  BY EachRestored DEF IsEach, Creates, CreationOps, Each, CreateObjectMappingCmd
<1>4. \A p \in Seq(ObjectMapping) : Creates(Each(p, UpdateObjectMappingCmd))
  BY EachRestored DEF IsEach, Creates, CreationOps, Each, UpdateObjectMappingCmd
<1>5. \A p \in Seq(LinkMapping) : Creates(Each(p, CreateLinkMappingCmd))
  BY EachRestored DEF IsEach, Creates, CreationOps, Each, CreateLinkMappingCmd
<1>6. ASSUME NEW n \in NodeId, NEW p \in Seq(ConstraintDef)
      PROVE  Creates(Each(p, LAMBDA x : AddConstraintCmd(n, x)))
  BY EachRestored DEF IsEach, Creates, CreationOps, Each, AddConstraintCmd
<1> QED
  BY <1>1, <1>2, <1>3, <1>4, <1>5, <1>6

LEMMA RestoringOps ==
    /\ \A n : CreateNodeCmd(n).op = "create_node_type"
    /\ \A e : CreateEdgeCmd(e).op = "create_edge_type"
    /\ \A i : AddIndexCmd(i).op = "add_index"
    /\ \A m : CreateObjectMappingCmd(m).op = "create_object_mapping"
    /\ \A m : CreateLinkMappingCmd(m).op = "create_link_mapping"
    /\ \A n, x : AddConstraintCmd(n, x).op = "add_constraint"
    /\ \A ow, p : AddPropertyCmd(ow, p).op = "add_property"
BY DEF CreateNodeCmd, CreateEdgeCmd, AddIndexCmd, CreateObjectMappingCmd, CreateLinkMappingCmd,
       AddConstraintCmd, AddPropertyCmd

LEMMA RemovingCommands ==
    /\ \A id \in NodeId : DeleteNodeCmd(id) \in Command /\ DeleteNodeCmd(id).op = "delete_node"
    /\ \A id \in EdgeId : DeleteEdgeCmd(id) \in Command /\ DeleteEdgeCmd(id).op = "delete_edge"
    /\ \A ow \in Owner, id \in PropertyId :
          DeletePropertyCmd(ow, id) \in Command /\ DeletePropertyCmd(ow, id).op = "delete_property"
    /\ \A id \in MappingId :
          /\ DeleteObjectMappingCmd(id) \in Command
          /\ DeleteObjectMappingCmd(id).op = "delete_object_mapping"
          /\ DeleteLinkMappingCmd(id) \in Command
          /\ DeleteLinkMappingCmd(id).op = "delete_link_mapping"
    /\ \A n \in NodeId, id \in ConstraintId :
          [op |-> "remove_constraint", node_id |-> n, constraint_id |-> id] \in Command
    /\ \A id \in IndexId : [op |-> "remove_index", index_id |-> id] \in Command
<1>1. \A id \in NodeId : DeleteNodeCmd(id) \in NodeCommand /\ DeleteNodeCmd(id).op = "delete_node"
  BY DEF DeleteNodeCmd, NodeCommand
<1>2. \A id \in EdgeId : DeleteEdgeCmd(id) \in EdgeCommand /\ DeleteEdgeCmd(id).op = "delete_edge"
  BY DEF DeleteEdgeCmd, EdgeCommand
<1>3. \A ow \in Owner, id \in PropertyId :
         /\ DeletePropertyCmd(ow, id) \in PropertyCommand
         /\ DeletePropertyCmd(ow, id).op = "delete_property"
  BY DEF DeletePropertyCmd, PropertyCommand
<1>4. \A id \in MappingId :
         /\ DeleteObjectMappingCmd(id) \in MappingCommand
         /\ DeleteObjectMappingCmd(id).op = "delete_object_mapping"
         /\ DeleteLinkMappingCmd(id) \in MappingCommand
         /\ DeleteLinkMappingCmd(id).op = "delete_link_mapping"
  BY DEF DeleteObjectMappingCmd, DeleteLinkMappingCmd, MappingCommand
<1>5. \A n \in NodeId, id \in ConstraintId :
         [op |-> "remove_constraint", node_id |-> n, constraint_id |-> id] \in ConstraintCommand
  BY DEF ConstraintCommand
<1>6. \A id \in IndexId : [op |-> "remove_index", index_id |-> id] \in IndexCommand
  BY DEF IndexCommand
<1> QED
  BY <1>1, <1>2, <1>3, <1>4, <1>5, <1>6 DEF Command

\* A command that is its own kind of inverse.
LEMMA OneReverts ==
    ASSUME NEW c, NEW d \in Command, d.op # "update_property"
    PROVE  InverseKind(c, <<d>>)
BY DEF InverseKind, Reverts

LEMMA DeletionInverse ==
    ASSUME NEW o, Sound(o), NEW c \in Command, c.op \in {"delete_node", "delete_edge"},
           ExecuteOne(o, c).ok
    PROVE  Creates(ExecuteOne(o, c).inverse)
<1> DEFINE r == ExecuteOne(o, c)
<1>1. o \in Ontology
  BY DEF Sound
<1>2. /\ o.node_types \in Seq(NodeType) /\ o.edge_types \in Seq(EdgeType)
      /\ o.indexes \in Seq(IndexDef) /\ o.object_mappings \in Seq(ObjectMapping)
      /\ o.link_mappings \in Seq(LinkMapping)
  BY <1>1, OntologyLists
<1>3. CASE c.op = "delete_node"
  <2> DEFINE id == c.node_id
             g == id \in Ids(o.node_types)
             b == WithoutNode(o, id)
             w == NodeRestored(o, id)
  <2>1. r = DeleteNode(o, c)
    BY <1>3, Zenon DEF ExecuteOne
  <2>2. DeleteNode(o, c) = When(g, Ok(b, w))
    BY <1>1, NodeDeletion
  <2>3. g /\ r.inverse = w
    <3> HIDE DEF g, b, w, r
    <3>1. r.ok
      BY DEF r
    <3> QED
      BY <2>1, <2>2, <3>1, WhenOk
  <2> DEFINE w1 == <<CreateNodeCmd(Find(o.node_types, id))>>
             w2 == Each(Picked(o.edge_types, IncidentEdges(o, id)), CreateEdgeCmd)
             w3 == Each(Picked(o.indexes, IndexesOf(o, id)), AddIndexCmd)
             w4 == Each(Picked(o.object_mappings, ObjectsOf(o, id)), CreateObjectMappingCmd)
             w5 == Each(Picked(o.link_mappings, LinksOf(o, IncidentIds(o, id))), CreateLinkMappingCmd)
  <2>4. Creates(w1)
    <3>1. Find(o.node_types, id) \in NodeType
      BY <1>2, <2>3, FoundTyped
    <3> QED
      BY <3>1, RestoringCommands, RestoringOps, CreatesOne DEF CreationOps
  <2>5. Creates(w2)
    <3>1. Picked(o.edge_types, IncidentEdges(o, id)) \in Seq(EdgeType)
      BY <1>2, PickedList DEF IncidentEdges
    <3> QED
      BY <3>1, CreatesEach
  <2>6. Creates(w3)
    <3>1. Picked(o.indexes, IndexesOf(o, id)) \in Seq(IndexDef)
      BY <1>2, PickedList DEF IndexesOf
    <3> QED
      BY <3>1, CreatesEach
  <2>7. Creates(w4)
    <3>1. Picked(o.object_mappings, ObjectsOf(o, id)) \in Seq(ObjectMapping)
      BY <1>2, PickedList DEF ObjectsOf
    <3> QED
      BY <3>1, CreatesEach
  <2>8. Creates(w5)
    <3>1. Picked(o.link_mappings, LinksOf(o, IncidentIds(o, id))) \in Seq(LinkMapping)
      BY <1>2, PickedList DEF LinksOf
    <3> QED
      BY <3>1, CreatesEach
  <2>9. w = w1 \o w2 \o w3 \o w4 \o w5
    BY DEF NodeRestored
  <2> HIDE DEF w, w1, w2, w3, w4, w5
  <2> QED
    BY <2>3, <2>4, <2>5, <2>6, <2>7, <2>8, <2>9, CreatesBoth
<1>4. CASE c.op = "delete_edge"
  <2> DEFINE id == c.edge_id
             g == id \in Ids(o.edge_types)
             b == WithoutEdge(o, id)
             w == EdgeRestored(o, id)
  <2>1. r = DeleteEdge(o, c)
    BY <1>4, Zenon DEF ExecuteOne
  <2>2. DeleteEdge(o, c) = When(g, Ok(b, w))
    BY <1>1, EdgeDeletion
  <2>3. g /\ r.inverse = w
    <3> HIDE DEF g, b, w, r
    <3>1. r.ok
      BY DEF r
    <3> QED
      BY <2>1, <2>2, <3>1, WhenOk
  <2> DEFINE w1 == <<CreateEdgeCmd(Find(o.edge_types, id))>>
             w2 == Each(Picked(o.link_mappings, LinksOf(o, {id})), CreateLinkMappingCmd)
  <2>4. Creates(w1)
    <3>1. Find(o.edge_types, id) \in EdgeType
      BY <1>2, <2>3, FoundTyped
    <3> QED
      BY <3>1, RestoringCommands, RestoringOps, CreatesOne DEF CreationOps
  <2>5. Creates(w2)
    <3>1. Picked(o.link_mappings, LinksOf(o, {id})) \in Seq(LinkMapping)
      BY <1>2, PickedList DEF LinksOf
    <3> QED
      BY <3>1, CreatesEach
  <2>6. w = w1 \o w2
    BY DEF EdgeRestored
  <2> HIDE DEF w, w1, w2
  <2> QED
    BY <2>3, <2>4, <2>5, <2>6, CreatesBoth
<1> QED
  BY <1>3, <1>4

LEMMA FieldInverse ==
    ASSUME NEW o, Sound(o), NEW c \in Command, c.op \in FieldOps, ExecuteOne(o, c).ok
    PROVE  InverseKind(c, ExecuteOne(o, c).inverse)
<1> DEFINE L == ListOf(c)
           id == TargetOf(c)
           f == FieldOf(c)
           s == o[L]
           v == Find(s, id)[f]
           d == [c EXCEPT ![ArgOf(c)] = v]
           b == [o EXCEPT ![L] = SetAll(s, id, f, c[ArgOf(c)])]
           g == id \in Ids(s) /\ FieldFree(o, c)
           r == ExecuteOne(o, c)
<1>1. r = When(g, Ok(b, <<d>>))
  BY FieldForms, Zenon DEF FieldSet
<1>2. g /\ r.inverse = <<d>>
  <2> HIDE DEF g, b, d, r
  <2>1. r.ok
    BY DEF r
  <2> QED
    BY <1>1, <2>1, WhenOk
<1>3. o.node_types \in Seq(NodeType) /\ o.edge_types \in Seq(EdgeType)
  BY OntologyLists DEF Sound
<1>4. c.op \in {"rename_node", "update_node_description"} =>
         c \in NodeCommand /\ c.op \in NodeOps /\ L = "node_types"
  BY CommandKinds, FieldParts DEF NodeOps
<1>5. c.op \in {"rename_edge", "update_edge_cardinality", "update_edge_description"} =>
         c \in EdgeCommand /\ c.op \in EdgeOps /\ L = "edge_types"
  BY CommandKinds, FieldParts DEF EdgeOps
<1>6. d.op = c.op
  <2> HIDE DEF v
  <2> QED
    BY FieldCommand
<1>7. d \in Command
  <2>1. CASE c.op \in {"rename_node", "update_node_description"}
    <3>1. Find(s, id) \in NodeType
      BY <1>2, <1>3, <1>4, <2>1, FoundTyped
    <3>2. /\ c.op = "rename_node" => f = "label" /\ ArgOf(c) = "new_label"
          /\ c.op = "update_node_description" => f = "description" /\ ArgOf(c) = "description"
      BY FieldParts
    <3>3. v \in Text
      BY <2>1, <3>1, <3>2 DEF NodeType
    <3> HIDE DEF v
    <3>4. d \in NodeCommand
      <4>1. CASE c.op = "rename_node"
        <5>1. c \in [op : {"rename_node"}, node_id : NodeId, new_label : Text]
          BY <1>4, <2>1, <4>1 DEF NodeCommand
        <5>2. d = [c EXCEPT !.new_label = v]
          BY <3>2, <4>1
        <5>3. d \in [op : {"rename_node"}, node_id : NodeId, new_label : Text]
          BY <3>3, <5>1, <5>2
        <5> QED
          BY <5>3 DEF NodeCommand
      <4>2. CASE c.op = "update_node_description"
        <5>1. c \in [op : {"update_node_description"}, node_id : NodeId, description : Text]
          BY <1>4, <2>1, <4>2 DEF NodeCommand
        <5>2. d = [c EXCEPT !.description = v]
          BY <3>2, <4>2
        <5>3. d \in [op : {"update_node_description"}, node_id : NodeId, description : Text]
          BY <3>3, <5>1, <5>2
        <5> QED
          BY <5>3 DEF NodeCommand
      <4> QED
        BY <2>1, <4>1, <4>2
    <3> QED
      BY <3>4 DEF Command
  <2>2. CASE c.op \in {"rename_edge", "update_edge_cardinality", "update_edge_description"}
    <3>1. Find(s, id) \in EdgeType
      BY <1>2, <1>3, <1>5, <2>2, FoundTyped
    <3>2. /\ c.op = "rename_edge" => f = "label" /\ ArgOf(c) = "new_label"
          /\ c.op = "update_edge_cardinality" => f = "cardinality" /\ ArgOf(c) = "cardinality"
          /\ c.op = "update_edge_description" => f = "description" /\ ArgOf(c) = "description"
      BY FieldParts
    <3>3. /\ c.op # "update_edge_cardinality" => v \in Text
          /\ c.op = "update_edge_cardinality" => v \in Cardinalities
      BY <2>2, <3>1, <3>2 DEF EdgeType
    <3> HIDE DEF v
    <3>4. d \in EdgeCommand
      <4>1. CASE c.op = "rename_edge"
        <5>1. c \in [op : {"rename_edge"}, edge_id : EdgeId, new_label : Text]
          BY <1>5, <2>2, <4>1 DEF EdgeCommand
        <5>2. d = [c EXCEPT !.new_label = v]
          BY <3>2, <4>1
        <5>3. d \in [op : {"rename_edge"}, edge_id : EdgeId, new_label : Text]
          BY <3>3, <4>1, <5>1, <5>2
        <5> QED
          BY <5>3 DEF EdgeCommand
      <4>2. CASE c.op = "update_edge_cardinality"
        <5>1. c \in [op : {"update_edge_cardinality"}, edge_id : EdgeId, cardinality : Cardinalities]
          BY <1>5, <2>2, <4>2 DEF EdgeCommand
        <5>2. d = [c EXCEPT !.cardinality = v]
          BY <3>2, <4>2
        <5>3. d \in [op : {"update_edge_cardinality"}, edge_id : EdgeId, cardinality : Cardinalities]
          BY <3>3, <4>2, <5>1, <5>2
        <5> QED
          BY <5>3 DEF EdgeCommand
      <4>3. CASE c.op = "update_edge_description"
        <5>1. c \in [op : {"update_edge_description"}, edge_id : EdgeId, description : Text]
          BY <1>5, <2>2, <4>3 DEF EdgeCommand
        <5>2. d = [c EXCEPT !.description = v]
          BY <3>2, <4>3
        <5>3. d \in [op : {"update_edge_description"}, edge_id : EdgeId, description : Text]
          BY <3>3, <4>3, <5>1, <5>2
        <5> QED
          BY <5>3 DEF EdgeCommand
      <4> QED
        BY <2>2, <4>1, <4>2, <4>3
    <3> QED
      BY <3>4 DEF Command
  <2> QED
    BY <2>1, <2>2 DEF FieldOps
<1>8. d.op # "update_property"
  BY <1>6 DEF FieldOps
<1> HIDE DEF d, r
<1>9. InverseKind(c, r.inverse)
  BY <1>2, <1>7, <1>8, OneReverts
<1> QED
  BY <1>9 DEF r

LEMMA CreationInverse ==
    ASSUME NEW o, Sound(o), NEW c \in Command, ExecuteOne(o, c).ok,
           c.op \in {"add_node", "create_node_type", "add_edge", "create_edge_type"}
    PROVE  InverseKind(c, ExecuteOne(o, c).inverse)
<1> DEFINE r == ExecuteOne(o, c)
<1>1. ASSUME NEW n, n.id \in NodeId, r = CreateNodeType(o, n)
      PROVE  InverseKind(c, r.inverse)
  <2> DEFINE g == \A x \in ToSet(o.node_types) : x.id # n.id /\ x.label # n.label
             b == [o EXCEPT !.node_types = Append(@, n)]
             d == DeleteNodeCmd(n.id)
  <2>1. r = When(g, Ok(b, <<d>>))
    BY <1>1, CreateForms
  <2>2. r.ok
    OBVIOUS
  <2>3. d \in Command /\ d.op = "delete_node"
    BY <1>1, RemovingCommands
  <2> HIDE DEF g, b, d, r
  <2>4. r.inverse = <<d>>
    BY <2>1, <2>2, WhenOk
  <2> QED
    BY <2>3, <2>4, OneReverts
<1>2. ASSUME NEW e, e.id \in EdgeId, r = CreateEdgeType(o, e)
      PROVE  InverseKind(c, r.inverse)
  <2> DEFINE g == /\ {e.source_node_id, e.target_node_id} \subseteq Ids(o.node_types)
                  /\ \A x \in ToSet(o.edge_types) : x.id # e.id /\ Signature(x) # Signature(e)
             b == [o EXCEPT !.edge_types = Append(@, e)]
             d == DeleteEdgeCmd(e.id)
  <2>1. r = When(g, Ok(b, <<d>>))
    BY <1>2, CreateForms
  <2>2. r.ok
    OBVIOUS
  <2>3. d \in Command /\ d.op = "delete_edge"
    BY <1>2, RemovingCommands
  <2> HIDE DEF g, b, d, r
  <2>4. r.inverse = <<d>>
    BY <2>1, <2>2, WhenOk
  <2> QED
    BY <2>3, <2>4, OneReverts
<1>3. /\ c.op \in NodeOps => c \in NodeCommand
      /\ c.op \in EdgeOps => c \in EdgeCommand
  BY CommandKinds
<1>4. CASE c.op = "add_node"
  <2>1. r = CreateNodeType(o, NewNode(c))
    <3>1. r = AddNode(o, c)
      BY <1>4, Zenon DEF ExecuteOne
    <3> QED
      BY <3>1 DEF AddNode
  <2>2. NewNode(c).id \in NodeId
    <3>1. c \in [op : {"add_node"}, id : NodeId, label : Text, description : Text]
      BY <1>3, <1>4 DEF NodeOps, NodeCommand
    <3> QED
      BY <3>1 DEF NewNode
  <2> HIDE DEF r
  <2>3. InverseKind(c, r.inverse)
    BY <2>1, <2>2, <1>1
  <2> QED
    BY <2>3 DEF r
<1>5. CASE c.op = "create_node_type"
  <2>1. r = CreateNodeType(o, c.node)
    BY <1>5, Zenon DEF ExecuteOne
  <2>2. c.node.id \in NodeId
    BY <1>3, <1>5 DEF NodeOps, NodeCommand, NodeType
  <2> HIDE DEF r
  <2>3. InverseKind(c, r.inverse)
    BY <2>1, <2>2, <1>1
  <2> QED
    BY <2>3 DEF r
<1>6. CASE c.op = "add_edge"
  <2>1. r = CreateEdgeType(o, NewEdge(c))
    <3>1. r = AddEdge(o, c)
      BY <1>6, Zenon DEF ExecuteOne
    <3> QED
      BY <3>1 DEF AddEdge
  <2>2. NewEdge(c).id \in EdgeId
    <3>1. c \in [op : {"add_edge"}, id : EdgeId, label : Text, source_node_id : NodeId,
                 target_node_id : NodeId, cardinality : Cardinalities]
      BY <1>3, <1>6 DEF EdgeOps, EdgeCommand
    <3> QED
      BY <3>1 DEF NewEdge
  <2> HIDE DEF r
  <2>3. InverseKind(c, r.inverse)
    BY <2>1, <2>2, <1>2
  <2> QED
    BY <2>3 DEF r
<1>7. CASE c.op = "create_edge_type"
  <2>1. r = CreateEdgeType(o, c.edge)
    BY <1>7, Zenon DEF ExecuteOne
  <2>2. c.edge.id \in EdgeId
    BY <1>3, <1>7 DEF EdgeOps, EdgeCommand, EdgeType
  <2> HIDE DEF r
  <2>3. InverseKind(c, r.inverse)
    BY <2>1, <2>2, <1>2
  <2> QED
    BY <2>3 DEF r
<1> QED
  BY <1>4, <1>5, <1>6, <1>7

LEMMA PropertyAdditionInverse ==
    ASSUME NEW o, NEW c \in Command, c.op = "add_property", ExecuteOne(o, c).ok
    PROVE  InverseKind(c, ExecuteOne(o, c).inverse)
<1> DEFINE ow == c.owner
           p == c.property
           r == ExecuteOne(o, c)
           g == OwnerExists(o, ow) /\ p.id \notin Ids(OwnerProperties(o, ow))
           b == WithProperties(o, ow, Append(OwnerProperties(o, ow), p))
           d == DeletePropertyCmd(ow, p.id)
<1>1. c \in [op : {"add_property"}, owner : Owner, property : Property]
  BY CommandKinds DEF PropertyOps, PropertyCommand
<1>2. ow \in Owner /\ p.id \in PropertyId
  BY <1>1 DEF Property
<1>3. r = When(g, Ok(b, <<d>>))
  <2>1. r = AddProperty(o, c)
    BY Zenon DEF ExecuteOne
  <2> QED
    BY <2>1, Zenon DEF AddProperty
<1>4. d \in Command /\ d.op = "delete_property"
  BY <1>2, RemovingCommands
<1>5. r.ok
  OBVIOUS
<1> HIDE DEF g, b, d, r
<1>6. r.inverse = <<d>>
  BY <1>3, <1>5, WhenOk
<1>7. InverseKind(c, r.inverse)
  BY <1>4, <1>6, OneReverts
<1> QED
  BY <1>7 DEF r

LEMMA PropertyUpdateInverse ==
    ASSUME NEW o, Sound(o), NEW c \in Command, c.op = "update_property", ExecuteOne(o, c).ok
    PROVE  InverseKind(c, ExecuteOne(o, c).inverse)
<1> DEFINE ow == c.owner
           pid == c.property_id
           ps == OwnerProperties(o, ow)
           b == WithProperties(o, ow, PatchAll(ps, pid, c.patch))
           p == Find(ps, pid)
           old == OldOf(p, c.patch)
           d == [c EXCEPT !.patch = old]
           g == OwnerExists(o, ow) /\ pid \in Ids(ps)
           r == ExecuteOne(o, c)
<1>1. c \in [op : {"update_property"}, owner : Owner, property_id : PropertyId, patch : Patch]
  BY CommandKinds DEF PropertyOps, PropertyCommand
<1>2. ow \in Owner /\ c.patch \in Patch /\ DOMAIN c.patch \subseteq {"name", "nullable", "default_value"}
  BY <1>1, PatchFields
<1>3. ExecuteOne(o, c) = UpdateProperty(o, c)
  BY Zenon DEF ExecuteOne
<1>4. OwnerExists(o, ow)
  <2>1. \E q, w : UpdateProperty(o, c) = When(OwnerExists(o, c.owner) /\ q, w)
    BY Zenon DEF UpdateProperty
  <2> QED
    BY <1>3, <2>1 DEF When, Err
<1>5. r = When(g, Ok(b, <<d>>))
  <2>1. UpdateProperty(o, c) = When(g, Ok(b, <<d>>))
    BY <1>2, <1>4, UpdateForms DEF PatchAll, OldOf
  <2> QED
    BY <1>3, <2>1
<1>6. g /\ r.inverse = <<d>>
  <2>1. r.ok
    OBVIOUS
  <2> HIDE DEF g, b, d, r
  <2> QED
    BY <1>5, <2>1, WhenOk
<1>7. p \in Property
  BY <1>2, <1>4, <1>6, OwnerSeen, FoundTyped
<1>8. old \in Patch
  <2> DEFINE fs == DOMAIN c.patch
             v == [name |-> p.name, nullable |-> p.nullable, default_value |-> p.default_value]
  <2>1. fs \in SUBSET {"name", "nullable", "default_value"}
    BY <1>2
  <2>2. v \in Patched
    BY <1>7 DEF Property, Patched
  <2>3. v.name = p.name /\ v.nullable = p.nullable /\ v.default_value = p.default_value
    OBVIOUS
  <2>4. old = [f \in fs |-> p[f]]
    BY DEF OldOf
  <2> HIDE DEF v, p, fs, old
  <2>5. \A f \in fs : p[f] = v[f]
    BY <2>1, <2>3
  <2>6. old = [f \in fs |-> v[f]]
    BY <2>4, <2>5
  <2> QED
    BY <2>1, <2>2, <2>6 DEF Patch
<1>9. DOMAIN old = DOMAIN c.patch
  BY DEF OldOf
<1> HIDE DEF old
<1>10. /\ d \in [op : {"update_property"}, owner : Owner, property_id : PropertyId, patch : Patch]
       /\ d.patch = old
  BY <1>1, <1>8
<1>11. d \in Command
  <2> HIDE DEF d
  <2> QED
    BY <1>10 DEF Command, PropertyCommand
<1>12. Reverts(c, d)
  BY <1>9, <1>10, <1>11 DEF Reverts
<1> HIDE DEF d, r
<1>13. InverseKind(c, r.inverse)
  BY <1>6, <1>12 DEF InverseKind
<1> QED
  BY <1>13 DEF r

LEMMA PropertyDeletionInverse ==
    ASSUME NEW o, Sound(o), NEW c \in Command, c.op = "delete_property", ExecuteOne(o, c).ok
    PROVE  Creates(ExecuteOne(o, c).inverse)
<1> DEFINE ow == c.owner
           pid == c.property_id
           r == ExecuteOne(o, c)
<1>1. ow \in Owner
  BY CommandKinds DEF PropertyOps, PropertyCommand
<1>2. r = DeleteProperty(o, c)
  BY Zenon DEF ExecuteOne
<1>3. OwnerExists(o, ow)
  <2>1. \E p, q : DeleteProperty(o, c) = When(OwnerExists(o, c.owner) /\ p, q)
    BY Zenon DEF DeleteProperty
  <2> QED
    BY <1>2, <2>1 DEF When, Err
<1> HIDE DEF r
<1>4. r.ok /\ o \in Ontology
  BY DEF r, Sound
<1>5. /\ o.indexes \in Seq(IndexDef) /\ o.object_mappings \in Seq(ObjectMapping)
  BY <1>4, OntologyLists
<1>6. CASE ow.kind = "node"
  <2>1. PICK k \in DOMAIN o.node_types : o.node_types[k].id = ow.type_id
    BY <1>3, <1>6, OwnerPlace
  <2> DEFINE n == o.node_types[k]
             g == pid \in Ids(n.properties)
             b == WithoutNodeProperty(o, k, pid)
             w == NodePropertyRestored(o, k, ow, pid)
  <2>2. r = When(g, Ok(b, w))
    BY <1>1, <1>2, <1>6, <2>1, NodePropertyDeletion
  <2>3. g /\ r.inverse = w
    <3> HIDE DEF g, b, w
    <3> QED
      BY <1>4, <2>2 DEF When, Ok, Err
  <2>4. n.properties \in Seq(Property) /\ n.constraints \in Seq(ConstraintDef) /\ n.id \in NodeId
    BY <1>4, EntryFacts DEF NodeType
  <2> DEFINE w1 == <<AddPropertyCmd(ow, Find(n.properties, pid))>>
             p2 == Picked(n.constraints, Using(n.constraints, pid))
             w2 == Each(p2, LAMBDA x : AddConstraintCmd(ow.type_id, x))
             w3 == Each(Picked(o.indexes, IndexUses(o, n.id, pid)), AddIndexCmd)
             w4 == Each(Picked(o.object_mappings, ObjectUses(o, n.id, pid)), UpdateObjectMappingCmd)
  <2>5. Creates(w1)
    <3>1. Find(n.properties, pid) \in Property
      BY <2>3, <2>4, FoundTyped
    <3> QED
      BY <1>1, <3>1, RestoringCommands, RestoringOps, CreatesOne DEF CreationOps
  <2>6. Creates(w2)
    <3>1. p2 \in Seq(ConstraintDef)
      BY <2>4, PickedList DEF Using
    <3>2. ow.type_id \in NodeId
      BY <2>1, <2>4
    <3> HIDE DEF p2
    <3> QED
      BY <3>1, <3>2, CreatesEach
  <2>7. Creates(w3)
    <3>1. Picked(o.indexes, IndexUses(o, n.id, pid)) \in Seq(IndexDef)
      BY <1>5, PickedList DEF IndexUses
    <3> QED
      BY <3>1, CreatesEach
  <2>8. Creates(w4)
    <3>1. Picked(o.object_mappings, ObjectUses(o, n.id, pid)) \in Seq(ObjectMapping)
      BY <1>5, PickedList DEF ObjectUses
    <3> QED
      BY <3>1, CreatesEach
  <2>9. w = w1 \o w2 \o w3 \o w4
    BY DEF NodePropertyRestored
  <2> HIDE DEF w, w1, w2, w3, w4
  <2>10. Creates(r.inverse)
    BY <2>3, <2>5, <2>6, <2>7, <2>8, <2>9, CreatesBoth
  <2> QED
    BY <2>10 DEF r
<1>7. CASE ow.kind # "node"
  <2>1. PICK k \in DOMAIN o.edge_types : o.edge_types[k].id = ow.type_id
    BY <1>3, <1>7, OwnerPlace
  <2> DEFINE ps == o.edge_types[k].properties
             g == pid \in Ids(ps)
             b == WithoutEdgeProperty(o, k, pid)
             w == EdgePropertyRestored(o, k, ow, pid)
  <2>2. r = When(g, Ok(b, w))
    BY <1>1, <1>2, <1>7, <2>1, EdgePropertyDeletion
  <2>3. g /\ r.inverse = w
    <3> HIDE DEF g, b, w
    <3> QED
      BY <1>4, <2>2 DEF When, Ok, Err
  <2>4. Find(ps, pid) \in Property
    BY <1>4, <2>3, EntryFacts, FoundTyped
  <2>5. Creates(w)
    BY <1>1, <2>4, RestoringCommands, RestoringOps, CreatesOne DEF CreationOps, EdgePropertyRestored
  <2> HIDE DEF w
  <2>6. Creates(r.inverse)
    BY <2>3, <2>5
  <2> QED
    BY <2>6 DEF r
<1> QED
  BY <1>6, <1>7

LEMMA ConstraintInverse ==
    ASSUME NEW o, Sound(o), NEW c \in Command, ExecuteOne(o, c).ok,
           c.op \in {"add_constraint", "remove_constraint"}
    PROVE  InverseKind(c, ExecuteOne(o, c).inverse)
<1> DEFINE r == ExecuteOne(o, c)
<1>1. o \in Ontology /\ o.node_types \in Seq(NodeType) /\ DistinctIds(o.node_types)
  BY OntologyLists, SoundIds DEF Sound
<1>2. c.node_id \in Ids(o.node_types)
  <2>1. \E p, q, v, w : /\ AddConstraint(o, c) = When(c.node_id \in Ids(o.node_types) /\ p, v)
                        /\ RemoveConstraint(o, c) = When(c.node_id \in Ids(o.node_types) /\ q, w)
    BY Zenon DEF AddConstraint, RemoveConstraint
  <2>2. /\ c.op = "add_constraint" => r = AddConstraint(o, c)
        /\ c.op = "remove_constraint" => r = RemoveConstraint(o, c)
    BY Zenon DEF ExecuteOne
  <2> QED
    BY <2>1, <2>2 DEF When, Err
<1>3. PICK k \in DOMAIN o.node_types : o.node_types[k].id = c.node_id
  BY <1>2 DEF Ids
<1> DEFINE n == o.node_types[k]
<1>4. n.id \in NodeId /\ n.constraints \in Seq(ConstraintDef)
  BY <1>1, <1>3, EntryFacts DEF NodeType
<1>5. c \in ConstraintCommand
  BY CommandKinds DEF ConstraintOps
<1>6. CASE c.op = "add_constraint"
  <2> DEFINE x == c.constraint
             g == x.id \notin Ids(n.constraints)
             b == WithNode(o, k, ConstraintsOn(n, Append(n.constraints, x)))
             d == [op |-> "remove_constraint", node_id |-> n.id, constraint_id |-> x.id]
  <2>1. r = When(g, Ok(b, <<d>>))
    BY <1>1, <1>3, <1>6, ConstraintForms
  <2>2. x.id \in ConstraintId
    BY <1>5, <1>6 DEF ConstraintCommand, ConstraintDef
  <2>3. d \in Command /\ d.op = "remove_constraint"
    BY <1>4, <2>2, RemovingCommands
  <2>4. r.ok
    OBVIOUS
  <2> HIDE DEF g, b, d, r
  <2>5. r.inverse = <<d>>
    BY <2>1, <2>4, WhenOk
  <2>6. InverseKind(c, r.inverse)
    BY <2>3, <2>5, OneReverts
  <2> QED
    BY <2>6 DEF r
<1>7. CASE c.op = "remove_constraint"
  <2> DEFINE cs == n.constraints
             g == c.constraint_id \in Ids(cs)
             b == WithNode(o, k, ConstraintsOn(n, Picked(cs, OthersAt(cs, c.constraint_id))))
             d == AddConstraintCmd(n.id, Find(cs, c.constraint_id))
  <2>1. r = When(g, Ok(b, <<d>>))
    BY ZenonT(60), <1>1, <1>3, <1>7, ConstraintForms
  <2>2. g /\ r.inverse = <<d>>
    <3>1. r.ok
      OBVIOUS
    <3> HIDE DEF g, b, d, r
    <3> QED
      BY <2>1, <3>1, WhenOk
  <2>3. d \in Command /\ d.op = "add_constraint"
    BY <1>4, <2>2, FoundTyped, RestoringCommands, RestoringOps
  <2> HIDE DEF g, b, d, r
  <2>4. InverseKind(c, r.inverse)
    BY <2>2, <2>3, OneReverts
  <2> QED
    BY <2>4 DEF r
<1> QED
  BY <1>6, <1>7

LEMMA EntriesInverse ==
    ASSUME NEW o, Sound(o), NEW c \in Command, ExecuteOne(o, c).ok,
           c.op \in {"add_index", "remove_index", "create_object_mapping",
                     "delete_object_mapping", "create_link_mapping", "delete_link_mapping"}
    PROVE  InverseKind(c, ExecuteOne(o, c).inverse)
<1> DEFINE r == ExecuteOne(o, c)
<1>1. /\ o.indexes \in Seq(IndexDef) /\ o.object_mappings \in Seq(ObjectMapping)
      /\ o.link_mappings \in Seq(LinkMapping)
  BY OntologyLists DEF Sound
<1>2. /\ c.op \in IndexOps => c \in IndexCommand
      /\ c.op \in MappingOps => c \in MappingCommand
  BY CommandKinds
<1>3. ASSUME NEW list, NEW x, NEW d \in Command, d.op # "update_property", Adds(o, c, list, x, d)
      PROVE  InverseKind(c, r.inverse)
  <2> DEFINE g == x.id \notin Ids(o[list])
             b == [o EXCEPT ![list] = Append(@, x)]
  <2>1. r = When(g, Ok(b, <<d>>))
    BY <1>3, Zenon DEF Adds
  <2>2. r.ok
    OBVIOUS
  <2> HIDE DEF g, b, r
  <2>3. r.inverse = <<d>>
    BY <2>1, <2>2, WhenOk
  <2> QED
    BY <1>3, <2>3, OneReverts
<1>4. ASSUME NEW list, NEW id, NEW d, Drops(o, c, list, id, <<d>>),
             id \in Ids(o[list]) => d \in Command /\ d.op # "update_property"
      PROVE  InverseKind(c, r.inverse)
  <2> DEFINE g == id \in Ids(o[list])
             b == [o EXCEPT ![list] = Picked(o[list], OthersAt(o[list], id))]
  <2>1. r = When(g, Ok(b, <<d>>))
    BY <1>4, Zenon DEF Drops
  <2>2. g /\ r.inverse = <<d>>
    <3>1. r.ok
      OBVIOUS
    <3> HIDE DEF g, b, r
    <3> QED
      BY <2>1, <3>1, WhenOk
  <2>3. d \in Command /\ d.op # "update_property"
    BY <1>4, <2>2
  <2> HIDE DEF r
  <2> QED
    BY <2>2, <2>3, OneReverts
<1> HIDE DEF r
<1>5. CASE c.op = "add_index"
  <2> DEFINE d == [op |-> "remove_index", index_id |-> c.index.id]
  <2>1. c.index.id \in IndexId
    BY <1>2, <1>5 DEF IndexOps, IndexCommand, IndexDef
  <2>2. d \in Command /\ d.op = "remove_index"
    BY <2>1, RemovingCommands
  <2>3. Adds(o, c, "indexes", c.index, d)
    BY <1>5, AdditionForms
  <2> HIDE DEF d
  <2>4. InverseKind(c, r.inverse)
    BY <1>3, <2>2, <2>3
  <2> QED
    BY <2>4 DEF r
<1>6. CASE c.op \in {"create_object_mapping", "create_link_mapping"}
  <2>1. c.mapping.id \in MappingId
    BY <1>2, <1>6 DEF MappingOps, MappingCommand, ObjectMapping, LinkMapping
  <2> DEFINE d == IF c.op = "create_object_mapping" THEN DeleteObjectMappingCmd(c.mapping.id)
                  ELSE DeleteLinkMappingCmd(c.mapping.id)
             list == IF c.op = "create_object_mapping" THEN "object_mappings" ELSE "link_mappings"
  <2>2. d \in Command /\ d.op # "update_property"
    BY <2>1, RemovingCommands
  <2>3. Adds(o, c, list, c.mapping, d)
    BY <1>6, AdditionForms
  <2> HIDE DEF d, list
  <2>4. InverseKind(c, r.inverse)
    BY <1>3, <2>2, <2>3
  <2> QED
    BY <2>4 DEF r
<1>7. CASE c.op = "remove_index"
  <2> DEFINE d == AddIndexCmd(Find(o.indexes, c.index_id))
  <2>1. c.index_id \in Ids(o.indexes) => d \in Command /\ d.op # "update_property"
    BY <1>1, FoundTyped, RestoringCommands, RestoringOps
  <2>2. Drops(o, c, "indexes", c.index_id, <<d>>)
    BY <1>7, DropForms
  <2> HIDE DEF d
  <2>3. InverseKind(c, r.inverse)
    BY <1>4, <2>1, <2>2
  <2> QED
    BY <2>3 DEF r
<1>8. CASE c.op = "delete_object_mapping"
  <2> DEFINE d == CreateObjectMappingCmd(Find(o.object_mappings, c.id))
  <2>1. c.id \in Ids(o.object_mappings) => d \in Command /\ d.op # "update_property"
    BY <1>1, FoundTyped, RestoringCommands, RestoringOps
  <2>2. Drops(o, c, "object_mappings", c.id, <<d>>)
    BY <1>8, DropForms
  <2> HIDE DEF d
  <2>3. InverseKind(c, r.inverse)
    BY <1>4, <2>1, <2>2
  <2> QED
    BY <2>3 DEF r
<1>9. CASE c.op = "delete_link_mapping"
  <2> DEFINE d == CreateLinkMappingCmd(Find(o.link_mappings, c.id))
  <2>1. c.id \in Ids(o.link_mappings) => d \in Command /\ d.op # "update_property"
    BY <1>1, FoundTyped, RestoringCommands, RestoringOps
  <2>2. Drops(o, c, "link_mappings", c.id, <<d>>)
    BY <1>9, DropForms
  <2> HIDE DEF d
  <2>3. InverseKind(c, r.inverse)
    BY <1>4, <2>1, <2>2
  <2> QED
    BY <2>3 DEF r
<1> QED
  BY <1>5, <1>6, <1>7, <1>8, <1>9

LEMMA MappingInverse ==
    ASSUME NEW o, Sound(o), NEW c \in Command, ExecuteOne(o, c).ok,
           c.op \in {"update_object_mapping", "update_link_mapping"}
    PROVE  InverseKind(c, ExecuteOne(o, c).inverse)
<1> DEFINE list == IF c.op = "update_object_mapping" THEN "object_mappings" ELSE "link_mappings"
           s == o[list]
           old == Find(s, c.id)
           d == [c EXCEPT !.mapping = old]
           b == [o EXCEPT ![list] = Replaced(s, c.id, c.mapping)]
           g == c.mapping.id = c.id /\ c.id \in Ids(s)
           r == ExecuteOne(o, c)
<1>1. o.object_mappings \in Seq(ObjectMapping) /\ o.link_mappings \in Seq(LinkMapping)
  BY OntologyLists DEF Sound
<1>2. \/ c \in [op : {"update_object_mapping"}, id : MappingId, mapping : ObjectMapping]
      \/ c \in [op : {"update_link_mapping"}, id : MappingId, mapping : LinkMapping]
  BY CommandKinds DEF MappingOps, MappingCommand
<1>3. r = UpdateMapping(o, list, c)
  <2>1. /\ c.op = "update_object_mapping" => r = UpdateMapping(o, "object_mappings", c)
        /\ c.op = "update_link_mapping" => r = UpdateMapping(o, "link_mappings", c)
    BY UpdateCommands
  <2> QED
    BY <2>1
<1>4. r = When(g, Ok(b, <<d>>))
  <2> HIDE DEF list
  <2> QED
    BY <1>3, UpdateMappingForm, Zenon
<1>5. g /\ r.inverse = <<d>>
  <2>1. r.ok
    OBVIOUS
  <2> HIDE DEF g, b, d, r
  <2> QED
    BY <1>4, <2>1, WhenOk
<1>6. d \in MappingCommand /\ d.op = c.op
  <2>1. /\ c.op = "update_object_mapping" => old \in ObjectMapping
        /\ c.op = "update_link_mapping" => old \in LinkMapping
    BY <1>1, <1>5, FoundTyped
  <2> HIDE DEF old
  <2>2. \/ d \in [op : {"update_object_mapping"}, id : MappingId, mapping : ObjectMapping]
        \/ d \in [op : {"update_link_mapping"}, id : MappingId, mapping : LinkMapping]
    BY <1>2, <2>1
  <2> QED
    BY <1>2, <2>2 DEF MappingCommand
<1>7. d \in Command /\ d.op # "update_property"
  <2> HIDE DEF d
  <2> QED
    BY <1>6 DEF Command
<1> HIDE DEF d, r
<1>8. InverseKind(c, r.inverse)
  BY <1>5, <1>7, OneReverts
<1> QED
  BY <1>8 DEF r

\* What the inverse of a command consists of.
LEMMA OneInverse ==
    ASSUME NEW o, Sound(o), NEW c \in Command, ExecuteOne(o, c).ok
    PROVE  InverseKind(c, ExecuteOne(o, c).inverse)
<1>1. c.op \in Ops
  BY CommandKinds
<1>2. CASE c.op \in FieldOps
  BY <1>2, FieldInverse
<1>3. CASE c.op \in {"add_node", "create_node_type", "add_edge", "create_edge_type"}
  BY <1>3, CreationInverse
<1>4. CASE c.op \in {"delete_node", "delete_edge", "delete_property"}
  BY <1>4, DeletionInverse, PropertyDeletionInverse DEF InverseKind
<1>5. CASE c.op = "add_property"
  BY <1>5, PropertyAdditionInverse
<1>6. CASE c.op = "update_property"
  BY <1>6, PropertyUpdateInverse
<1>7. CASE c.op \in {"add_constraint", "remove_constraint"}
  BY <1>7, ConstraintInverse
<1>8. CASE c.op \in {"add_index", "remove_index", "create_object_mapping",
                     "delete_object_mapping", "create_link_mapping", "delete_link_mapping"}
  BY <1>8, EntriesInverse
<1>9. CASE c.op \in {"update_object_mapping", "update_link_mapping"}
  BY <1>9, MappingInverse
<1> QED
  BY <1>1, <1>2, <1>3, <1>4, <1>5, <1>6, <1>7, <1>8, <1>9 DEF Ops, FieldOps

LEMMA InverseList ==
    ASSUME NEW c, NEW w, InverseKind(c, w)
    PROVE  w \in Seq(Command) /\ w \o <<>> = w
<1>1. w \in Seq(Command)
  <2>1. CASE Creates(w)
    BY <2>1 DEF Creates
  <2>2. CASE \E d : w = <<d>> /\ Reverts(c, d)
    <3>1. PICK d : w = <<d>> /\ d \in Command
      BY <2>2 DEF Reverts
    <3> QED
      BY <3>1
  <2> QED
    BY <2>1, <2>2 DEF InverseKind
<1> QED
  BY <1>1

\* What an accepted command makes, and what its inverse makes of that.
LEMMA AcceptedCommand ==
    ASSUME NEW o, Sound(o), NEW c \in Commands, execute(o, <<c>>).ok, NEW r, r = ExecuteOne(o, c)
    PROVE  /\ c \in Command /\ r.ok /\ Sound(r.ont)
           /\ execute(o, <<c>>).ont = r.ont /\ execute(o, <<c>>).inverse = r.inverse
           /\ InverseKind(c, r.inverse) /\ Undoes(o, r)
<1>1. c \in Command
  BY IssuedCommand
<1>2. /\ r.ok /\ execute(o, <<c>>).ont = r.ont
      /\ execute(o, <<c>>).inverse = r.inverse \o <<>>
  BY DoneOne
<1>3. Sound(execute(o, <<c>>).ont)
  BY SoundStep
<1>4. ExecuteOne(o, c).ok /\ Sound(ExecuteOne(o, c).ont)
  BY <1>2, <1>3
<1>5. InverseKind(c, ExecuteOne(o, c).inverse)
  BY <1>1, <1>4, OneInverse
<1>6. Undoes(o, ExecuteOne(o, c))
  BY <1>1, <1>4, OneUndone
<1>7. InverseKind(c, r.inverse) /\ Undoes(o, r)
  BY <1>5, <1>6
<1>8. r.inverse \o <<>> = r.inverse
  BY <1>7, InverseList
<1> QED
  BY <1>1, <1>2, <1>3, <1>7, <1>8

\* Undo: in every ontology an editor can reach, the inverse that execute_inner
\* returns with an accepted command, cascades included, is itself accepted as
\* a batch (rebuild_indices and validate pass) and brings back the ontology
\* before the command, but for the order of its lists.
THEOREM EditorUndoRestores == EditorSpec => []UndoRestores
<1>1. EditorInv => UndoRestores
  <2> SUFFICES ASSUME EditorInv, NEW c \in Commands, NEW done \in Done(<<c>>)
               PROVE  Restores(execute(done.ont, done.inverse))
    BY DEF UndoRestores
  <2> DEFINE r == ExecuteOne(ontology, c)
  <2>1. done = execute(ontology, <<c>>) /\ done.ok
    BY DEF Done
  <2>2. Sound(ontology)
    BY DEF EditorInv
  <2>3. done.ont = r.ont /\ done.inverse = r.inverse /\ Undoes(ontology, r)
    <3> HIDE DEF r
    <3>1. r = ExecuteOne(ontology, c)
      BY DEF r
    <3> QED
      BY <2>1, <2>2, <3>1, AcceptedCommand
  <2> HIDE DEF r
  <2>4. PICK b : RunsTo(r.ont, r.inverse, b) /\ Reordered(ontology, b)
    BY <2>3 DEF Undoes
  <2>5. rebuild_indices(b) /\ validate(b)
    BY <2>2, <2>4, ReorderedValid
  <2>6. Same(b, ontology)
    BY <2>2, <2>4, ReorderedSame DEF Sound
  <2> DEFINE u == execute_inner(done.ont, done.inverse)
  <2>7. u.ok /\ u.ont = b
    BY <2>3, <2>4 DEF RunsTo
  <2>8. execute(done.ont, done.inverse) = Validated(u)
    BY Zenon DEF execute
  <2> HIDE DEF u
  <2>9. Validated(u) = u
    BY <2>5, <2>7 DEF Validated, When
  <2> QED
    BY <2>6, <2>7, <2>8, <2>9 DEF Restores
<1>2. EditorSpec => []EditorInv
  BY EditorKeepsSound
<1> QED
  BY <1>1, <1>2, PTL

\* The browser keeps step with the server through a batch it mirrors.
LEMMA BrowserKeepsStep ==
    ASSUME NEW o, NEW b, NEW cmds \in Seq(Command), RunsTo(o, cmds, b),
           Creates(cmds) \/ \E d : cmds = <<d>> /\ Mirrored(o, d)
    PROVE  applyCommandToOntology(o, cmds).ont = b
<1> DEFINE n == Len(cmds)
<1>1. n \in Nat /\ DOMAIN cmds = 1..n
  OBVIOUS
<1> HIDE DEF n
<1>2. PICK a : PassesThrough(a, o, n, cmds, b)
  <2>1. execute_inner(o, cmds).ok /\ execute_inner(o, cmds).ont = b
    BY DEF RunsTo
  <2> QED
    BY <1>1, <2>1, AcceptedRun
<1>3. /\ a[0] = o /\ a[n] = b
      /\ \A k \in 1..n : /\ ExecuteOne(a[k - 1], cmds[k]).ok
                         /\ a[k] = ExecuteOne(a[k - 1], cmds[k]).ont
  BY <1>2 DEF PassesThrough
<1>4. PICK h : BrowserRuns(h, o, n, cmds)
  BY <1>1, BrowserBatchRuns
<1>5. /\ h[0] = Applied(o, <<>>) /\ h[n] = applyCommandToOntology(o, cmds)
      /\ \A k \in 1..n : h[k] = FeThen(h[k - 1], FeApplyOne(h[k - 1].ont, cmds[k]))
  BY <1>4 DEF BrowserRuns
<1>6. ASSUME NEW k \in 1..n PROVE Mirrored(a[k - 1], cmds[k])
  <2>1. CASE Creates(cmds)
    <3>1. cmds[k].op \in CreationOps
      BY <1>1, <2>1 DEF Creates
    <3> QED
      BY <3>1, CreationMirrored
  <2>2. CASE \E d : cmds = <<d>> /\ Mirrored(o, d)
    <3>1. PICK d : cmds = <<d>> /\ Mirrored(o, d)
      BY <2>2
    <3>2. n = 1
      BY <3>1 DEF n
    <3>3. k = 1 /\ k - 1 = 0 /\ cmds[k] = d
      BY <3>1, <3>2
    <3> QED
      BY <1>3, <3>1, <3>3
  <2> QED
    BY <2>1, <2>2
<1> DEFINE T == {k \in Nat : k <= n => h[k].ont = a[k]}
<1>7. 0 \in T
  BY <1>3, <1>5 DEF Applied
<1>8. ASSUME NEW k \in Nat, k < n, k \in T PROVE k + 1 \in T
  <2>1. k + 1 \in 1..n /\ (k + 1) - 1 = k /\ h[k].ont = a[k]
    BY <1>1, <1>8
  <2> DEFINE f == FeApplyOne(a[k], cmds[k + 1])
             e == ExecuteOne(a[k], cmds[k + 1])
  <2>2. h[k + 1] = FeThen(h[k], f)
    BY <1>5, <2>1
  <2>3. e.ok /\ a[k + 1] = e.ont
    BY <1>3, <2>1
  <2>4. f = Applied(e.ont, e.inverse)
    <3>1. Mirrored(a[k], cmds[k + 1])
      BY <1>6, <2>1
    <3> QED
      BY <2>3, <3>1 DEF Mirrored
  <2> HIDE DEF f, e
  <2>5. h[k + 1].ont = a[k + 1]
    BY <2>2, <2>3, <2>4 DEF FeThen, Applied
  <2> QED
    BY <2>5
<1> HIDE DEF T
<1>9. n \in T
  <2>1. \A k \in Nat : k < n /\ k \in T => k + 1 \in T
    BY <1>8
  <2>2. \A k \in 0..n : k \in T
    BY <1>1, <1>7, <2>1, Upto
  <2> QED
    BY <1>1, <2>2
<1>10. h[n].ont = a[n]
  BY <1>1, <1>9 DEF T
<1> QED
  BY <1>3, <1>5, <1>10

LEMMA SameItself == ASSUME NEW o PROVE Same(o, o)
BY DEF Same

\* The browser's applyCommandToOntology mirrors the server: for any command
\* the server accepts, default values of a patch aside, it had computed the
\* same ontology and the same inverse, and applying its own inverse to its own
\* ontology ends in the ontology before the command.
THEOREM EditorMirrorAgrees == EditorSpec => []MirrorAgrees
<1>1. EditorInv => MirrorAgrees
  <2> SUFFICES ASSUME EditorInv, NEW c \in Understood, NEW server \in Done(<<c>>)
               PROVE  Mirrors(applyCommandToOntology(ontology, <<c>>), server)
    BY DEF MirrorAgrees
  <2> DEFINE r == ExecuteOne(ontology, c)
             browser == applyCommandToOntology(ontology, <<c>>)
  <2>1. server = execute(ontology, <<c>>) /\ server.ok
    BY DEF Done
  <2>2. Sound(ontology)
    BY DEF EditorInv
  <2>3. c \in Commands /\ (c.op = "update_property" => DOMAIN c.patch \subseteq FePatchFields)
    BY DEF Understood
  <2>4. /\ c \in Command /\ r.ok /\ Sound(r.ont) /\ server.ont = r.ont
        /\ InverseKind(c, r.inverse) /\ Undoes(ontology, r)
    <3> HIDE DEF r
    <3>1. r = ExecuteOne(ontology, c)
      BY DEF r
    <3> QED
      BY <2>1, <2>2, <2>3, <3>1, AcceptedCommand
  <2>5. FeApplyOne(ontology, c) = Applied(r.ont, r.inverse)
    BY <2>2, <2>3, <2>4, OneMirrored DEF Mirrored
  <2>6. r.inverse \in Seq(Command) /\ r.inverse \o <<>> = r.inverse
    BY <2>4, InverseList
  <2>7. browser.ont = r.ont /\ browser.inverse = r.inverse
    <3>1. browser = FeThen(Applied(ontology, <<>>), FeApplyOne(ontology, c))
      BY RunOfOne
    <3> HIDE DEF r
    <3> QED
      BY <2>5, <2>6, <3>1 DEF FeThen, Applied
  <2> HIDE DEF r, browser
  <2>8. PICK b : RunsTo(r.ont, r.inverse, b) /\ Reordered(ontology, b)
    BY <2>4 DEF Undoes
  <2>9. Creates(r.inverse) \/ \E d : r.inverse = <<d>> /\ Mirrored(r.ont, d)
    <3> SUFFICES ASSUME NEW d, r.inverse = <<d>>, Reverts(c, d)
                 PROVE  Mirrored(r.ont, d)
      BY <2>4 DEF InverseKind
    <3>1. d \in Command /\ (d.op = "update_property" => DOMAIN d.patch \subseteq FePatchFields)
      BY <2>3 DEF Reverts
    <3> QED
      BY <2>4, <3>1, OneMirrored
  <2>10. applyCommandToOntology(r.ont, r.inverse).ont = b
    BY <2>6, <2>8, <2>9, BrowserKeepsStep
  <2>11. Same(b, ontology)
    BY <2>2, <2>8, ReorderedSame DEF Sound
  <2>12. Same(browser.ont, server.ont)
    BY <2>4, <2>7, SameItself
  <2>13. Mirrors(browser, server)
    BY <2>7, <2>10, <2>11, <2>12 DEF Mirrors
  <2> QED
    BY <2>13 DEF browser
<1>2. EditorSpec => []EditorInv
  BY EditorKeepsSound
<1> QED
  BY <1>1, <1>2, PTL
=============================================================================
