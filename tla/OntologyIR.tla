------------------------------ MODULE OntologyIR ------------------------------
(***************************************************************************)
(* The part of the ontology intermediate representation that editing       *)
(* commands touch (crates/ox-ontology/src/ir), with the two checks every   *)
(* command result must pass: rebuild_indices and validate.                 *)
(*                                                                         *)
(* An ontology is a record of lists.  Texts are abstract values; the       *)
(* fields that commands copy without looking at them (types, lineage,      *)
(* roles, tags) are left out.  Three collections that no command changes   *)
(* but that hold references into the graph are kept, because they make     *)
(* deletions fail: segments, the table inventory and derived rules.        *)
(***************************************************************************)
EXTENDS Naturals, Sequences, FiniteSets, SequencesExt

Ids(s) == {s[i].id : i \in DOMAIN s}

Distinct(s, Key(_)) == \A i, j \in DOMAIN s : Key(s[i]) = Key(s[j]) => i = j

\* The first entry with the given id (iter().find / position).
Find(s, id) == s[SelectInSeq(s, LAMBDA x : x.id = id)]

\* The entries at some positions, in their order.
Picked(s, positions) ==
    [k \in 1..Cardinality(positions) |->
        s[CHOOSE i \in positions : Cardinality({j \in positions : j <= i}) = k]]

\* The entries that pass a test (Vec::retain, iter().filter()).
Retain(s, Passes(_)) == Picked(s, {i \in DOMAIN s : Passes(s[i])})

\* The list with the entries of one id rewritten.
MapById(s, id, Op(_)) ==
    [i \in DOMAIN s |-> IF s[i].id = id THEN Op(s[i]) ELSE s[i]]

\* What every ontology is, valid or not: its definitions are listed with ids.
Identified(s) == s \in Seq(ToSet(s)) /\ \A x \in ToSet(s) : "id" \in DOMAIN x
IsOntology(o) == /\ {"node_types", "edge_types"} \subseteq DOMAIN o
                 /\ Identified(o.node_types) /\ Identified(o.edge_types)

EmptyOntology ==
    [node_types |-> <<>>, edge_types |-> <<>>, indexes |-> <<>>,
     object_mappings |-> <<>>, link_mappings |-> <<>>,
     segments |-> {}, table_inventory |-> {}, rules |-> {}]

-----------------------------------------------------------------------------
(* rebuild_indices fails on the first duplicated key.  Property ids are     *)
(* indexed across all node types; edge property ids are not indexed.        *)

PropertyIdsDistinct(nodes) ==
    \A i, j \in DOMAIN nodes :
        \A k \in DOMAIN nodes[i].properties, l \in DOMAIN nodes[j].properties :
            nodes[i].properties[k].id = nodes[j].properties[l].id => i = j /\ k = l

rebuild_indices(o) ==
    /\ Distinct(o.node_types, LAMBDA n : n.id)
    /\ Distinct(o.node_types, LAMBDA n : n.label)
    /\ PropertyIdsDistinct(o.node_types)
    /\ Distinct(o.edge_types, LAMBDA e : e.id)
    /\ Distinct(o.object_mappings, LAMBDA m : m.id)
    /\ Distinct(o.link_mappings, LAMBDA m : m.id)

-----------------------------------------------------------------------------
(* validate: no error is reported.                                          *)

validate_property_defs(props) ==
    /\ Distinct(props, LAMBDA p : p.id)
    /\ Distinct(props, LAMBDA p : p.name)

\* A node key or an existence constraint needs non-nullable properties.
validate_constraint_fields(node, c) ==
    /\ c.property_ids # <<>>
    /\ Distinct(c.property_ids, LAMBDA p : p)
    /\ \A id \in ToSet(c.property_ids) :
          /\ id \in Ids(node.properties)
          /\ c.kind \in {"node_key", "exists"} => ~Find(node.properties, id).nullable

HasContent(o) ==
    \/ o.node_types # <<>> \/ o.edge_types # <<>> \/ o.rules # {}
    \/ o.object_mappings # <<>> \/ o.link_mappings # <<>>

ValidNodes(o) ==
    /\ Distinct(o.node_types, LAMBDA n : n.id)
    /\ Distinct(o.node_types, LAMBDA n : n.label)
    /\ \A n \in ToSet(o.node_types) :
          /\ validate_property_defs(n.properties)
          /\ \A c \in ToSet(n.constraints) : validate_constraint_fields(n, c)

\* A composition keeps its whole singular.
ValidEdges(o) ==
    /\ Distinct(o.edge_types, LAMBDA e : <<e.label, e.source_node_id, e.target_node_id>>)
    /\ \A e \in ToSet(o.edge_types) :
          /\ validate_property_defs(e.properties)
          /\ {e.source_node_id, e.target_node_id} \subseteq Ids(o.node_types)
          /\ e.kind = "composition" => e.cardinality \in {"one_to_one", "one_to_many"}

ValidObjectMappings(o) ==
    \A m \in ToSet(o.object_mappings) :
        /\ m.node_type_id \in Ids(o.node_types)
        /\ Distinct(m.property_mappings, LAMBDA p : p)
        /\ ToSet(m.property_mappings) \subseteq
               Ids(Find(o.node_types, m.node_type_id).properties)

ValidLinkMappings(o) ==
    \A m \in ToSet(o.link_mappings) : m.edge_type_id \in Ids(o.edge_types)

validate_index_target(o, idx) ==
    /\ idx.node_id \in Ids(o.node_types)
    /\ idx.property_ids # <<>>
    /\ Distinct(idx.property_ids, LAMBDA p : p)
    /\ ToSet(idx.property_ids) \subseteq Ids(Find(o.node_types, idx.node_id).properties)

ValidIndexes(o) == \A idx \in ToSet(o.indexes) : validate_index_target(o, idx)

\* A rule derived from a property's binding dies with the property.
ValidRules(o) ==
    \A r \in o.rules :
        /\ r.node_type_id \in Ids(o.node_types)
        /\ r.property_id \in Ids(Find(o.node_types, r.node_type_id).properties)

ValidInventory(o) ==
    \A t \in o.table_inventory :
        /\ t.contributed_node_ids \subseteq Ids(o.node_types)
        /\ t.contributed_edge_ids \subseteq Ids(o.edge_types)

\* A segment filter refers to properties by name.
ValidSegments(o) ==
    \A g \in o.segments :
        /\ g.target_node_type_id \in Ids(o.node_types)
        /\ g.referenced_properties \subseteq
              {p.name : p \in ToSet(Find(o.node_types, g.target_node_type_id).properties)}

validate(o) ==
    /\ HasContent(o)
    /\ ValidNodes(o)
    /\ ValidEdges(o)
    /\ ValidRules(o)
    /\ ValidObjectMappings(o)
    /\ ValidLinkMappings(o)
    /\ ValidIndexes(o)
    /\ ValidInventory(o)
    /\ ValidSegments(o)

-----------------------------------------------------------------------------
(* Two ontologies are the same when they differ only in the order of their  *)
(* lists: deleting and restoring an entry moves it to the end.              *)

Unordered(o) ==
    LET Node(n) == [n EXCEPT !.properties = ToBag(@), !.constraints = ToBag(@)]
        Edge(e) == [e EXCEPT !.properties = ToBag(@)]
    IN  [o EXCEPT !.node_types = ToBag([i \in DOMAIN @ |-> Node(@[i])]),
                  !.edge_types = ToBag([i \in DOMAIN @ |-> Edge(@[i])]),
                  !.indexes = ToBag(@),
                  !.object_mappings = ToBag(@),
                  !.link_mappings = ToBag(@)]

Same(a, b) == Unordered(a) = Unordered(b)
=============================================================================
