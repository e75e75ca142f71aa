--------------------------- MODULE OntologyCommand ---------------------------
(***************************************************************************)
(* OntologyCommand on the server (crates/ox-ontology/src/command): what    *)
(* each command does to an ontology, when it is refused, and the inverse   *)
(* it returns.  A Batch is the sequence of its commands and every other    *)
(* command a sequence of one, so an inverse is always a sequence.          *)
(***************************************************************************)
EXTENDS OntologyIR

Ok(o, inverse) == [ok |-> TRUE, ont |-> o, inverse |-> inverse]
Err == [ok |-> FALSE]
When(cond, result) == IF cond THEN result ELSE Err

\* The commands that appear in inverses.
DeleteNodeCmd(id) == [op |-> "delete_node", node_id |-> id]
CreateNodeCmd(n) == [op |-> "create_node_type", node |-> n]
DeleteEdgeCmd(id) == [op |-> "delete_edge", edge_id |-> id]
CreateEdgeCmd(e) == [op |-> "create_edge_type", edge |-> e]
AddPropertyCmd(owner, p) == [op |-> "add_property", owner |-> owner, property |-> p]
DeletePropertyCmd(owner, id) == [op |-> "delete_property", owner |-> owner, property_id |-> id]
AddConstraintCmd(n, c) == [op |-> "add_constraint", node_id |-> n, constraint |-> c]
AddIndexCmd(i) == [op |-> "add_index", index |-> i]
CreateObjectMappingCmd(m) == [op |-> "create_object_mapping", mapping |-> m]
UpdateObjectMappingCmd(m) == [op |-> "update_object_mapping", id |-> m.id, mapping |-> m]
DeleteObjectMappingCmd(id) == [op |-> "delete_object_mapping", id |-> id]
CreateLinkMappingCmd(m) == [op |-> "create_link_mapping", mapping |-> m]
DeleteLinkMappingCmd(id) == [op |-> "delete_link_mapping", id |-> id]

Each(s, Cmd(_)) == [i \in DOMAIN s |-> Cmd(s[i])]

-----------------------------------------------------------------------------
(* Node types                                                               *)

NewNode(c) == [id |-> c.id, label |-> c.label, description |-> c.description,
               properties |-> <<>>, constraints |-> <<>>]

CreateNodeType(o, node) ==
    When(\A n \in ToSet(o.node_types) : n.id # node.id /\ n.label # node.label,
         Ok([o EXCEPT !.node_types = Append(@, node)], <<DeleteNodeCmd(node.id)>>))

AddNode(o, c) == CreateNodeType(o, NewNode(c))

\* Mutant: the cascade stops at the edges.
DeleteNodeKeepsMappings(o, c) ==
    LET Incident(e) == c.node_id \in {e.source_node_id, e.target_node_id}
    IN  When(c.node_id \in Ids(o.node_types),
             Ok([o EXCEPT !.node_types = Retain(@, LAMBDA n : n.id # c.node_id),
                          !.edge_types = Retain(@, LAMBDA e : ~Incident(e))],
                <<CreateNodeCmd(Find(o.node_types, c.node_id))>>
                \o Each(Retain(o.edge_types, Incident), CreateEdgeCmd)))

\* Deleting a node takes along its edges, their link mappings, its indexes
\* and its object mappings; the inverse re-creates them in an order in which
\* every reference resolves.
DeleteNode(o, c) ==
    LET Incident(e) == c.node_id \in {e.source_node_id, e.target_node_id}
        edges == Retain(o.edge_types, Incident)
        links == Retain(o.link_mappings, LAMBDA m : m.edge_type_id \in Ids(edges))
        idxs == Retain(o.indexes, LAMBDA i : i.node_id = c.node_id)
        objs == Retain(o.object_mappings, LAMBDA m : m.node_type_id = c.node_id)
    IN  When(c.node_id \in Ids(o.node_types),
             Ok([o EXCEPT !.node_types = Retain(@, LAMBDA n : n.id # c.node_id),
                          !.edge_types = Retain(@, LAMBDA e : ~Incident(e)),
                          !.link_mappings = Retain(@, LAMBDA m : m \notin ToSet(links)),
                          !.indexes = Retain(@, LAMBDA i : i \notin ToSet(idxs)),
                          !.object_mappings = Retain(@, LAMBDA m : m \notin ToSet(objs))],
                <<CreateNodeCmd(Find(o.node_types, c.node_id))>>
                \o Each(edges, CreateEdgeCmd) \o Each(idxs, AddIndexCmd)
                \o Each(objs, CreateObjectMappingCmd) \o Each(links, CreateLinkMappingCmd)))

RenameNode(o, c) ==
    When(/\ c.node_id \in Ids(o.node_types)
         /\ \A n \in ToSet(o.node_types) : n.label = c.new_label => n.id = c.node_id,
         Ok([o EXCEPT !.node_types =
                 MapById(@, c.node_id, LAMBDA n : [n EXCEPT !.label = c.new_label])],
            <<[c EXCEPT !.new_label = Find(o.node_types, c.node_id).label]>>))

UpdateNodeDescription(o, c) ==
    When(c.node_id \in Ids(o.node_types),
         Ok([o EXCEPT !.node_types =
                 MapById(@, c.node_id, LAMBDA n : [n EXCEPT !.description = c.description])],
            <<[c EXCEPT !.description = Find(o.node_types, c.node_id).description]>>))

-----------------------------------------------------------------------------
(* Edge types                                                               *)

NewEdge(c) == [id |-> c.id, label |-> c.label, description |-> "",
               source_node_id |-> c.source_node_id, target_node_id |-> c.target_node_id,
               cardinality |-> c.cardinality, kind |-> "association", properties |-> <<>>]

Signature(e) == <<e.label, e.source_node_id, e.target_node_id>>

CreateEdgeType(o, edge) ==
    When(/\ {edge.source_node_id, edge.target_node_id} \subseteq Ids(o.node_types)
         /\ \A e \in ToSet(o.edge_types) : e.id # edge.id /\ Signature(e) # Signature(edge),
         Ok([o EXCEPT !.edge_types = Append(@, edge)], <<DeleteEdgeCmd(edge.id)>>))

AddEdge(o, c) == CreateEdgeType(o, NewEdge(c))

\* Mutant: the link mappings are not restored.
DeleteEdgeForgetsLinks(o, c) ==
    When(c.edge_id \in Ids(o.edge_types),
         Ok([o EXCEPT !.edge_types = Retain(@, LAMBDA e : e.id # c.edge_id),
                      !.link_mappings = Retain(@, LAMBDA m : m.edge_type_id # c.edge_id)],
            <<CreateEdgeCmd(Find(o.edge_types, c.edge_id))>>))

DeleteEdge(o, c) ==
    LET links == Retain(o.link_mappings, LAMBDA m : m.edge_type_id = c.edge_id)
    IN  When(c.edge_id \in Ids(o.edge_types),
             Ok([o EXCEPT !.edge_types = Retain(@, LAMBDA e : e.id # c.edge_id),
                          !.link_mappings = Retain(@, LAMBDA m : m \notin ToSet(links))],
                <<CreateEdgeCmd(Find(o.edge_types, c.edge_id))>>
                \o Each(links, CreateLinkMappingCmd)))

RenameEdge(o, c) ==
    LET old == Find(o.edge_types, c.edge_id)
        new == [old EXCEPT !.label = c.new_label]
    IN  When(/\ c.edge_id \in Ids(o.edge_types)
             /\ \A e \in ToSet(o.edge_types) : Signature(e) = Signature(new) => e.id = c.edge_id,
             Ok([o EXCEPT !.edge_types = MapById(@, c.edge_id, LAMBDA e : new)],
                <<[c EXCEPT !.new_label = old.label]>>))

UpdateEdgeCardinality(o, c) ==
    When(c.edge_id \in Ids(o.edge_types),
         Ok([o EXCEPT !.edge_types =
                 MapById(@, c.edge_id, LAMBDA e : [e EXCEPT !.cardinality = c.cardinality])],
            <<[c EXCEPT !.cardinality = Find(o.edge_types, c.edge_id).cardinality]>>))

UpdateEdgeDescription(o, c) ==
    When(c.edge_id \in Ids(o.edge_types),
         Ok([o EXCEPT !.edge_types =
                 MapById(@, c.edge_id, LAMBDA e : [e EXCEPT !.description = c.description])],
            <<[c EXCEPT !.description = Find(o.edge_types, c.edge_id).description]>>))

-----------------------------------------------------------------------------
(* Properties, constraints and indexes.  An owner is a node or an edge.     *)

Collection(owner) == IF owner.kind = "node" THEN "node_types" ELSE "edge_types"
OwnerExists(o, owner) == owner.type_id \in Ids(o[Collection(owner)])
OwnerProperties(o, owner) == Find(o[Collection(owner)], owner.type_id).properties

\* The ontology with the owner's property list replaced.
WithProperties(o, owner, properties) ==
    [o EXCEPT ![Collection(owner)] =
        MapById(@, owner.type_id, LAMBDA x : [x EXCEPT !.properties = properties])]

AddProperty(o, c) ==
    When(/\ OwnerExists(o, c.owner)
         /\ c.property.id \notin Ids(OwnerProperties(o, c.owner)),
         Ok(WithProperties(o, c.owner, Append(OwnerProperties(o, c.owner), c.property)),
            <<DeletePropertyCmd(c.owner, c.property.id)>>))

\* The mapping without its entries for a property.
Unmap(m, id) == [m EXCEPT !.property_mappings = Retain(@, LAMBDA p : p # id)]

\* Deleting a node's property takes along the constraints and indexes that
\* use it and its entries in the node's object mappings.
DeleteProperty(o, c) ==
    LET id == c.property_id
        onNode == c.owner.kind = "node"
        Uses(x) == id \in ToSet(x.property_ids)
        node == Find(o.node_types, c.owner.type_id)
        constraints == IF onNode THEN Retain(node.constraints, Uses) ELSE <<>>
        idxs == Retain(o.indexes, LAMBDA i : i.node_id = c.owner.type_id /\ Uses(i))
        Touched(m) == /\ onNode /\ m.node_type_id = c.owner.type_id
                      /\ id \in ToSet(m.property_mappings)
        maps == Retain(o.object_mappings, Touched)
        without == WithProperties(o, c.owner,
                       Retain(OwnerProperties(o, c.owner), LAMBDA p : p.id # id))
    IN  When(/\ OwnerExists(o, c.owner)
             /\ id \in Ids(OwnerProperties(o, c.owner)),
             Ok([without EXCEPT
                    !.node_types = MapById(@, c.owner.type_id,
                        LAMBDA n : [n EXCEPT !.constraints =
                                        Retain(@, LAMBDA x : x \notin ToSet(constraints))]),
                    !.indexes = Retain(@, LAMBDA i : i \notin ToSet(idxs)),
                    !.object_mappings = [k \in DOMAIN @ |->
                        IF Touched(@[k]) THEN Unmap(@[k], id) ELSE @[k]]],
                <<AddPropertyCmd(c.owner, Find(OwnerProperties(o, c.owner), id))>>
                \o Each(constraints, LAMBDA x : AddConstraintCmd(c.owner.type_id, x))
                \o Each(idxs, AddIndexCmd) \o Each(maps, UpdateObjectMappingCmd)))

\* A patch is a function on the fields it sets; the reverse patch holds the
\* former values of the same fields.
UpdateProperty(o, c) ==
    LET old == Find(OwnerProperties(o, c.owner), c.property_id)
        new == [f \in DOMAIN old |-> IF f \in DOMAIN c.patch THEN c.patch[f] ELSE old[f]]
    IN  When(/\ OwnerExists(o, c.owner)
             /\ c.property_id \in Ids(OwnerProperties(o, c.owner)),
             Ok(WithProperties(o, c.owner,
                    MapById(OwnerProperties(o, c.owner), c.property_id, LAMBDA p : new)),
                <<[c EXCEPT !.patch = [f \in DOMAIN @ |-> old[f]]]>>))

AddConstraint(o, c) ==
    When(/\ c.node_id \in Ids(o.node_types)
         /\ c.constraint.id \notin Ids(Find(o.node_types, c.node_id).constraints),
         Ok([o EXCEPT !.node_types = MapById(@, c.node_id,
                LAMBDA n : [n EXCEPT !.constraints = Append(@, c.constraint)])],
            <<[op |-> "remove_constraint", node_id |-> c.node_id,
               constraint_id |-> c.constraint.id]>>))

RemoveConstraint(o, c) ==
    LET constraints == Find(o.node_types, c.node_id).constraints
    IN  When(/\ c.node_id \in Ids(o.node_types)
             /\ c.constraint_id \in Ids(constraints),
             Ok([o EXCEPT !.node_types = MapById(@, c.node_id,
                    LAMBDA n : [n EXCEPT !.constraints =
                                   Retain(@, LAMBDA x : x.id # c.constraint_id)])],
                <<AddConstraintCmd(c.node_id, Find(constraints, c.constraint_id))>>))

\* Mutant: the id of an index is not looked up.
AddIndexAlways(o, c) ==
    Ok([o EXCEPT !.indexes = Append(@, c.index)],
       <<[op |-> "remove_index", index_id |-> c.index.id]>>)

AddIndex(o, c) ==
    When(c.index.id \notin Ids(o.indexes),
         Ok([o EXCEPT !.indexes = Append(@, c.index)],
            <<[op |-> "remove_index", index_id |-> c.index.id]>>))

RemoveIndex(o, c) ==
    When(c.index_id \in Ids(o.indexes),
         Ok([o EXCEPT !.indexes = Retain(@, LAMBDA i : i.id # c.index_id)],
            <<AddIndexCmd(Find(o.indexes, c.index_id))>>))

-----------------------------------------------------------------------------
(* Object and link mappings, by the name of their list.                     *)

CreateMappingCmd(list, m) ==
    IF list = "object_mappings" THEN CreateObjectMappingCmd(m) ELSE CreateLinkMappingCmd(m)
DeleteMappingCmd(list, id) ==
    IF list = "object_mappings" THEN DeleteObjectMappingCmd(id) ELSE DeleteLinkMappingCmd(id)

CreateMapping(o, list, m) ==
    When(m.id \notin Ids(o[list]),
         Ok([o EXCEPT ![list] = Append(@, m)], <<DeleteMappingCmd(list, m.id)>>))

UpdateMapping(o, list, c) ==
    When(c.mapping.id = c.id /\ c.id \in Ids(o[list]),
         Ok([o EXCEPT ![list] = MapById(@, c.id, LAMBDA m : c.mapping)],
            <<[c EXCEPT !.mapping = Find(o[list], c.id)]>>))

DeleteMapping(o, list, c) ==
    When(c.id \in Ids(o[list]),
         Ok([o EXCEPT ![list] = Retain(@, LAMBDA m : m.id # c.id)],
            <<CreateMappingCmd(list, Find(o[list], c.id))>>))

-----------------------------------------------------------------------------
(* execute_inner, Batch and execute                                         *)

Ops == {"add_node", "create_node_type", "delete_node", "rename_node",
        "update_node_description", "add_edge", "create_edge_type", "delete_edge",
        "rename_edge", "update_edge_cardinality", "update_edge_description",
        "add_property", "delete_property", "update_property", "add_constraint",
        "remove_constraint", "add_index", "remove_index", "create_object_mapping",
        "update_object_mapping", "delete_object_mapping", "create_link_mapping",
        "update_link_mapping", "delete_link_mapping"}

\* A batch of such commands; what a command re-creates has its id.
IsBatch(cmds) ==
    /\ cmds \in Seq(ToSet(cmds))
    /\ \A c \in ToSet(cmds) : /\ c.op \in Ops
                              /\ c.op = "create_node_type" => "id" \in DOMAIN c.node
                              /\ c.op = "create_edge_type" => "id" \in DOMAIN c.edge

ExecuteOne(o, c) ==
    CASE c.op = "add_node" -> AddNode(o, c)
      [] c.op = "create_node_type" -> CreateNodeType(o, c.node)
      [] c.op = "delete_node" -> DeleteNode(o, c)
      [] c.op = "rename_node" -> RenameNode(o, c)
      [] c.op = "update_node_description" -> UpdateNodeDescription(o, c)
      [] c.op = "add_edge" -> AddEdge(o, c)
      [] c.op = "create_edge_type" -> CreateEdgeType(o, c.edge)
      [] c.op = "delete_edge" -> DeleteEdge(o, c)
      [] c.op = "rename_edge" -> RenameEdge(o, c)
      [] c.op = "update_edge_cardinality" -> UpdateEdgeCardinality(o, c)
      [] c.op = "update_edge_description" -> UpdateEdgeDescription(o, c)
      [] c.op = "add_property" -> AddProperty(o, c)
      [] c.op = "delete_property" -> DeleteProperty(o, c)
      [] c.op = "update_property" -> UpdateProperty(o, c)
      [] c.op = "add_constraint" -> AddConstraint(o, c)
      [] c.op = "remove_constraint" -> RemoveConstraint(o, c)
      [] c.op = "add_index" -> AddIndex(o, c)
      [] c.op = "remove_index" -> RemoveIndex(o, c)
      [] c.op = "create_object_mapping" -> CreateMapping(o, "object_mappings", c.mapping)
      [] c.op = "update_object_mapping" -> UpdateMapping(o, "object_mappings", c)
      [] c.op = "delete_object_mapping" -> DeleteMapping(o, "object_mappings", c)
      [] c.op = "create_link_mapping" -> CreateMapping(o, "link_mappings", c.mapping)
      [] c.op = "update_link_mapping" -> UpdateMapping(o, "link_mappings", c)
      [] c.op = "delete_link_mapping" -> DeleteMapping(o, "link_mappings", c)

Then(done, r) == When(r.ok, Ok(r.ont, r.inverse \o done.inverse))

\* A batch stops at its first failing command; its inverse undoes the
\* commands in reverse order.
execute_inner(o, cmds) ==
    FoldLeft(LAMBDA acc, c : IF acc.ok THEN Then(acc, ExecuteOne(acc.ont, c)) ELSE acc,
             Ok(o, <<>>), cmds)

\* Only the final result of a batch is validated.
Validated(r) == When(r.ok /\ rebuild_indices(r.ont) /\ validate(r.ont), r)

execute(o, cmds) == Validated(execute_inner(o, cmds))

-----------------------------------------------------------------------------
(* The elements a command names, whose verifications it invalidates.        *)

\* Mutant: renames are passed over.
AffectedOneButRenames(c) ==
    CASE c.op \in {"add_node", "add_edge"} -> {c.id}
      [] c.op = "delete_node" -> {c.node_id}
      [] c.op = "delete_edge" -> {c.edge_id}
      [] OTHER -> {}

AffectedOne(c) ==
    CASE c.op \in {"add_node", "add_edge"} -> {c.id}
      [] c.op = "create_node_type" -> {c.node.id}
      [] c.op = "create_edge_type" -> {c.edge.id}
      [] c.op \in {"delete_node", "rename_node", "update_node_description",
                   "add_constraint", "remove_constraint"} -> {c.node_id}
      [] c.op \in {"delete_edge", "rename_edge", "update_edge_cardinality",
                   "update_edge_description"} -> {c.edge_id}
      [] c.op \in {"add_property", "delete_property", "update_property"} -> {c.owner.type_id}
      [] c.op \in {"create_object_mapping", "create_link_mapping"} -> {c.mapping.id}
      [] c.op \in {"update_object_mapping", "delete_object_mapping",
                   "update_link_mapping", "delete_link_mapping"} -> {c.id}
      [] OTHER -> {}

affected_element_ids(cmds) == UNION {AffectedOne(c) : c \in ToSet(cmds)}

-----------------------------------------------------------------------------
(* The deletes that retract the tables of a data source.  A relation stands *)
(* for a (source, table) pair.                                              *)

\* Mutant: a node loses its last mapping as soon as it loses one.
RetractEveryMappedNode(o, drop) ==
    LET objs == Retain(o.object_mappings, LAMBDA m : m.relation \in drop)
        links == Retain(o.link_mappings, LAMBDA m : m.relations \cap drop # {})
        affected == {m.node_type_id : m \in ToSet(objs)}
    IN  Each(objs, LAMBDA m : DeleteObjectMappingCmd(m.id))
        \o Each(links, LAMBDA m : DeleteLinkMappingCmd(m.id))
        \o Each(Retain(o.node_types, LAMBDA n : n.id \in affected),
                LAMBDA n : DeleteNodeCmd(n.id))

build_retract_source_batch(o, drop) ==
    LET objs == Retain(o.object_mappings, LAMBDA m : m.relation \in drop)
        links == Retain(o.link_mappings, LAMBDA m : m.relations \cap drop # {})
        affectedNodes == {m.node_type_id : m \in ToSet(objs)}
        affectedEdges == {m.edge_type_id : m \in ToSet(links)}
        NodeUnbound(n) ==
            /\ n.id \in affectedNodes
            /\ \A m \in ToSet(o.object_mappings) : m.node_type_id = n.id => m \in ToSet(objs)
        EdgeUnbound(e) ==
            /\ e.id \in affectedEdges
            /\ \A m \in ToSet(o.link_mappings) : m.edge_type_id = e.id => m \in ToSet(links)
    IN  Each(objs, LAMBDA m : DeleteObjectMappingCmd(m.id))
        \o Each(links, LAMBDA m : DeleteLinkMappingCmd(m.id))
        \o Each(Retain(o.node_types, NodeUnbound), LAMBDA n : DeleteNodeCmd(n.id))
        \o Each(Retain(o.edge_types, EdgeUnbound), LAMBDA e : DeleteEdgeCmd(e.id))
=============================================================================
