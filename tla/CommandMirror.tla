---------------------------- MODULE CommandMirror ----------------------------
(***************************************************************************)
(* The browser's own interpreter of commands, applyCommandToOntology in    *)
(* web/src/lib/store/ontology-slice.ts.  It applies a command at once,     *)
(* before the server has seen it.  Nothing is refused here: a command      *)
(* whose target is missing changes nothing and has an empty inverse, and   *)
(* a command that creates something does not look for a duplicate or for   *)
(* its endpoints.                                                          *)
(***************************************************************************)
EXTENDS OntologyCommand

Applied(o, inverse) == [ont |-> o, inverse |-> inverse]
Noop(o) == Applied(o, <<>>)
Unless(missing, o, result) == IF missing THEN Noop(o) ELSE result

Push(o, list, x, inverse) == Applied([o EXCEPT ![list] = Append(@, x)], <<inverse>>)
Keep(s, P(_)) == Retain(s, P)

\* Mutant: the object mappings of the node stay.
FeDeleteNodeKeepsMappings(o, c) ==
    LET Incident(e) == c.node_id \in {e.source_node_id, e.target_node_id}
    IN  Unless(c.node_id \notin Ids(o.node_types), o,
          Applied([o EXCEPT !.node_types = Keep(@, LAMBDA n : n.id # c.node_id),
                            !.edge_types = Keep(@, LAMBDA e : ~Incident(e))],
                  <<CreateNodeCmd(Find(o.node_types, c.node_id))>>))

FeDeleteNode(o, c) ==
    LET id == c.node_id
        removedEdges == Keep(o.edge_types,
                             LAMBDA e : e.source_node_id = id \/ e.target_node_id = id)
        removedEdgeIds == Ids(removedEdges)
    IN  Unless(id \notin Ids(o.node_types), o,
          Applied([o EXCEPT
                !.node_types = Keep(@, LAMBDA n : n.id # id),
                !.edge_types = Keep(@, LAMBDA e : e.source_node_id # id /\ e.target_node_id # id),
                !.indexes = Keep(@, LAMBDA i : i.node_id # id),
                !.object_mappings = Keep(@, LAMBDA m : m.node_type_id # id),
                !.link_mappings = Keep(@, LAMBDA m : m.edge_type_id \notin removedEdgeIds)],
            <<CreateNodeCmd(Find(o.node_types, id))>>
            \o Each(removedEdges, CreateEdgeCmd)
            \o Each(Keep(o.indexes, LAMBDA i : i.node_id = id), AddIndexCmd)
            \o Each(Keep(o.object_mappings, LAMBDA m : m.node_type_id = id),
                    CreateObjectMappingCmd)
            \o Each(Keep(o.link_mappings, LAMBDA m : m.edge_type_id \in removedEdgeIds),
                    CreateLinkMappingCmd)))

FeDeleteEdge(o, c) ==
    Unless(c.edge_id \notin Ids(o.edge_types), o,
      Applied([o EXCEPT
            !.edge_types = Keep(@, LAMBDA e : e.id # c.edge_id),
            !.link_mappings = Keep(@, LAMBDA m : m.edge_type_id # c.edge_id)],
        <<CreateEdgeCmd(Find(o.edge_types, c.edge_id))>>
        \o Each(Keep(o.link_mappings, LAMBDA m : m.edge_type_id = c.edge_id),
                CreateLinkMappingCmd)))

\* rename_node, update_node_description and the three updates of an edge: one
\* field is set, and the inverse is the same command with the old value.
FeSetField(o, list, id, field, c, arg) ==
    Unless(id \notin Ids(o[list]), o,
      Applied([o EXCEPT ![list] = MapById(@, id, LAMBDA x : [x EXCEPT ![field] = c[arg]])],
              <<[c EXCEPT ![arg] = Find(o[list], id)[field]]>>))

\* The owner is looked up by id alone, the change is made by kind and id.
FeOwner(o, id) == Find(o.node_types \o o.edge_types, id)
FeHasProperty(o, c) ==
    /\ c.owner.type_id \in Ids(o.node_types) \cup Ids(o.edge_types)
    /\ c.property_id \in Ids(FeOwner(o, c.owner.type_id).properties)

FeAddProperty(o, c) ==
    Applied(WithProperties(o, c.owner, Append(OwnerProperties(o, c.owner), c.property)),
            <<DeletePropertyCmd(c.owner, c.property.id)>>)

FeDeleteProperty(o, c) ==
    LET id == c.property_id
        ownerId == c.owner.type_id
        ownerIsNode == c.owner.kind = "node" /\ ownerId \in Ids(o.node_types)
        removedConstraints ==
            IF ownerIsNode
            THEN Keep(Find(o.node_types, ownerId).constraints,
                      LAMBDA x : Contains(x.property_ids, id))
            ELSE <<>>
        removedIndexes ==
            Keep(o.indexes, LAMBDA i : i.node_id = ownerId /\ Contains(i.property_ids, id))
        previousMappings ==
            IF ownerIsNode
            THEN Keep(o.object_mappings, LAMBDA m : /\ m.node_type_id = ownerId
                                                    /\ Contains(m.property_mappings, id))
            ELSE <<>>
        withoutProperty ==
            WithProperties(o, c.owner,
                Keep(OwnerProperties(o, c.owner), LAMBDA p : p.id # id))
        withoutUses ==
            [withoutProperty EXCEPT
                !.node_types = MapById(@, ownerId, LAMBDA n : [n EXCEPT !.constraints =
                    Keep(@, LAMBDA x : x.id \notin Ids(removedConstraints))]),
                !.indexes = Keep(@, LAMBDA i : i.id \notin Ids(removedIndexes)),
                !.object_mappings = [k \in DOMAIN @ |->
                    IF @[k].node_type_id = ownerId THEN Unmap(@[k], id) ELSE @[k]]]
    IN  Unless(~FeHasProperty(o, c), o,
          Applied(IF ownerIsNode THEN withoutUses ELSE withoutProperty,
            <<AddPropertyCmd(c.owner, Find(FeOwner(o, ownerId).properties, id))>>
            \o Each(removedConstraints, LAMBDA x : AddConstraintCmd(ownerId, x))
            \o Each(removedIndexes, AddIndexCmd)
            \o Each(previousMappings, UpdateObjectMappingCmd)))

\* Only these fields of a patch are applied; a default_value is passed over.
FePatchFields == {"name", "property_type", "nullable", "description"}

FeUpdateProperty(o, c) ==
    LET old == Find(FeOwner(o, c.owner.type_id).properties, c.property_id)
        set == DOMAIN c.patch \cap FePatchFields
        Patched(p) == [f \in DOMAIN p |-> IF f \in set THEN c.patch[f] ELSE p[f]]
    IN  Unless(~FeHasProperty(o, c), o,
          Applied(WithProperties(o, c.owner,
                      MapById(OwnerProperties(o, c.owner), c.property_id, Patched)),
                  <<[c EXCEPT !.patch = [f \in set |-> old[f]]]>>))

FeAddConstraint(o, c) ==
    Applied([o EXCEPT !.node_types = MapById(@, c.node_id,
                LAMBDA n : [n EXCEPT !.constraints = Append(@, c.constraint)])],
            <<[op |-> "remove_constraint", node_id |-> c.node_id,
               constraint_id |-> c.constraint.id]>>)

FeRemoveConstraint(o, c) ==
    LET constraints == IF c.node_id \in Ids(o.node_types)
                       THEN Find(o.node_types, c.node_id).constraints ELSE <<>>
    IN  Unless(c.constraint_id \notin Ids(constraints), o,
          Applied([o EXCEPT !.node_types = MapById(@, c.node_id,
                      LAMBDA n : [n EXCEPT !.constraints =
                                     Keep(@, LAMBDA x : x.id # c.constraint_id)])],
                  <<AddConstraintCmd(c.node_id, Find(constraints, c.constraint_id))>>))

\* remove_index, delete_object_mapping and delete_link_mapping.
FeDrop(o, list, id, restore) ==
    Unless(id \notin Ids(o[list]), o,
      Applied([o EXCEPT ![list] = Keep(@, LAMBDA x : x.id # id)],
              <<restore>>))

\* update_object_mapping and update_link_mapping.
FeReplace(o, list, c) ==
    Unless(c.id \notin Ids(o[list]), o,
      Applied([o EXCEPT ![list] = MapById(@, c.id, LAMBDA m : c.mapping)],
              <<[c EXCEPT !.mapping = Find(o[list], c.id)]>>))

FeApplyOne(o, c) ==
    CASE c.op = "add_node" -> Push(o, "node_types", NewNode(c), DeleteNodeCmd(c.id))
      [] c.op = "create_node_type" -> Push(o, "node_types", c.node, DeleteNodeCmd(c.node.id))
      [] c.op = "delete_node" -> FeDeleteNode(o, c)
      [] c.op = "rename_node" ->
            FeSetField(o, "node_types", c.node_id, "label", c, "new_label")
      [] c.op = "update_node_description" ->
            FeSetField(o, "node_types", c.node_id, "description", c, "description")
      [] c.op = "add_edge" -> Push(o, "edge_types", NewEdge(c), DeleteEdgeCmd(c.id))
      [] c.op = "create_edge_type" -> Push(o, "edge_types", c.edge, DeleteEdgeCmd(c.edge.id))
      [] c.op = "delete_edge" -> FeDeleteEdge(o, c)
      [] c.op = "rename_edge" ->
            FeSetField(o, "edge_types", c.edge_id, "label", c, "new_label")
      [] c.op = "update_edge_cardinality" ->
            FeSetField(o, "edge_types", c.edge_id, "cardinality", c, "cardinality")
      [] c.op = "update_edge_description" ->
            FeSetField(o, "edge_types", c.edge_id, "description", c, "description")
      [] c.op = "add_property" -> FeAddProperty(o, c)
      [] c.op = "delete_property" -> FeDeleteProperty(o, c)
      [] c.op = "update_property" -> FeUpdateProperty(o, c)
      [] c.op = "add_constraint" -> FeAddConstraint(o, c)
      [] c.op = "remove_constraint" -> FeRemoveConstraint(o, c)
      [] c.op = "add_index" -> Push(o, "indexes", c.index,
                                    [op |-> "remove_index", index_id |-> c.index.id])
      [] c.op = "remove_index" -> FeDrop(o, "indexes", c.index_id,
                                         AddIndexCmd(Find(o.indexes, c.index_id)))
      [] c.op = "create_object_mapping" ->
            Push(o, "object_mappings", c.mapping, DeleteObjectMappingCmd(c.mapping.id))
      [] c.op = "update_object_mapping" -> FeReplace(o, "object_mappings", c)
      [] c.op = "delete_object_mapping" ->
            FeDrop(o, "object_mappings", c.id,
                   CreateObjectMappingCmd(Find(o.object_mappings, c.id)))
      [] c.op = "create_link_mapping" ->
            Push(o, "link_mappings", c.mapping, DeleteLinkMappingCmd(c.mapping.id))
      [] c.op = "update_link_mapping" -> FeReplace(o, "link_mappings", c)
      [] c.op = "delete_link_mapping" ->
            FeDrop(o, "link_mappings", c.id, CreateLinkMappingCmd(Find(o.link_mappings, c.id)))

\* A batch runs to its end whatever its commands do.
FeThen(done, r) == Applied(r.ont, r.inverse \o done.inverse)

applyCommandToOntology(o, cmds) ==
    FoldLeft(LAMBDA acc, c : FeThen(acc, FeApplyOne(acc.ont, c)), Applied(o, <<>>), cmds)
=============================================================================
