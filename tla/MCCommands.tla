------------------------------ MODULE MCCommands ------------------------------
(***************************************************************************)
(* An ontology with every kind of definition in it, and commands that      *)
(* touch each of them.                                                     *)
(***************************************************************************)
EXTENDS CommandEditor

CONSTANT Label

Prop(id, name) == [id |-> id, name |-> name, nullable |-> FALSE, default_value |-> "none"]
NodeOwner(id) == [kind |-> "node", type_id |-> id]
EdgeOwner(id) == [kind |-> "edge", type_id |-> id]
Key == [id |-> "c1", kind |-> "exists", property_ids |-> <<"p1">>]
Idx == [id |-> "i1", node_id |-> "n1", property_ids |-> <<"p1">>]
Object(id, n, ps, rel) ==
    [id |-> id, node_type_id |-> n, property_mappings |-> ps, relation |-> rel]
Link(rels) == [id |-> "lm1", edge_type_id |-> "e1", relations |-> rels]

MCOntology ==
    [EmptyOntology EXCEPT
        !.node_types = <<[id |-> "n1", label |-> "A", description |-> "",
                          properties |-> <<Prop("p1", "x")>>, constraints |-> <<Key>>],
                         [id |-> "n2", label |-> "B", description |-> "",
                          properties |-> <<Prop("p2", "y")>>, constraints |-> <<>>]>>,
        !.edge_types = <<[id |-> "e1", label |-> "R", description |-> "",
                          source_node_id |-> "n1", target_node_id |-> "n2",
                          cardinality |-> "one_to_many", kind |-> "composition",
                          properties |-> <<>>]>>,
        !.indexes = <<Idx>>,
        !.object_mappings = <<Object("om1", "n1", <<"p1">>, "t1")>>,
        !.link_mappings = <<Link({"t1", "t2"})>>,
        !.segments = {[target_node_type_id |-> "n2", referenced_properties |-> {"y"}]}]

MCDeletes ==
    [op : {"delete_node"}, node_id : NodeId] \cup {DeleteEdgeCmd("e1"), DeleteEdgeCmd("e2")}
    \cup {DeletePropertyCmd(NodeOwner("n1"), "p1"), DeletePropertyCmd(NodeOwner("n2"), "p2"),
          DeletePropertyCmd(EdgeOwner("e1"), "p3")}

Patches == {[f \in {"name"} |-> "z"], [f \in {"nullable"} |-> TRUE]}

MCNode == [id |-> "n3", label |-> "C", description |-> "", properties |-> <<Prop("p3", "x")>>,
           constraints |-> <<[Key EXCEPT !.property_ids = <<"p3">>]>>]
MCEdge == [MCOntology.edge_types[1] EXCEPT !.id = "e2", !.label = "S"]

MCCommandSet ==
    MCDeletes
    \cup [op : {"add_node"}, id : NodeId, label : Label, description : {""}]
    \cup [op : {"rename_node"}, node_id : NodeId, new_label : Label]
    \cup [op : {"update_node_description"}, node_id : {"n1"}, description : {"d"}]
    \cup [op : {"add_edge"}, id : {"e1", "e2"}, label : {"R"}, source_node_id : {"n1"},
          target_node_id : NodeId, cardinality : {"many_to_many"}]
    \cup [op : {"rename_edge"}, edge_id : {"e1", "e2"}, new_label : {"S"}]
    \cup [op : {"update_edge_cardinality"}, edge_id : {"e1"}, cardinality : {"many_to_many"}]
    \cup [op : {"update_edge_description"}, edge_id : {"e1"}, description : {"d"}]
    \cup {CreateNodeCmd(MCNode), CreateEdgeCmd(MCEdge)}
    \cup {AddPropertyCmd(NodeOwner("n1"), Prop("p1", "x")),
          AddPropertyCmd(EdgeOwner("e1"), Prop("p3", "x"))}
    \cup [op : {"update_property"}, owner : {NodeOwner("n1")}, property_id : {"p1"},
          patch : Patches]
    \cup {AddConstraintCmd("n1", Key),
          [op |-> "remove_constraint", node_id |-> "n1", constraint_id |-> "c1"],
          AddIndexCmd(Idx), [op |-> "remove_index", index_id |-> "i1"]}
    \cup {CreateObjectMappingCmd(Object("om1", "n1", <<"p1">>, "t1")),
          CreateObjectMappingCmd(Object("om2", "n1", <<>>, "t2")),
          UpdateObjectMappingCmd(Object("om1", "n2", <<"p2">>, "t2")),
          DeleteObjectMappingCmd("om1"),
          CreateLinkMappingCmd(Link({"t1"})), DeleteLinkMappingCmd("lm1"),
          [op |-> "update_link_mapping", id |-> "lm1", mapping |-> Link({"t2"})]}

\* Histories that lead to one ontology, up to the order of its lists, are one.
View == <<Unordered(ontology), edited>>
=============================================================================
