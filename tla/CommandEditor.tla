---------------------------- MODULE CommandEditor ----------------------------
(***************************************************************************)
(* One editor works on an ontology: every step is a command the server     *)
(* accepts (execute in crates/ox-ontology/src/command).  The properties    *)
(* quantify over every command in every ontology reached: its undo, its    *)
(* cascade, what the browser makes of it, and the retraction of tables.    *)
(***************************************************************************)
EXTENDS CommandMirror

CONSTANTS
    NodeId, EdgeId, PropertyId, ConstraintId, IndexId, MappingId,
    Text,            \* labels, names and descriptions
    Table,           \* what mappings read
    Commands,        \* the commands that are issued
    FirstOntology,
    MaxCommands         \* bound on the commands issued

-----------------------------------------------------------------------------
(* The types of crates/ox-ontology/src/ir and of the commands.              *)

Property == [id : PropertyId, name : Text, nullable : BOOLEAN, default_value : Text]

ConstraintDef == [id : ConstraintId, kind : {"unique", "exists", "node_key"},
                  property_ids : Seq(PropertyId)]

NodeType == [id : NodeId, label : Text, description : Text,
             properties : Seq(Property), constraints : Seq(ConstraintDef)]

Cardinalities == {"one_to_one", "one_to_many", "many_to_one", "many_to_many"}

EdgeType == [id : EdgeId, label : Text, description : Text,
             source_node_id : NodeId, target_node_id : NodeId,
             cardinality : Cardinalities, kind : {"association", "composition", "aggregation"},
             properties : Seq(Property)]

IndexDef == [id : IndexId, node_id : NodeId, property_ids : Seq(PropertyId)]

ObjectMapping == [id : MappingId, node_type_id : NodeId,
                  property_mappings : Seq(PropertyId), relation : Table]

LinkMapping == [id : MappingId, edge_type_id : EdgeId, relations : SUBSET Table]

Ontology ==
    [node_types : Seq(NodeType), edge_types : Seq(EdgeType), indexes : Seq(IndexDef),
     object_mappings : Seq(ObjectMapping), link_mappings : Seq(LinkMapping),
     segments : SUBSET [target_node_type_id : NodeId, referenced_properties : SUBSET Text],
     table_inventory : SUBSET [contributed_node_ids : SUBSET NodeId,
                               contributed_edge_ids : SUBSET EdgeId],
     rules : SUBSET [node_type_id : NodeId, property_id : PropertyId]]

Owner == [kind : {"node"}, type_id : NodeId] \cup [kind : {"edge"}, type_id : EdgeId]

\* A patch sets some of these fields.
Patched == [name : Text, nullable : BOOLEAN, default_value : Text]
Patch == {[f \in fs |-> v[f]] : fs \in SUBSET {"name", "nullable", "default_value"}, v \in Patched}

NodeCommand ==
    [op : {"add_node"}, id : NodeId, label : Text, description : Text]
    \cup [op : {"create_node_type"}, node : NodeType]
    \cup [op : {"delete_node"}, node_id : NodeId]
    \cup [op : {"rename_node"}, node_id : NodeId, new_label : Text]
    \cup [op : {"update_node_description"}, node_id : NodeId, description : Text]

EdgeCommand ==
    [op : {"add_edge"}, id : EdgeId, label : Text, source_node_id : NodeId,
     target_node_id : NodeId, cardinality : Cardinalities]
    \cup [op : {"create_edge_type"}, edge : EdgeType]
    \cup [op : {"delete_edge"}, edge_id : EdgeId]
    \cup [op : {"rename_edge"}, edge_id : EdgeId, new_label : Text]
    \cup [op : {"update_edge_cardinality"}, edge_id : EdgeId, cardinality : Cardinalities]
    \cup [op : {"update_edge_description"}, edge_id : EdgeId, description : Text]

PropertyCommand ==
    [op : {"add_property"}, owner : Owner, property : Property]
    \cup [op : {"delete_property"}, owner : Owner, property_id : PropertyId]
    \cup [op : {"update_property"}, owner : Owner, property_id : PropertyId, patch : Patch]

ConstraintCommand ==
    [op : {"add_constraint"}, node_id : NodeId, constraint : ConstraintDef]
    \cup [op : {"remove_constraint"}, node_id : NodeId, constraint_id : ConstraintId]

IndexCommand ==
    [op : {"add_index"}, index : IndexDef] \cup [op : {"remove_index"}, index_id : IndexId]

MappingCommand ==
    [op : {"create_object_mapping"}, mapping : ObjectMapping]
    \cup [op : {"update_object_mapping"}, id : MappingId, mapping : ObjectMapping]
    \cup [op : {"create_link_mapping"}, mapping : LinkMapping]
    \cup [op : {"update_link_mapping"}, id : MappingId, mapping : LinkMapping]
    \cup [op : {"delete_object_mapping", "delete_link_mapping"}, id : MappingId]

Command == NodeCommand \cup EdgeCommand \cup PropertyCommand \cup ConstraintCommand
           \cup IndexCommand \cup MappingCommand

\* The description a new edge starts with.
ASSUME TextAssumption == "" \in Text

\* Indexes and the constraints of a node are told apart by their ids, which
\* neither rebuild_indices nor validate looks at.
UniqueIds(o) ==
    /\ Distinct(o.indexes, LAMBDA i : i.id)
    /\ \A n \in ToSet(o.node_types) : Distinct(n.constraints, LAMBDA x : x.id)

\* No id is a node's and an edge's; ids are generated where they are first used.
ASSUME EditorAssumption ==
    /\ NodeId \cap EdgeId = {}
    /\ FirstOntology \in Ontology /\ UniqueIds(FirstOntology)
    /\ rebuild_indices(FirstOntology) /\ validate(FirstOntology)
    /\ \A c \in Commands : /\ c \in Command
                           /\ c.op = "create_node_type" =>
                                 Distinct(c.node.constraints, LAMBDA x : x.id)
    /\ MaxCommands \in Nat

-----------------------------------------------------------------------------
VARIABLES ontology, edited
editorVars == <<ontology, edited>>

EditorInit == ontology = FirstOntology /\ edited = 0

\* What comes of a command: nothing, if it is refused.
Done(cmds) == {r \in {execute(ontology, cmds)} : r.ok}

Issue(c) ==
    /\ edited < MaxCommands
    /\ \E done \in Done(<<c>>) : ontology' = done.ont
    /\ edited' = edited + 1

EditorNext == \E c \in Commands : Issue(c)

EditorSpec == EditorInit /\ [][EditorNext]_editorVars

-----------------------------------------------------------------------------
(* Undo finds an index or a constraint by its id: no command lets two of    *)
(* them share one, although no check of the result would notice.            *)
IdsStayUnique == ontology \in Ontology /\ UniqueIds(ontology)

(* The inverse a command returns is itself accepted and brings the ontology *)
(* back, cascaded deletions included (execute_inner's inverse batches).     *)
Restores(undone) == undone.ok /\ Same(undone.ont, ontology)

UndoRestores ==
    \A c \in Commands : \A done \in Done(<<c>>) :
        Restores(execute(done.ont, done.inverse))

(* A delete whose target exists leaves no edge, mapping, index or           *)
(* constraint behind that refers to what it removed: the cascade of         *)
(* DeleteNode, DeleteEdge and DeleteProperty is complete.                   *)
NothingDangles(o) == /\ ValidNodes(o) /\ ValidEdges(o) /\ ValidIndexes(o)
                     /\ ValidObjectMappings(o) /\ ValidLinkMappings(o)

Deletes == {c \in Commands : c.op \in {"delete_node", "delete_edge", "delete_property"}}

CascadesAreComplete ==
    \A c \in Deletes : \A r \in {execute_inner(ontology, <<c>>)} :
        r.ok => NothingDangles(r.ont)

(* The browser's interpreter mirrors the server's: whatever command the     *)
(* server accepts, the browser had already computed the same ontology, and  *)
(* its own undo brings the ontology back.  A patch of a default value,      *)
(* which the browser passes over, is left out.                              *)
Mirrors(browser, server) ==
    /\ Same(browser.ont, server.ont)
    /\ Same(applyCommandToOntology(browser.ont, browser.inverse).ont, ontology)

Understood == {c \in Commands : c.op = "update_property" => DOMAIN c.patch \subseteq FePatchFields}

MirrorAgrees ==
    \A c \in Understood : \A server \in Done(<<c>>) :
        Mirrors(applyCommandToOntology(ontology, <<c>>), server)

(* An accepted retraction of some tables leaves no mapping that reads them, *)
(* and keeps every node that is still mapped from another table.            *)
RetractionIsComplete ==
    \A drop \in SUBSET Table :
        LET Kept(n) == \E m \in ToSet(ontology.object_mappings) :
                           m.node_type_id = n.id /\ m.relation \notin drop
        IN  \A r \in Done(build_retract_source_batch(ontology, drop)) :
              /\ \A m \in ToSet(r.ont.object_mappings) : m.relation \notin drop
              /\ \A m \in ToSet(r.ont.link_mappings) : m.relations \cap drop = {}
              /\ \A n \in ToSet(ontology.node_types) : Kept(n) => n.id \in Ids(r.ont.node_types)
=============================================================================
