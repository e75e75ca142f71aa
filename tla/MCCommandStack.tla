---------------------------- MODULE MCCommandStack ----------------------------
(***************************************************************************)
(* A draft of two nodes and an edge, edited from the tabs of the cfg.      *)
(***************************************************************************)
EXTENDS CommandStack

Node(id, label) == [id |-> id, label |-> label, description |-> "",
                    properties |-> <<>>, constraints |-> <<>>]

MCBase ==
    [EmptyOntology EXCEPT
        !.node_types = <<Node("n1", "A"), Node("n2", "B")>>,
        !.edge_types = <<[id |-> "e1", label |-> "R", description |-> "",
                          source_node_id |-> "n1", target_node_id |-> "n2",
                          cardinality |-> "one_to_many", kind |-> "association",
                          properties |-> <<>>]>>]

MCEdits ==
    {<<[op |-> "rename_node", node_id |-> "n1", new_label |-> "X"]>>}

MCSelections == {[node |-> "n1", edge |-> "e1"]}

MCNewIds == <<"a1", "a2", "a3">>

Symmetry == Permutations(Tabs) \cup Permutations(Calls)
=============================================================================
