-------------------------- MODULE RebaseAnalysis --------------------------
(***************************************************************************)
(* The structural diff of two ontologies and the three-way conflict        *)
(* analysis that gates a draft's rebase (ox-ontology: diff.rs, rebase.rs). *)
(*                                                                         *)
(* An ontology is a finite map from stable entity ids (node and edge types *)
(* alike) to bodies.  A body has                                           *)
(*   - scalar axes: label, description, and for edges source, target and   *)
(*     cardinality;                                                        *)
(*   - constraint axes: the constraint stored under each constraint id;    *)
(*   - properties, keyed by property id, each with a name and a value that *)
(*     stands for its type, nullability, description and default.          *)
(***************************************************************************)
EXTENDS Naturals, FiniteSets

CONSTANTS Entity,          \* NodeTypeId / EdgeTypeId values
          ScalarAxis,      \* label, description, source, target, cardinality
          ConstraintAxis,  \* constraint ids
          PropertyId, Name, Value,
          Absent           \* "no such entity" and "no such property"

ASSUME AbsentAssumption ==
  /\ Absent \notin [name : Name, value : Value]
  /\ Absent \notin [axes : [ScalarAxis \cup ConstraintAxis -> Value],
                    props : [PropertyId -> [name : Name, value : Value] \cup {Absent}]]

Property == [name : Name, value : Value]

Body == [axes  : [ScalarAxis \cup ConstraintAxis -> Value],
         props : [PropertyId -> Property \cup {Absent}]]

Ontology == [Entity -> Body \cup {Absent}]

(* OntologyIR::new(..) with no node and no edge types: the baseline used   *)
(* when a draft has no parent version.                                     *)
EmptyOntology == [e \in Entity |-> Absent]

---------------------------------------------------------------------------
(* compute_diff: entities are matched by id.                               *)

Added(old, new)   == {e \in Entity : old[e] = Absent /\ new[e] # Absent}
Removed(old, new) == {e \in Entity : old[e] # Absent /\ new[e] = Absent}

AddedProps(o, n)   == {p \in PropertyId : o.props[p] = Absent /\ n.props[p] # Absent}
RemovedProps(o, n) == {p \in PropertyId : o.props[p] # Absent /\ n.props[p] = Absent}

(* diff_single_property compares type, nullability, description and        *)
(* default value; the name is not among them.                              *)
ModifiedProps(o, n) == {p \in PropertyId :
                          /\ o.props[p] # Absent
                          /\ n.props[p] # Absent
                          /\ o.props[p].value # n.props[p].value}

ChangedAxes(o, n) == {a \in ScalarAxis \cup ConstraintAxis : o.axes[a] # n.axes[a]}

(* diff_node / diff_edge report at least one change.                       *)
BodyChanged(o, n) == \/ ChangedAxes(o, n) # {}
                     \/ AddedProps(o, n) # {}
                     \/ RemovedProps(o, n) # {}
                     \/ ModifiedProps(o, n) # {}

Modified(old, new) == {e \in Entity : /\ old[e] # Absent
                                      /\ new[e] # Absent
                                      /\ BodyChanged(old[e], new[e])}

---------------------------------------------------------------------------
(* collect_*_property_activity: what one side did to each property NAME.   *)
(* The changes are inserted into one map in the order added, removed,      *)
(* modified, so under one name a later kind overwrites an earlier one.  A  *)
(* modified property is filed under its new name.                          *)

ModifiedUnder(o, n, nm) == {p \in ModifiedProps(o, n) : n.props[p].name = nm}
RemovedUnder(o, n, nm)  == {p \in RemovedProps(o, n) : o.props[p].name = nm}
AddedUnder(o, n, nm)    == {p \in AddedProps(o, n) : n.props[p].name = nm}

Activity(o, n, nm) ==
  IF ModifiedUnder(o, n, nm) # {} THEN "modified"
  ELSE IF RemovedUnder(o, n, nm) # {} THEN "removed"
  ELSE IF AddedUnder(o, n, nm) # {} THEN "added"
  ELSE "none"

(* property_conflict_axis and property_modify_atoms.                       *)
PropertyConflict(b, h, d, nm) ==
  LET ha == Activity(b, h, nm)
      da == Activity(b, d, nm)
  IN  \/ ha = "added" /\ da = "added"
      \/ ha = "modified" /\ da = "removed"
      \/ ha = "removed" /\ da = "modified"
      \/ /\ ha = "modified" /\ da = "modified"
         /\ \E p \in ModifiedUnder(b, h, nm), q \in ModifiedUnder(b, d, nm) :
               h.props[p].value # d.props[q].value

(* node_conflict_axes / edge_conflict_axes: both sides changed the axis,   *)
(* and to different values.  Only the scalar axes are compared.            *)
AxisConflict(b, h, d, a) == /\ a \in ChangedAxes(b, h)
                            /\ a \in ChangedAxes(b, d)
                            /\ h.axes[a] # d.axes[a]

ModifyModify(b, h, d) == \/ \E a \in ScalarAxis : AxisConflict(b, h, d, a)
                         \/ \E nm \in Name : PropertyConflict(b, h, d, nm)

(* Mutant: the head's modification of an entity the draft removed is        *)
(* forgotten.                                                              *)
ConflictsOneWay(base, head, draft) ==
  (Added(base, head) \cap Added(base, draft))
  \cup (Removed(base, head) \cap Modified(base, draft))
  \cup {e \in Modified(base, head) \cap Modified(base, draft) :
           ModifyModify(base[e], head[e], draft[e])}

(* detect_conflicts: Add/Add by id alone, Modify/Remove in both            *)
(* directions, Modify/Modify on an overlapping axis or property.           *)
Conflicts(base, head, draft) ==
  (Added(base, head) \cap Added(base, draft))
  \cup (Removed(base, head) \cap Modified(base, draft))
  \cup (Modified(base, head) \cap Removed(base, draft))
  \cup {e \in Modified(base, head) \cap Modified(base, draft) :
           ModifyModify(base[e], head[e], draft[e])}

IsClean(base, head, draft) == Conflicts(base, head, draft) = {}

---------------------------------------------------------------------------
(* Reference: replay the change base -> side on top of another ontology.   *)
(* The later change wins: an entity or a property that side modified and   *)
(* the other ontology no longer has comes back as side left it, so that a  *)
(* modification and a removal of one thing do not commute.                 *)

ReplayProps(o, n, onto) ==
  [p \in PropertyId |->
     CASE p \in AddedProps(o, n) \cup RemovedProps(o, n) -> n.props[p]
       [] p \in ModifiedProps(o, n) ->
             IF onto.props[p] = Absent THEN n.props[p]
             ELSE [onto.props[p] EXCEPT !.value = n.props[p].value]
       [] OTHER -> onto.props[p]]

ReplayBody(o, n, onto) ==
  [axes  |-> [a \in ScalarAxis \cup ConstraintAxis |->
                IF a \in ChangedAxes(o, n) THEN n.axes[a] ELSE onto.axes[a]],
   props |-> ReplayProps(o, n, onto)]

Replay(base, side, onto) ==
  [e \in Entity |->
     CASE e \in Added(base, side) \cup Removed(base, side) -> side[e]
       [] e \in Modified(base, side) ->
             IF onto[e] = Absent THEN side[e]
             ELSE ReplayBody(base[e], side[e], onto[e])
       [] OTHER -> onto[e]]

===========================================================================
