----------------------------- MODULE MCRebase -----------------------------
(***************************************************************************)
(* The analysis is a pure function: a behaviour picks any three            *)
(* ontologies, of which base is the fork point, and analyses them once.    *)
(***************************************************************************)
EXTENDS RebaseAnalysis

VARIABLES base, head, draft, verdict
rebaseVars == <<base, head, draft, verdict>>

(* Ontologies in which a property keeps one name.  diff_single_property    *)
(* does not compare names, so renaming a property, or replacing one by     *)
(* another of the same name, is outside what the analysis sees.            *)
Pool(nameOf) ==
  {o \in Ontology : \A e \in Entity : o[e] # Absent =>
     \A p \in PropertyId : o[e].props[p] # Absent => o[e].props[p].name = nameOf[p]}

RebaseInit == /\ \E nameOf \in [PropertyId -> Name] :
                   /\ \A p, q \in PropertyId : nameOf[p] = nameOf[q] => p = q   \* validate()
                   /\ base \in Pool(nameOf) /\ head \in Pool(nameOf) /\ draft \in Pool(nameOf)
              /\ verdict = "pending"

(* analyze_rebase, as rebase_draft consumes it through is_clean().         *)
Analyze == /\ verdict = "pending"
           /\ verdict' = IF IsClean(base, head, draft) THEN "clean" ELSE "conflict"
           /\ UNCHANGED <<base, head, draft>>

RebaseNext == Analyze
RebaseSpec == RebaseInit /\ [][RebaseNext]_rebaseVars

---------------------------------------------------------------------------
(* detect_conflicts compares the scalar axes, never the constraints: both  *)
(* sides of a clean rebase may have changed one constraint, differently.   *)
ConstraintsApart(b, h, d) ==
  \A a \in ConstraintAxis : a \in ChangedAxes(b, h) /\ a \in ChangedAxes(b, d)
                              => h.axes[a] = d.axes[a]

ConstraintsApartIn(b, h, d) ==
  \A e \in Modified(b, h) \cap Modified(b, d) : ConstraintsApart(b[e], h[e], d[e])

(* A clean verdict from detect_conflicts really means independent changes, *)
(* but for constraints: replaying the draft's changes on the head and the  *)
(* head's changes on the draft give one and the same ontology.             *)
CleanMeansCommuting ==
  verdict = "clean" /\ ConstraintsApartIn(base, head, draft) =>
    Replay(base, draft, head) = Replay(base, head, draft)

===========================================================================
