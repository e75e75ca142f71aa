-------------------------- MODULE OntologyVersion --------------------------
(***************************************************************************)
(* The workspace's canonical ontology: one identity row per workspace and  *)
(* an append-only table of version snapshots (ox-store,                    *)
(* postgres/ontology_version.rs).  The handlers that commit versions are   *)
(* in DraftLifecycle; this module holds the tables and their statements.   *)
(*                                                                         *)
(* A version is named by its position in the table, which is the order in  *)
(* which the committing transactions inserted it; 0 is SQL NULL.  "tag" is *)
(* the integer in the version column.  Two fields are history, not         *)
(* columns: "draft" is the draft whose completion committed the version    *)
(* (None for a direct edit), and "base" the version that its content was   *)
(* derived from, as the committer knew it.                                 *)
(***************************************************************************)
EXTENDS RebaseAnalysis, Sequences

CONSTANTS Draft,        \* draft ids
          None,         \* SQL NULL where the column is not a version
          MaxVersion    \* bound on the number of committed versions

ASSUME MaxVersionAssumption == MaxVersion \in Nat
ASSUME NoneAssumption == None \notin Ontology /\ None \notin Draft

VARIABLES identity,   \* BOOLEAN: the row of `ontologies` exists
          versions    \* Seq(Version): `ontology_version_snapshots`

canonVars == <<identity, versions>>

Version == [ontology : Ontology, parent : Nat, tag : Nat,
            draft : Draft \cup {None}, base : Nat]

CanonTypeOK == identity \in BOOLEAN /\ versions \in Seq(Version)

CanonInit == identity = FALSE /\ versions = << >>

(* find_current_version: the newest snapshot, or NULL.                     *)
CurrentVersion == Len(versions)

(* The tag the next commit will use: next_ontology_version_tag of the head *)
(* read earlier, or "1" when there was none.                               *)
NextTag(head) == IF head = 0 THEN 1 ELSE versions[head].tag + 1

(* get_ontology_ir, with the callers' fallback to an empty ontology.       *)
OntologyAt(v) == IF v = 0 THEN EmptyOntology ELSE versions[v].ontology

(* UNIQUE (ontology_id, version).                                          *)
TagTaken(tag) == \E i \in DOMAIN versions : versions[i].tag = tag

(* create_ontology under ontologies_workspace_singleton_uq.                *)
InsertIdentity == identity = FALSE /\ identity' = TRUE /\ UNCHANGED versions

(* Mutant: the version column is not UNIQUE.                               *)
CommitVersionUnchecked(o, head, d, b) ==
  /\ Len(versions) < MaxVersion
  /\ versions' = Append(versions, [ontology |-> o, parent |-> head, tag |-> NextTag(head),
                                   draft |-> d, base |-> b])
  /\ UNCHANGED identity

(* commit_version: one transaction that inserts the snapshot row, its      *)
(* entity pointers and the level-3 indexes, or nothing.                    *)
CommitVersion(o, head, d, b) ==
  /\ ~TagTaken(NextTag(head))
  /\ Len(versions) < MaxVersion
  /\ versions' = Append(versions, [ontology |-> o, parent |-> head, tag |-> NextTag(head),
                                   draft |-> d, base |-> b])
  /\ UNCHANGED identity

---------------------------------------------------------------------------
(* Concurrent commits never fork the lineage: the i-th version has tag i   *)
(* and the version before it as its parent, although no commit locks or    *)
(* compares the head it read before.                                       *)
LinearHistory == \A i \in DOMAIN versions : versions[i].tag = i /\ versions[i].parent = i - 1

(* What a commit derived from a known version never skips a version        *)
(* committed meanwhile (the lost-update guard of complete_ontology_draft,  *)
(* the expected_version check of edit_ontology).                           *)
NoLostCanonicalUpdate ==
  \A i \in DOMAIN versions : versions[i].base # 0 => versions[i].base = i - 1

===========================================================================
