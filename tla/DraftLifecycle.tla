-------------------------- MODULE DraftLifecycle --------------------------
(***************************************************************************)
(* The design-draft lifecycle: rows of `ontology_drafts` guarded by an     *)
(* optimistic revision, the per-revision snapshots of `ontology_snapshots` *)
(* and the HTTP handlers that read a draft, compute for a long time (LLM,  *)
(* source analysis) and then write it back, interleaved with one another   *)
(* and with the commits of canonical versions.                             *)
(*                                                                         *)
(* A request is one activation of a handler.  Each of its steps is one     *)
(* statement sent to the database; whatever it computes between statements *)
(* only delays it.  A client sends a revision it has read, so at the time  *)
(* the handler loads the row the sent revision is at most the row's.       *)
(***************************************************************************)
EXTENDS OntologyVersion

CONSTANTS Request,       \* concurrent handler activations
          Ops,           \* the handlers this instance exercises
          MaxRevision    \* bound on a draft's revision

(* The handlers' operations, by what they require of the loaded row and    *)
(* what they write.                                                        *)
DesignOps == {"design", "edit", "refine", "reconcile", "extend"}
RebaseOps == {"rebase", "rebaseAck"}   \* acknowledge_conflicts: false, true
DraftOps  == DesignOps \cup RebaseOps \cup {"reanalyze", "touch", "restore", "complete"}
CanonOps  == {"canonicalEdit", "canonicalCreate"}

ASSUME OpsAssumption == Ops \subseteq DraftOps \cup CanonOps
ASSUME MaxRevisionAssumption == MaxRevision \in Nat

VARIABLES row,    \* [Draft -> DraftRow \cup {None}]
          snap,   \* [Draft -> [1..MaxRevision -> Ontology \cup {None}]]
          req,    \* [Request -> RequestState]
          hist    \* history: hist[d][r] is the ontology of d at revision r

draftVars == <<row, snap, hist>>
vars == <<identity, versions, row, snap, req, hist>>

Status == {"analyzed", "designed", "completed"}
MaybeOntology == Ontology \cup {None}

DraftRow == [status : Status, revision : 1..MaxRevision, ontology : MaybeOntology,
             parent : Nat, committed : Nat, archived : BOOLEAN]

(* What a handler keeps of the row it loaded.                              *)
Seen == [revision : 1..MaxRevision, ontology : MaybeOntology, parent : Nat]

Idle == [pc |-> "idle"]
Busy == [pc : {"loaded", "pinned", "checked", "creating", "committed"},
         op : DraftOps, draft : Draft, rev : Nat \ {0}, seen : Seen, head : Nat, version : Nat]
CanonBusy == [pc : {"checked", "creating"}, op : CanonOps, head : Nat]

TypeOK == /\ CanonTypeOK
          /\ row \in [Draft -> DraftRow \cup {None}]
          /\ snap \in [Draft -> [1..MaxRevision -> MaybeOntology]]
          /\ req \in [Request -> {Idle} \cup Busy \cup CanonBusy]
          /\ hist \in [Draft -> Seq(MaybeOntology)]

Init == /\ CanonInit
        /\ row = [d \in Draft |-> None]
        /\ snap = [d \in Draft |-> [r \in 1..MaxRevision |-> None]]
        /\ req = [q \in Request |-> Idle]
        /\ hist = [d \in Draft |-> << >>]

Exists(d) == row[d] # None

---------------------------------------------------------------------------
(* Creation, deletion and the maintenance sweeps.                          *)

(* Mutant: the row starts at revision 0.                                   *)
InsertDraftAtZero(d, st, o, p) ==
  /\ row[d] = None /\ hist[d] = << >>
  /\ row' = [row EXCEPT ![d] = [status |-> st, revision |-> 0, ontology |-> o,
                                parent |-> p, committed |-> 0, archived |-> FALSE]]
  /\ hist' = [hist EXCEPT ![d] = <<o>>]
  /\ UNCHANGED <<identity, versions, snap, req>>

InsertDraft(d, st, o, p) ==
  /\ row[d] = None /\ hist[d] = << >>       \* Uuid::new_v4 is never reused
  /\ MaxRevision > 0
  /\ row' = [row EXCEPT ![d] = [status |-> st, revision |-> 1, ontology |-> o,
                                parent |-> p, committed |-> 0, archived |-> FALSE]]
  /\ hist' = [hist EXCEPT ![d] = <<o>>]
  /\ UNCHANGED <<identity, versions, snap, req>>

(* create_ontology_draft, origin Source.  The parent is the head read      *)
(* before the source analysis, so any version up to the head at the time   *)
(* of the INSERT; it is NULL when there was none, and also when the lookup *)
(* failed, because both errors are swallowed.                              *)
CreateFromSource(d) == \E p \in 0..CurrentVersion : InsertDraft(d, "analyzed", None, p)

(* create_ontology_draft, origin BaseOntology.                             *)
CreateFromBase(d) == \E p \in 1..CurrentVersion : InsertDraft(d, "designed", versions[p].ontology, p)

(* delete_ontology_draft; the snapshots go with the row (ON DELETE         *)
(* CASCADE).                                                               *)
Delete(d) == /\ Exists(d)
             /\ row' = [row EXCEPT ![d] = None]
             /\ snap' = [snap EXCEPT ![d] = [r \in 1..MaxRevision |-> None]]
             /\ UNCHANGED <<identity, versions, req, hist>>

(* archive_stale_ontology_drafts.  The row's age is not kept: any row may  *)
(* be old enough.                                                          *)
Archive(d) == /\ Exists(d)
              /\ row[d].status \in {"analyzed", "designed"} /\ ~row[d].archived
              /\ row' = [row EXCEPT ![d].archived = TRUE]
              /\ UNCHANGED <<identity, versions, snap, req, hist>>

(* delete_archived_ontology_drafts.                                        *)
PurgeArchived(d) == /\ Exists(d) /\ row[d].archived
                    /\ Delete(d)

---------------------------------------------------------------------------
(* Handlers.  Every draft handler first loads the row and checks it.       *)

NeedsDesigned(op) == op \in {"refine", "reconcile", "extend", "complete"}
NeedsOntology(op) == op \in {"edit", "refine", "extend", "complete"}
Pins(op)          == op \in {"edit", "extend", "restore"}

(* load_mutable_ontology_draft / load_ontology_draft_in_status and the     *)
(* early returns on the loaded row.  r is the revision the client sent; a  *)
(* restore names in r the revision it wants back, and a rebase, which      *)
(* sends none, has in r the head its operator saw in the preview.          *)
SentRange(op, d) == IF op \in RebaseOps THEN 1..CurrentVersion ELSE 1..row[d].revision

Begin(q, op, d, r) ==
  /\ op \in Ops \cap DraftOps
  /\ req[q] = Idle
  /\ Exists(d)
  /\ NeedsDesigned(op) => row[d].status = "designed"
  /\ NeedsOntology(op) => row[d].ontology # None
  /\ r \in SentRange(op, d)
  /\ req' = [req EXCEPT ![q] =
        [pc |-> "loaded", op |-> op, draft |-> d, rev |-> r,
         seen |-> [revision |-> row[d].revision, ontology |-> row[d].ontology,
                   parent |-> row[d].parent],
         head |-> 0, version |-> 0]]
  /\ UNCHANGED <<identity, versions, row, snap, hist>>

(* The endpoints.  Each loads a row it was sent the id of; the steps that  *)
(* follow depend on op alone.                                              *)
Handle(q, op) == \E d \in Draft, r \in 1..MaxRevision : Begin(q, op, d, r)

DesignOntologyDraft(q)       == Handle(q, "design")
DesignOntologyDraftStream(q) == Handle(q, "design")
EditOntologyDraft(q)         == Handle(q, "edit")
RefineOntologyDraft(q)       == Handle(q, "refine")
RefineOntologyDraftStream(q) == Handle(q, "refine")
ApplyReconcile(q)            == Handle(q, "reconcile")
ExtendOntologyDraft(q)       == Handle(q, "extend")
RunReanalyze(q)              == Handle(q, "reanalyze")
UpdateDecisions(q)           == Handle(q, "touch")
IncludeScopeTables(q)        == Handle(q, "touch")
DeferScopeTables(q)          == Handle(q, "touch")
RestoreRevision(q)           == Handle(q, "restore")
RebaseDraft(q)               == \E op \in RebaseOps : Handle(q, op)
CompleteOntologyDraft(q)     == Handle(q, "complete")

(* The handler returns an error, times out, or its future is dropped with  *)
(* the connection or the process: what it already wrote stays.             *)
Abandon(q) == /\ req[q] # Idle
              /\ req' = [req EXCEPT ![q] = Idle]
              /\ UNCHANGED <<identity, versions, row, snap, hist>>

(* create_ontology_snapshot: ON CONFLICT DO NOTHING.                       *)
SnapshotInsert(d, r, o) ==
  snap' = IF Exists(d) /\ o # None /\ snap[d][r] = None
          THEN [snap EXCEPT ![d][r] = o] ELSE snap

(* Mutant: the current ontology is pinned under the revision the client    *)
(* sent, not the one it was loaded with.                                   *)
PinSentRevision(q) ==
  /\ req[q].pc = "loaded" /\ Pins(req[q].op)
  /\ LET s == req[q] IN
     \/ SnapshotInsert(s.draft, s.rev, s.seen.ontology)
     \/ UNCHANGED snap
  /\ req' = [req EXCEPT ![q].pc = "pinned"]
  /\ UNCHANGED <<identity, versions, row, hist>>

(* edit, extend and restore pin the loaded revision before they overwrite  *)
(* it; a failure to do so is only logged.                                  *)
PinSnapshot(q) ==
  /\ req[q].pc = "loaded" /\ Pins(req[q].op)
  /\ LET s == req[q] IN
     \/ SnapshotInsert(s.draft, s.seen.revision, s.seen.ontology)
     \/ UNCHANGED snap
  /\ req' = [req EXCEPT ![q].pc = "pinned"]
  /\ UNCHANGED <<identity, versions, row, hist>>

(* Where a handler stands when it sends its final UPDATE.                  *)
WritesAt(op) == CASE Pins(op) -> "pinned"
                  [] op \in RebaseOps -> "checked"
                  [] op = "complete" -> "committed"
                  [] OTHER -> "loaded"

ReadyToWrite(q) == /\ req[q] # Idle
                   /\ req[q].op \in DraftOps
                   /\ req[q].pc = WritesAt(req[q].op)

(* The WHERE clause: restore and rebase send the revision they loaded, all *)
(* others the client's.                                                    *)
ExpectedRevision(q) ==
  IF req[q].op \in RebaseOps \cup {"restore"} THEN req[q].seen.revision ELSE req[q].rev

(* Mutant: the WHERE clause forgets the revision.                          *)
CasUnguarded(q) == Exists(req[q].draft)

CasMatches(q) ==
  LET d == req[q].draft IN
  /\ Exists(d)
  /\ row[d].revision = ExpectedRevision(q)
  /\ req[q].op = "complete" => row[d].status = "designed"

(* Mutant: a reanalysis clears the ontology but leaves the status.         *)
UpdatedKeepsStatus(q, old, o) ==
  LET s == req[q] IN
  [old EXCEPT
     !.revision  = @ + 1,
     !.ontology  = CASE s.op \in DesignOps \cup {"restore"} -> o
                     [] s.op = "reanalyze" -> None
                     [] OTHER -> @,
     !.status    = CASE s.op \in DesignOps \cup {"restore"} -> "designed"
                     [] s.op = "complete" -> "completed"
                     [] OTHER -> @]

(* The SET clause of each UPDATE, given the ontology it writes.            *)
Updated(q, old, o) ==
  LET s == req[q] IN
  [old EXCEPT
     !.revision  = @ + 1,
     !.ontology  = CASE s.op \in DesignOps \cup {"restore"} -> o
                     [] s.op = "reanalyze" -> None
                     [] OTHER -> @,
     !.status    = CASE s.op \in DesignOps \cup {"restore"} -> "designed"
                     [] s.op = "reanalyze" -> "analyzed"
                     [] s.op = "complete" -> "completed"
                     [] OTHER -> @,
     !.parent    = IF s.op \in RebaseOps THEN s.head ELSE @,
     !.committed = IF s.op = "complete" THEN s.version ELSE @]

(* The ontology a handler may come to write: whatever the model produces,  *)
(* or for a restore the pinned one.                                        *)
Outcome(q) ==
  IF req[q].op = "restore"
  THEN {snap[req[q].draft][req[q].rev]} \ {None}
  ELSE IF req[q].op \in DesignOps THEN Ontology ELSE {None}

(* update_design_result, update_extend_result, replace_analysis_snapshot,  *)
(* update_design_options, update_analysis_scope,                           *)
(* update_draft_parent_version, complete_ontology_draft.                   *)
Write(q) ==
  /\ ReadyToWrite(q)
  /\ CasMatches(q)
  /\ LET d == req[q].draft IN
     /\ row[d].revision < MaxRevision
     /\ \E o \in Outcome(q) :
          /\ row' = [row EXCEPT ![d] = Updated(q, row[d], o)]
          /\ hist' = [hist EXCEPT ![d] = Append(@, Updated(q, row[d], o).ontology)]
  /\ req' = [req EXCEPT ![q] = Idle]
  /\ UNCHANGED <<identity, versions, snap>>

(* check_cas_result: no row matched, so the handler answers Conflict.      *)
WriteConflict(q) ==
  /\ ReadyToWrite(q)
  /\ ~CasMatches(q)
  /\ req' = [req EXCEPT ![q] = Idle]
  /\ UNCHANGED <<identity, versions, row, snap, hist>>

---------------------------------------------------------------------------
(* rebase_draft: read the head, refuse when the analysis finds conflicts   *)
(* and the operator did not acknowledge them.                              *)
CheckRebase(q) ==
  /\ req[q] # Idle /\ req[q].op \in RebaseOps /\ req[q].pc = "loaded"
  /\ identity /\ CurrentVersion # 0
  /\ (req[q].op = "rebase" /\ req[q].seen.ontology # None) =>
       IsClean(OntologyAt(req[q].seen.parent), OntologyAt(CurrentVersion),
               req[q].seen.ontology)
  /\ req' = [req EXCEPT ![q].pc = "checked", ![q].head = CurrentVersion]
  /\ UNCHANGED <<identity, versions, row, snap, hist>>

(* Mutant: the parent pin is not compared with the head.                   *)
CheckCompleteBlind(q) ==
  /\ req[q] # Idle /\ req[q].op = "complete" /\ req[q].pc = "loaded"
  /\ req' = IF identity
            THEN [req EXCEPT ![q].pc = "checked", ![q].head = CurrentVersion]
            ELSE [req EXCEPT ![q].pc = "creating"]
  /\ UNCHANGED <<identity, versions, row, snap, hist>>

(* complete_ontology_draft up to the commit: resolve the identity and the  *)
(* head, and refuse a draft pinned to another version than the head.  A    *)
(* draft without a parent passes whatever the head is.                     *)
CheckComplete(q) ==
  /\ req[q] # Idle /\ req[q].op = "complete" /\ req[q].pc = "loaded"
  /\ identity => req[q].seen.parent \in {0, CurrentVersion}
  /\ req' = IF identity
            THEN [req EXCEPT ![q].pc = "checked", ![q].head = CurrentVersion]
            ELSE [req EXCEPT ![q].pc = "creating"]
  /\ UNCHANGED <<identity, versions, row, snap, hist>>

(* A direct edit of the canonical reads the head it will extend.           *)
BeginCanonicalEdit(q) ==
  /\ "canonicalEdit" \in Ops /\ req[q] = Idle
  /\ identity /\ CurrentVersion # 0
  /\ req' = [req EXCEPT ![q] = [pc |-> "checked", op |-> "canonicalEdit",
                                head |-> CurrentVersion]]
  /\ UNCHANGED <<identity, versions, row, snap, hist>>

(* A new canonical from a file or from the graph.                          *)
BeginCanonicalCreate(q) ==
  /\ "canonicalCreate" \in Ops /\ req[q] = Idle
  /\ req' = [req EXCEPT ![q] = [pc |-> "creating", op |-> "canonicalCreate", head |-> 0]]
  /\ UNCHANGED <<identity, versions, row, snap, hist>>

ApplyOntologyEdits(q) == BeginCanonicalEdit(q)
EnrichOntology(q)     == BeginCanonicalEdit(q)
EnrichAfterLoad(q)    == BeginCanonicalEdit(q)   \* the tail of execute_load_from_source
CreateOntology(q)     == BeginCanonicalCreate(q)
AdoptGraph(q)         == BeginCanonicalCreate(q)

(* create_ontology (the statement): a second identity violates the         *)
(* workspace singleton and ends the request through Abandon.               *)
CreateIdentity(q) ==
  /\ req[q].pc = "creating"
  /\ InsertIdentity
  /\ req' = [req EXCEPT ![q].pc = "checked"]
  /\ UNCHANGED draftVars

CommitDraft(q) ==
  /\ req[q].pc = "checked" /\ req[q].op = "complete"
  /\ CommitVersion(req[q].seen.ontology, req[q].head, req[q].draft, req[q].seen.parent)
  /\ req' = [req EXCEPT ![q].pc = "committed", ![q].version = Len(versions')]
  /\ UNCHANGED draftVars

CommitCanonical(q) ==
  /\ req[q].pc = "checked" /\ req[q].op \in CanonOps
  /\ \E o \in Ontology : CommitVersion(o, req[q].head, None, req[q].head)
  /\ req' = [req EXCEPT ![q] = Idle]
  /\ UNCHANGED draftVars

---------------------------------------------------------------------------
DraftStep(d) == CreateFromSource(d) \/ CreateFromBase(d) \/ Delete(d)
                \/ Archive(d) \/ PurgeArchived(d)

RequestStep(q) ==
  \/ DesignOntologyDraft(q) \/ DesignOntologyDraftStream(q) \/ EditOntologyDraft(q)
  \/ RefineOntologyDraft(q) \/ RefineOntologyDraftStream(q) \/ ApplyReconcile(q)
  \/ ExtendOntologyDraft(q) \/ RunReanalyze(q)
  \/ UpdateDecisions(q) \/ IncludeScopeTables(q) \/ DeferScopeTables(q)
  \/ RestoreRevision(q) \/ RebaseDraft(q) \/ CompleteOntologyDraft(q)
  \/ PinSnapshot(q) \/ Write(q) \/ WriteConflict(q) \/ Abandon(q)
  \/ CheckRebase(q) \/ CheckComplete(q)
  \/ ApplyOntologyEdits(q) \/ EnrichOntology(q) \/ EnrichAfterLoad(q)
  \/ CreateOntology(q) \/ AdoptGraph(q)
  \/ CreateIdentity(q) \/ CommitDraft(q) \/ CommitCanonical(q)

Next == (\E d \in Draft : DraftStep(d)) \/ (\E q \in Request : RequestStep(q))

Spec == Init /\ [][Next]_vars

---------------------------------------------------------------------------
(* A snapshot pinned for a revision is the ontology that revision had,     *)
(* whichever request pinned it and however late: "the same revision pinned *)
(* twice carries the same ontology" (create_ontology_snapshot).            *)
SnapshotFaithful ==
  \A d \in Draft, r \in 1..MaxRevision :
    snap[d][r] # None => r \in DOMAIN hist[d] /\ snap[d][r] = hist[d][r]

(* A draft has an ontology exactly when its status says it was designed,   *)
(* through any mixture of reanalysis, restores, edits and completions.     *)
StatusMatchesOntology ==
  \A d \in Draft : Exists(d) => (row[d].status = "analyzed" <=> row[d].ontology = None)

(* A completed draft shows the very ontology it committed, and the version *)
(* it points at was committed for it, although the commit and the draft's  *)
(* own update are separate statements.                                     *)
CompletedIsCommitted ==
  \A d \in Draft : (Exists(d) /\ row[d].status = "completed") =>
    /\ row[d].committed \in DOMAIN versions
    /\ versions[row[d].committed].draft = d
    /\ versions[row[d].committed].ontology = row[d].ontology

(* No lost update: a write that moves a draft to its next revision was     *)
(* computed from the revision it replaces.                                 *)
WritesBuildOnCurrent ==
  [][\A d \in Draft :
       (Exists(d) /\ Exists(d)' /\ row'[d].revision # row[d].revision) =>
         \E q \in Request : /\ req[q] # Idle /\ req'[q] = Idle
                            /\ req[q].draft = d
                            /\ req[q].seen.revision = row[d].revision]_vars

---------------------------------------------------------------------------
(* The handlers implement CanonicalLineage: what reads a head, computes    *)
(* and commits much later takes effect as if it had done so at once.       *)

LineageEntry(v) == [content |-> v.ontology, author |-> v.draft, base |-> v.base]

Lineage == INSTANCE CanonicalLineage
             WITH Content <- Ontology, Author <- Draft \cup {None},
                  founded <- identity,
                  lineage <- [i \in DOMAIN versions |-> LineageEntry(versions[i])]

(* Every commit of complete_ontology_draft, edit_ontology, enrich and      *)
(* create_ontology appends one entry, derived from the last one or from    *)
(* none, and never changes or removes an entry.                            *)
CommitsAreAtomic == Lineage!Spec

===========================================================================
