----------------------- MODULE DraftLifecycleProofs -----------------------
(***************************************************************************)
(* Proofs about DraftLifecycle for any set of drafts and requests, any     *)
(* number of revisions and versions, and ontologies of any size; and, at   *)
(* the end, about the analysis that gates the rebase of a draft.           *)
(***************************************************************************)
EXTENDS DraftLifecycle, MCRebase, TLAPS

---------------------------------------------------------------------------
(* The inductive invariant.                                                *)

IsBusy(q) == req[q].pc # "idle" /\ req[q].op \in DraftOps

(* A live row is the last entry of its draft's history.                    *)
RowIsLatest ==
  \A d \in Draft : Exists(d) => /\ Len(hist[d]) = row[d].revision
                                /\ hist[d][row[d].revision] = row[d].ontology
                                /\ row[d].parent <= Len(versions)

(* What a handler loaded is an entry of that history, and the revision its *)
(* client sent is not newer.                                               *)
SeenIsHistory ==
  \A q \in Request : IsBusy(q) =>
    /\ req[q].seen.revision <= Len(hist[req[q].draft])
    /\ req[q].seen.ontology = hist[req[q].draft][req[q].seen.revision]
    /\ req[q].op \notin RebaseOps => req[q].rev <= req[q].seen.revision
    /\ req[q].op = "complete" => req[q].seen.ontology # None
    /\ req[q].seen.parent <= Len(versions)

(* What each handler knows of the canonical ontology at each of its steps. *)
HeadIsVersion ==
  \A q \in Request : req[q].pc # "idle" =>
    /\ req[q].head <= Len(versions)
    /\ req[q].pc \in {"loaded", "creating"} => req[q].head = 0
    /\ req[q].pc = "checked" => identity = TRUE

CompletionIsChecked ==
  \A q \in Request : (req[q].pc # "idle" /\ req[q].op = "complete") =>
    /\ req[q].pc = "creating" => req[q].seen.parent = 0
    /\ req[q].pc = "checked" => req[q].seen.parent \in {0, req[q].head}
    /\ req[q].pc = "committed" =>
         /\ req[q].version \in DOMAIN versions
         /\ versions[req[q].version].draft = req[q].draft
         /\ versions[req[q].version].ontology = req[q].seen.ontology

(* Only a workspace with an identity has versions.                         *)
VersionsNeedIdentity == versions # << >> => identity = TRUE

IInv == /\ TypeOK
        /\ RowIsLatest
        /\ SeenIsHistory
        /\ HeadIsVersion
        /\ CompletionIsChecked
        /\ VersionsNeedIdentity
        /\ SnapshotFaithful
        /\ StatusMatchesOntology
        /\ CompletedIsCommitted
        /\ LinearHistory
        /\ NoLostCanonicalUpdate

---------------------------------------------------------------------------
(* Facts about the state of a request.                                     *)

LEMMA IdleOrBusy ==
  ASSUME TypeOK, NEW q \in Request
  PROVE  /\ req[q] = Idle <=> req[q].pc = "idle"
         /\ IsBusy(q) => req[q] \in Busy
         /\ (req[q].pc # "idle" /\ ~IsBusy(q)) => req[q] \in CanonBusy
         /\ req[q] \in Busy => IsBusy(q)
         /\ req[q].pc \in {"loaded", "pinned", "committed"} => req[q] \in Busy
         /\ (req[q].pc # "idle" /\ req[q].op \in DraftOps) => req[q] \in Busy
         /\ (req[q].pc # "idle" /\ req[q].op \in CanonOps) => req[q] \in CanonBusy
BY DEF TypeOK, Idle, Busy, CanonBusy, IsBusy, DraftOps, DesignOps, RebaseOps, CanonOps

(* The endpoints differ only in the operation they begin.                  *)
RequestCases(q) ==
  \/ \E op \in DraftOps, d \in Draft, r \in 1..MaxRevision : Begin(q, op, d, r)
  \/ PinSnapshot(q) \/ Write(q) \/ WriteConflict(q) \/ Abandon(q)
  \/ CheckRebase(q) \/ CheckComplete(q)
  \/ BeginCanonicalEdit(q) \/ BeginCanonicalCreate(q)
  \/ CreateIdentity(q) \/ CommitDraft(q) \/ CommitCanonical(q)

LEMMA RequestCase ==
  ASSUME NEW q \in Request, RequestStep(q)
  PROVE  RequestCases(q)
<1>1. ASSUME NEW op \in DraftOps, Handle(q, op) PROVE RequestCases(q)
  BY <1>1 DEF Handle, RequestCases
<1>2. DesignOps \cup RebaseOps \cup {"reanalyze", "touch", "restore", "complete"} = DraftOps
  BY DEF DraftOps
<1>3. CASE DesignOntologyDraft(q) \/ DesignOntologyDraftStream(q) \/ EditOntologyDraft(q)
           \/ RefineOntologyDraft(q) \/ RefineOntologyDraftStream(q) \/ ApplyReconcile(q)
           \/ ExtendOntologyDraft(q) \/ RunReanalyze(q) \/ UpdateDecisions(q)
           \/ IncludeScopeTables(q) \/ DeferScopeTables(q) \/ RestoreRevision(q)
           \/ CompleteOntologyDraft(q)
  BY <1>1, <1>2, <1>3
     DEF DesignOps, DesignOntologyDraft, DesignOntologyDraftStream, EditOntologyDraft,
         RefineOntologyDraft, RefineOntologyDraftStream, ApplyReconcile, ExtendOntologyDraft,
         RunReanalyze, UpdateDecisions, IncludeScopeTables, DeferScopeTables, RestoreRevision,
         CompleteOntologyDraft
<1>4. CASE RebaseDraft(q)
  BY <1>1, <1>2, <1>4 DEF RebaseDraft
<1>5. QED
  BY <1>3, <1>4 DEF RequestStep, RequestCases, ApplyOntologyEdits, EnrichOntology, EnrichAfterLoad,
     CreateOntology, AdoptGraph

LEMMA InitIInv == Init => IInv
<1> SUFFICES ASSUME Init PROVE IInv
  OBVIOUS
<1> USE DEF Init, CanonInit
<1>1. CanonTypeOK
  <2>1. identity \in BOOLEAN
    BY Zenon
  <2>2. versions \in Seq(Version)
    OBVIOUS
  <2>3. QED
    BY <2>1, <2>2 DEF CanonTypeOK
<1>2. TypeOK
  BY <1>1, NoneAssumption DEF TypeOK, MaybeOntology
<1>3. \A q \in Request : req[q].pc = "idle"
  BY DEF Idle
<1>4. SeenIsHistory /\ HeadIsVersion /\ CompletionIsChecked
  BY <1>3 DEF SeenIsHistory, HeadIsVersion, CompletionIsChecked, IsBusy
<1>5. RowIsLatest /\ SnapshotFaithful /\ StatusMatchesOntology /\ CompletedIsCommitted
  BY DEF RowIsLatest, SnapshotFaithful, StatusMatchesOntology, CompletedIsCommitted, Exists
<1>6. VersionsNeedIdentity /\ LinearHistory /\ NoLostCanonicalUpdate
  BY DEF VersionsNeedIdentity, LinearHistory, NoLostCanonicalUpdate
<1>7. QED
  BY <1>2, <1>4, <1>5, <1>6 DEF IInv

---------------------------------------------------------------------------
(* Type correctness of a step.  CommitDraft needs to know that a draft     *)
(* being completed has an ontology.                                        *)

LEMMA InsertDraftType ==
  ASSUME TypeOK, NEW d \in Draft, NEW st \in Status, NEW o \in MaybeOntology,
         NEW p \in Nat, InsertDraft(d, st, o, p)
  PROVE  TypeOK'
<1>1. row'[d] \in DraftRow
  BY MaxRevisionAssumption DEF InsertDraft, TypeOK, DraftRow
<1>2. row' \in [Draft -> DraftRow \cup {None}]
  BY <1>1 DEF InsertDraft, TypeOK
<1>3. hist' \in [Draft -> Seq(MaybeOntology)]
  BY DEF InsertDraft, TypeOK
<1>4. UNCHANGED <<identity, versions, snap, req>>
  BY DEF InsertDraft
<1>5. QED
  BY <1>2, <1>3, <1>4 DEF TypeOK, CanonTypeOK

LEMMA DraftStepType ==
  ASSUME TypeOK, NEW d \in Draft, DraftStep(d)
  PROVE  TypeOK'
<1>1. CASE CreateFromSource(d)
  <2>1. PICK p \in 0..CurrentVersion : InsertDraft(d, "analyzed", None, p)
    BY <1>1 DEF CreateFromSource
  <2>2. p \in Nat
    BY <2>1 DEF CurrentVersion, TypeOK, CanonTypeOK
  <2>3. QED
    BY <2>1, <2>2, InsertDraftType DEF Status, MaybeOntology
<1>2. CASE CreateFromBase(d)
  <2>1. PICK p \in 1..CurrentVersion : InsertDraft(d, "designed", versions[p].ontology, p)
    BY <1>2 DEF CreateFromBase
  <2>2. p \in Nat /\ versions[p] \in Version
    BY <2>1 DEF CurrentVersion, TypeOK, CanonTypeOK
  <2>3. versions[p].ontology \in MaybeOntology
    BY <2>2 DEF Version, MaybeOntology
  <2>4. QED
    BY <2>1, <2>2, <2>3, InsertDraftType DEF Status
<1>3. CASE Delete(d) \/ PurgeArchived(d)
  <2>1. Delete(d)
    BY <1>3 DEF PurgeArchived
  <2>2. snap' \in [Draft -> [1..MaxRevision -> MaybeOntology]]
    BY <2>1 DEF Delete, TypeOK, MaybeOntology
  <2>3. row' \in [Draft -> DraftRow \cup {None}]
    BY <2>1 DEF Delete, TypeOK
  <2>4. QED
    BY <2>1, <2>2, <2>3 DEF Delete, TypeOK, CanonTypeOK
<1>4. CASE Archive(d)
  <2>1. row[d] \in DraftRow
    BY <1>4 DEF Archive, Exists, TypeOK
  <2>2. [row[d] EXCEPT !.archived = TRUE] \in DraftRow
    BY <2>1 DEF DraftRow
  <2>3. row' \in [Draft -> DraftRow \cup {None}]
    BY <1>4, <2>2 DEF Archive, TypeOK
  <2>4. QED
    BY <1>4, <2>3 DEF Archive, TypeOK, CanonTypeOK
<1>5. QED
  BY <1>1, <1>2, <1>3, <1>4 DEF DraftStep

LEMMA RequestEnds ==
  ASSUME TypeOK, NEW q \in Request, req' = [req EXCEPT ![q] = Idle],
         UNCHANGED <<identity, versions, row, snap, hist>>
  PROVE  TypeOK'
BY DEF TypeOK, CanonTypeOK

LEMMA RequestMoves ==
  ASSUME TypeOK, NEW q \in Request, NEW s \in Busy \cup CanonBusy,
         req' = [req EXCEPT ![q] = s]
  PROVE  req' \in [Request -> {Idle} \cup Busy \cup CanonBusy]
BY DEF TypeOK

LEMMA WriterFacts ==
  ASSUME TypeOK, NEW q \in Request, ReadyToWrite(q)
  PROVE  /\ IsBusy(q) /\ req[q] \in Busy
         /\ req[q].draft \in Draft /\ req[q].rev \in Nat \ {0}
         /\ req[q].head \in Nat /\ req[q].version \in Nat
         /\ req[q].seen \in Seen /\ req[q].op \in DraftOps
         /\ CasMatches(q) => row[req[q].draft] \in DraftRow
<1>1. IsBusy(q) /\ req[q] \in Busy
  BY IdleOrBusy DEF ReadyToWrite, IsBusy
<1>2. QED
  BY <1>1 DEF Busy, CasMatches, Exists, TypeOK

LEMMA OutcomeType ==
  ASSUME IInv, NEW q \in Request, ReadyToWrite(q), NEW o \in Outcome(q)
  PROVE  /\ o \in MaybeOntology
         /\ req[q].op \in DesignOps \cup {"restore"} => o \in Ontology
<1>0. TypeOK /\ SeenIsHistory
  BY DEF IInv
<1>1. CASE req[q].op = "restore"
  <2>1. o = snap[req[q].draft][req[q].rev] /\ o # None
    BY <1>1 DEF Outcome
  <2>2. req[q].rev \in 1..MaxRevision /\ req[q].draft \in Draft
    <3>1. IsBusy(q) /\ req[q].rev \in Nat \ {0} /\ req[q].draft \in Draft /\ req[q].seen \in Seen
      BY <1>0, WriterFacts
    <3>2. req[q].rev <= req[q].seen.revision
      BY <1>0, <1>1, <3>1 DEF SeenIsHistory, RebaseOps
    <3>3. req[q].seen.revision \in 1..MaxRevision
      BY <3>1 DEF Seen
    <3>4. QED
      BY <3>1, <3>2, <3>3, MaxRevisionAssumption
  <2>3. snap[req[q].draft][req[q].rev] \in MaybeOntology
    BY <1>0, <2>2 DEF TypeOK
  <2>4. QED
    BY <2>1, <2>3 DEF MaybeOntology
<1>2. CASE req[q].op # "restore"
  BY <1>2 DEF Outcome, MaybeOntology, DesignOps
<1>3. QED
  BY <1>1, <1>2

LEMMA WriteType ==
  ASSUME IInv, NEW q \in Request, Write(q)
  PROVE  TypeOK'
<1> DEFINE d == req[q].draft
<1>0. TypeOK /\ ReadyToWrite(q) /\ CasMatches(q)
  BY DEF IInv, Write
<1>2. d \in Draft /\ row[d] \in DraftRow /\ req[q].op \in DraftOps
      /\ req[q].head \in Nat /\ req[q].version \in Nat
  BY <1>0, WriterFacts
<1>3. PICK o \in Outcome(q) :
        /\ row' = [row EXCEPT ![d] = Updated(q, row[d], o)]
        /\ hist' = [hist EXCEPT ![d] = Append(@, Updated(q, row[d], o).ontology)]
  BY DEF Write
<1>4. o \in MaybeOntology
  BY <1>0, OutcomeType
<1>5. Updated(q, row[d], o) \in DraftRow
  <2>1. row[d].revision + 1 \in 1..MaxRevision
    BY <1>2, MaxRevisionAssumption DEF Write, DraftRow
  <2>2. QED
    BY <1>2, <1>4, <2>1 DEF Updated, DraftRow, MaybeOntology, Status
<1>6. row' \in [Draft -> DraftRow \cup {None}]
  BY <1>0, <1>2, <1>3, <1>5 DEF TypeOK
<1>7. hist' \in [Draft -> Seq(MaybeOntology)]
  <2>1. Updated(q, row[d], o).ontology \in MaybeOntology
    BY <1>5 DEF DraftRow
  <2>2. QED
    BY <1>0, <1>2, <1>3, <2>1 DEF TypeOK
<1>8. req' \in [Request -> {Idle} \cup Busy \cup CanonBusy]
  BY <1>0 DEF Write, TypeOK
<1>9. QED
  BY <1>0, <1>6, <1>7, <1>8 DEF Write, TypeOK, CanonTypeOK

LEMMA BeginType ==
  ASSUME TypeOK, NEW q \in Request, NEW op \in DraftOps, NEW d \in Draft, NEW r \in 1..MaxRevision,
         Begin(q, op, d, r)
  PROVE  TypeOK'
<1>1. row[d] \in DraftRow
  BY DEF Begin, Exists, TypeOK
<1>2. req'[q] \in Busy
  <2>1. [revision |-> row[d].revision, ontology |-> row[d].ontology, parent |-> row[d].parent] \in Seen
    BY <1>1 DEF DraftRow, Seen
  <2>2. QED
    BY <2>1, MaxRevisionAssumption DEF Begin, TypeOK, Busy
<1>3. req' \in [Request -> {Idle} \cup Busy \cup CanonBusy]
  BY <1>2 DEF Begin, TypeOK
<1>4. QED
  BY <1>3 DEF Begin, TypeOK, CanonTypeOK

LEMMA PinType ==
  ASSUME TypeOK, NEW q \in Request, PinSnapshot(q)
  PROVE  TypeOK'
<1>1. req[q] \in Busy
  BY IdleOrBusy DEF PinSnapshot
<1>2. [req[q] EXCEPT !.pc = "pinned"] \in Busy
  BY <1>1 DEF Busy
<1>3. req' \in [Request -> {Idle} \cup Busy \cup CanonBusy]
  BY <1>2 DEF PinSnapshot, TypeOK
<1>4. req[q].draft \in Draft /\ req[q].seen.revision \in 1..MaxRevision
      /\ req[q].seen.ontology \in MaybeOntology
  BY <1>1 DEF Busy, Seen
<1>5. snap' \in [Draft -> [1..MaxRevision -> MaybeOntology]]
  <2> DEFINE d == req[q].draft
  <2>1. snap[d] \in [1..MaxRevision -> MaybeOntology]
    BY <1>4 DEF TypeOK
  <2>2. [snap[d] EXCEPT ![req[q].seen.revision] = req[q].seen.ontology]
          \in [1..MaxRevision -> MaybeOntology]
    BY <1>4, <2>1
  <2>3. \/ snap' = snap
        \/ snap' = [snap EXCEPT ![d] = [snap[d] EXCEPT ![req[q].seen.revision] = req[q].seen.ontology]]
    BY DEF PinSnapshot, SnapshotInsert
  <2>4. QED
    BY <2>2, <2>3 DEF TypeOK
<1>6. QED
  BY <1>3, <1>5 DEF PinSnapshot, TypeOK, CanonTypeOK

LEMMA CheckType ==
  ASSUME TypeOK, NEW q \in Request,
         CheckRebase(q) \/ CheckComplete(q) \/ BeginCanonicalEdit(q) \/ BeginCanonicalCreate(q)
  PROVE  TypeOK'
<1>0. CurrentVersion \in Nat
  BY DEF CurrentVersion, TypeOK, CanonTypeOK
<1>1. UNCHANGED <<identity, versions, row, snap, hist>>
  BY DEF CheckRebase, CheckComplete, BeginCanonicalEdit, BeginCanonicalCreate
<1>2. req'[q] \in Busy \cup CanonBusy
  <2>1. CASE CheckRebase(q) \/ CheckComplete(q)
    <3>1. req[q] \in Busy
      BY <2>1, IdleOrBusy DEF CheckRebase, CheckComplete
    <3>2. [req[q] EXCEPT !.pc = "checked", !.head = CurrentVersion] \in Busy
      BY <3>1, <1>0 DEF Busy
    <3>3. [req[q] EXCEPT !.pc = "creating"] \in Busy
      BY <3>1 DEF Busy
    <3>4. \/ req' = [req EXCEPT ![q] = [req[q] EXCEPT !.pc = "checked", !.head = CurrentVersion]]
          \/ req' = [req EXCEPT ![q] = [req[q] EXCEPT !.pc = "creating"]]
      BY <2>1 DEF CheckRebase, CheckComplete, TypeOK
    <3>5. QED
      BY <3>2, <3>3, <3>4 DEF TypeOK
  <2>2. CASE BeginCanonicalEdit(q) \/ BeginCanonicalCreate(q)
    BY <2>2, <1>0 DEF BeginCanonicalEdit, BeginCanonicalCreate, CanonBusy, CanonOps, TypeOK
  <2>3. QED
    BY <2>1, <2>2
<1>3. \E s : req' = [req EXCEPT ![q] = s]
  <2>1. CASE BeginCanonicalEdit(q) \/ BeginCanonicalCreate(q)
    BY <2>1 DEF BeginCanonicalEdit, BeginCanonicalCreate
  <2>2. CASE CheckRebase(q)
    BY <2>2 DEF CheckRebase, TypeOK
  <2>3. CASE CheckComplete(q)
    BY <2>3 DEF CheckComplete, TypeOK
  <2>4. QED
    BY <2>1, <2>2, <2>3
<1>4. req' \in [Request -> {Idle} \cup Busy \cup CanonBusy]
  BY <1>2, <1>3 DEF TypeOK
<1>5. QED
  BY <1>1, <1>4 DEF TypeOK, CanonTypeOK

(* A commit succeeds only on the head that its committer read: the UNIQUE  *)
(* tag is what keeps the lineage linear.                                   *)
LEMMA CommitFacts ==
  ASSUME TypeOK, LinearHistory,
         NEW o \in Ontology, NEW h \in Nat, h <= Len(versions),
         NEW d \in Draft \cup {None}, NEW b \in Nat,
         CommitVersion(o, h, d, b)
  PROVE  /\ h = Len(versions)
         /\ Len(versions') = Len(versions) + 1
         /\ versions' \in Seq(Version)
         /\ \A i \in 1..Len(versions) : versions'[i] = versions[i]
         /\ versions'[h + 1] = [ontology |-> o, parent |-> h, tag |-> h + 1, draft |-> d, base |-> b]
         /\ identity' = identity
<1>0. versions \in Seq(Version) /\ Len(versions) \in Nat /\ DOMAIN versions = 1..Len(versions)
  BY DEF TypeOK, CanonTypeOK
<1>1. NextTag(h) = h + 1
  BY <1>0 DEF NextTag, LinearHistory
<1>2. h = Len(versions)
  <2>1. \A i \in 1..Len(versions) : versions[i].tag # h + 1
    BY <1>0, <1>1 DEF CommitVersion, TagTaken
  <2>2. \A i \in 1..Len(versions) : i # h + 1
    BY <1>0, <2>1 DEF LinearHistory
  <2>3. Len(versions) \in Nat
    BY <1>0
  <2>4. h < Len(versions) => h + 1 \in 1..Len(versions)
    BY <2>3
  <2>5. QED
    BY <2>2, <2>3, <2>4
<1> DEFINE v == [ontology |-> o, parent |-> h, tag |-> h + 1, draft |-> d, base |-> b]
<1>3. versions' = Append(versions, v) /\ identity' = identity
  BY <1>1 DEF CommitVersion
<1>4. v \in Version
  BY DEF Version
<1> HIDE DEF v
<1>5. QED
  BY <1>0, <1>2, <1>3, <1>4 DEF v

LEMMA CommitDraftFacts ==
  ASSUME IInv, NEW q \in Request, CommitDraft(q)
  PROVE  /\ IsBusy(q) /\ req[q] \in Busy
         /\ req[q].head = Len(versions)
         /\ Len(versions') = Len(versions) + 1
         /\ versions' \in Seq(Version)
         /\ \A i \in 1..Len(versions) : versions'[i] = versions[i]
         /\ versions'[Len(versions')] =
              [ontology |-> req[q].seen.ontology, parent |-> req[q].head, tag |-> req[q].head + 1,
               draft |-> req[q].draft, base |-> req[q].seen.parent]
         /\ identity' = identity
<1>1. TypeOK /\ LinearHistory /\ SeenIsHistory /\ HeadIsVersion
  BY DEF IInv
<1>2. req[q].pc = "checked" /\ req[q].op = "complete"
      /\ CommitVersion(req[q].seen.ontology, req[q].head, req[q].draft, req[q].seen.parent)
  BY DEF CommitDraft
<1>3. IsBusy(q) /\ req[q] \in Busy
  BY <1>1, <1>2, IdleOrBusy DEF IsBusy, DraftOps
<1>4. req[q].seen \in Seen /\ req[q].head \in Nat /\ req[q].draft \in Draft
  BY <1>3 DEF Busy
<1>5. req[q].seen.ontology \in Ontology /\ req[q].seen.parent \in Nat
  BY <1>1, <1>2, <1>3, <1>4 DEF SeenIsHistory, Seen, MaybeOntology
<1>6. req[q].head <= Len(versions)
  BY <1>1, <1>2 DEF HeadIsVersion
<1>7. QED
  BY <1>1, <1>2, <1>3, <1>4, <1>5, <1>6, CommitFacts

LEMMA CommitCanonicalFacts ==
  ASSUME IInv, NEW q \in Request, CommitCanonical(q)
  PROVE  /\ req[q] \in CanonBusy
         /\ req[q].head = Len(versions)
         /\ Len(versions') = Len(versions) + 1
         /\ versions' \in Seq(Version)
         /\ \A i \in 1..Len(versions) : versions'[i] = versions[i]
         /\ \E o \in Ontology : versions'[Len(versions')] =
              [ontology |-> o, parent |-> req[q].head, tag |-> req[q].head + 1,
               draft |-> None, base |-> req[q].head]
         /\ identity' = identity
<1>1. TypeOK /\ LinearHistory /\ HeadIsVersion
  BY DEF IInv
<1>2. req[q].pc = "checked" /\ req[q].op \in CanonOps
  BY DEF CommitCanonical
<1>3. PICK o \in Ontology : CommitVersion(o, req[q].head, None, req[q].head)
  BY DEF CommitCanonical
<1>4. req[q] \in CanonBusy
  BY <1>1, <1>2, IdleOrBusy
<1>5. req[q].head \in Nat /\ req[q].head <= Len(versions)
  BY <1>1, <1>2, <1>4 DEF CanonBusy, HeadIsVersion
<1>6. /\ req[q].head = Len(versions)
      /\ Len(versions') = Len(versions) + 1
      /\ versions' \in Seq(Version)
      /\ \A i \in 1..Len(versions) : versions'[i] = versions[i]
      /\ versions'[req[q].head + 1] =
           [ontology |-> o, parent |-> req[q].head, tag |-> req[q].head + 1,
            draft |-> None, base |-> req[q].head]
      /\ identity' = identity
  BY <1>1, <1>3, <1>5, CommitFacts
<1>7. QED
  BY <1>4, <1>6

LEMMA CommitType ==
  ASSUME IInv, NEW q \in Request, CreateIdentity(q) \/ CommitDraft(q) \/ CommitCanonical(q)
  PROVE  TypeOK'
<1>0. TypeOK
  BY DEF IInv
<1>1. row' = row /\ snap' = snap /\ hist' = hist
  BY DEF CreateIdentity, CommitDraft, CommitCanonical, draftVars
<1>2. CASE CreateIdentity(q)
  <2>1. req[q].pc = "creating" /\ req' = [req EXCEPT ![q] = [req[q] EXCEPT !.pc = "checked"]]
    BY <1>2 DEF CreateIdentity
  <2>2. req[q] \in Busy \cup CanonBusy
    BY <1>0, <2>1 DEF TypeOK, Idle
  <2>3. [req[q] EXCEPT !.pc = "checked"] \in Busy \cup CanonBusy
    BY <2>2 DEF Busy, CanonBusy
  <2>4. req' \in [Request -> {Idle} \cup Busy \cup CanonBusy]
    BY <1>0, <2>1, <2>3, RequestMoves
  <2>5. identity' \in BOOLEAN
    BY <1>2, Zenon DEF CreateIdentity, InsertIdentity
  <2>6. versions' = versions
    BY <1>2 DEF CreateIdentity, InsertIdentity
  <2>7. QED
    BY <1>0, <1>1, <2>4, <2>5, <2>6 DEF TypeOK, CanonTypeOK
<1>3. CASE CommitDraft(q)
  <2>1. versions' \in Seq(Version) /\ req[q] \in Busy /\ identity' = identity
    BY <1>3, CommitDraftFacts
  <2>2. Len(versions') \in Nat
    BY <2>1
  <2>3. [req[q] EXCEPT !.pc = "committed", !.version = Len(versions')] \in Busy
    BY <2>1, <2>2 DEF Busy
  <2>4. req' \in [Request -> {Idle} \cup Busy \cup CanonBusy]
    BY <1>0, <1>3, <2>3 DEF CommitDraft, TypeOK
  <2>5. QED
    BY <1>0, <1>1, <2>1, <2>4 DEF TypeOK, CanonTypeOK
<1>4. CASE CommitCanonical(q)
  <2>1. versions' \in Seq(Version) /\ identity' = identity
    BY <1>4, CommitCanonicalFacts
  <2>2. req' \in [Request -> {Idle} \cup Busy \cup CanonBusy]
    BY <1>0, <1>4 DEF CommitCanonical, TypeOK
  <2>3. QED
    BY <1>0, <1>1, <2>1, <2>2 DEF TypeOK, CanonTypeOK
<1>5. QED
  BY <1>2, <1>3, <1>4

LEMMA StepType ==
  ASSUME IInv, [Next]_vars
  PROVE  TypeOK'
<1>0. TypeOK
  BY DEF IInv
<1>1. CASE UNCHANGED vars
  BY <1>0, <1>1 DEF vars, TypeOK, CanonTypeOK
<1>2. ASSUME NEW d \in Draft, DraftStep(d) PROVE TypeOK'
  BY <1>0, <1>2, DraftStepType
<1>3. ASSUME NEW q \in Request, RequestStep(q) PROVE TypeOK'
  <2>1. ASSUME NEW op \in DraftOps, NEW d \in Draft, NEW r \in 1..MaxRevision, Begin(q, op, d, r)
        PROVE  TypeOK'
    BY <1>0, <2>1, BeginType
  <2>2. CASE PinSnapshot(q)
    BY <1>0, <2>2, PinType
  <2>3. CASE Write(q)
    BY <2>3, WriteType
  <2>4. CASE WriteConflict(q) \/ Abandon(q)
    <3>1. req' = [req EXCEPT ![q] = Idle] /\ UNCHANGED <<identity, versions, row, snap, hist>>
      BY <2>4 DEF WriteConflict, Abandon
    <3>2. QED
      BY <1>0, <3>1, RequestEnds
  <2>5. CASE CheckRebase(q) \/ CheckComplete(q) \/ BeginCanonicalEdit(q) \/ BeginCanonicalCreate(q)
    BY <1>0, <2>5, CheckType
  <2>6. CASE CreateIdentity(q) \/ CommitDraft(q) \/ CommitCanonical(q)
    BY <2>6, CommitType
  <2>7. QED
    BY <1>3, <2>1, <2>2, <2>3, <2>4, <2>5, <2>6, RequestCase DEF RequestCases
<1>4. QED
  BY <1>1, <1>2, <1>3 DEF Next

---------------------------------------------------------------------------
(* The tables only grow: a history or a lineage keeps what it has, and the *)
(* identity row is never dropped.                                          *)

HistGrows == \A d \in Draft : /\ Len(hist[d]) <= Len(hist'[d])
                              /\ \A i \in 1..Len(hist[d]) : hist'[d][i] = hist[d][i]

VersionsGrow == /\ Len(versions) <= Len(versions')
                /\ \A i \in 1..Len(versions) : versions'[i] = versions[i]

LEMMA StepHistGrows ==
  ASSUME IInv, [Next]_vars
  PROVE  HistGrows
<1>0. TypeOK
  BY DEF IInv
<1>1. CASE hist' = hist
  BY <1>0, <1>1 DEF HistGrows, TypeOK
<1>2. ASSUME NEW d \in Draft, NEW o, hist[d] = << >>, hist' = [hist EXCEPT ![d] = <<o>>]
      PROVE  HistGrows
  BY <1>0, <1>2 DEF HistGrows, TypeOK
<1>3. ASSUME NEW q \in Request, Write(q)
      PROVE  HistGrows
  <2> DEFINE d == req[q].draft
  <2>1. PICK o : hist' = [hist EXCEPT ![d] = Append(hist[d], o)]
    BY <1>3 DEF Write
  <2>2. d \in Draft
    BY <1>0, <1>3, WriterFacts DEF Write
  <2>3. hist[d] \in Seq(MaybeOntology)
    BY <1>0, <2>2 DEF TypeOK
  <2>4. Len(Append(hist[d], o)) = Len(hist[d]) + 1 /\ Len(hist[d]) \in Nat
        /\ \A i \in 1..Len(hist[d]) : Append(hist[d], o)[i] = hist[d][i]
    BY <2>3
  <2>5. QED
    BY <1>0, <2>1, <2>4 DEF HistGrows, TypeOK
<1>4. ASSUME NEW d \in Draft, DraftStep(d)
      PROVE  HistGrows
  <2>1. CASE CreateFromSource(d)
    BY <1>2, <2>1 DEF CreateFromSource, InsertDraft
  <2>2. CASE CreateFromBase(d)
    BY <1>2, <2>2 DEF CreateFromBase, InsertDraft
  <2>3. CASE Delete(d) \/ Archive(d) \/ PurgeArchived(d)
    BY <1>1, <2>3 DEF Delete, Archive, PurgeArchived
  <2>4. QED
    BY <1>4, <2>1, <2>2, <2>3 DEF DraftStep
<1>5. ASSUME NEW q \in Request, RequestStep(q), ~Write(q)
      PROVE  hist' = hist
  BY <1>5, RequestCase DEF RequestCases, Begin, PinSnapshot, WriteConflict, Abandon, CheckRebase, CheckComplete,
     BeginCanonicalEdit, BeginCanonicalCreate, CreateIdentity, CommitDraft, CommitCanonical, draftVars
<1>6. QED
  BY <1>1, <1>3, <1>4, <1>5 DEF Next, vars

LEMMA StepVersionsGrow ==
  ASSUME IInv, [Next]_vars
  PROVE  VersionsGrow
<1>0. versions \in Seq(Version)
  BY DEF IInv, TypeOK, CanonTypeOK
<1>1. CASE versions' = versions
  BY <1>0, <1>1 DEF VersionsGrow
<1>2. ASSUME Len(versions') = Len(versions) + 1,
             \A i \in 1..Len(versions) : versions'[i] = versions[i]
      PROVE  VersionsGrow
  <2>1. Len(versions) \in Nat
    BY <1>0
  <2>2. QED
    BY <1>2, <2>1 DEF VersionsGrow
<1>3. ASSUME NEW q \in Request, CommitDraft(q) \/ CommitCanonical(q) PROVE VersionsGrow
  BY <1>2, <1>3, CommitDraftFacts, CommitCanonicalFacts
<1>4. ASSUME NEW d \in Draft, DraftStep(d) PROVE versions' = versions
  BY <1>4 DEF DraftStep, CreateFromSource, CreateFromBase, InsertDraft, Delete, Archive, PurgeArchived
<1>5. ASSUME NEW q \in Request, RequestStep(q), ~CommitDraft(q), ~CommitCanonical(q)
      PROVE  versions' = versions
  BY <1>5, RequestCase DEF RequestCases, Begin, PinSnapshot, Write, WriteConflict, Abandon, CheckRebase, CheckComplete,
     BeginCanonicalEdit, BeginCanonicalCreate, CreateIdentity, InsertIdentity
<1>6. QED
  BY <1>1, <1>3, <1>4, <1>5 DEF Next, vars

---------------------------------------------------------------------------
(* A step changes at most the request that takes it, and a request keeps   *)
(* what it loaded.                                                         *)

LEMMA RequestLocal ==
  ASSUME TypeOK, NEW q \in Request, RequestStep(q), NEW p \in Request, p # q
  PROVE  req'[p] = req[p]
<1>1. ASSUME NEW s, req' = [req EXCEPT ![q] = s] PROVE req'[p] = req[p]
  BY <1>1 DEF TypeOK
<1>2. CASE \E op \in DraftOps, d \in Draft, r \in 1..MaxRevision : Begin(q, op, d, r)
  BY <1>1, <1>2 DEF Begin
<1>3. CASE PinSnapshot(q)
  BY <1>1, <1>3 DEF PinSnapshot
<1>4. CASE Write(q) \/ WriteConflict(q) \/ Abandon(q)
  BY <1>1, <1>4 DEF Write, WriteConflict, Abandon
<1>5. CASE CheckRebase(q)
  BY <1>5 DEF CheckRebase, TypeOK
<1>6. CASE CheckComplete(q)
  BY <1>6 DEF CheckComplete, TypeOK
<1>7. CASE BeginCanonicalEdit(q) \/ BeginCanonicalCreate(q)
  BY <1>1, <1>7 DEF BeginCanonicalEdit, BeginCanonicalCreate
<1>8. CASE CreateIdentity(q)
  BY <1>1, <1>8 DEF CreateIdentity
<1>9. CASE CommitDraft(q)
  BY <1>9 DEF CommitDraft, TypeOK
<1>10. CASE CommitCanonical(q)
  BY <1>1, <1>10 DEF CommitCanonical
<1>11. QED
  BY <1>2, <1>3, <1>4, <1>5, <1>6, <1>7, <1>8, <1>9, <1>10, RequestCase DEF RequestCases

LEMMA NextKeepsOthers ==
  ASSUME TypeOK, [Next]_vars, NEW p \in Request, ~RequestStep(p)
  PROVE  req'[p] = req[p]
<1>1. CASE UNCHANGED vars
  BY <1>1 DEF vars
<1>2. ASSUME NEW d \in Draft, DraftStep(d) PROVE req' = req
  BY <1>2 DEF DraftStep, CreateFromSource, CreateFromBase, InsertDraft, Delete, Archive, PurgeArchived
<1>3. QED
  BY <1>1, <1>2, RequestLocal DEF Next

KeepsLoad(p) == /\ req'[p].op = req[p].op
                /\ req'[p].draft = req[p].draft
                /\ req'[p].rev = req[p].rev
                /\ req'[p].seen = req[p].seen

LEMMA BusyFrame ==
  ASSUME TypeOK, NEW q \in Request, RequestStep(q), req'[q].pc # "idle", req'[q].op \in DraftOps
  PROVE  \/ IsBusy(q) /\ KeepsLoad(q)
         \/ \E op \in DraftOps, d \in Draft, r \in 1..MaxRevision : Begin(q, op, d, r)
<1>1. CASE PinSnapshot(q) \/ CreateIdentity(q)
  <2>1. /\ req[q].pc # "idle"
        /\ \/ req' = [req EXCEPT ![q] = [req[q] EXCEPT !.pc = "pinned"]]
           \/ req' = [req EXCEPT ![q] = [req[q] EXCEPT !.pc = "checked"]]
    BY <1>1 DEF PinSnapshot, CreateIdentity
  <2>2. req[q] \in Busy \/ req[q] \in CanonBusy
    BY <2>1 DEF TypeOK, Idle
  <2>3. CASE req[q] \in Busy
    <3>1. KeepsLoad(q)
      BY <2>1, <2>3 DEF TypeOK, Busy, KeepsLoad
    <3>2. QED
      BY <2>3, <3>1, IdleOrBusy
  <2>4. CASE req[q] \in CanonBusy
    <3>1. req'[q].op = req[q].op
      BY <2>1, <2>4 DEF TypeOK, CanonBusy
    <3>2. QED
      BY <2>4, <3>1 DEF CanonBusy, CanonOps, DraftOps, DesignOps, RebaseOps
  <2>5. QED
    BY <2>2, <2>3, <2>4
<1>2. CASE Write(q) \/ WriteConflict(q) \/ Abandon(q) \/ CommitCanonical(q)
  <2>1. req'[q] = Idle
    BY <1>2 DEF Write, WriteConflict, Abandon, CommitCanonical, TypeOK
  <2>2. QED
    BY <2>1 DEF Idle
<1>3. CASE CheckRebase(q) \/ CheckComplete(q)
  <2>1. req[q] \in Busy
    BY <1>3, IdleOrBusy DEF CheckRebase, CheckComplete
  <2>2. \/ req'[q] = [req[q] EXCEPT !.pc = "checked", !.head = CurrentVersion]
        \/ req'[q] = [req[q] EXCEPT !.pc = "creating"]
    BY <1>3 DEF CheckRebase, CheckComplete, TypeOK
  <2>3. KeepsLoad(q)
    BY <2>1, <2>2 DEF Busy, KeepsLoad
  <2>4. QED
    BY <2>1, <2>3, IdleOrBusy
<1>4. CASE BeginCanonicalEdit(q) \/ BeginCanonicalCreate(q)
  <2>1. req'[q].op \in CanonOps
    BY <1>4 DEF BeginCanonicalEdit, BeginCanonicalCreate, CanonOps, TypeOK
  <2>2. QED
    BY <2>1 DEF CanonOps, DraftOps, DesignOps, RebaseOps
<1>5. CASE CommitDraft(q)
  <2>1. req[q] \in Busy
    BY <1>5, IdleOrBusy DEF CommitDraft, DraftOps
  <2>2. req'[q] = [req[q] EXCEPT !.pc = "committed", !.version = Len(versions')]
    BY <1>5 DEF CommitDraft, TypeOK
  <2>3. KeepsLoad(q)
    BY <2>1, <2>2 DEF Busy, KeepsLoad
  <2>4. QED
    BY <2>1, <2>3, IdleOrBusy
<1>6. QED
  BY <1>1, <1>2, <1>3, <1>4, <1>5, RequestCase DEF RequestCases

LEMMA StepSeenIsHistory ==
  ASSUME IInv, [Next]_vars
  PROVE  SeenIsHistory'
<1>0. TypeOK /\ SeenIsHistory /\ RowIsLatest /\ HistGrows /\ VersionsGrow
  BY StepHistGrows, StepVersionsGrow DEF IInv
<1> SUFFICES ASSUME NEW p \in Request, IsBusy(p)'
             PROVE  /\ req'[p].seen.revision <= Len(hist'[req'[p].draft])
                    /\ req'[p].seen.ontology = hist'[req'[p].draft][req'[p].seen.revision]
                    /\ req'[p].op \notin RebaseOps => req'[p].rev <= req'[p].seen.revision
                    /\ req'[p].op = "complete" => req'[p].seen.ontology # None
                    /\ req'[p].seen.parent <= Len(versions')
  BY DEF SeenIsHistory
<1>1. CASE IsBusy(p) /\ KeepsLoad(p)
  <2>1. req[p] \in Busy
    BY <1>0, <1>1, IdleOrBusy
  <2>2. req[p].draft \in Draft /\ req[p].seen.revision \in Nat \ {0} /\ req[p].seen.parent \in Nat
    BY <2>1, MaxRevisionAssumption DEF Busy, Seen
  <2>3. /\ Len(hist[req[p].draft]) \in Nat /\ Len(hist'[req[p].draft]) \in Nat
        /\ Len(versions) \in Nat /\ Len(versions') \in Nat
    BY <1>0, <2>2, StepType DEF TypeOK, CanonTypeOK
  <2>4. /\ req[p].seen.revision \in 1..Len(hist[req[p].draft])
        /\ req[p].seen.ontology = hist[req[p].draft][req[p].seen.revision]
        /\ req[p].seen.parent <= Len(versions)
    BY <1>0, <1>1, <2>2, <2>3 DEF SeenIsHistory
  <2>5. /\ req[p].seen.revision <= Len(hist'[req[p].draft])
        /\ req[p].seen.ontology = hist'[req[p].draft][req[p].seen.revision]
    BY SMTT(60), <1>0, <2>2, <2>3, <2>4 DEF HistGrows
  <2>6. req[p].seen.parent <= Len(versions')
    BY <1>0, <2>2, <2>3, <2>4 DEF VersionsGrow
  <2>7. QED
    BY <1>0, <1>1, <2>5, <2>6 DEF SeenIsHistory, KeepsLoad
<1>2. ASSUME NEW op \in DraftOps, NEW d \in Draft, NEW r \in 1..MaxRevision, Begin(p, op, d, r)
      PROVE  /\ req'[p].seen.revision <= Len(hist'[req'[p].draft])
             /\ req'[p].seen.ontology = hist'[req'[p].draft][req'[p].seen.revision]
             /\ req'[p].op \notin RebaseOps => req'[p].rev <= req'[p].seen.revision
             /\ req'[p].op = "complete" => req'[p].seen.ontology # None
             /\ req'[p].seen.parent <= Len(versions')
  <2>1. row[d] \in DraftRow /\ Exists(d)
    BY <1>0, <1>2 DEF Begin, Exists, TypeOK
  <2>2. /\ req'[p].draft = d /\ req'[p].op = op /\ req'[p].rev = r
        /\ req'[p].seen.revision = row[d].revision
        /\ req'[p].seen.ontology = row[d].ontology
        /\ req'[p].seen.parent = row[d].parent
    BY <1>0, <1>2 DEF Begin, TypeOK
  <2>3. hist' = hist /\ versions' = versions
    BY <1>2 DEF Begin
  <2>4. op \notin RebaseOps => r <= row[d].revision
    BY <1>2, <2>1 DEF Begin, SentRange, DraftRow
  <2>5. op = "complete" => row[d].ontology # None
    BY <1>2 DEF Begin, NeedsOntology
  <2>6. row[d].revision \in Nat
    BY <2>1, MaxRevisionAssumption DEF DraftRow
  <2>7. QED
    BY <1>0, <2>1, <2>2, <2>3, <2>4, <2>5, <2>6 DEF RowIsLatest
<1>3. CASE ~RequestStep(p)
  <2>1. req'[p] = req[p]
    BY <1>0, <1>3, NextKeepsOthers
  <2>2. QED
    BY <1>1, <2>1 DEF IsBusy, KeepsLoad
<1>4. CASE RequestStep(p)
  BY <1>0, <1>1, <1>2, <1>4, BusyFrame DEF IsBusy
<1>5. QED
  BY <1>3, <1>4

---------------------------------------------------------------------------
(* What requests know of the canonical ontology.                           *)

LEMMA StepIdentity ==
  ASSUME IInv, [Next]_vars
  PROVE  /\ identity = TRUE => identity' = TRUE
         /\ (\E q \in Request : CreateIdentity(q)) => identity' = TRUE
<1>0. ASSUME NEW q \in Request, CreateIdentity(q) PROVE identity' = TRUE
  BY <1>0 DEF CreateIdentity, InsertIdentity
<1>1. ASSUME NEW d \in Draft, DraftStep(d) PROVE identity' = identity
  BY <1>1 DEF DraftStep, CreateFromSource, CreateFromBase, InsertDraft, Delete, Archive, PurgeArchived
<1>2. ASSUME NEW q \in Request, RequestStep(q), ~CreateIdentity(q) PROVE identity' = identity
  BY <1>2, RequestCase DEF RequestCases, Begin, PinSnapshot, Write, WriteConflict, Abandon, CheckRebase, CheckComplete,
     BeginCanonicalEdit, BeginCanonicalCreate, CommitDraft, CommitCanonical, CommitVersion
<1>3. CASE UNCHANGED vars
  BY <1>0, <1>3 DEF vars
<1>4. QED
  BY <1>0, <1>1, <1>2, <1>3 DEF Next

LEMMA StepHeadIsVersion ==
  ASSUME IInv, [Next]_vars
  PROVE  HeadIsVersion'
<1>0. TypeOK /\ HeadIsVersion /\ VersionsGrow
  BY StepVersionsGrow DEF IInv
<1>00. Len(versions) \in Nat /\ Len(versions') \in Nat /\ Len(versions) <= Len(versions')
  BY <1>0, StepType DEF TypeOK, CanonTypeOK, VersionsGrow
<1> DEFINE Goal(p) == /\ req'[p].head <= Len(versions')
                      /\ req'[p].pc \in {"loaded", "creating"} => req'[p].head = 0
                      /\ req'[p].pc = "checked" => identity' = TRUE
<1> SUFFICES ASSUME NEW p \in Request, req'[p].pc # "idle"
             PROVE  Goal(p)
  BY DEF HeadIsVersion
<1>1. CASE ~RequestStep(p)
  <2>1. req'[p] = req[p]
    BY <1>0, <1>1, NextKeepsOthers
  <2>2. req[p].head \in Nat
    BY <1>0, <2>1 DEF TypeOK, Idle, Busy, CanonBusy
  <2>3. req[p].head <= Len(versions) /\ (req[p].pc \in {"loaded", "creating"} => req[p].head = 0)
    BY <1>0, <2>1 DEF HeadIsVersion
  <2>4. req'[p].head <= Len(versions')
    BY <1>00, <2>1, <2>2, <2>3
  <2>5. req[p].pc = "checked" => identity = TRUE
    BY <1>0 DEF HeadIsVersion
  <2>6. req'[p].pc = "checked" => identity' = TRUE
    BY <2>1, <2>5, StepIdentity
  <2>7. QED
    BY <2>1, <2>3, <2>4, <2>6
<1>2. ASSUME NEW op \in DraftOps, NEW d \in Draft, NEW r \in 1..MaxRevision, Begin(p, op, d, r)
      PROVE  Goal(p)
  BY <1>0, <1>00, <1>2 DEF Begin, TypeOK
<1>3. CASE PinSnapshot(p)
  <2>1. req[p] \in Busy
    BY <1>0, <1>3, IdleOrBusy DEF PinSnapshot
  <2>2. req'[p].head = req[p].head /\ req'[p].pc = "pinned" /\ req[p].head \in Nat
        /\ req[p].pc # "idle"
    BY <1>0, <1>3, <2>1 DEF PinSnapshot, TypeOK, Busy
  <2>3. QED
    BY <1>0, <1>00, <2>2 DEF HeadIsVersion
<1>4. CASE Write(p) \/ WriteConflict(p) \/ Abandon(p) \/ CommitCanonical(p)
  <2>1. req'[p] = Idle
    BY <1>0, <1>4 DEF Write, WriteConflict, Abandon, CommitCanonical, TypeOK
  <2>2. QED
    BY <2>1 DEF Idle
<1>5. CASE CheckRebase(p) \/ (CheckComplete(p) /\ identity = TRUE)
  <2>1. req[p] \in Busy /\ identity = TRUE
    BY <1>0, <1>5, IdleOrBusy DEF CheckRebase, CheckComplete, TypeOK, CanonTypeOK
  <2>2. req'[p] = [req[p] EXCEPT !.pc = "checked", !.head = CurrentVersion]
    BY <1>0, <1>5, <2>1 DEF CheckRebase, CheckComplete, TypeOK
  <2>3. req'[p].pc = "checked" /\ req'[p].head = Len(versions)
    BY <2>1, <2>2 DEF Busy, CurrentVersion
  <2>4. QED
    BY <1>00, <2>1, <2>3, StepIdentity
<1>6. CASE CheckComplete(p) /\ identity # TRUE
  <2>1. req[p] \in Busy /\ req[p].pc = "loaded" /\ identity = FALSE
    BY <1>0, <1>6, IdleOrBusy DEF CheckComplete, TypeOK, CanonTypeOK
  <2>2. req'[p] = [req[p] EXCEPT !.pc = "creating"]
    BY <1>0, <1>6, <2>1 DEF CheckComplete, TypeOK
  <2>3. req'[p].pc = "creating" /\ req'[p].head = req[p].head
    BY <2>1, <2>2 DEF Busy
  <2>4. QED
    BY <1>0, <1>00, <2>1, <2>3 DEF HeadIsVersion
<1>7. CASE BeginCanonicalEdit(p)
  <2>1. identity = TRUE
    BY <1>0, <1>7 DEF BeginCanonicalEdit, TypeOK, CanonTypeOK
  <2>2. req'[p].pc = "checked" /\ req'[p].head = Len(versions)
    BY <1>0, <1>7 DEF BeginCanonicalEdit, TypeOK, CurrentVersion
  <2>3. QED
    BY <1>00, <2>1, <2>2, StepIdentity
<1>8. CASE BeginCanonicalCreate(p)
  BY <1>0, <1>00, <1>8 DEF BeginCanonicalCreate, TypeOK
<1>9. CASE CreateIdentity(p)
  <2>1. req[p] \in Busy \/ req[p] \in CanonBusy
    BY <1>0, <1>9 DEF CreateIdentity, TypeOK, Idle
  <2>2. req'[p] = [req[p] EXCEPT !.pc = "checked"]
    BY <1>0, <1>9 DEF CreateIdentity, TypeOK
  <2>3. req'[p].pc = "checked" /\ req'[p].head = req[p].head
    BY <2>1, <2>2 DEF Busy, CanonBusy
  <2>4. req[p].pc = "creating"
    BY <1>9 DEF CreateIdentity
  <2>5. req[p].head = 0
    BY <1>0, <2>4 DEF HeadIsVersion
  <2>6. identity' = TRUE
    BY <1>9, StepIdentity
  <2>7. QED
    BY <1>00, <2>3, <2>5, <2>6
<1>10. CASE CommitDraft(p)
  <2>1. req[p] \in Busy /\ req[p].head = Len(versions)
    BY <1>10, CommitDraftFacts
  <2>2. req'[p].pc = "committed" /\ req'[p].head = req[p].head
    BY <1>0, <1>10, <2>1 DEF CommitDraft, TypeOK, Busy
  <2>3. QED
    BY <1>00, <2>1, <2>2
<1>11. QED
  BY <1>1, <1>2, <1>3, <1>4, <1>5, <1>6, <1>7, <1>8, <1>9, <1>10, RequestCase DEF RequestCases

LEMMA StepCompletionIsChecked ==
  ASSUME IInv, [Next]_vars
  PROVE  CompletionIsChecked'
<1>0. TypeOK /\ SeenIsHistory /\ CompletionIsChecked /\ VersionsGrow /\ TypeOK'
  BY StepVersionsGrow, StepType DEF IInv
<1>00. Len(versions) \in Nat /\ DOMAIN versions = 1..Len(versions)
       /\ Len(versions') \in Nat /\ DOMAIN versions' = 1..Len(versions')
       /\ Len(versions) <= Len(versions')
  BY <1>0 DEF TypeOK, CanonTypeOK, VersionsGrow
<1> DEFINE Goal(p) ==
      /\ req'[p].pc = "creating" => req'[p].seen.parent = 0
      /\ req'[p].pc = "checked" => req'[p].seen.parent \in {0, req'[p].head}
      /\ req'[p].pc = "committed" =>
           /\ req'[p].version \in DOMAIN versions'
           /\ versions'[req'[p].version].draft = req'[p].draft
           /\ versions'[req'[p].version].ontology = req'[p].seen.ontology
<1> SUFFICES ASSUME NEW p \in Request, req'[p].pc # "idle", req'[p].op = "complete"
             PROVE  Goal(p)
  BY DEF CompletionIsChecked
<1>1. CASE ~RequestStep(p)
  <2>1. req'[p] = req[p]
    BY <1>0, <1>1, NextKeepsOthers
  <2>2. req[p].pc = "committed" =>
          /\ req[p].version \in 1..Len(versions)
          /\ versions[req[p].version].draft = req[p].draft
          /\ versions[req[p].version].ontology = req[p].seen.ontology
    BY <1>0, <1>00, <2>1 DEF CompletionIsChecked
  <2>3. req[p].pc = "committed" =>
          /\ req[p].version \in 1..Len(versions')
          /\ versions'[req[p].version] = versions[req[p].version]
    BY <1>0, <1>00, <2>2 DEF VersionsGrow
  <2>4. QED
    BY <1>0, <1>00, <2>1, <2>2, <2>3 DEF CompletionIsChecked
<1>2. ASSUME NEW op \in DraftOps, NEW d \in Draft, NEW r \in 1..MaxRevision, Begin(p, op, d, r)
      PROVE  Goal(p)
  BY <1>0, <1>2 DEF Begin, TypeOK
<1>3. CASE PinSnapshot(p)
  <2>1. req[p] \in Busy
    BY <1>0, <1>3, IdleOrBusy DEF PinSnapshot
  <2>2. req'[p].pc = "pinned"
    BY <1>0, <1>3, <2>1 DEF PinSnapshot, TypeOK, Busy
  <2>3. QED
    BY <2>2
<1>4. CASE Write(p) \/ WriteConflict(p) \/ Abandon(p) \/ CommitCanonical(p)
  <2>1. req'[p] = Idle
    BY <1>0, <1>4 DEF Write, WriteConflict, Abandon, CommitCanonical, TypeOK
  <2>2. QED
    BY <2>1 DEF Idle
<1>5. CASE CheckRebase(p)
  <2>1. req[p] \in Busy /\ req[p].op \in RebaseOps
    BY <1>0, <1>5, IdleOrBusy DEF CheckRebase
  <2>2. req'[p].op = req[p].op
    BY <1>0, <1>5, <2>1 DEF CheckRebase, TypeOK, Busy
  <2>3. QED
    BY <2>1, <2>2 DEF RebaseOps
<1>6. CASE CheckComplete(p)
  <2>1. req[p] \in Busy /\ IsBusy(p) /\ req[p].pc = "loaded"
    BY <1>0, <1>6, IdleOrBusy DEF CheckComplete
  <2>2. CASE identity = TRUE
    <3>1. req'[p] = [req[p] EXCEPT !.pc = "checked", !.head = CurrentVersion]
      BY <1>0, <1>6, <2>2 DEF CheckComplete, TypeOK
    <3>2. req'[p].pc = "checked" /\ req'[p].head = CurrentVersion /\ req'[p].seen = req[p].seen
      BY <2>1, <3>1 DEF Busy
    <3>3. req[p].seen.parent \in {0, CurrentVersion}
      BY <1>6, <2>2 DEF CheckComplete
    <3>4. QED
      BY <3>2, <3>3
  <2>3. CASE identity = FALSE
    <3>1. req'[p] = [req[p] EXCEPT !.pc = "creating"]
      BY <1>0, <1>6, <2>3 DEF CheckComplete, TypeOK
    <3>2. req'[p].pc = "creating" /\ req'[p].seen = req[p].seen /\ req[p].seen.parent \in Nat
      BY <2>1, <3>1 DEF Busy, Seen
    <3>3. versions = << >>
      BY <2>3 DEF IInv, VersionsNeedIdentity
    <3>4. req[p].seen.parent = 0
      BY <1>0, <2>1, <3>2, <3>3 DEF SeenIsHistory
    <3>5. QED
      BY <3>2, <3>4
  <2>4. QED
    BY <1>0, <2>2, <2>3 DEF TypeOK, CanonTypeOK
<1>7. CASE BeginCanonicalEdit(p) \/ BeginCanonicalCreate(p)
  BY <1>0, <1>7 DEF BeginCanonicalEdit, BeginCanonicalCreate, TypeOK
<1>8. CASE CreateIdentity(p)
  <2>1. req[p].pc = "creating" /\ req'[p] = [req[p] EXCEPT !.pc = "checked"]
    BY <1>0, <1>8 DEF CreateIdentity, TypeOK
  <2>2. req[p] \in Busy
    <3>1. req[p] \in Busy \/ req[p] \in CanonBusy
      BY <1>0, <2>1 DEF TypeOK, Idle
    <3>2. CASE req[p] \in CanonBusy
      BY <2>1, <3>2 DEF CanonBusy, CanonOps
    <3>3. QED
      BY <3>1, <3>2
  <2>3. req'[p].pc = "checked" /\ req'[p].seen = req[p].seen /\ req[p].op = "complete"
    BY <2>1, <2>2 DEF Busy
  <2>4. req[p].seen.parent = 0
    BY <1>0, <2>1, <2>3 DEF CompletionIsChecked
  <2>5. QED
    BY <2>3, <2>4
<1>9. CASE CommitDraft(p)
  <2>1. /\ req[p] \in Busy
        /\ Len(versions') = Len(versions) + 1
        /\ versions'[Len(versions')].draft = req[p].draft
        /\ versions'[Len(versions')].ontology = req[p].seen.ontology
    <3>1. versions'[Len(versions')] =
            [ontology |-> req[p].seen.ontology, parent |-> req[p].head, tag |-> req[p].head + 1,
             draft |-> req[p].draft, base |-> req[p].seen.parent]
      BY <1>9, CommitDraftFacts
    <3>2. req[p] \in Busy /\ Len(versions') = Len(versions) + 1
      BY <1>9, CommitDraftFacts
    <3>3. QED
      BY <3>1, <3>2
  <2>2. req'[p] = [req[p] EXCEPT !.pc = "committed", !.version = Len(versions')]
    BY <1>0, <1>9 DEF CommitDraft, TypeOK
  <2>3. req'[p].pc = "committed" /\ req'[p].version = Len(versions')
        /\ req'[p].draft = req[p].draft /\ req'[p].seen = req[p].seen
    BY <2>1, <2>2 DEF Busy
  <2>4. Len(versions') \in DOMAIN versions'
    BY <1>00, <2>1
  <2>5. QED
    BY <2>1, <2>3, <2>4
<1>10. QED
  BY <1>1, <1>2, <1>3, <1>4, <1>5, <1>6, <1>7, <1>8, <1>9, RequestCase DEF RequestCases

---------------------------------------------------------------------------
(* The canonical lineage.                                                  *)

LEMMA VersionsChange ==
  ASSUME IInv, [Next]_vars, ~(\E q \in Request : CommitDraft(q) \/ CommitCanonical(q))
  PROVE  versions' = versions
<1>1. ASSUME NEW d \in Draft, DraftStep(d) PROVE versions' = versions
  BY <1>1 DEF DraftStep, CreateFromSource, CreateFromBase, InsertDraft, Delete, Archive, PurgeArchived
<1>2. ASSUME NEW q \in Request, RequestStep(q) PROVE versions' = versions
  BY <1>2, RequestCase DEF RequestCases, Begin, PinSnapshot, Write, WriteConflict, Abandon, CheckRebase, CheckComplete,
     BeginCanonicalEdit, BeginCanonicalCreate, CreateIdentity, InsertIdentity
<1>3. QED
  BY <1>1, <1>2 DEF Next, vars

LEMMA StepLineage ==
  ASSUME IInv, [Next]_vars
  PROVE  VersionsNeedIdentity' /\ LinearHistory' /\ NoLostCanonicalUpdate'
<1>0. TypeOK /\ VersionsNeedIdentity /\ LinearHistory /\ NoLostCanonicalUpdate /\ HeadIsVersion
      /\ CompletionIsChecked
  BY DEF IInv
<1>1. CASE ~(\E q \in Request : CommitDraft(q) \/ CommitCanonical(q))
  <2>1. versions' = versions
    BY <1>1, VersionsChange
  <2>2. LinearHistory' /\ NoLostCanonicalUpdate'
    BY <1>0, <2>1 DEF LinearHistory, NoLostCanonicalUpdate
  <2>3. VersionsNeedIdentity'
    BY <1>0, <2>1, StepIdentity DEF VersionsNeedIdentity
  <2>4. QED
    BY <2>2, <2>3
<1>2. ASSUME NEW q \in Request, CommitDraft(q) \/ CommitCanonical(q)
      PROVE  VersionsNeedIdentity' /\ LinearHistory' /\ NoLostCanonicalUpdate'
  <2>1. /\ versions' \in Seq(Version)
        /\ Len(versions') = Len(versions) + 1
        /\ \A i \in 1..Len(versions) : versions'[i] = versions[i]
        /\ identity' = identity
    BY <1>2, CommitDraftFacts, CommitCanonicalFacts
  <2>2. req[q].pc = "checked"
    BY <1>2 DEF CommitDraft, CommitCanonical
  <2>3. identity = TRUE
    BY <1>0, <2>2 DEF HeadIsVersion
  <2>4. VersionsNeedIdentity'
    BY <2>1, <2>3 DEF VersionsNeedIdentity
  <2>5. /\ Len(versions) \in Nat /\ DOMAIN versions = 1..Len(versions)
        /\ DOMAIN versions' = 1..(Len(versions) + 1)
    BY <1>0, <2>1 DEF TypeOK, CanonTypeOK
  <2> DEFINE v == versions'[Len(versions) + 1]
  <2>6. /\ v.tag = Len(versions) + 1
        /\ v.parent = Len(versions)
        /\ v.base # 0 => v.base = Len(versions)
    <3>1. CASE CommitDraft(q)
      <4>1. /\ req[q].head = Len(versions)
            /\ v = [ontology |-> req[q].seen.ontology, parent |-> req[q].head, tag |-> req[q].head + 1,
                    draft |-> req[q].draft, base |-> req[q].seen.parent]
        BY <2>1, <3>1, CommitDraftFacts
      <4>2. req[q].seen.parent \in {0, req[q].head}
        BY <1>0, <2>2, <3>1 DEF CommitDraft, CompletionIsChecked
      <4>3. QED
        BY <4>1, <4>2
    <3>2. CASE CommitCanonical(q)
      <4>1. req[q].head = Len(versions)
        BY <3>2, CommitCanonicalFacts
      <4>2. PICK o \in Ontology : v = [ontology |-> o, parent |-> req[q].head, tag |-> req[q].head + 1,
                                       draft |-> None, base |-> req[q].head]
        BY <2>1, <3>2, CommitCanonicalFacts
      <4>3. QED
        BY <4>1, <4>2
    <3>3. QED
      BY <1>2, <3>1, <3>2
  <2>7. ASSUME NEW i \in 1..(Len(versions) + 1)
        PROVE  /\ versions'[i].tag = i /\ versions'[i].parent = i - 1
               /\ versions'[i].base # 0 => versions'[i].base = i - 1
    <3>1. CASE i = Len(versions) + 1
      BY <2>5, <2>6, <3>1
    <3>2. CASE i \in 1..Len(versions)
      BY <1>0, <2>1, <2>5, <3>2 DEF LinearHistory, NoLostCanonicalUpdate
    <3>3. QED
      BY <2>5, <2>7, <3>1, <3>2
  <2>8. QED
    BY <2>4, <2>5, <2>7 DEF LinearHistory, NoLostCanonicalUpdate
<1>3. QED
  BY <1>1, <1>2

---------------------------------------------------------------------------
(* The drafts.                                                             *)

(* A write that passes its WHERE clause replaces the revision its handler  *)
(* loaded, not merely the one its client sent.                             *)
LEMMA WriteFacts ==
  ASSUME IInv, NEW q \in Request, Write(q)
  PROVE  /\ req[q].draft \in Draft
         /\ Exists(req[q].draft)
         /\ row[req[q].draft] \in DraftRow
         /\ req[q].seen.revision = row[req[q].draft].revision
         /\ req[q].seen.ontology = row[req[q].draft].ontology
         /\ req[q].op \in DraftOps
         /\ req[q].pc = WritesAt(req[q].op)
<1> DEFINE d == req[q].draft
<1>0. TypeOK /\ SeenIsHistory /\ RowIsLatest /\ ReadyToWrite(q) /\ CasMatches(q)
  BY DEF IInv, Write
<1>1. /\ IsBusy(q) /\ d \in Draft /\ row[d] \in DraftRow /\ Exists(d) /\ req[q].op \in DraftOps
      /\ req[q].seen \in Seen /\ req[q].rev \in Nat \ {0} /\ req[q].pc = WritesAt(req[q].op)
  BY <1>0, WriterFacts DEF CasMatches, ReadyToWrite
<1>2. req[q].seen.revision \in Nat /\ row[d].revision \in Nat
  BY <1>1, MaxRevisionAssumption DEF Seen, DraftRow
<1>3. req[q].seen.revision <= row[d].revision
  BY <1>0, <1>1 DEF SeenIsHistory, RowIsLatest
<1>4. row[d].revision <= req[q].seen.revision
  <2>1. CASE req[q].op \in RebaseOps \cup {"restore"}
    BY <1>0, <1>2, <2>1 DEF CasMatches, ExpectedRevision
  <2>2. CASE req[q].op \notin RebaseOps \cup {"restore"}
    <3>1. row[d].revision = req[q].rev
      BY <1>0, <2>2 DEF CasMatches, ExpectedRevision
    <3>2. req[q].rev <= req[q].seen.revision
      BY <1>0, <1>1, <2>2 DEF SeenIsHistory
    <3>3. QED
      BY <3>1, <3>2
  <2>3. QED
    BY <2>1, <2>2
<1>5. req[q].seen.revision = row[d].revision
  BY <1>2, <1>3, <1>4
<1>6. req[q].seen.ontology = row[d].ontology
  BY <1>0, <1>1, <1>5 DEF SeenIsHistory, RowIsLatest
<1>7. QED
  BY <1>1, <1>5, <1>6

(* What has to hold of a draft's row in the next state.                    *)
RowGoal(c) ==
  row'[c] # None =>
    /\ Len(hist'[c]) = row'[c].revision
    /\ hist'[c][row'[c].revision] = row'[c].ontology
    /\ row'[c].parent <= Len(versions')
    /\ row'[c].status = "analyzed" <=> row'[c].ontology = None
    /\ row'[c].status = "completed" =>
         /\ row'[c].committed \in DOMAIN versions'
         /\ versions'[row'[c].committed].draft = c
         /\ versions'[row'[c].committed].ontology = row'[c].ontology

LEMMA UntouchedRow ==
  ASSUME IInv, [Next]_vars, NEW c \in Draft, hist'[c] = hist[c],
         \/ row'[c] = row[c]
         \/ /\ row[c] # None
            /\ row'[c] = [row[c] EXCEPT !.archived = TRUE]
  PROVE  RowGoal(c)
<1>0. TypeOK /\ RowIsLatest /\ StatusMatchesOntology /\ CompletedIsCommitted /\ VersionsGrow /\ TypeOK'
  BY StepVersionsGrow, StepType DEF IInv
<1>1. SUFFICES ASSUME row'[c] # None PROVE RowGoal(c)
  BY DEF RowGoal
<1>2. row[c] # None /\ row[c] \in DraftRow
  BY <1>0, <1>1 DEF TypeOK
<1>3. /\ row'[c].revision = row[c].revision /\ row'[c].ontology = row[c].ontology
      /\ row'[c].parent = row[c].parent /\ row'[c].status = row[c].status
      /\ row'[c].committed = row[c].committed
  BY <1>2 DEF DraftRow
<1>4. /\ Len(versions) \in Nat /\ DOMAIN versions = 1..Len(versions)
      /\ Len(versions') \in Nat /\ DOMAIN versions' = 1..Len(versions')
      /\ Len(versions) <= Len(versions') /\ row[c].parent \in Nat
  BY <1>0, <1>2 DEF TypeOK, CanonTypeOK, VersionsGrow, DraftRow
<1>5. /\ Len(hist[c]) = row[c].revision /\ hist[c][row[c].revision] = row[c].ontology
      /\ row[c].parent <= Len(versions)
  BY <1>0, <1>2 DEF RowIsLatest, Exists
<1>6. row[c].status = "analyzed" <=> row[c].ontology = None
  BY <1>0, <1>2 DEF StatusMatchesOntology, Exists
<1>7. row[c].status = "completed" =>
        /\ row[c].committed \in 1..Len(versions)
        /\ versions[row[c].committed].draft = c
        /\ versions[row[c].committed].ontology = row[c].ontology
  BY <1>0, <1>2, <1>4 DEF CompletedIsCommitted, Exists
<1>8. row[c].status = "completed" =>
        /\ row[c].committed \in DOMAIN versions'
        /\ versions'[row[c].committed] = versions[row[c].committed]
  BY <1>0, <1>4, <1>7 DEF VersionsGrow
<1>9. row'[c].parent <= Len(versions')
  BY <1>3, <1>4, <1>5
<1>10. QED
  BY <1>3, <1>5, <1>6, <1>7, <1>8, <1>9 DEF RowGoal

LEMMA InsertedRow ==
  ASSUME IInv, NEW d \in Draft, NEW st \in {"analyzed", "designed"}, NEW o \in MaybeOntology,
         NEW p \in Nat, p <= Len(versions), st = "analyzed" <=> o = None,
         InsertDraft(d, st, o, p)
  PROVE  RowGoal(d)
<1>0. row \in [Draft -> DraftRow \cup {None}] /\ hist \in [Draft -> Seq(MaybeOntology)]
  BY DEF IInv, TypeOK
<1>1. /\ row'[d].revision = 1 /\ row'[d].ontology = o /\ row'[d].parent = p /\ row'[d].status = st
      /\ hist'[d] = <<o>> /\ versions' = versions
  BY <1>0 DEF InsertDraft
<1>2. Len(<<o>>) = 1 /\ <<o>>[1] = o
  OBVIOUS
<1>3. QED
  BY <1>1, <1>2 DEF RowGoal

LEMMA WrittenRow ==
  ASSUME IInv, NEW q \in Request, Write(q)
  PROVE  RowGoal(req[q].draft)
<1> DEFINE d == req[q].draft
<1>0. /\ TypeOK /\ RowIsLatest /\ StatusMatchesOntology /\ CompletedIsCommitted
      /\ HeadIsVersion /\ CompletionIsChecked
  BY DEF IInv
<1>1. /\ d \in Draft /\ row[d] # None /\ row[d] \in DraftRow
      /\ req[q].seen.ontology = row[d].ontology
      /\ req[q].op \in DraftOps /\ req[q].pc = WritesAt(req[q].op)
  BY WriteFacts DEF Exists
<1>2. PICK o \in Outcome(q) :
        /\ row' = [row EXCEPT ![d] = Updated(q, row[d], o)]
        /\ hist' = [hist EXCEPT ![d] = Append(hist[d], Updated(q, row[d], o).ontology)]
  BY DEF Write
<1>3. versions' = versions
  BY SMTT(60) DEF Write
<1> DEFINE u == Updated(q, row[d], o)
<1>4. row'[d] = u /\ hist'[d] = Append(hist[d], u.ontology)
  BY SMTT(60), <1>0, <1>1, <1>2 DEF TypeOK
<1>5. /\ u.revision = row[d].revision + 1
      /\ u.parent = IF req[q].op \in RebaseOps THEN req[q].head ELSE row[d].parent
      /\ u.committed = IF req[q].op = "complete" THEN req[q].version ELSE row[d].committed
  BY SMTT(60), <1>1 DEF Updated, DraftRow
<1>6. Len(hist'[d]) = u.revision /\ hist'[d][u.revision] = u.ontology
  <2>1. hist[d] \in Seq(MaybeOntology)
    BY <1>0, <1>1 DEF TypeOK
  <2>2. Len(hist[d]) = row[d].revision
    BY <1>0, <1>1 DEF RowIsLatest, Exists
  <2>3. \A x : Len(Append(hist[d], x)) = Len(hist[d]) + 1 /\ Append(hist[d], x)[Len(hist[d]) + 1] = x
    BY <2>1
  <2>4. QED
    BY <1>4, <1>5, <2>2, <2>3
<1>7. u.parent <= Len(versions)
  <2>1. row[d].parent <= Len(versions)
    BY <1>0, <1>1 DEF RowIsLatest, Exists
  <2>2. req[q].pc # "idle"
    BY <1>1 DEF WritesAt
  <2>3. req[q].head <= Len(versions)
    BY <1>0, <2>2 DEF HeadIsVersion
  <2>4. QED
    BY <1>5, <2>1, <2>3
<1>8. /\ u.status = "analyzed" <=> u.ontology = None
      /\ u.status = "completed" =>
           /\ u.committed \in DOMAIN versions
           /\ versions[u.committed].draft = d
           /\ versions[u.committed].ontology = u.ontology
  <2>1. CASE req[q].op \in DesignOps \cup {"restore"}
    <3>1. u.status = "designed" /\ u.ontology = o
      BY <1>1, <2>1 DEF Updated, DraftRow, DesignOps
    <3>2. o \in Ontology
      BY <2>1, OutcomeType DEF Write
    <3>3. QED
      BY <3>1, <3>2, NoneAssumption
  <2>2. CASE req[q].op = "reanalyze"
    BY <1>1, <2>2 DEF Updated, DraftRow, DesignOps
  <2>3. CASE req[q].op = "complete"
    <3>1. u.status = "completed" /\ u.ontology = row[d].ontology /\ u.committed = req[q].version
      BY <1>1, <1>5, <2>3 DEF Updated, DraftRow, DesignOps
    <3>2. row[d].status = "designed"
      BY <2>3 DEF Write, CasMatches
    <3>3. row[d].ontology # None
      BY <1>0, <1>1, <3>2 DEF StatusMatchesOntology, Exists
    <3>4. req[q].pc = "committed"
      BY <1>1, <2>3 DEF WritesAt, Pins, RebaseOps
    <3>5. /\ req[q].version \in DOMAIN versions
          /\ versions[req[q].version].draft = d
          /\ versions[req[q].version].ontology = req[q].seen.ontology
      BY <1>0, <2>3, <3>4 DEF CompletionIsChecked
    <3>6. QED
      BY <1>1, <3>1, <3>3, <3>5
  <2>4. CASE req[q].op \in RebaseOps \cup {"touch"}
    <3>1. u.status = row[d].status /\ u.ontology = row[d].ontology /\ u.committed = row[d].committed
      BY <1>1, <1>5, <2>4 DEF Updated, DraftRow, DesignOps, RebaseOps
    <3>2. QED
      BY <1>0, <1>1, <3>1 DEF StatusMatchesOntology, CompletedIsCommitted, Exists
  <2>5. QED
    BY <1>1, <2>1, <2>2, <2>3, <2>4 DEF DraftOps
<1>9. QED
  BY <1>3, <1>4, <1>6, <1>7, <1>8 DEF RowGoal

LEMMA StepRows ==
  ASSUME IInv, [Next]_vars
  PROVE  RowIsLatest' /\ StatusMatchesOntology' /\ CompletedIsCommitted'
<1>0. row \in [Draft -> DraftRow \cup {None}] /\ hist \in [Draft -> Seq(MaybeOntology)]
      /\ versions \in Seq(Version)
  BY DEF IInv, TypeOK, CanonTypeOK
<1> SUFFICES ASSUME NEW c \in Draft PROVE RowGoal(c)
  BY DEF RowGoal, RowIsLatest, StatusMatchesOntology, CompletedIsCommitted, Exists
<1>1. CASE row' = row /\ hist' = hist
  BY <1>1, UntouchedRow
<1>2. ASSUME NEW d \in Draft, DraftStep(d) PROVE RowGoal(c)
  <2>1. CASE d # c
    <3>1. row'[c] = row[c] /\ hist'[c] = hist[c]
      BY <1>0, <1>2, <2>1
         DEF DraftStep, CreateFromSource, CreateFromBase, InsertDraft, Delete, Archive, PurgeArchived
    <3>2. QED
      BY <3>1, UntouchedRow
  <2>2. CASE d = c /\ CreateFromSource(d)
    <3>1. PICK p \in 0..CurrentVersion : InsertDraft(d, "analyzed", None, p)
      BY <2>2 DEF CreateFromSource
    <3>2. p \in Nat /\ p <= Len(versions)
      BY <1>0, <3>1 DEF CurrentVersion
    <3>3. QED
      BY <2>2, <3>1, <3>2, InsertedRow DEF MaybeOntology
  <2>3. CASE d = c /\ CreateFromBase(d)
    <3>1. PICK p \in 1..CurrentVersion : InsertDraft(d, "designed", versions[p].ontology, p)
      BY <2>3 DEF CreateFromBase
    <3>2. p \in Nat /\ p <= Len(versions) /\ versions[p] \in Version
      BY <1>0, <3>1 DEF CurrentVersion
    <3>3. versions[p].ontology \in Ontology
      BY <3>2 DEF Version
    <3>4. QED
      BY <2>3, <3>1, <3>2, <3>3, InsertedRow, NoneAssumption DEF MaybeOntology
  <2>4. CASE d = c /\ (Delete(d) \/ PurgeArchived(d))
    <3>1. row'[c] = None
      BY <1>0, <2>4 DEF Delete, PurgeArchived
    <3>2. QED
      BY <3>1 DEF RowGoal
  <2>5. CASE d = c /\ Archive(d)
    <3>1. row[c] # None /\ row'[c] = [row[c] EXCEPT !.archived = TRUE] /\ hist'[c] = hist[c]
      BY <1>0, <2>5 DEF Archive, Exists
    <3>2. QED
      BY <3>1, UntouchedRow
  <2>6. QED
    BY <1>2, <2>1, <2>2, <2>3, <2>4, <2>5 DEF DraftStep
<1>3. ASSUME NEW q \in Request, Write(q) PROVE RowGoal(c)
  <2>1. CASE req[q].draft = c
    BY <1>3, <2>1, WrittenRow
  <2>2. CASE req[q].draft # c
    <3>1. row'[c] = row[c] /\ hist'[c] = hist[c]
      BY <1>0, <1>3, <2>2 DEF Write
    <3>2. QED
      BY <3>1, UntouchedRow
  <2>3. QED
    BY <2>1, <2>2
<1>4. ASSUME NEW q \in Request, RequestStep(q), ~Write(q) PROVE row' = row /\ hist' = hist
  BY <1>4, RequestCase DEF RequestCases, Begin, PinSnapshot, WriteConflict, Abandon, CheckRebase, CheckComplete,
     BeginCanonicalEdit, BeginCanonicalCreate, CreateIdentity, CommitDraft, CommitCanonical, draftVars
<1>5. QED
  BY <1>1, <1>2, <1>3, <1>4 DEF Next, vars

LEMMA StepSnapshots ==
  ASSUME IInv, [Next]_vars
  PROVE  SnapshotFaithful'
<1>0. /\ TypeOK /\ TypeOK' /\ HistGrows /\ SnapshotFaithful /\ SeenIsHistory
  BY StepType, StepHistGrows DEF IInv
<1>1. \A d \in Draft : /\ DOMAIN hist[d] = 1..Len(hist[d]) /\ DOMAIN hist'[d] = 1..Len(hist'[d])
                       /\ Len(hist[d]) \in Nat /\ Len(hist'[d]) \in Nat
  BY <1>0 DEF TypeOK
<1> SUFFICES ASSUME NEW c \in Draft, NEW r \in 1..MaxRevision, snap'[c][r] # None
             PROVE  r \in DOMAIN hist'[c] /\ snap'[c][r] = hist'[c][r]
  BY DEF SnapshotFaithful
<1>2. ASSUME NEW x, r \in 1..Len(hist[c]), x = hist[c][r]
      PROVE  r \in DOMAIN hist'[c] /\ x = hist'[c][r]
  BY <1>0, <1>1, <1>2 DEF HistGrows
<1>3. CASE snap'[c][r] = snap[c][r]
  <2>1. r \in 1..Len(hist[c]) /\ snap[c][r] = hist[c][r]
    BY <1>0, <1>1, <1>3 DEF SnapshotFaithful
  <2>2. QED
    BY <1>2, <1>3, <2>1
<1>4. ASSUME NEW d \in Draft, DraftStep(d) PROVE snap'[c][r] = snap[c][r]
  <2>1. CASE Delete(d) \/ PurgeArchived(d)
    <3>1. snap' = [snap EXCEPT ![d] = [i \in 1..MaxRevision |-> None]]
      BY <2>1 DEF Delete, PurgeArchived
    <3>2. d # c
      BY <1>0, <3>1 DEF TypeOK
    <3>3. QED
      BY <1>0, <3>1, <3>2 DEF TypeOK
  <2>2. CASE ~(Delete(d) \/ PurgeArchived(d))
    BY <1>4, <2>2 DEF DraftStep, CreateFromSource, CreateFromBase, InsertDraft, Archive
  <2>3. QED
    BY <2>1, <2>2
<1>5. ASSUME NEW q \in Request, PinSnapshot(q)
      PROVE  r \in DOMAIN hist'[c] /\ snap'[c][r] = hist'[c][r]
  <2>1. req[q] \in Busy /\ IsBusy(q)
    BY <1>0, <1>5, IdleOrBusy DEF PinSnapshot
  <2>2. req[q].draft \in Draft /\ req[q].seen.revision \in 1..MaxRevision
    BY <2>1 DEF Busy, Seen
  <2>3. \/ snap' = snap
        \/ snap' = [snap EXCEPT ![req[q].draft] =
                      [snap[req[q].draft] EXCEPT ![req[q].seen.revision] = req[q].seen.ontology]]
    BY <1>5 DEF PinSnapshot, SnapshotInsert
  <2>4. CASE req[q].draft = c /\ req[q].seen.revision = r /\ snap'[c][r] = req[q].seen.ontology
    <3>1. r <= Len(hist[c]) /\ snap'[c][r] = hist[c][r]
      BY <1>0, <2>1, <2>4 DEF SeenIsHistory
    <3>2. r \in 1..Len(hist[c])
      BY <1>1, <3>1, MaxRevisionAssumption
    <3>3. QED
      BY <1>2, <3>1, <3>2
  <2>5. \/ snap'[c][r] = snap[c][r]
        \/ req[q].draft = c /\ req[q].seen.revision = r /\ snap'[c][r] = req[q].seen.ontology
    <3>1. snap[c] \in [1..MaxRevision -> MaybeOntology] /\ snap \in [Draft -> [1..MaxRevision -> MaybeOntology]]
      BY <1>0 DEF TypeOK
    <3>2. CASE req[q].draft # c \/ snap' = snap
      BY <2>2, <2>3, <3>1, <3>2
    <3>3. CASE req[q].draft = c /\ snap' # snap
      <4>1. snap'[c] = [snap[c] EXCEPT ![req[q].seen.revision] = req[q].seen.ontology]
        BY <2>3, <3>1, <3>3
      <4>2. QED
        BY <2>2, <3>1, <3>3, <4>1
    <3>4. QED
      BY <3>2, <3>3
  <2>6. QED
    BY <1>3, <2>4, <2>5
<1>6. ASSUME NEW q \in Request, RequestStep(q), ~PinSnapshot(q) PROVE snap' = snap
  BY <1>6, RequestCase DEF RequestCases, Begin, Write, WriteConflict, Abandon, CheckRebase, CheckComplete,
     BeginCanonicalEdit, BeginCanonicalCreate, CreateIdentity, CommitDraft, CommitCanonical, draftVars
<1>7. QED
  BY <1>3, <1>4, <1>5, <1>6 DEF Next, vars

---------------------------------------------------------------------------
LEMMA StepIInv == IInv /\ [Next]_vars => IInv'
BY StepType, StepRows, StepSeenIsHistory, StepHeadIsVersion, StepCompletionIsChecked,
   StepSnapshots, StepLineage DEF IInv

LEMMA Invariance == Spec => []IInv
BY InitIInv, StepIInv, PTL DEF Spec

(* Every reachable state is well typed, whatever the interleaving of       *)
(* handlers: in particular a version only ever holds an ontology, although *)
(* the draft it comes from may have none.                                  *)
THEOREM TypeCorrect == Spec => []TypeOK
BY Invariance, PTL DEF IInv

(* create_ontology_snapshot: a snapshot is the ontology its revision had.  *)
THEOREM SnapshotsAreFaithful == Spec => []SnapshotFaithful
BY Invariance, PTL DEF IInv

(* A draft's status tells whether it has an ontology.                      *)
THEOREM StatusIsAccurate == Spec => []StatusMatchesOntology
BY Invariance, PTL DEF IInv

(* complete_ontology_draft: a completed draft shows what it committed.     *)
THEOREM CompletedDraftsAreCommitted == Spec => []CompletedIsCommitted
BY Invariance, PTL DEF IInv

(* commit_version: the lineage of canonical versions never forks.          *)
THEOREM LineageIsLinear == Spec => []LinearHistory
BY Invariance, PTL DEF IInv

(* complete_ontology_draft, edit_ontology: no commit derived from a known  *)
(* version skips one.                                                      *)
THEOREM NoVersionIsSkipped == Spec => []NoLostCanonicalUpdate
BY Invariance, PTL DEF IInv

(* The optimistic revision of ontology_drafts: every revision was computed *)
(* from the one it replaces.                                               *)
THEOREM NoLostDraftUpdate == Spec => WritesBuildOnCurrent
<1> DEFINE Goal ==
      \A d \in Draft :
        (Exists(d) /\ Exists(d)' /\ row'[d].revision # row[d].revision) =>
          \E q \in Request : /\ req[q] # Idle /\ req'[q] = Idle
                             /\ req[q].draft = d
                             /\ req[q].seen.revision = row[d].revision
<1>1. IInv /\ [Next]_vars => [Goal]_vars
  <2> SUFFICES ASSUME IInv, [Next]_vars, NEW d \in Draft,
                      row[d] # None, row'[d] # None, row'[d].revision # row[d].revision
               PROVE  \E q \in Request : /\ req[q] # Idle /\ req'[q] = Idle
                                         /\ req[q].draft = d
                                         /\ req[q].seen.revision = row[d].revision
    BY DEF Exists
  <2>0. row \in [Draft -> DraftRow \cup {None}] /\ TypeOK
    BY DEF IInv, TypeOK
  <2>1. ASSUME NEW c \in Draft, DraftStep(c) PROVE FALSE
    <3>1. CASE CreateFromSource(c) \/ CreateFromBase(c)
      BY <2>0, <3>1 DEF CreateFromSource, CreateFromBase, InsertDraft
    <3>2. CASE Delete(c) \/ PurgeArchived(c)
      BY <2>0, <3>2 DEF Delete, PurgeArchived
    <3>3. CASE Archive(c)
      <4>1. row[d] \in DraftRow /\ row' = [row EXCEPT ![c] = [row[c] EXCEPT !.archived = TRUE]]
        BY <2>0, <3>3 DEF Archive
      <4>2. QED
        BY <2>0, <4>1 DEF DraftRow
    <3>4. QED
      BY <2>1, <3>1, <3>2, <3>3 DEF DraftStep
  <2>2. ASSUME NEW q \in Request, RequestStep(q), ~Write(q) PROVE FALSE
    BY <2>2, RequestCase DEF RequestCases, Begin, PinSnapshot, WriteConflict, Abandon, CheckRebase, CheckComplete,
       BeginCanonicalEdit, BeginCanonicalCreate, CreateIdentity, CommitDraft, CommitCanonical, draftVars
  <2>3. PICK q \in Request : Write(q)
    BY <2>1, <2>2 DEF Next, vars
  <2>4. req[q].draft = d
    BY <2>0, <2>3 DEF Write
  <2>5. req[q] # Idle /\ req'[q] = Idle
    BY <2>0, <2>3 DEF Write, ReadyToWrite, TypeOK
  <2>6. req[q].seen.revision = row[d].revision
    BY <2>3, <2>4, WriteFacts
  <2>7. QED
    BY <2>4, <2>5, <2>6
<1>2. QED
  BY <1>1, Invariance, PTL DEF Spec, WritesBuildOnCurrent

---------------------------------------------------------------------------
(* The refinement of CanonicalLineage.                                     *)

Abstract == [i \in DOMAIN versions |-> LineageEntry(versions[i])]

(* A version added at the end of the table is an entry added at the end of *)
(* the lineage.                                                            *)
LEMMA AbstractGrows ==
  ASSUME versions \in Seq(Version), versions' \in Seq(Version),
         Len(versions') = Len(versions) + 1,
         \A i \in 1..Len(versions) : versions'[i] = versions[i]
  PROVE  /\ Len(Abstract) = Len(versions)
         /\ Abstract' = Append(Abstract, LineageEntry(versions'[Len(versions) + 1]))
<1> DEFINE n == Len(versions)
           Entry == [content : Ontology, author : Draft \cup {None}, base : Nat]
           e == LineageEntry(versions'[n + 1])
<1>1. /\ n \in Nat /\ DOMAIN versions = 1..n /\ DOMAIN versions' = 1..(n + 1)
  OBVIOUS
<1>2. \A i \in 1..n : versions[i] \in Version
  BY <1>1
<1>3. versions'[n + 1] \in Version
  BY <1>1
<1>4. e \in Entry
  BY <1>3 DEF LineageEntry, Version
<1>5. Abstract = [i \in 1..n |-> LineageEntry(versions[i])]
  BY <1>1 DEF Abstract
<1>6. \A i \in 1..n : LineageEntry(versions[i]) \in Entry
  BY <1>2 DEF LineageEntry, Version
<1>7. Abstract \in Seq(Entry) /\ Len(Abstract) = n
  <2> HIDE DEF Entry
  <2>1. QED
    BY <1>1, <1>5, <1>6
<1>8. Abstract' = [i \in 1..(n + 1) |-> LineageEntry(versions'[i])]
  BY <1>1 DEF Abstract
<1>9. Append(Abstract, e) = [i \in 1..(n + 1) |-> IF i \in 1..n THEN Abstract[i] ELSE e]
  <2> HIDE DEF Entry, e, n
  <2> DEFINE a == Append(Abstract, e)
  <2>1. a \in Seq(Entry) /\ Len(a) = n + 1
    BY <1>1, <1>4, <1>7
  <2>2. \A i \in 1..(n + 1) : a[i] = IF i \in 1..n THEN Abstract[i] ELSE e
    BY <1>1, <1>4, <1>7
  <2> HIDE DEF a
  <2>3. a \in [1..(n + 1) -> Entry]
    BY <1>1, <2>1
  <2>4. a = [i \in 1..(n + 1) |-> a[i]]
    BY <2>3
  <2>5. a = [i \in 1..(n + 1) |-> IF i \in 1..n THEN Abstract[i] ELSE e]
    BY <2>2, <2>4
  <2>6. QED
    BY <2>5 DEF a
<1>10. \A i \in 1..(n + 1) : LineageEntry(versions'[i]) = IF i \in 1..n THEN Abstract[i] ELSE e
  BY <1>1, <1>5
<1>11. QED
  <2> HIDE DEF e, n
  <2>1. QED
    BY <1>7, <1>8, <1>9, <1>10 DEF n, e

LEMMA InitRefines == Init => Lineage!Init
<1> SUFFICES ASSUME Init PROVE identity = FALSE /\ Abstract = << >>
  BY DEF Lineage!Init, Abstract
<1>1. identity = FALSE /\ versions = << >>
  BY DEF Init, CanonInit
<1>2. Abstract = << >>
  BY <1>1 DEF Abstract
<1>3. QED
  BY <1>1, <1>2

(* Both kinds of commit, whatever the committer had read and however long  *)
(* before: the entry they add derives from the last one or from none.      *)
LEMMA CommitRefines ==
  ASSUME IInv, IInv', NEW q \in Request, CommitDraft(q) \/ CommitCanonical(q)
  PROVE  Lineage!Growth
<1>0. /\ TypeOK /\ HeadIsVersion /\ CompletionIsChecked
      /\ TypeOK'
  BY DEF IInv
<1> DEFINE n == Len(versions)
           v == versions'[n + 1]
<1>1. /\ versions \in Seq(Version) /\ versions' \in Seq(Version)
      /\ Len(versions') = n + 1
      /\ \A i \in 1..n : versions'[i] = versions[i]
      /\ identity' = identity
  BY <1>0, CommitDraftFacts, CommitCanonicalFacts DEF TypeOK, CanonTypeOK
<1>2. identity = TRUE
  BY <1>0 DEF HeadIsVersion, CommitDraft, CommitCanonical
<1>3. n \in Nat /\ v \in Version
  BY <1>1
<1>4. v.base \in {0, n}
  <2>1. CASE CommitDraft(q)
    <3>1. /\ req[q].head = n
          /\ v = [ontology |-> req[q].seen.ontology, parent |-> req[q].head,
                  tag |-> req[q].head + 1, draft |-> req[q].draft, base |-> req[q].seen.parent]
      BY <1>1, <2>1, CommitDraftFacts
    <3>2. req[q].seen.parent \in {0, req[q].head}
      BY <1>0, <2>1 DEF CommitDraft, CompletionIsChecked
    <3>3. QED
      BY <3>1, <3>2
  <2>2. CASE CommitCanonical(q)
    <3>1. req[q].head = n
      BY <2>2, CommitCanonicalFacts
    <3>2. PICK o \in Ontology : v = [ontology |-> o, parent |-> req[q].head, tag |-> req[q].head + 1,
                                     draft |-> None, base |-> req[q].head]
      BY <1>1, <2>2, CommitCanonicalFacts
    <3>3. QED
      BY <3>1, <3>2
  <2>3. QED
    BY <1>0, <2>1, <2>2
<1>5. v.ontology \in Ontology /\ v.draft \in Draft \cup {None}
  BY <1>3 DEF Version
<1>6. LineageEntry(v) = [content |-> v.ontology, author |-> v.draft, base |-> v.base]
  BY DEF LineageEntry
<1>7. /\ Len(Abstract) = n
      /\ Abstract' = Append(Abstract, [content |-> v.ontology, author |-> v.draft, base |-> v.base])
  BY <1>1, <1>6, AbstractGrows
<1>8. Abstract' # Abstract
  <2>1. DOMAIN Abstract = 1..n /\ DOMAIN Abstract' = 1..(n + 1)
    BY <1>1 DEF Abstract
  <2>2. QED
    BY <1>3, <2>1
<1> HIDE DEF v, n
<1>9. Lineage!Grow(v.ontology, v.draft, v.base)
  BY <1>1, <1>2, <1>7 DEF Lineage!Grow, Abstract
<1>10. Lineage!Derive(v.ontology, v.draft) \/ Lineage!Supply(v.ontology, v.draft)
  BY <1>4, <1>7, <1>9 DEF Lineage!Derive, Lineage!Supply, Abstract
<1>11. QED
  BY <1>5, <1>8, <1>10 DEF Lineage!Growth, Abstract

LEMMA StepRefines ==
  IInv /\ IInv' /\ [Next]_vars =>
    [Lineage!Next]_<<identity, [i \in DOMAIN versions |-> LineageEntry(versions[i])]>>
<1> SUFFICES ASSUME IInv, IInv', [Next]_vars
             PROVE  Lineage!Next \/ (identity' = identity /\ Abstract' = Abstract)
  BY DEF Abstract
<1>1. CASE \E q \in Request : CommitDraft(q) \/ CommitCanonical(q)
  BY <1>1, CommitRefines DEF Lineage!Next
<1>2. CASE ~(\E q \in Request : CommitDraft(q) \/ CommitCanonical(q))
  <2>1. versions' = versions
    BY <1>2, VersionsChange
  <2>2. Abstract' = Abstract
    BY <2>1 DEF Abstract, LineageEntry
  <2>3. CASE identity' = identity
    BY <2>2, <2>3
  <2>4. CASE identity' # identity
    <3>1. identity = FALSE /\ identity' = TRUE
      BY <2>4, StepIdentity DEF IInv, TypeOK, CanonTypeOK
    <3>2. Lineage!Found
      BY <2>2, <3>1 DEF Lineage!Found, Abstract
    <3>3. QED
      BY <3>2 DEF Lineage!Next
  <2>5. QED
    BY <2>3, <2>4
<1>3. QED
  BY <1>1, <1>2

(* complete_ontology_draft, edit_ontology, enrich, create_ontology: reading *)
(* the head, computing and committing takes effect as one step, for any     *)
(* number of concurrent requests.                                           *)
THEOREM CommitsRefineLineage == Spec => CommitsAreAtomic
<1>1. IInv /\ [Next]_vars =>
        [Lineage!Next]_<<identity, [i \in DOMAIN versions |-> LineageEntry(versions[i])]>>
  BY StepRefines, StepIInv
<1>2. QED
  BY <1>1, InitRefines, Invariance, PTL DEF Spec, CommitsAreAtomic, Lineage!Spec


---------------------------------------------------------------------------
(* A clean verdict of the rebase analysis means that the two change sets   *)
(* commute.  Changes are compared per entity, and within an entity per     *)
(* axis and per property; each lemma treats one of these.                  *)

Axis == ScalarAxis \cup ConstraintAxis

(* Every property has the name the naming gives its id.                    *)
NamedBy(nameOf, body) ==
  \A p \in PropertyId : body.props[p] # Absent => body.props[p].name = nameOf[p]

IsNaming(nameOf) == /\ nameOf \in [PropertyId -> Name]
                    /\ \A p, q \in PropertyId : nameOf[p] = nameOf[q] => p = q

(* The activity recorded under a name is that of the one property with it. *)
LEMMA ActivityOfProperty ==
  ASSUME NEW nameOf, IsNaming(nameOf),
         NEW o \in Body, NamedBy(nameOf, o),
         NEW n \in Body, NamedBy(nameOf, n),
         NEW p \in PropertyId
  PROVE  /\ ModifiedUnder(o, n, nameOf[p]) = {p} \cap ModifiedProps(o, n)
         /\ RemovedUnder(o, n, nameOf[p]) = {p} \cap RemovedProps(o, n)
         /\ AddedUnder(o, n, nameOf[p]) = {p} \cap AddedProps(o, n)
BY DEF IsNaming, NamedBy, ModifiedUnder, RemovedUnder, AddedUnder,
       ModifiedProps, RemovedProps, AddedProps

(* Two modifications of one property that raise no conflict agree, and     *)
(* other changes of one property by both sides are removals.               *)
LEMMA PropertyChangesAgree ==
  ASSUME NEW nameOf, IsNaming(nameOf),
         NEW b \in Body, NamedBy(nameOf, b),
         NEW h \in Body, NamedBy(nameOf, h),
         NEW d \in Body, NamedBy(nameOf, d),
         ~ModifyModify(b, h, d),
         NEW p \in PropertyId
  PROVE  /\ ~(p \in AddedProps(b, h) /\ p \in AddedProps(b, d))
         /\ ~(p \in ModifiedProps(b, h) /\ p \in RemovedProps(b, d))
         /\ ~(p \in RemovedProps(b, h) /\ p \in ModifiedProps(b, d))
         /\ p \in ModifiedProps(b, h) /\ p \in ModifiedProps(b, d)
              => h.props[p].value = d.props[p].value
<1> DEFINE nm == nameOf[p]
<1>1. nm \in Name
  BY DEF IsNaming
<1>2. ~PropertyConflict(b, h, d, nm)
  BY <1>1 DEF ModifyModify
<1>3. /\ ModifiedUnder(b, h, nm) = {p} \cap ModifiedProps(b, h)
      /\ RemovedUnder(b, h, nm) = {p} \cap RemovedProps(b, h)
      /\ AddedUnder(b, h, nm) = {p} \cap AddedProps(b, h)
  BY ActivityOfProperty
<1>4. /\ ModifiedUnder(b, d, nm) = {p} \cap ModifiedProps(b, d)
      /\ RemovedUnder(b, d, nm) = {p} \cap RemovedProps(b, d)
      /\ AddedUnder(b, d, nm) = {p} \cap AddedProps(b, d)
  BY ActivityOfProperty
<1>5. \A n \in {h, d} : /\ ~(p \in AddedProps(b, n) /\ p \in RemovedProps(b, n))
                        /\ ~(p \in AddedProps(b, n) /\ p \in ModifiedProps(b, n))
                        /\ ~(p \in RemovedProps(b, n) /\ p \in ModifiedProps(b, n))
  BY DEF AddedProps, RemovedProps, ModifiedProps
<1> HIDE DEF nm
<1> QED
  BY <1>2, <1>3, <1>4, <1>5 DEF PropertyConflict, Activity

LEMMA PropertiesCommute ==
  ASSUME NEW nameOf, IsNaming(nameOf),
         NEW b \in Body, NamedBy(nameOf, b),
         NEW h \in Body, NamedBy(nameOf, h),
         NEW d \in Body, NamedBy(nameOf, d),
         ~ModifyModify(b, h, d)
  PROVE  ReplayProps(b, d, h) = ReplayProps(b, h, d)
<1>1. SUFFICES ASSUME NEW p \in PropertyId
               PROVE  ReplayProps(b, d, h)[p] = ReplayProps(b, h, d)[p]
  BY DEF ReplayProps
<1>2. /\ ~(p \in AddedProps(b, h) /\ p \in AddedProps(b, d))
      /\ ~(p \in ModifiedProps(b, h) /\ p \in RemovedProps(b, d))
      /\ ~(p \in RemovedProps(b, h) /\ p \in ModifiedProps(b, d))
      /\ p \in ModifiedProps(b, h) /\ p \in ModifiedProps(b, d)
           => h.props[p].value = d.props[p].value
  BY PropertyChangesAgree
<1>3. \A x \in {b, h, d} :
         x.props[p] # Absent => x.props[p] \in Property /\ x.props[p].name = nameOf[p]
  BY DEF Body, NamedBy
<1> QED
  BY <1>2, <1>3 DEF ReplayProps, AddedProps, RemovedProps, ModifiedProps, Property

---------------------------------------------------------------------------
LEMMA BodiesCommute ==
  ASSUME NEW nameOf, IsNaming(nameOf),
         NEW b \in Body, NamedBy(nameOf, b),
         NEW h \in Body, NamedBy(nameOf, h),
         NEW d \in Body, NamedBy(nameOf, d),
         ~ModifyModify(b, h, d), ConstraintsApart(b, h, d)
  PROVE  ReplayBody(b, d, h) = ReplayBody(b, h, d)
<1>1. ReplayProps(b, d, h) = ReplayProps(b, h, d)
  BY PropertiesCommute
<1>2. ASSUME NEW a \in Axis
      PROVE  (IF a \in ChangedAxes(b, d) THEN d.axes[a] ELSE h.axes[a])
               = (IF a \in ChangedAxes(b, h) THEN h.axes[a] ELSE d.axes[a])
  <2>1. a \in ChangedAxes(b, h) /\ a \in ChangedAxes(b, d) => h.axes[a] = d.axes[a]
    BY DEF Axis, ModifyModify, AxisConflict, ConstraintsApart
  <2>2. a \notin ChangedAxes(b, h) /\ a \notin ChangedAxes(b, d) => h.axes[a] = d.axes[a]
    BY DEF Axis, ChangedAxes
  <2> QED
    BY <2>1, <2>2
<1> QED
  BY <1>1, <1>2 DEF ReplayBody, Axis

(* What the diff does not see has not changed, since names are fixed.      *)
LEMMA UnchangedBody ==
  ASSUME NEW nameOf, IsNaming(nameOf),
         NEW b \in Body, NamedBy(nameOf, b),
         NEW n \in Body, NamedBy(nameOf, n),
         ~BodyChanged(b, n)
  PROVE  n = b
<1>1. n.axes = b.axes
  BY DEF Body, BodyChanged, ChangedAxes
<1>2. ASSUME NEW p \in PropertyId
      PROVE  n.props[p] = b.props[p]
  <2>1. /\ n.props[p] = Absent <=> b.props[p] = Absent
        /\ n.props[p] # Absent => n.props[p].value = b.props[p].value
    BY DEF BodyChanged, AddedProps, RemovedProps, ModifiedProps
  <2>2. n.props[p] # Absent => n.props[p].name = b.props[p].name
    BY <2>1 DEF NamedBy
  <2>3. n.props[p] \in Property \cup {Absent} /\ b.props[p] \in Property \cup {Absent}
    BY DEF Body
  <2> QED
    BY <2>1, <2>2, <2>3 DEF Property
<1>3. n.props = b.props
  BY <1>2 DEF Body
<1> QED
  BY <1>1, <1>3 DEF Body

(* A change of one side alone is replayed to what that side has.           *)
LEMMA OneSidedReplay ==
  ASSUME NEW b \in Body, NEW n \in Body, NEW nameOf,
         NamedBy(nameOf, b), NamedBy(nameOf, n)
  PROVE  ReplayBody(b, n, b) = n
<1>1. ASSUME NEW a \in Axis
      PROVE  (IF a \in ChangedAxes(b, n) THEN n.axes[a] ELSE b.axes[a]) = n.axes[a]
  BY DEF Axis, ChangedAxes
<1>2. ASSUME NEW p \in PropertyId
      PROVE  ReplayProps(b, n, b)[p] = n.props[p]
  <2>1. \A x \in {b, n} : /\ x.props[p] \in Property \cup {Absent}
                          /\ x.props[p] # Absent => x.props[p].name = nameOf[p]
    BY DEF Body, NamedBy
  <2>2. CASE p \in AddedProps(b, n) \cup RemovedProps(b, n)
    <3>1. p \notin ModifiedProps(b, n)
      BY <2>2 DEF ModifiedProps, AddedProps, RemovedProps
    <3> QED
      BY <2>2, <3>1, Zenon DEF ReplayProps
  <2>3. CASE p \in ModifiedProps(b, n)
    <3>1. [b.props[p] EXCEPT !.value = n.props[p].value] = n.props[p]
      BY <2>1, <2>3 DEF ModifiedProps, Property
    <3>2. p \notin AddedProps(b, n) \cup RemovedProps(b, n) /\ b.props[p] # Absent
      BY <2>3 DEF ModifiedProps, AddedProps, RemovedProps
    <3>3. ReplayProps(b, n, b)[p] = [b.props[p] EXCEPT !.value = n.props[p].value]
      BY <2>3, <3>2, Zenon DEF ReplayProps
    <3> QED
      BY <3>1, <3>3
  <2>4. CASE p \notin AddedProps(b, n) \cup RemovedProps(b, n) \cup ModifiedProps(b, n)
    <3>1. b.props[p] = n.props[p]
      BY <2>1, <2>4 DEF ModifiedProps, AddedProps, RemovedProps, Property
    <3> QED
      BY <2>4, <3>1 DEF ReplayProps
  <2> QED
    BY <2>2, <2>3, <2>4
<1>3. ReplayProps(b, n, b) = n.props
  BY <1>2 DEF ReplayProps, Body
<1>4. [a \in Axis |-> IF a \in ChangedAxes(b, n) THEN n.axes[a] ELSE b.axes[a]] = n.axes
  BY <1>1 DEF Body, Axis
<1> QED
  BY <1>3, <1>4 DEF ReplayBody, Body, Axis

---------------------------------------------------------------------------
(* detect_conflicts is sound: if it finds nothing, both orders of replay   *)
(* give the same ontology, whatever their size, except where both sides    *)
(* changed one constraint differently.  Proved for ontologies in which a   *)
(* property id keeps one name; the analysis does not see renames.          *)
THEOREM CleanRebasesCommute ==
  ASSUME NEW nameOf, IsNaming(nameOf),
         NEW b \in Pool(nameOf), NEW h \in Pool(nameOf), NEW d \in Pool(nameOf),
         IsClean(b, h, d), ConstraintsApartIn(b, h, d)
  PROVE  Replay(b, d, h) = Replay(b, h, d)
<1>1. SUFFICES ASSUME NEW e \in Entity
               PROVE  Replay(b, d, h)[e] = Replay(b, h, d)[e]
  BY DEF Replay
<1>2. \A x \in {b[e], h[e], d[e]} : x # Absent => x \in Body /\ NamedBy(nameOf, x)
  BY DEF Pool, Ontology, NamedBy
<1>3. /\ ~(e \in Added(b, h) /\ e \in Added(b, d))
      /\ ~(e \in Removed(b, h) /\ e \in Modified(b, d))
      /\ ~(e \in Modified(b, h) /\ e \in Removed(b, d))
      /\ e \in Modified(b, h) /\ e \in Modified(b, d) => ~ModifyModify(b[e], h[e], d[e])
  BY DEF IsClean, Conflicts
<1>4. CASE b[e] = Absent
  BY <1>3, <1>4 DEF Replay, Added, Removed, Modified
<1>5. CASE b[e] # Absent /\ (h[e] = Absent \/ d[e] = Absent)
  BY <1>3, <1>5 DEF Replay, Added, Removed, Modified
<1>6. CASE b[e] # Absent /\ h[e] # Absent /\ d[e] # Absent
  <2>1. \A n \in {h, d} : e \notin Added(b, n) /\ e \notin Removed(b, n)
    BY <1>6 DEF Added, Removed
  <2>2. \A n \in {h, d} : e \in Modified(b, n) <=> BodyChanged(b[e], n[e])
    BY <1>6 DEF Modified
  <2>3. b[e] \in Body /\ h[e] \in Body /\ d[e] \in Body
    BY <1>2, <1>6
  <2>4. NamedBy(nameOf, b[e]) /\ NamedBy(nameOf, h[e]) /\ NamedBy(nameOf, d[e])
    BY <1>2, <1>6
  <2>5. CASE BodyChanged(b[e], h[e]) /\ BodyChanged(b[e], d[e])
    <3>1. ReplayBody(b[e], d[e], h[e]) = ReplayBody(b[e], h[e], d[e])
      <4>1. ~ModifyModify(b[e], h[e], d[e]) /\ ConstraintsApart(b[e], h[e], d[e])
        BY <1>3, <2>2, <2>5 DEF ConstraintsApartIn
      <4> QED
        BY <4>1, <2>3, <2>4, BodiesCommute
    <3> QED
      BY <3>1, <2>1, <2>2, <2>5, <1>6 DEF Replay
  <2>6. CASE ~BodyChanged(b[e], h[e]) /\ BodyChanged(b[e], d[e])
    <3>1. h[e] = b[e]
      BY <2>3, <2>4, <2>6, UnchangedBody
    <3>2. ReplayBody(b[e], d[e], b[e]) = d[e]
      BY <2>3, <2>4, OneSidedReplay
    <3> QED
      BY <3>1, <3>2, <2>1, <2>2, <2>6, <1>6 DEF Replay
  <2>7. CASE BodyChanged(b[e], h[e]) /\ ~BodyChanged(b[e], d[e])
    <3>1. d[e] = b[e]
      BY <2>3, <2>4, <2>7, UnchangedBody
    <3>2. ReplayBody(b[e], h[e], b[e]) = h[e]
      BY <2>3, <2>4, OneSidedReplay
    <3> QED
      BY <3>1, <3>2, <2>1, <2>2, <2>7, <1>6 DEF Replay
  <2>8. CASE ~BodyChanged(b[e], h[e]) /\ ~BodyChanged(b[e], d[e])
    <3>1. h[e] = b[e] /\ d[e] = b[e]
      BY <2>3, <2>4, <2>8, UnchangedBody
    <3> QED
      BY <3>1, <2>1, <2>2, <2>8, <1>6 DEF Replay
  <2> QED
    BY <2>5, <2>6, <2>7, <2>8
<1> QED
  BY <1>4, <1>5, <1>6

(* The run's invariant, for any entities, axes, properties and values.     *)
THEOREM CleanVerdictsAreSound == RebaseSpec => []CleanMeansCommuting
<1> DEFINE Named == \E nameOf \in [PropertyId -> Name] :
                      /\ IsNaming(nameOf)
                      /\ base \in Pool(nameOf) /\ head \in Pool(nameOf) /\ draft \in Pool(nameOf)
           Judged == verdict = "clean" => IsClean(base, head, draft)
           Inv == Named /\ Judged
<1>1. RebaseInit => Inv
  BY DEF RebaseInit, IsNaming
<1>2. Inv /\ [RebaseNext]_rebaseVars => Inv'
  BY DEF RebaseNext, Analyze, rebaseVars
<1>3. Inv => CleanMeansCommuting
  <2>1. SUFFICES ASSUME Inv, verdict = "clean", ConstraintsApartIn(base, head, draft)
                 PROVE  Replay(base, draft, head) = Replay(base, head, draft)
    BY DEF CleanMeansCommuting
  <2>2. PICK nameOf \in [PropertyId -> Name] :
               /\ IsNaming(nameOf)
               /\ base \in Pool(nameOf) /\ head \in Pool(nameOf) /\ draft \in Pool(nameOf)
    BY <2>1
  <2> QED
    BY <2>1, <2>2, CleanRebasesCommute
<1> QED
  BY <1>1, <1>2, <1>3, PTL DEF RebaseSpec
===========================================================================
