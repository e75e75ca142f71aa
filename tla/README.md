# Ontosyx: a verification project

Ontosyx designs ontologies from source data with a language model, keeps them as
versioned canonical ontologies per workspace, and lets people work on drafts
together. This directory holds TLA+ models of the parts of that system where
several actors meet over shared state, the TLC configurations that check them,
and TLAPS proofs of the main results.

## The system and its parts

| Part | State | Operations | Interacts with | What is hard | Status |
|---|---|---|---|---|---|
| Rebase analysis (`ox-ontology`: `diff.rs`, `rebase.rs`) | none, a pure function | structural diff by id; three-way conflict analysis | the rebase preview and the rebase handler | does a clean verdict really mean independent changes? | `RebaseAnalysis` |
| Canonical versions (`ox-store`: `ontology_version.rs`) | one identity per workspace, append-only version snapshots | create identity, commit version, find head | committed to by drafts, edits, enrichment, creation | read-head-then-insert without a lock | `OntologyVersion`, refining `CanonicalLineage` |
| Draft store (`ox-store`: `ontology_draft.rs`) | draft rows with an optimistic revision; per-revision snapshots | one UPDATE per kind of change, snapshot insert, archive, purge | all draft handlers | compare-and-set on the revision | `DraftLifecycle` |
| Draft and canonical handlers (`ox-api`: `routes/ontology_drafts`, `routes/ontology`) | what a request loaded, while it waits for the model | design, edit, refine, reconcile, extend, reanalyse, decide, restore, rebase, complete; canonical edit, enrich, create, adopt | both stores, rebase analysis | minutes between load and write; two transactions in complete | `DraftLifecycle` |
| Design streaming (`streaming.rs`, `cluster_checkpoint.rs`) | a request's plan and results; checkpoints of finished clusters with an expiry | look up, call the model, keep, merge, write, drop; daily sweep | table clustering, draft store, prompts of the process | retries replay a mixture of old and new outputs | `DesignStream` |
| Table clustering (`table_clustering.rs`) | none, pure | components, splitting, levels of parallel work | design streaming | cycles, size limits, a key that two clusters list | `TableClustering` |
| Editing commands (`ox-ontology`: `command/`, `ir/`) | an ontology | some twenty commands, their inverses and cascades, batches, retraction of sources | the apply endpoint, the browser | a cascade that forgets a collection; an inverse that does not restore | `OntologyIR`, `OntologyCommand`, `CommandEditor` |
| Browser command stack (`web`: `ontology-slice.ts`, `inspector-panel.tsx`, ...; `routes/ontology/crud.rs`) | a tab's ontology, its undo and redo stacks; element verifications | edit, undo, redo, save, keep mine, accept theirs, reload; verify | the draft store over HTTP | answers and re-fetches that arrive at any time; a second interpreter of the commands | `CommandMirror`, `CommandStack` |
| Collaboration hub (`collaboration.rs`, `ws.rs`, `collab_idle_reap.rs`) and browser store (`web`: `collab/store.ts`) | rooms, locks, registry, session slots, broadcast rings; what a tab shows | connect, join, leave, cursor, lock, unlock, reap, broadcast | each other over a WebSocket; edit handlers | registry and room under different locks; several tasks writing one socket | `CollabHub` |
| Idempotency middleware (`idempotency.rs`) | recorded responses with an expiry | look up, execute, record, replay | every POST with a key | check-then-act; lost answers | `Idempotency` |
| Row-level-security pool (`postgres/mod.rs`, `rls_session.rs`) | connections and their session variables | configure, acquire, return, retire | every query | a setting that outlives its borrower | `SessionPool` |
| Advisory-lock cron (`advisory_lock.rs`, `cron.rs`) | session locks on pooled connections | tick, try lock, sweep, unlock | all replicas through PostgreSQL | the lock belongs to a connection, not to a task | `SessionPool` |
| Federation adapter resolver (`federation_resolver.rs`, `federation_admin.rs`, `state.rs`) | rows of `data_sources`; per workspace a slot with the built adapters | register, delete, refresh, query, health check; hydration | federated queries plan against it | two writes to keep together; a map lock that blocks threads and a slot lock that blocks tasks | `AdapterResolver` |
| Incremental load | watermark checkpoints | fetch batch, load, advance | source, graph runtime | ties at the watermark, failed batches | not modelled |
| Inference pipeline | sessions and their numbered attempts | start, record, complete | brain | numbering under races | not modelled |
| Plan cache, compilers, planner, LLM orchestration, agent, source adapters, memory, tokeniser, graph runtime, web UI | - | - | - | pure translation, numeric code or I/O | not modelled |

What makes each modelled part correct: the analysis must not call two change sets
independent that do not commute; the lineage of versions stays linear and a commit
never silently replaces one its author claims to have seen; a draft loses no
update, its snapshots are what they claim and its status agrees with its content;
a retried design finishes and is made of outputs that belong together; a command
leaves nothing dangling and can be undone; a tab shows its draft plus its unsaved
edits and loses none of them; the hub strands no lock or member; a repeated
request is answered as the first was and writes once; a statement never runs under
another's workspace, and one replica sweeps at a time; queries plan against the
adapters that are stored, and no request waits for ever for them.

## Modules

`RebaseAnalysis` - ontologies as finite maps from ids to bodies; `compute_diff` as
sets of added, removed and modified ids, axes and properties; `detect_conflicts` as
the set `Conflicts`. Node and edge types differ only in the set of scalar axes. A
property's type, nullability, description and default are one value. `Replay` is
not code: it is the reference the analysis is compared with, the effect of one
side's changes on top of another ontology. `MCRebase` (`RebaseSpec`) picks any three
ontologies; `ConstraintsApart` is what the analysis does not look at and the property
excepts.

`CanonicalLineage` - what a workspace is promised: a lineage is founded once and
grows at its end by whole entries, each derived from the last (`Derive`) or from
none (`Supply`), in one step.

`OntologyVersion` - the identity row and the snapshots. A version is named by its
position; `tag` is the integer in the version column, and a commit is refused when
its tag is taken (`UNIQUE (ontology_id, version)`). Two history fields, `draft` and
`base`, record who committed a version and what it was derived from.

`DraftLifecycle` adds the draft tables and the handlers. A request is one
activation of a handler; each step is one statement sent to the database, and
`Abandon` ends a request anywhere, as an error, a timeout or a dropped future does.
The language model, the source analysis and the quality gates decide only *which*
ontology is written, so a write may produce any. The client's revision is one the
draft has had. Its refinement mapping to `CanonicalLineage` reads `identity` as
`founded` and keeps content, author and base of each version.

`TableClustering` - `cluster_tables` and its helpers as operators on a schema (tables
numbered in order, keys as records), with `WellClustered` and `WellOrdered` as what
a plan promises. Union-find is a fold that joins groups, a sort by keys is the
sequence in which each element has its predecessors before it (`SortedBy`), and the
degree that the code sets to a sentinel for a finished cluster is the set `processed`.

`DesignStream` - the batch design. A request goes through `lookup`, `call`,
`collect`, `write` and `drop`; the lookups of a level are separate steps, the calls
of a level return together (`join_all`) and are taken in the order of the misses, so
the first failure discards what comes after it. An output is told apart by the
prompt it was made under, the name it gives its node types and the names its edges
refer to. Rows of `draft_cluster_checkpoints` are kept oldest first, so a sweep
deletes a prefix. Each request is served by a process of its own, and `Lose` is both
a client that goes away and a process that comes back with another prompt. The
history variable `disturbed` remembers that a checkpoint may have been lost or
overtaken.

`OntologyIR`, `OntologyCommand` - the collections commands touch, the checks a command
can fail, and `execute`: each command with its refusals, its cascade and the inverse
it returns. `CommandMirror` is the browser's interpreter of the same commands,
`applyCommandToOntology`. `CommandEditor` types the collections and the commands and
lets one editor issue any of a set of commands, from any valid ontology; its invariants
quantify over all commands in every ontology reached, up to the order of lists.
`MCCommands` starts it from an ontology with one definition of every kind.

`CommandStack` - tabs with their stacks, in-flight requests and cached ontology; the
server's execute, compare-and-set and reload as separate steps; element
verifications and their invalidation.

`CollabHub` - one draft's room. Room instances are numbered because an emptied room
is dropped and a later join makes a new one. Every hub operation is two steps,
borrowing the `Arc` from the registry and working under the room's mutex, plus a
third for the clean-up of `leave`. Each Join adds a `forward_broadcast` task with
its own queue; answers and presence snapshots are sent by the socket handler
itself. The clock is a nondeterministic step.

`Idempotency` - one record per key, attempts that look up, execute, record and
answer, and histories of writes and answers. A guarded operation carries the
revision it is to replace; an unguarded one creates something new each time it runs.

`SessionPool` - slots of the replicas' pools, the session variables and lock depth of
each connection, and tasks: requests borrow one connection for a statement, a cron
task holds one for its lock and borrows others. `Return` runs the reset, `Acquire`
the hook; either can fail. sqlx and PostgreSQL are external: which hook runs when,
and that a session's locks die with the session and not with `RESET ALL`.

`AdapterResolver` - the rows of `data_sources` of one workspace, the entry of
`federation_resolvers` and the slots requests hold an `Arc` of; a slot number is used
again when its last `Arc` is gone. Each step of a request ends where the code awaits
or waits. `guards` are the requests that keep a guard of the map while they wait for
a slot's lock, `blocked` those whose thread waits for the map; when they are as many
as there are threads, no other request moves. `Abandon` is a statement that fails or
a handler whose future is dropped. The history variable `raced` remembers an overlap
that nothing in the code orders; a refresh makes it good.

## Runs

| Run | Checks | Shows |
|---|---|---|
| `rebase` | `CleanMeansCommuting` | over all triples of ontologies with one entity, two properties and three values, clean means commuting, but for constraints |
| `draft_revisions` | `TypeOK`, `SnapshotFaithful`, `StatusMatchesOntology`, `WritesBuildOnCurrent` | two concurrent handlers of every writing kind up to revision 4 |
| `draft_commit` | `CompletedIsCommitted`, `LinearHistory`, `CommitsAreAtomic` | designs, completions and rebases of one draft against canonical edits and creations; the handlers implement `CanonicalLineage` |
| `collab_hub` | `TypeOK`, `LocksHeldByMembers`, `ViewConverges` | two users, two Joins each, so up to four forwarders; locks taken, released, expired and retaken; disconnects |
| `collab_reap` | `GhostsLeave` | liveness of the reaper, with two tabs of one user and an author's broadcasts |
| `design_stream` | `TypeOK`, `TablesClustered`, `LevelsFollowReferences`, `DesignedUnderOneTemplate`, `CoherentUnlessDisturbed`, `WrittenInPlanOrder`, `RetriesFinish` | plans of 858 schemas; two requests for one draft with any pattern of failing calls and one disturbance: a lost or overlapping request, a store failure, a sweep, a restart with another prompt, a new decision |
| `commands` | `IdsStayUnique`, `UndoRestores`, `CascadesAreComplete`, `MirrorAgrees`, `RetractionIsComplete` | every command in every ontology that four edits reach |
| `command_stack` | `RevisionsReplay`, `CacheTracksStack`, `VerifiedMeansUnchanged`, `EditsSurvive` | two tabs that edit, undo, save, meet conflicts, keep or drop and reload, while a reviewer verifies |
| `session_pool` | `TypeOK`, `StatementsRunInScope`, `OneSweeper`, `LockFreed`, `WaitsEnd` | two replicas, pools of one and two connections (and a request), one failure of any kind |
| `idempotency` | `TypeOK`, `AnswersAreTheirs`, `ReplaysAgree`, `RetriesWriteOnce`, `AnsweredIsRecorded` | two attempts at a time, sent again at any moment, lost, expired or oversized |
| `adapter_resolver` | `MirrorsUnlessRaced`, `RequestsEnd` | five requests, three at a time, on two threads: registrations, deletions, refreshes, queries and health checks that overlap, fail and are dropped |

One run refutes a sentence of the repository's own comments; "findings" in
`PROJECT.json` quotes it and the trace TLC prints shows how:

| Run | The code |
|---|---|
| `command_save` | after a successful save the saved commands are replayed and stay on the stack of unsaved edits |

### Bounds

Every bound is a constant used in a guard.

- `MaxRevision`, `MaxVersion`, `Ops` (drafts): two requests are enough for a lost
  update or two commits on one head; revision 4 lets a draft be designed,
  reanalysed, restored and written again. One entity is enough where ontologies
  are only compared for equality.
- `MaxRooms`, `MaxJoins`, `Buffer`, `MaxSessions`, `Ops` (hub): two tabs of two
  users are the smallest instance in which a leave races a join; two Joins per tab
  make every broadcast arrive twice. The two users are interchangeable, and
  `Renamings` is the symmetry set of `collab_hub`.
- `Pool` in `MCRebase` keeps to ontologies in which a property id has one name, and
  its entity has no constraint: renames and constraints are blind spots of the
  analysis (below), and within one naming a clean verdict is sound.
- `MaxFaults = 1` of `DesignStream` bounds what comes between, not failing calls:
  those are unbounded. Two disturbances together have more states than a run can
  visit, and what each breaks shows with one. `Followed` are the star of four
  tables, whose clusters of at most two are one hub and two clusters that refer to it
  and run in parallel, and the star without its last table; `Schema` adds all schemas
  of three tables and those of four with at most four keys, as initial states only.
  Requests are followed up to the first design. `NamesFor`: only clusters that
  others refer to get an invalid name, since one is enough to fail the design.
- `MaxCommands = 4` of `commands`: enough to delete and recreate a node with its
  dependants, or to build a second edge and mapping and delete under them.
- `MaxEdits = 2`, `MaxRevision = 3`, `MaxRequests = 3` of `command_stack`: each of two
  tabs can have something to save when the other's save lands, and a conflicting
  save can be refused, re-fetched and sent again. Tabs and calls are symmetric.
- `MaxDone = 3`, `MaxFaults = 1` of `idempotency`: a write, its retry and a write under
  an expired or missing record; attempts are symmetric.
- `MaxFaults = 1` of `session_pool`: one failing hook, unlock, connection or task; the
  proofs cover any number.
- `MaxStarts = 5`, `Workers = 2` of `adapter_resolver`: a registration holds the slot's
  lock, a lookup waits for it with the map's guard, a third request waits for the map;
  with two threads the runtime is exhausted by two of these, and the remaining starts
  let a refresh or a query look at what they left. `Serves` and `Brings` fix which
  request does what: two that write different configurations of one source, one that
  refreshes and looks.

Deadlock checking is off: requests may all be done, bounds are reached, everybody may
have left.

### Fairness

Nothing is ever assumed of users. `collab_reap` assumes weak fairness of the reaper's
own steps: `spawn_cron` ticks until shutdown, a failed tick does not end the loop,
tokio runs a ready task, and no room operation awaits while it holds the mutex. The
property speaks of the registered room only.

`session_pool` assumes weak fairness of each task's own steps and of the pool's
return hook; strong fairness of `EndRun`, since a sweep is a finite list of
statements although it borrows again for each; and strong fairness of `Retire`, the
pool's `idle_timeout` and `max_lifetime`, which end a session however often it is
lent in between. Without the latter a lock left behind by a panic would be held for
ever, which is what its mutant shows.

`design_stream` assumes weak fairness of the handler: every call has a timeout and
`join_all` returns. That the design is asked for again and again, that calls for
the same tables do not fail for ever, and that no output which `normalize` refuses
stays cached are hypotheses inside `RetriesFinish`, not fairness of the code.

`adapter_resolver` assumes weak fairness of each request's step: tokio polls what is
ready, and its `RwLock` and `OnceCell` serve waiters in order; since requests are
finitely many, nobody is overtaken for ever and weak fairness is enough. Threads are
not assumed to suffice: `RequestsEnd` leaves out the behaviours in which they run out.

## Proofs

All theorems hold for every value of the constants under the named assumptions of
the modules. tlapm checks every leaf; the proofs of a component are in the module
named after it, those about the rebase analysis at the end of `DraftLifecycleProofs`.

| Module | Theorems | For any |
|---|---|---|
| `DraftLifecycleProofs` (drafts and versions) | `TypeCorrect`, `NoLostDraftUpdate`, `SnapshotsAreFaithful`, `StatusIsAccurate`, `CompletedDraftsAreCommitted`, `LineageIsLinear`, `NoVersionIsSkipped`, `CommitsRefineLineage` | drafts, requests, ontologies, revisions |
| `CollabHubProofs` | `TypeCorrect`, `LocksStayWithMembers`, `TabsConverge` | users, sockets, rooms, queue lengths |
| `DesignStreamProofs` | `TypeCorrect`, `PlansAreWellClustered`, `PlansFollowReferences`, `OnePromptPerDesign`, `DesignsFollowThePlan`, `ReplayedDesignsCohere` | schemas, batch sizes, streams, faults |
| `CommandEditorProofs` | `EditorIdsStayUnique`, `EditorUndoRestores`, `EditorMirrorAgrees`, `EditorCascadesAreComplete`, `EditorRetractionIsComplete` | ontologies of any size, ids, texts, tables, commands |
| `CommandStackProofs` | `EveryRevisionReplays`, `VerificationsHold`, `UnsavedEditsSurvive` | tabs, calls, commands, ontologies, stack depths |
| `AdapterResolverProofs` | `MemoryMirrorsStore` | requests, sources, threads |
| `SessionPoolProofs` | `TypeCorrect`, `ScopesAreKept`, `SweepsExclude` | pools, tasks, faults |
| `IdempotencyProofs` | `TypeCorrect`, `AnswersReportOwnWrite`, `FirstWriterWins`, `RetriesAreSafe`, `AnswersAreRecorded` | keys, attempts, faults |
| `DraftLifecycleProofs` (rebase analysis) | `CleanRebasesCommute`, `CleanVerdictsAreSound` | entities, properties, names, values |

### Drafts and versions

One inductive invariant `IInv`. The properties are not inductive by themselves; what
they need is

- `RowIsLatest`: the history of a draft ends with the row's own revision and
  ontology, so a revision number identifies an ontology;
- `SeenIsHistory`: what a request loaded is an entry of that history. With
  `RowIsLatest` a compare-and-set that matches on the revision has matched on the
  content, which gives `WritesBuildOnCurrent`, and a late pin is still faithful;
- `HeadIsVersion`: the head a request read exists, or is none;
- `CompletionIsChecked`: a completion that passed the guard has no parent or the head
  it will commit on; as the tag of head + 1 is free only while the head is current,
  `LinearHistory` and `NoLostCanonicalUpdate` follow (the latter is implied by
  `CommitsAreAtomic` and has no run of its own);
- `VersionsNeedIdentity`: there are no versions without an identity.

`RequestCase` splits a request's step by the state of its handler, one lemma per
action shows `IInv` preserved. `CommitsRefineLineage` uses the same facts: a commit
whose tag is free was derived from the last entry or from none, so it is `Derive` or
`Supply`, and all other steps stutter or found the lineage.

### Collaboration hub

`LocksHeldByMembers` needs only the types: hub operations lock the room, so each
change of a lock or a member is one step. `ViewConverges` needs `Converge`, which
holds while frames are still under way: fix a *topic*, whether a user is there or who
holds an entity's lock. In each queue of a tab the last frame on the topic says what
the room says now; without any, the tab shows it, or the snapshot that is to come
does, or the tab believes to hold the lock itself. Each tab's queues are separate, so
the claim must be about the last frame of *every* queue: a stale frame may be shown
after a fresh one, but then the other queue still holds a fresh one behind it. A
broadcast appends the new truth to every queue at once, a delivery takes from the
front, a full queue marks its tab as having missed something, which the property
excepts. `EntitiesAreFinite` is needed because a leave broadcasts one release per lock.

### Design streaming

`PlansAreWellClustered` and `PlansFollowReferences` are about `cluster_tables` alone. Each part of the algorithm is
a fold with its own invariant: joining groups along keys keeps a partition into groups
that keys hold together; a breadth-first part is held together, within its group,
unassigned before and of at most `batch_size` tables; the starts by degree cover the
group; Kahn's levels, with the remainder as the last, list every cluster once, so
renumbering is a permutation. `SchemasAssumption` says what a source is: finitely many
tables, at least one, and `batch_size` at least 1. (With 0 the code would still make
clusters of one table.)

For the order of the levels, `Peeled` says that a cluster's degree counts the clusters
it refers to that are not in a level yet, so a cluster of degree 0 refers only to
earlier levels (`PeelPeels`). As many rounds as there are clusters empty the supply of
such clusters (`KahnPeels`); each one that is left refers to another that is left
(`LevelsFollow`). `ReachedCloses` shows that as many steps as there are clusters close
`Reached`, and `EndlessLeadsIntoCycle` takes, of the clusters met from such a one, that
from which the fewest are reached: one it refers to reaches no fewer, hence it, too.

For the handler, `IInv` says of each active request that its results are the outputs
of the clusters before its level, in plan order and made under its prompt, that what
the level has so far is of distinct clusters of that level, and that the schema it
works with is that of its revision (`Fits`). So the write that passes the revision
check has one output for each cluster (`WrittenInPlanOrder`). Until something is
`disturbed`, `Coherent` adds: there is one request; every cached row is of a cluster
of the current plan and refers to rows of its own prompt; what the request holds are
the rows; what it missed has no row. It is the last part that makes the replay sound:
a miss is inserted, never replaced, so no row loses what it refers to.

### Editing commands

`CommandEditorProofs` is about ontologies of any size and about every command; what it
uses of lists, types and runs of commands (`PicksList`, `OneTyped`, `BatchRuns`) is in
`CommandStackProofs`, which is about the same commands. Its
inductive invariant is `EditorInv`: the ontology is `Sound`, which is to have its types
(`OneTyped`) and no two indexes, and no two constraints of a node, of one id
(`OneUnique`). Everything the check of a result (`rebuild_indices`, `validate`)
guarantees follows from the types, where `SoundIds` reads it off, but not the ids of
indexes and constraints: no check looks at those, only the refusals of `AddIndex` and
`AddConstraint` keep them apart, and the undo of a removal relies on it.

- *Cascades.* `NodeDeletion`, `EdgeDeletion` and `NodePropertyDeletion` put a delete into
  the form "the entries at these places are left out, and these commands bring them
  back"; `DeletionComplete` then shows that every reference of an entry that is left
  is to an entry that is left.
- *Retraction.* `AcceptedRun` turns an accepted batch into the ontologies it passes
  through. Along them mappings only disappear (`RetractRun`), so what a command of the
  batch has removed stays removed; the batch names every mapping of a dropped table
  and only nodes without another one (`RetractBatch`).
- *Undo.* `OneUndone` goes through the commands: executed on the result, the inverse is
  accepted step by step (`RunsTo`) and ends in an ontology that is `Reordered`, whose
  lists hold the same entries in another order, down to the properties and constraints
  of one node. For a single entry that is `DroppedAdded`; for a cascade, `RestBack`
  puts the entries left out of a list back one by one, each accepted because it was
  part of a valid ontology (`NodeFits`, `EdgeFits`), in the order of the inverse: a node
  before its edges, edges before their link mappings, a property before what uses it.
  Reordering disturbs neither the check of the result (`ReorderedValid`) nor the
  comparison (`ReorderedSame`), so the inverse batch as a whole is accepted and
  restores.
- *Mirror.* `OneMirrored`: on a sound ontology the browser computes what the server
  accepts, and the same inverse. For the browser's own undo it has to run the inverse
  as the server would, through ontologies that are not sound in between: `OneInverse`
  says that an inverse is either one command on the sound result, or consists of
  commands that create or replace, which the browser carries out alike in any ontology
  at all (`CreationMirrored`). `BrowserKeepsStep` is the induction along the batch.

`EditorAssumption` says: no id is both a node's and an edge's, ids being generated
UUIDs (the browser looks an owner up by id alone); the first ontology passes the
server's checks and has distinct index and constraint ids; commands are of the enum,
and a node a user creates whole lists its constraints under distinct ids.
`TextAssumption`: the empty description a new edge gets is a text. The editor issues
commands one at a time; batches are executed when an inverse or a retraction is.

### Browser command stack

`EveryRevisionReplays` needs `ExecutedOnRevision`: what a request is about to write was
computed on a revision not older than its sender's; when the compare-and-set matches
there is none newer, so it was computed on the revision it follows.
`UnsavedEditsSurvive` needs `StacksCapped`: stacks are sequences no longer than the cap,
so one that was cut is full afterwards. Neither looks into a command.

`VerificationsHold` does. `OneRefines` goes through the twenty-four commands with their
cascades: whatever ontology a command is executed on, every definition that is new or
other than it was has an id that `affected_element_ids` names. `BatchRefines` and
`SaveRefines` carry this through the folds of a batch and of a save, and `WriteChanges`
to the two revisions at a write. `RacesMarked` is the rest: a verification that stands
while a save that names its element waits to be written was made after the save had
invalidated, so any other one survives only saves that leave its element alone.
`EditsAssumption` says that users issue commands of the enum, that what a command
re-creates has an id, and that the first revision lists definitions with ids; nothing
is assumed of the ontology's validity.

### Adapter resolver

`MirrorsUnlessRaced` needs what keeps the two writes of a registration together: the
writer holds the slot's lock (`WritersLock`), hydration has one filler
(`FillersHydrate`), a slot nobody has an `Arc` of is cold (`FreeSlotsAreCold`), and,
unless something raced, refreshes, deletions and registrations exclude each other
(`KeptApart`), writers are at the slot of the map (`WritersAtEntry`) and their row is
already written (`RowsWritten`). `Mirrors` then holds from the start of a hydration,
but for rows whose change is under way. `SomeSlotIsFree` (there is one more slot than
requests) shows that reusing slot numbers never runs out of them, which is why
`RequestsAreFinite`.

### Session pool, idempotency, rebase analysis

`SessionPoolProofs`: `IInv` adds that a lent connection matches what its task is doing
(`Borrowed`, `Placed`, `Unique`), that only a session that is lent or just given back
has variables set (`Clean`, which is what makes `StatementsRunInScope` inductive
although hooks fail half-way), that at most one session has the lock (`OneSession`),
and that a sweep is backed by the lock or by a session that broke (`LockBacked`), which
gives `OneSweeper`.

`IdempotencyProofs`: `IInv` adds that the revision counts the guarded writes, that what
an attempt holds, a record keeps or an answer said reports a write of its own key and
body, and that a replay reports what the row still says; since rows never change
(`ON CONFLICT DO NOTHING`), all replays agree.

Rebase analysis: change sets act entity by entity, and within one axis by axis and
property by property, so commuting is shown for each and put together by
extensionality. `CleanRebasesCommute` takes the two conditions the analysis does not
check as hypotheses: within one naming of the properties, and `ConstraintsApartIn`
(no constraint changed by both sides, differently).

### What is only model-checked

- Liveness: `GhostsLeave`, `LockFreed`, `WaitsEnd`, `RequestsEnd`, `RetriesFinish`. The
  prover does not handle fairness and ENABLED.
- `CacheTracksStack`, about what the browser shows after undo, redo and replay. The
  browser's interpreter refuses nothing: a command that no longer fits the snapshot it
  is replayed on (adding what another tab has added meanwhile) is carried out all the
  same, and its inverse then takes away more than it brought. So the property does not
  hold of arbitrary `Edits`; it needs that whatever two tabs have pending can be
  accepted together. `EditorUndoRestores` and `EditorMirrorAgrees` cover the case of
  one tab on the ontology its commands were made for.

The library's induction theorems take an operator as parameter, which the installed
provers cannot instantiate. Where a proof is about a fold, it uses `FoldExists` and
`OverSubsets` of `DesignStreamProofs` instead, or `FoldingExists` and `OverPlaces` of
`CommandStackProofs`, whose accumulator has no bounding set: first-order facts about the
recursive function behind a fold, from the well-foundedness of the numbers (`WFMin`).
For the same reason the commands filter with `Retain`, whose definition the provers can
expand, and not with the recursive `SelectSeq`.

## Differences without a run

Met while reading the code, visible in the models, and not turned into runs of their
own: each is shown by one step or one comparison.

Drafts and versions
- A draft made before the first version has no parent and completes over a head it
  never saw: the guard needs both sides (`lifecycle.rs:585-591`).
- A completion commits its version in one transaction and updates the draft in a
  second (`lifecycle.rs:663`), so a completion with a stale revision is refused only
  after its version became the head (`CommitDraft`, then `WriteConflict`),
  while `store/ontology_draft.rs:89-90` says that stale submissions fail rather than
  clobber.
- The previewed head is not sent back; a rebase pins whatever is current
  (`revisions.rs:350-353`, `463`).
- A rename alone is no difference (`diff.rs:13-15`, `541`), and constraints are never
  compared (`rebase.rs:23-26`, `321`).

Design streaming
- A cluster's signature covers tables, keys and the prompt hash, not columns, the
  request's context, or what the other clusters turned into. After a lost checkpoint,
  overlapping requests or a new decision an output is replayed whose edges name node
  types of an output that was replaced; `normalize` then drops those edges with a
  warning. `disturbed` marks exactly these histories.
- `streaming.rs:119-125` says a retry "only re-runs the uncompleted clusters"; of a
  parallel level, calls that succeeded behind the first failure are not kept and run
  again.
- A cached output whose node label is invalid makes every retry fail until the sweep,
  24 to 48 hours later: lookups ignore `expires_at` and nothing drops the row.
- The hash covers the body of `design_ontology_batch`; the instructions substituted into
  it come from another prompt, whose edits do not invalidate anything.
- Clusters downstream of a cycle all share the final level, whatever their own order,
  and isolated tables stay clusters of their own although a comment says they are
  grouped (`table_clustering.rs:86`).
- The merge keeps the first of two equal node labels, so a second cluster's node is
  dropped with a warning.

Browser editing
- "Keep mine" calls the save of the render before the re-fetch, with its old revision:
  the save is refused once more (`inspector-panel.tsx:182-201`).
- Deleting a node together with one of its edges stacks a `delete_edge` whose edge is
  already gone: the browser ignores it, the server refuses every save of that stack
  (`canvas/commands.ts:87`).
- A stale save whose commands fail on the newer draft answers 422 and not 409, so no
  conflict banner appears (`crud.rs:270-313`).
- The stack of undoable commands is the list of unsaved edits, and `capStack` drops the
  oldest of more than fifty: that edit is shown but never saved, and the next replay
  loses it. The user sees a toast "Undo history limit reached"
  (`ontology-slice.ts:14-21`, `671-688`). `EditsSurvive` excepts exactly this.
- The browser passes over patches of a property's default value
  (`ontology-slice.ts:415-446`).

Collaboration
- `leave` can unregister a room that was joined again between its two checks: the strong
  count cannot see a finished join (`collaboration.rs:612-616`).
- The reaper leaves every user it listed as idle without looking again; a user who
  became active meanwhile is removed all the same (`collaboration.rs:839-845`).
- Membership is per user and not per socket: closing one of two tabs removes the user
  and its locks from the room (`collaboration.rs:578`).
- The answer to a lock request may arrive after the lock's release (`ws.rs:375-378`).

Federation adapters
- `delete_adapter` erases the row and then the adapter without the slot's lock. Beside
  a registration or a hydration the two can end up apart until a refresh
  (`federation_admin.rs:799-804`).
- A refresh drops the slot while a registration works on the old one: the new slot may
  lack what is stored, although "the in-memory resolver mirrors the store after
  hydration" (`federation_resolver.rs:92-93`, `179`). So does a handler dropped
  between the two writes.
- `replaced` is said to be accurate under concurrent admin writes
  (`federation_resolver.rs:46-50`); a deletion takes no lock and can come between.
- `remove_workspace_adapter` and the health check hold the map's guard across an await
  (`federation_resolver.rs:155-165`, `federation_admin.rs:895-909`), while
  `workspace_slot` and `remove` block their threads on the map. With fewer free threads
  than such requests the holder of the slot's lock cannot run any more and everybody
  waits for ever: `ThreadsExhausted`.

Infrastructure
- Expired idempotency records are never swept: the store's sweep has no caller
  (`store/idempotency.rs:32-35`), and an expired row still blocks the insert, so each
  further retry of that key runs the handler again.
- A response over the buffer cap is answered with its status and an empty body
  (`idempotency.rs:152-164`).
- Concurrent attempts with one key both run the handler, model calls included; only the
  revision stops the second write.
- A per-workspace scope opened inside a cron task has no effect: the bypass branch of
  `configure_rls_session_vars` returns first (`rls_session.rs:33`,
  `community_detection.rs:38-40`), so its statements see every workspace and rely on
  their own WHERE clauses.

## Not modelled

Authentication and authorisation (all requests here are admitted ones); the content the
language model produces; source introspection; read-only endpoints; the design
artefacts stored beside a draft; the design of text sources and the refine stream,
which are one call and one write of `DraftLifecycle`; re-indexing, caches and
notifications that follow a commit; free-form version tags, which only an import could
bring; the collections no editing command touches, and their part of validation.

The incremental load is behind adapters of external systems; two things seen there are
listed as a hazard or here: rows that share a watermark across a batch boundary are
skipped, and the checkpoint advances past a batch that failed, comparing watermarks as
text. Attempts of an inference session are numbered by one INSERT under a UNIQUE
constraint with one retry; the pipeline above it is not modelled. Query compilers, the
federation planner, the Cypher and SHACL validators and the evaluation endpoints are
the largest part of the code and pure functions over large syntax trees: a model of
them would repeat them, and TLC could only sample trees of trivial size. The plan cache
in front of the compiler is keyed by all its inputs; of the federation only the adapter
resolver keeps state that requests share. Approvals, the embedding retry
queue and evaluation jobs have protocol state of their own and are left for later.

## Plan

1. Done: rebase analysis, drafts and versions with the refinement of the lineage,
   collaboration, editing commands and the browser stack, design streaming with its
   clustering, idempotency, pool and cron, adapter resolver. Every safety property that
   a passing run checks is a theorem, but for `CacheTracksStack`.
2. Next proof: `CacheTracksStack` for commands that can be accepted in any order, from
   `EditorUndoRestores`, `EditorMirrorAgrees` and the reordering lemmas beneath them.
3. Next models: approvals, the embedding retry queue, inference attempts.
