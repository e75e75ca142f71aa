---------------------------- MODULE DesignStream ----------------------------
(***************************************************************************)
(* POST /api/ontology-drafts/:id/design/stream for a structured source:    *)
(* the language model designs one cluster of tables after another, every   *)
(* finished cluster is kept as a checkpoint, and a design that fails or is *)
(* lost is asked for again (streaming.rs, cluster_checkpoint.rs, the table *)
(* draft_cluster_checkpoints and its daily sweep).                         *)
(*                                                                         *)
(* Each stream is served by a process of its own, which loads the prompt   *)
(* templates when it starts.  A design of a cluster is told apart by the   *)
(* name it gives its node types and by the names of other clusters that    *)
(* its edges refer to.                                                     *)
(***************************************************************************)
EXTENDS TableClustering

CONSTANTS Stream,
          Schema,      \* schemas of the source, by the operator's exclusions
          Followed,    \* the schemas whose designs are followed
          MaxSize,     \* batch_size: tables per cluster
          Template,    \* bodies of the prompt design_ontology_batch
          Deployed,    \* which of them the processes may begin with
          Name,
          Invalid,     \* the names that normalize refuses
          None,
          MaxFaults    \* bound on what comes between: lost and overlapping
                       \* requests, failures of the store, sweeps, decisions

ASSUME BoundsAssumption == MaxFaults \in Nat
ASSUME ConstantsAssumption == /\ Followed \subseteq Schema
                              /\ Deployed \subseteq [Stream -> Template]
                              /\ Invalid \subseteq Name

\* A source has tables, and a cluster has room for one.
ASSUME SchemasAssumption ==
    /\ MaxSize \in Nat \ {0}
    /\ \A s \in Schema : /\ s.tables # {} /\ s.tables \subseteq Nat
                         /\ IsFiniteSet(s.tables) /\ IsFiniteSet(s.fks)

VARIABLES draft,        \* revision, schema, and the design last written
          template,     \* [Stream -> Template]: what its process has loaded
          checkpoints,  \* rows of draft_cluster_checkpoints, oldest first
          run,          \* [Stream -> RunState]
          faults,
          disturbed     \* history: a checkpoint may have been lost or overtaken

vars == <<draft, template, checkpoints, run, faults, disturbed>>

Plan == [s \in Schema |-> cluster_tables(s, MaxSize)]

Idle == [pc |-> "idle"]
Failed == [failed |-> TRUE]

Init == /\ draft \in [revision : {1}, schema : Schema, design : {None}]
        /\ template \in Deployed
        /\ checkpoints = <<>>
        /\ run = [s \in Stream |-> Idle]
        /\ faults = 0
        /\ disturbed = FALSE

-----------------------------------------------------------------------------
(* The checkpoint cache.                                                    *)

\* Mutant: the prompt is left out.
SignatureOfTables(cluster, tmpl) ==
    [tables |-> cluster.tables, internal |-> cluster.internal_fks,
     cross |-> cluster.cross_fks]

\* The tables, the keys and the body of the prompt; neither the columns nor
\* what the other clusters turned into.
ClusterSignature(cluster, tmpl) ==
    [tables |-> cluster.tables, internal |-> cluster.internal_fks,
     cross |-> cluster.cross_fks, template |-> tmpl]

rows(sig) == {i \in DOMAIN checkpoints : checkpoints[i].signature = sig}

\* The output found, if there is one.
find_by_signature(sig) == {checkpoints[i].output : i \in rows(sig)}

\* Mutant: ON CONFLICT is left out, and with it the unique key.
insert(sig, output) ==
    checkpoints' = Append(checkpoints, [signature |-> sig, output |-> output])

\* ON CONFLICT DO UPDATE: the row is renewed.
upsert(sig, output) ==
    LET others == IF rows(sig) = {} THEN checkpoints
                  ELSE RemoveAt(checkpoints, CHOOSE i \in rows(sig) : TRUE)
    IN  checkpoints' = Append(others, [signature |-> sig, output |-> output])

Fault == faults < MaxFaults /\ faults' = faults + 1

\* The rows that were written longest ago are past expires_at.
sweep_expired ==
    /\ Fault
    /\ \E n \in DOMAIN checkpoints :
          checkpoints' = SubSeq(checkpoints, n + 1, Len(checkpoints))
    /\ disturbed' = TRUE
    /\ UNCHANGED <<draft, template, run>>

-----------------------------------------------------------------------------
(* One request.                                                             *)

Clusters(s) == Plan[run[s].schema].clusters
Level(s) == Plan[run[s].schema].levels[run[s].level]
Signature(s, c) == ClusterSignature(Clusters(s)[c], run[s].template)

\* The places in the level of the clusters without a result.
Misses(s) == {k \in DOMAIN Level(s) : \A i \in DOMAIN run[s].level_results :
                                         run[s].level_results[i][1] # Level(s)[k]}
Missing(s) == {Level(s)[k] : k \in Misses(s)}
FirstMissing(s) == Level(s)[Min(Misses(s))]

Alone(s) == \A o \in Stream \ {s} : run[o] = Idle
End(s) == run' = [run EXCEPT ![s] = Idle]

\* level_results.push
Pushed(s, c, output) == Append(run[s].level_results, <<c, output>>)

\* The draft is loaded, its tables are clustered and the prompt is hashed.
\* The client sends the revision it sees, which only the write looks at.
\* Bound: requests up to the first design.
Start(s) ==
    /\ run[s] = Idle
    /\ draft.schema \in Followed
    /\ draft.design = None
    /\ run' = [run EXCEPT ![s] =
                  [pc |-> "lookup", revision |-> draft.revision, schema |-> draft.schema,
                   template |-> template[s], level |-> 1, next |-> 1,
                   results |-> <<>>, level_results |-> <<>>, answers |-> <<>>]]
    /\ \/ /\ Alone(s)
          /\ UNCHANGED <<faults, disturbed>>
       \/ /\ ~Alone(s)
          /\ Fault
          /\ disturbed' = TRUE
    /\ UNCHANGED <<draft, template, checkpoints>>

\* The clusters of a level are looked up one after another; a lookup that
\* fails counts as a miss.
Lookup(s) ==
    /\ run[s].pc = "lookup"
    /\ LET c == Level(s)[run[s].next]
           found == find_by_signature(Signature(s, c))
           Continue(level_results) ==
               run' = [run EXCEPT ![s].level_results = level_results, ![s].next = @ + 1,
                                  ![s].pc = IF run[s].next < Len(Level(s)) THEN @ ELSE "call"]
       IN  \/ /\ found = {}
              /\ Continue(run[s].level_results)
              /\ UNCHANGED <<faults, disturbed>>
           \/ /\ \E output \in found : Continue(Pushed(s, c, output))
              /\ UNCHANGED <<faults, disturbed>>
           \/ /\ Fault
              /\ Continue(run[s].level_results)
              /\ disturbed' = (disturbed \/ found # {})
    /\ UNCHANGED <<draft, template, checkpoints>>

\* What the model makes of a cluster: names of its own, and edges along the
\* cross keys to the node types it was shown.
Output(s, c, name) ==
    LET Near(i) == \E fk \in Clusters(s)[c].cross_fks :
                      {fk.from, fk.to} \cap run[s].results[i].tables # {}
    IN  [tables |-> Clusters(s)[c].tables, template |-> run[s].template, name |-> name,
         refs |-> {[tables |-> run[s].results[i].tables, name |-> run[s].results[i].name] :
                      i \in {j \in DOMAIN run[s].results : Near(j)}}]

\* Bound: only clusters that others refer to get an invalid name.
NamesFor(s, c) == IF \E fk \in Clusters(s)[c].cross_fks : fk.to \in Clusters(s)[c].tables
                  THEN Name ELSE Name \ Invalid

\* join_all: each call has returned, failed or timed out.
CallsReturn(s) ==
    /\ run[s].pc = "call"
    /\ Missing(s) # {}
    /\ \E names \in [Missing(s) -> Name \cup {None}] :
          /\ \A c \in DOMAIN names : names[c] \in NamesFor(s, c) \cup {None}
          /\ run' = [run EXCEPT
              ![s].pc = "collect",
              ![s].answers = [c \in DOMAIN names |->
                  IF names[c] = None THEN Failed ELSE Output(s, c, names[c])]]
    /\ UNCHANGED <<draft, template, checkpoints, faults, disturbed>>

\* Mutant: a level of one cluster, which has a path of its own, is not kept.
PersistParallel(s, c, output) ==
    /\ IF Len(Level(s)) = 1 THEN UNCHANGED checkpoints ELSE upsert(Signature(s, c), output)
    /\ UNCHANGED <<faults, disturbed>>

\* A checkpoint that cannot be written does not end the request.
persist_cluster_checkpoint(s, c, output) ==
    \/ /\ upsert(Signature(s, c), output)
       /\ UNCHANGED <<faults, disturbed>>
    \/ /\ Fault
       /\ disturbed' = TRUE
       /\ UNCHANGED checkpoints

\* Mutant: any failure of the level ends the request.
AnyFailed(s) == \E c \in DOMAIN run[s].answers : run[s].answers[c] = Failed

NextFailed(s) == run[s].answers[FirstMissing(s)] = Failed

\* The answers are taken in the order of the misses, up to the first failure.
Collect(s) ==
    /\ run[s].pc = "collect"
    /\ Missing(s) # {}
    /\ LET c == FirstMissing(s)
           output == run[s].answers[c]
       IN  IF NextFailed(s)
           THEN /\ End(s)
                /\ UNCHANGED <<checkpoints, faults, disturbed>>
           ELSE /\ persist_cluster_checkpoint(s, c, output)
                /\ run' = [run EXCEPT ![s].level_results = Pushed(s, c, output)]
    /\ UNCHANGED <<draft, template>>

\* Mutant: results stay in the order in which they came.
InOrderOfArrival(level_results) == [i \in DOMAIN level_results |-> level_results[i][2]]

\* The sort is stable.
sort_by_cluster_id(level_results) ==
    LET places == DOMAIN level_results
        id(i) == level_results[i][1]
        sorted == SortedBy(places, {p \in places \X places :
                                       \/ id(p[1]) < id(p[2])
                                       \/ id(p[1]) = id(p[2]) /\ p[1] < p[2]})
    IN  [k \in places |-> level_results[sorted[k]][2]]

EndLevel(s) ==
    /\ run[s].pc \in {"call", "collect"}
    /\ Missing(s) = {}
    /\ LET results == run[s].results \o sort_by_cluster_id(run[s].level_results)
           last == run[s].level = Len(Plan[run[s].schema].levels)
       IN  run' = [run EXCEPT ![s] = [run[s] EXCEPT
               !.pc = IF last THEN "write" ELSE "lookup",
               !.level = IF last THEN @ ELSE @ + 1,
               !.next = 1, !.results = results, !.level_results = <<>>, !.answers = <<>>]]
    /\ UNCHANGED <<draft, template, checkpoints, faults, disturbed>>

\* normalize refuses an invalid name, the store an old revision.
Write(s) ==
    /\ run[s].pc = "write"
    /\ LET valid == \A i \in DOMAIN run[s].results : run[s].results[i].name \notin Invalid
       IN  IF valid /\ run[s].revision = draft.revision
           THEN /\ draft' = [draft EXCEPT !.revision = @ + 1, !.design = run[s].results]
                /\ run' = [run EXCEPT ![s].pc = "drop"]
           ELSE /\ End(s)
                /\ UNCHANGED draft
    /\ UNCHANGED <<template, checkpoints, faults, disturbed>>

\* All checkpoints of the draft are deleted, whichever request wrote them.
Drop(s) ==
    /\ run[s].pc = "drop"
    /\ End(s)
    /\ \/ /\ checkpoints' = <<>>
          /\ disturbed' = ~Alone(s)
          /\ UNCHANGED faults
       \/ /\ Fault
          /\ UNCHANGED <<checkpoints, disturbed>>
    /\ UNCHANGED <<draft, template>>

Handler(s) == \/ Lookup(s) \/ CallsReturn(s) \/ Collect(s)
              \/ EndLevel(s) \/ Write(s) \/ Drop(s)

\* The client goes away, or the process restarts with what is then deployed.
Lose(s) ==
    /\ Fault
    /\ End(s)
    /\ \E t \in Template : template' = [template EXCEPT ![s] = t]
    /\ UNCHANGED <<draft, checkpoints, disturbed>>

\* The operator decides which tables and columns are left out.
Decide ==
    /\ draft.schema \in Followed
    /\ Fault
    /\ draft.design = None
    /\ \E s \in Followed \ {draft.schema} :
          draft' = [draft EXCEPT !.schema = s, !.revision = @ + 1]
    /\ disturbed' = (disturbed \/ checkpoints # <<>> \/ \E o \in Stream : run[o] # Idle)
    /\ UNCHANGED <<template, checkpoints, run>>

Next == \/ \E s \in Stream : Start(s) \/ Handler(s) \/ Lose(s)
        \/ Decide \/ sweep_expired

Spec == Init /\ [][Next]_vars

\* A handler goes on until it ends: the calls have a timeout.
FairSpec == Spec /\ \A s \in Stream : WF_vars(Handler(s))
-----------------------------------------------------------------------------
(* Properties.                                                              *)

\* The rows have distinct signatures (the unique key of the table), the
\* counters stay in their bounds, and a request is at a step of its handler.
TypeOK ==
    /\ draft.revision \in Nat
    /\ template \in [Stream -> Template]
    /\ \A i, j \in DOMAIN checkpoints :
          i # j => checkpoints[i].signature # checkpoints[j].signature
    /\ faults \in 0..MaxFaults
    /\ \A s \in Stream : run[s] = Idle
          \/ run[s].pc \in {"lookup", "call", "collect", "write", "drop"}

\* cluster_tables gives every table one cluster of at most batch_size tables
\* that the foreign keys hold together, whatever the schema looks like
\* (table_clustering.rs, component_groups and bfs_split).
TablesClustered == WellClustered(draft.schema, MaxSize, Plan[draft.schema])

\* A cluster is designed after those it refers to, unless they lead into a
\* cycle (compute_parallel_levels).
LevelsFollowReferences == WellOrdered(Plan[draft.schema])

\* Outputs of one design were authored under one prompt body, also when old
\* and new processes share the cache during a deployment, or a process comes
\* back with another prompt (the prompt hash in ClusterSignature).
DesignedUnderOneTemplate ==
    draft.design # None =>
        \A i, j \in DOMAIN draft.design : draft.design[i].template = draft.design[j].template

\* An edge refers to node types that the same design has, although outputs
\* of earlier attempts are replayed beside new ones: unless a checkpoint was
\* lost, requests overlapped or the schema changed while something was kept
\* (find_by_signature, persist_cluster_checkpoint).
CoherentUnlessDisturbed ==
    [][draft'.design # draft.design /\ ~disturbed =>
          \A i \in DOMAIN draft'.design : \A r \in draft'.design[i].refs :
              \E j \in DOMAIN draft'.design :
                  draft'.design[j].tables = r.tables /\ draft'.design[j].name = r.name]_vars

\* What is written has the clusters of the schema the draft has then, one
\* each and in the order of the plan, however cached results and calls of a
\* level came together and whatever was decided meanwhile (the sort at the
\* end of a level, the revision in update_design_result).
WrittenInPlanOrder ==
    [][draft'.design # draft.design =>
          LET clusters == Plan[draft.schema].clusters
          IN  /\ DOMAIN draft'.design = DOMAIN clusters
              /\ \A i \in DOMAIN clusters :
                    draft'.design[i].tables = clusters[i].tables]_vars

\* The last call for these tables failed; it did not.
Answered(tables, A(_)) ==
    \E s \in Stream : /\ run[s].pc = "collect"
                      /\ \E c \in DOMAIN run[s].answers :
                            Clusters(s)[c].tables = tables /\ A(run[s].answers[c])
CallFails(tables) == Answered(tables, LAMBDA a : a = Failed)
CallSucceeds(tables) == Answered(tables, LAMBDA a : a # Failed)

DesignedTables == UNION {{Plan[s].clusters[i].tables : i \in DOMAIN Plan[s].clusters} : s \in Followed}

\* Retries get there: if the design is asked for again and again, and calls
\* for the same tables do not fail for ever, then a design is written, unless
\* an output that normalize refuses stays in the cache.  For this the levels
\* must keep what came before a failure (streaming.rs: "a transient failure
\* on cluster K does not discard 0..K's output").
RetriesFinish ==
    /\ []<>(\E s \in Stream : run[s] # Idle)
    /\ \A tables \in DesignedTables : []<>CallFails(tables) => []<>CallSucceeds(tables)
    => \/ <>(draft.design # None)
       \/ <>[](\E i \in DOMAIN checkpoints : checkpoints[i].output.name \in Invalid)
=============================================================================
