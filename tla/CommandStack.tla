----------------------------- MODULE CommandStack -----------------------------
(***************************************************************************)
(* Editing one draft from several browser tabs.  A tab applies commands at *)
(* once to its copy of the ontology and keeps them on a stack, which is    *)
(* both the undo history and the list of unsaved edits                     *)
(* (web/src/lib/store/ontology-slice.ts).  A save sends the whole stack    *)
(* with the revision the tab has; the server executes it and compares the  *)
(* revision when it writes (apply_ontology_commands in                     *)
(* crates/ox-api/src/routes/ontology/crud.rs).                             *)
(*                                                                         *)
(* The server's snapshot pinning is modelled in DraftLifecycle, the        *)
(* broadcast to the other tabs in CollabHub.                               *)
(***************************************************************************)
EXTENDS CommandMirror

CONSTANTS
    Tabs,
    Calls,             \* save requests that can be in flight together
    Edits,             \* the commands users issue; each is a sequence (a batch)
    NewLabels,         \* labels users give to the nodes they add
    NewIds,            \* the ids generated for these nodes, in order of use
    Selections,        \* selections of a node and an edge that users delete
    Reviewed,          \* elements that reviewers verify
    BaseOntology,      \* content of the draft's first revision
    MAX_UNDO_DEPTH,    \* cap of both stacks
    MaxEdits,          \* bound on the commands issued in all tabs together
    MaxRevision,       \* bound on the saves that land
    MaxRequests        \* bound on the saves and re-fetches that are sent

ASSUME StackAssumption ==
    /\ MAX_UNDO_DEPTH \in Nat \ {0}
    /\ MaxEdits \in Nat
    /\ MaxRevision \in Nat \ {0}
    /\ MaxRequests \in Nat
    /\ Len(NewIds) >= MaxEdits

ASSUME EditsAssumption == (\A cmds \in Edits : IsBatch(cmds)) /\ IsOntology(BaseOntology)

VARIABLES
    tabs,       \* each tab's store
    calls,      \* the saves in flight
    fetches,    \* each tab's re-fetch of the draft in flight
    history,    \* the draft's revisions, the last one current
    verified,   \* the verifications of elements that have not been invalidated
    edits,      \* number of commands issued, the source of tags
    requests    \* number of requests sent

vars == <<tabs, calls, fetches, history, verified, edits, requests>>

\* A draft as the server returns it.
Draft(rev) == [revision |-> rev, ontology |-> history[rev].ontology]
Current == Draft(Len(history))

FirstDraft == [revision |-> 1, ontology |-> BaseOntology]

\* acked and replayedSaved are history variables: the commands the tab was
\* told are saved, and whether it has replayed a saved command.
NewTab == [draft |-> FirstDraft, ontology |-> BaseOntology, commandStack |-> <<>>,
           redoStack |-> <<>>, conflict |-> FALSE, acked |-> {}, replayedSaved |-> FALSE]

NoCall == [phase |-> "idle"]
NoFetch == [kind |-> "none"]

Init ==
    /\ tabs = [t \in Tabs |-> NewTab]
    /\ calls = [c \in Calls |-> NoCall]
    /\ fetches = [t \in Tabs |-> NoFetch]
    /\ history = <<[ontology |-> BaseOntology, entries |-> <<>>]>>
    /\ verified = {}
    /\ edits = 0
    /\ requests = 0

Tags(stack) == {stack[i].tag : i \in DOMAIN stack}
SavedTags(rev) == UNION {Tags(history[r].entries) : r \in 1..rev}

-----------------------------------------------------------------------------
(* The store                                                                *)

capStack(s) ==
    IF Len(s) > MAX_UNDO_DEPTH THEN SubSeq(s, Len(s) - MAX_UNDO_DEPTH + 1, Len(s)) ELSE s

\* Run a command against the tab's ontology and push it with its inverse.
Run(tab, tag, cmd) ==
    LET r == applyCommandToOntology(tab.ontology, cmd)
        entry == [tag |-> tag, command |-> cmd, inverse |-> r.inverse]
    IN  [tab EXCEPT !.ontology = r.ont, !.commandStack = capStack(Append(@, entry))]

RunNew(tab, tag, cmd) == [Run(tab, tag, cmd) EXCEPT !.redoStack = <<>>]

UndoLast(tab) ==
    LET last == Last(tab.commandStack)
    IN  [tab EXCEPT !.ontology = applyCommandToOntology(@, last.inverse).ont,
                    !.commandStack = Front(@),
                    !.redoStack = capStack(Append(@, last))]

RedoLast(tab) ==
    LET entry == Last(tab.redoStack)
    IN  [Run(tab, entry.tag, entry.command) EXCEPT !.redoStack = Front(@)]

\* Mutant: the stack keeps the inverses it had.
ReplayKeepingInverses(tab, draft) ==
    [ontology |-> FoldLeft(LAMBDA o, e : applyCommandToOntology(o, e.command).ont,
                           draft.ontology, tab.commandStack),
     commandStack |-> tab.commandStack]

\* The ontologies that a replay goes through, from the snapshot on.
Working(stack, ontology) ==
    LET working[n \in 0..Len(stack)] ==
            IF n = 0 THEN ontology
            ELSE applyCommandToOntology(working[n - 1], stack[n].command).ont
    IN  working

\* Replay the unsaved commands on a newer snapshot, with inverses computed anew.
Replay(tab, draft) ==
    LET stack == tab.commandStack
        working == Working(stack, draft.ontology)
        result(i) == applyCommandToOntology(working[i - 1], stack[i].command)
    IN  [ontology |-> working[Len(stack)],
         commandStack |-> [i \in DOMAIN stack |->
             [tag |-> stack[i].tag, command |-> stack[i].command,
              inverse |-> result(i).inverse]]]

\* Mutant: the snapshot replaces everything.
SnapshotReplacesStack(tab, draft) ==
    [tab EXCEPT !.draft = draft, !.ontology = draft.ontology,
                !.commandStack = <<>>, !.redoStack = <<>>]

\* The same draft arrives again: a stack that is not empty is replayed, and
\* only an empty one drops the redo history.  replayedSaved records that the
\* replay applied commands the snapshot already contains.
applyOntologyDraftSnapshot(tab, draft) ==
    IF tab.commandStack # <<>>
    THEN LET replayed == Replay(tab, draft)
         IN  [tab EXCEPT
                !.draft = draft,
                !.ontology = replayed.ontology,
                !.commandStack = replayed.commandStack,
                !.replayedSaved = @ \/ Tags(tab.commandStack) \cap SavedTags(draft.revision) # {}]
    ELSE [tab EXCEPT !.draft = draft, !.ontology = draft.ontology, !.redoStack = <<>>,
                     !.replayedSaved = FALSE]

clearCommandStack(tab) == [tab EXCEPT !.commandStack = <<>>, !.redoStack = <<>>]

-----------------------------------------------------------------------------
(* Local steps of a tab                                                     *)

OnlyTab(t, new) ==
    /\ tabs' = [tabs EXCEPT ![t] = new]
    /\ UNCHANGED <<calls, fetches, history, verified, requests>>

applyCommand(t, cmd) ==
    /\ edits < MaxEdits
    /\ edits' = edits + 1
    /\ OnlyTab(t, RunNew(tabs[t], edits + 1, cmd))

\* A node is added under an id that is new everywhere.
addNode(t, label) ==
    applyCommand(t, <<[op |-> "add_node", id |-> NewIds[edits + 1], label |-> label,
                       description |-> ""]>>)

\* The canvas deletes a selection: first the nodes, then the edges.
deleteSelected(t, node, edge) ==
    /\ edits + 2 <= MaxEdits
    /\ edits' = edits + 2
    /\ OnlyTab(t, RunNew(RunNew(tabs[t], edits + 1, <<DeleteNodeCmd(node)>>),
                         edits + 2, <<DeleteEdgeCmd(edge)>>))

undo(t) ==
    /\ tabs[t].commandStack # <<>>
    /\ OnlyTab(t, UndoLast(tabs[t]))
    /\ UNCHANGED edits

redo(t) ==
    /\ tabs[t].redoStack # <<>>
    /\ OnlyTab(t, RedoLast(tabs[t]))
    /\ UNCHANGED edits

-----------------------------------------------------------------------------
(* Saving.  The request carries the stack and the revision of the draft.    *)
(* The inspector's save button is disabled while its save is in flight and  *)
(* it shows a conflict banner; the canvas's save command does neither.      *)

Request(t, ui, rev, entries) ==
    [phase |-> "sent", tab |-> t, ui |-> ui, rev |-> rev, entries |-> entries]

\* What the server has added to a request.
With(call, news) ==
    [f \in DOMAIN call \cup DOMAIN news |-> IF f \in DOMAIN news THEN news[f] ELSE call[f]]

isSaving(t) ==
    \E c \in Calls : calls[c].phase # "idle" /\ calls[c].tab = t /\ calls[c].ui = "inspector"

handleSave(t, c, ui) ==
    /\ calls[c].phase = "idle"
    /\ tabs[t].commandStack # <<>>
    /\ ui = "inspector" => ~isSaving(t)
    /\ requests < MaxRequests
    /\ requests' = requests + 1
    /\ calls' = [calls EXCEPT ![c] = Request(t, ui, tabs[t].draft.revision, tabs[t].commandStack)]
    /\ UNCHANGED <<tabs, fetches, history, verified, edits>>

\* Every command is executed and validated on its own; the first failure
\* refuses the request.
ExecuteAll(o, entries) ==
    FoldLeft(LAMBDA acc, e : When(acc.ok, execute(acc.ont, e.command)), Ok(o, <<>>), entries)

Named(entries) == UNION {affected_element_ids(e.command) : e \in ToSet(entries)}

invalidate_for_elements(ids) == {v \in verified : v.id \notin ids}

\* The handler loads the draft, executes the commands on what it loaded and
\* drops the verifications of the elements they name; all that before the
\* revision is compared.
ServerExecute(c) ==
    LET r == ExecuteAll(Current.ontology, calls[c].entries)
    IN  /\ calls[c].phase = "sent"
        /\ \/ /\ r.ok
              /\ calls' = [calls EXCEPT ![c] = With(@, [phase |-> "executed", result |-> r.ont])]
              /\ verified' = invalidate_for_elements(Named(calls[c].entries))
           \/ /\ ~r.ok
              /\ calls' = [calls EXCEPT ![c].phase = "rejected"]
              /\ UNCHANGED verified
        /\ UNCHANGED <<tabs, fetches, history, edits, requests>>

\* Mutant: the revision is not compared.
RevisionUnguarded(c) == TRUE

\* update_design_result: compare-and-set on the request's revision.
RevisionMatches(c) == Len(history) = calls[c].rev

ServerWrite(c) ==
    /\ calls[c].phase = "executed"
    /\ \/ /\ RevisionMatches(c)
          /\ Len(history) < MaxRevision
          /\ history' = Append(history, [ontology |-> calls[c].result,
                                         entries |-> calls[c].entries])
          /\ calls' = [calls EXCEPT ![c].phase = "written"]
       \/ /\ ~RevisionMatches(c)
          /\ calls' = [calls EXCEPT ![c].phase = "conflict"]
          /\ UNCHANGED history
    /\ UNCHANGED <<tabs, fetches, verified, edits, requests>>

\* The answer carries the draft as reloaded, which may be newer than the write.
ServerReload(c) ==
    /\ calls[c].phase = "written"
    /\ calls' = [calls EXCEPT ![c] = With(@, [phase |-> "ok", draft |-> Current])]
    /\ UNCHANGED <<tabs, fetches, history, verified, edits, requests>>

ReceiveSaved(c) ==
    LET t == calls[c].tab
    IN  /\ calls[c].phase = "ok"
        /\ tabs' = [tabs EXCEPT ![t] =
              [applyOntologyDraftSnapshot(tabs[t], calls[c].draft) EXCEPT
                  !.conflict = @ /\ calls[c].ui # "inspector",
                  !.acked = @ \cup Tags(calls[c].entries)]]
        /\ calls' = [calls EXCEPT ![c] = NoCall]
        /\ UNCHANGED <<fetches, history, verified, edits, requests>>

\* 409: the inspector's conflict banner.
ReceiveConflict(c) ==
    /\ calls[c].phase = "conflict" /\ calls[c].ui = "inspector"
    /\ tabs' = [tabs EXCEPT ![calls[c].tab].conflict = TRUE]
    /\ calls' = [calls EXCEPT ![c] = NoCall]
    /\ UNCHANGED <<fetches, history, verified, edits, requests>>

\* 422, a 409 for the canvas, or an answer that never arrives: a toast, the
\* store is unchanged.
ReceiveFailure(c) ==
    /\ calls[c].phase \in {"rejected", "conflict", "written", "ok"}
    /\ calls' = [calls EXCEPT ![c] = NoCall]
    /\ UNCHANGED <<tabs, fetches, history, verified, edits, requests>>

\* A reviewer verifies an element of the draft; verifying it again keeps the
\* verification that stands.  raced is a history variable: a save that names
\* the element had passed its invalidation and not written yet.
verify_element(id) ==
    /\ id \in Ids(Current.ontology.node_types) \cup Ids(Current.ontology.edge_types)
    /\ \A v \in verified : v.id # id
    /\ verified' = verified \cup
          {[id |-> id, rev |-> Len(history),
            raced |-> \E c \in Calls : /\ calls[c].phase = "executed"
                                       /\ id \in Named(calls[c].entries)]}
    /\ UNCHANGED <<tabs, calls, fetches, history, edits, requests>>

-----------------------------------------------------------------------------
(* Re-fetching.  Keep mine and take theirs answer the conflict banner; any  *)
(* other part of the page may reload the draft too.  The answer is read when *)
(* the request is made and applied later.  Keep mine saves with the         *)
(* handleSave of the render in which the button was pressed.                *)

Refetch(t, kind) ==
    /\ fetches[t].kind = "none"
    /\ kind \in {"keep", "accept"} => tabs[t].conflict
    /\ requests < MaxRequests
    /\ requests' = requests + 1
    /\ fetches' = [fetches EXCEPT ![t] =
                      [kind |-> kind, draft |-> Current, rev |-> tabs[t].draft.revision,
                       entries |-> IF kind = "keep" THEN tabs[t].commandStack ELSE <<>>]]
    /\ UNCHANGED <<tabs, calls, history, verified, edits>>

handleKeepLocal(t, c) ==
    /\ fetches[t].kind = "keep"
    /\ calls[c].phase = "idle"
    /\ tabs' = [tabs EXCEPT ![t] = [applyOntologyDraftSnapshot(tabs[t], fetches[t].draft)
                                       EXCEPT !.conflict = FALSE]]
    /\ calls' = IF fetches[t].entries = <<>> THEN calls
                ELSE [calls EXCEPT ![c] =
                         Request(t, "inspector", fetches[t].rev, fetches[t].entries)]
    /\ fetches' = [fetches EXCEPT ![t] = NoFetch]
    /\ UNCHANGED <<history, verified, edits, requests>>

handleAcceptRemote(t) ==
    /\ fetches[t].kind = "accept"
    /\ tabs' = [tabs EXCEPT ![t] =
                   [applyOntologyDraftSnapshot(clearCommandStack(tabs[t]), fetches[t].draft)
                       EXCEPT !.conflict = FALSE]]
    /\ fetches' = [fetches EXCEPT ![t] = NoFetch]
    /\ UNCHANGED <<calls, history, verified, edits, requests>>

Reloaded(t) ==
    /\ fetches[t].kind = "reload"
    /\ tabs' = [tabs EXCEPT ![t] = applyOntologyDraftSnapshot(@, fetches[t].draft)]
    /\ fetches' = [fetches EXCEPT ![t] = NoFetch]
    /\ UNCHANGED <<calls, history, verified, edits, requests>>

-----------------------------------------------------------------------------
Edit(t) ==
    \/ \E cmd \in Edits : applyCommand(t, cmd)
    \/ \E label \in NewLabels : addNode(t, label)
    \/ \E sel \in Selections : deleteSelected(t, sel.node, sel.edge)
    \/ undo(t)
    \/ redo(t)

Save(c) ==
    \/ \E t \in Tabs, ui \in {"inspector", "canvas"} : handleSave(t, c, ui)
    \/ ServerExecute(c) \/ ServerWrite(c) \/ ServerReload(c)
    \/ ReceiveSaved(c) \/ ReceiveConflict(c) \/ ReceiveFailure(c)

Fetch(t) ==
    \/ \E kind \in {"keep", "accept", "reload"} : Refetch(t, kind)
    \/ \E c \in Calls : handleKeepLocal(t, c)
    \/ handleAcceptRemote(t)
    \/ Reloaded(t)

Next ==
    \/ \E t \in Tabs : Edit(t) \/ Fetch(t)
    \/ \E c \in Calls : Save(c)
    \/ \E id \in Reviewed : verify_element(id)

Spec == Init /\ [][Next]_vars

-----------------------------------------------------------------------------
(* Every revision is the result of executing the commands its save carried  *)
(* on the revision before it, whatever saves raced it: no landed edit is    *)
(* overwritten by a save that had not seen it (apply_ontology_commands and  *)
(* the compare-and-set of update_design_result).                            *)
RevisionsReplay ==
    \A r \in 2..Len(history) :
        LET replayed == ExecuteAll(history[r - 1].ontology, history[r].entries)
        IN  replayed.ok /\ replayed.ont = history[r].ontology

(* What a tab shows is its draft with the commands on its stack applied, up *)
(* to list order: undo, redo and the replay on a newer snapshot use         *)
(* inverses that fit the ontology at hand.  Two cases are excepted: a stack *)
(* that has lost entries to the cap, and one that holds saved commands.     *)
CacheTracksStack ==
    \A t \in Tabs :
        LET tab == tabs[t]
            shown == FoldLeft(LAMBDA o, e : applyCommandToOntology(o, e.command).ont,
                              tab.draft.ontology, tab.commandStack)
        IN  \/ tab.replayedSaved
            \/ Len(tab.commandStack) = MAX_UNDO_DEPTH
            \/ Same(shown, tab.ontology)

Full(stack) == Len(stack) = MAX_UNDO_DEPTH

(* An edit leaves a tab's stack only for the redo stack, by the user's      *)
(* choice to take the other side's version, because it has been saved, or   *)
(* when capStack drops the oldest of a full stack, saved or not: neither a  *)
(* conflict, a failed save nor a refresh of the draft loses it.             *)
EditsSurvive ==
    [][\A t \in Tabs :
          \/ Tags(tabs[t].commandStack) \subseteq
                Tags(tabs'[t].commandStack) \cup Tags(tabs'[t].redoStack)
                \cup SavedTags(Len(history))
          \/ fetches[t].kind = "accept"
          \/ Full(tabs'[t].commandStack) \/ Full(tabs'[t].redoStack)]_vars

\* The definition of an element in a revision; none when it is not there.
Definition(rev, id) ==
    {x \in ToSet(history[rev].ontology.node_types \o history[rev].ontology.edge_types) :
        x.id = id}

(* What is there of an element whose verification stands is as it was       *)
(* verified: every save that changed the element since then dropped the     *)
(* verification (the element ids of affected_element_ids and the            *)
(* invalidation before the write).  Excepted is a verification made between *)
(* the two.                                                                 *)
VerifiedMeansUnchanged ==
    \A v \in verified :
        v.raced \/ Definition(Len(history), v.id) \subseteq Definition(v.rev, v.id)

(* Once a tab has been told that a command is saved, the command is off the *)
(* tab's stack of unsaved edits.                                            *)
SavedCommandsLeaveStack ==
    \A t \in Tabs : Tags(tabs[t].commandStack) \cap tabs[t].acked = {}
=============================================================================
