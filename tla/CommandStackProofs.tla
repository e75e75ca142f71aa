------------------------- MODULE CommandStackProofs -------------------------
(***************************************************************************)
(* No save overwrites another, no unsaved edit is lost, and no save alters *)
(* an element that somebody else has reviewed, for any number of tabs and  *)
(* requests in flight, any commands and any ontology.                      *)
(***************************************************************************)
EXTENDS CommandStack, CommandEditor, FiniteSetTheorems, SequenceTheorems, WellFoundedInduction, TLAPS

Revision == 1..Len(history)

\* The fields the argument needs of what is changed field by field.
RequestFields == {"phase", "tab", "ui", "rev", "entries"}

Shapes ==
    /\ tabs = [t \in Tabs |-> tabs[t]]
    /\ \A t \in Tabs : "draft" \in DOMAIN tabs[t]
    /\ calls = [c \in Calls |-> calls[c]]
    /\ \A c \in Calls : /\ "phase" \in DOMAIN calls[c]
                        /\ calls[c].phase # "idle" => /\ RequestFields \subseteq DOMAIN calls[c]
                                                      /\ calls[c].tab \in Tabs
    /\ fetches = [t \in Tabs |-> fetches[t]]
    /\ history # <<>> /\ history \in Seq({history[r] : r \in DOMAIN history})

\* The drafts that travel are revisions of the draft's history.
DraftsAreRevisions ==
    /\ \A t \in Tabs : tabs[t].draft.revision \in Revision
    /\ \A t \in Tabs : fetches[t].kind # "none" =>
          fetches[t].rev \in Revision /\ fetches[t].draft.revision \in Revision
    /\ \A c \in Calls :
          /\ calls[c].phase \in {"sent", "executed"} => calls[c].rev \in Revision
          /\ calls[c].phase = "ok" => calls[c].draft.revision \in Revision

\* What a request is about to write, it computed on a revision that is not
\* older than the one its sender had.
ExecutedOnRevision ==
    \A c \in Calls : calls[c].phase = "executed" =>
        \E r \in calls[c].rev..Len(history) :
            LET replayed == ExecuteAll(history[r].ontology, calls[c].entries)
            IN  replayed.ok /\ replayed.ont = calls[c].result

StackFields == {"draft", "ontology", "commandStack", "redoStack"}

Batches(s) == \A i \in DOMAIN s : IsBatch(s[i].command)

IsStack(s) == /\ s \in Seq({s[i] : i \in DOMAIN s}) /\ Len(s) <= MAX_UNDO_DEPTH
              /\ Batches(s)

HasStacks(tab) ==
    StackFields \subseteq DOMAIN tab /\ IsStack(tab.commandStack) /\ IsStack(tab.redoStack)

StacksCapped == \A t \in Tabs : HasStacks(tabs[t])

\* The commands that travel are commands of a stack.
SavesAreStacks ==
    /\ \A c \in Calls : calls[c].phase # "idle" => IsStack(calls[c].entries)
    /\ \A t \in Tabs : fetches[t].kind # "none" => IsStack(fetches[t].entries)

Ontologies == \A r \in Revision : IsOntology(history[r].ontology)

VerifiedBefore == \A v \in verified : v.rev \in Revision

\* A verification that stands while a save of its element is about to be
\* written was made after the save had dropped the earlier ones.
RacesMarked ==
    \A v \in verified : \A c \in Calls :
        calls[c].phase = "executed" /\ v.id \in Named(calls[c].entries) => v.raced

IInv == /\ Shapes /\ DraftsAreRevisions /\ ExecutedOnRevision /\ RevisionsReplay
        /\ StacksCapped /\ SavesAreStacks /\ Ontologies
        /\ VerifiedBefore /\ RacesMarked /\ VerifiedMeansUnchanged

-----------------------------------------------------------------------------
\* Commands change what a tab shows and its stacks, and never its draft.
LEMMA RunKeepsDraft ==
    ASSUME NEW tab, "draft" \in DOMAIN tab, NEW tag, NEW cmd
    PROVE  /\ Run(tab, tag, cmd).draft = tab.draft /\ "draft" \in DOMAIN Run(tab, tag, cmd)
           /\ RunNew(tab, tag, cmd).draft = tab.draft /\ "draft" \in DOMAIN RunNew(tab, tag, cmd)
<1>1. Run(tab, tag, cmd).draft = tab.draft /\ "draft" \in DOMAIN Run(tab, tag, cmd)
  BY DEF Run
<1> QED
  BY <1>1 DEF RunNew

LEMMA UndoRedoKeepDraft ==
    ASSUME NEW tab, "draft" \in DOMAIN tab
    PROVE  /\ UndoLast(tab).draft = tab.draft /\ "draft" \in DOMAIN UndoLast(tab)
           /\ RedoLast(tab).draft = tab.draft /\ "draft" \in DOMAIN RedoLast(tab)
<1>1. UndoLast(tab).draft = tab.draft /\ "draft" \in DOMAIN UndoLast(tab)
  BY DEF UndoLast
<1>2. RedoLast(tab).draft = tab.draft /\ "draft" \in DOMAIN RedoLast(tab)
  BY RunKeepsDraft DEF RedoLast
<1> QED
  BY <1>1, <1>2

\* A snapshot brings its draft, whether the stack is replayed on it or empty.
LEMMA SnapshotBringsDraft ==
    ASSUME NEW tab, "draft" \in DOMAIN tab, NEW draft
    PROVE  /\ applyOntologyDraftSnapshot(tab, draft).draft = draft
           /\ "draft" \in DOMAIN applyOntologyDraftSnapshot(tab, draft)
  BY DEF applyOntologyDraftSnapshot

LEMMA HistoryGrows ==
    ASSUME Shapes, NEW e, history' = Append(history, e)
    PROVE  /\ Len(history) \in Nat \ {0} /\ Len(history') = Len(history) + 1
           /\ \A r \in 1..Len(history) : history'[r] = history[r]
           /\ history'[Len(history) + 1] = e
           /\ history' # <<>> /\ history' \in Seq({history'[r] : r \in DOMAIN history'})
<1> DEFINE S == {history[r] : r \in DOMAIN history} \cup {e}
<1>1. history \in Seq(S) /\ e \in S
  BY DEF Shapes
<1>2. /\ Append(history, e) \in Seq(S) /\ Append(history, e) # <<>>
      /\ Len(Append(history, e)) = Len(history) + 1
      /\ \A r \in 1..Len(history) : Append(history, e)[r] = history[r]
      /\ Append(history, e)[Len(history) + 1] = e
  BY <1>1, AppendProperties
<1>3. Len(history) \in Nat \ {0}
  BY <1>1, EmptySeq, LenProperties DEF Shapes
<1>4. history' \in Seq({history'[r] : r \in DOMAIN history'})
  BY <1>2
<1> QED
  BY <1>2, <1>3, <1>4
-----------------------------------------------------------------------------
(* What a step does to each part of the state.                              *)

AStep == (\E t \in Tabs : Edit(t) \/ Fetch(t)) \/ (\E c \in Calls : Save(c))
         \/ (\E id \in Reviewed : verify_element(id))

LEMMA TabsStep ==
    ASSUME Shapes, AStep
    PROVE  /\ tabs' = [t \in Tabs |-> tabs'[t]]
           /\ \A t \in Tabs :
                 /\ "draft" \in DOMAIN tabs'[t]
                 /\ \/ tabs'[t].draft = tabs[t].draft
                    \/ fetches[t].kind # "none" /\ tabs'[t].draft = fetches[t].draft
                    \/ \E c \in Calls : calls[c].phase = "ok" /\ tabs'[t].draft = calls[c].draft
<1> DEFINE Good(u, n) == /\ tabs' = [tabs EXCEPT ![u] = n]
                         /\ "draft" \in DOMAIN n
                         /\ \/ n.draft = tabs[u].draft
                            \/ fetches[u].kind # "none" /\ n.draft = fetches[u].draft
                            \/ \E c \in Calls : calls[c].phase = "ok" /\ n.draft = calls[c].draft
<1>1. ASSUME NEW u \in Tabs, NEW n, Good(u, n)
      PROVE  /\ tabs' = [t \in Tabs |-> tabs'[t]]
             /\ \A t \in Tabs :
                 /\ "draft" \in DOMAIN tabs'[t]
                 /\ \/ tabs'[t].draft = tabs[t].draft
                    \/ fetches[t].kind # "none" /\ tabs'[t].draft = fetches[t].draft
                    \/ \E c \in Calls : calls[c].phase = "ok" /\ tabs'[t].draft = calls[c].draft
  BY <1>1 DEF Shapes
<1>2. CASE tabs' = tabs
  BY <1>2 DEF Shapes
<1>3. ASSUME NEW t \in Tabs, Edit(t)
      PROVE  \E n : Good(t, n)
  <2>0. "draft" \in DOMAIN tabs[t]
    BY DEF Shapes
  <2>1. ASSUME NEW cmd, applyCommand(t, cmd) PROVE \E n : Good(t, n)
    <3>1. Good(t, RunNew(tabs[t], edits + 1, cmd))
      BY <2>0, <2>1, RunKeepsDraft DEF applyCommand, OnlyTab
    <3> QED
      BY <3>1
  <2>2. ASSUME NEW sel, deleteSelected(t, sel.node, sel.edge) PROVE \E n : Good(t, n)
    <3> DEFINE n == RunNew(tabs[t], edits + 1, <<DeleteNodeCmd(sel.node)>>)
    <3>1. n.draft = tabs[t].draft /\ "draft" \in DOMAIN n
      BY <2>0, RunKeepsDraft
    <3>2. tabs' = [tabs EXCEPT ![t] = RunNew(n, edits + 2, <<DeleteEdgeCmd(sel.edge)>>)]
      BY <2>2 DEF deleteSelected, OnlyTab
    <3> HIDE DEF n
    <3>3. Good(t, RunNew(n, edits + 2, <<DeleteEdgeCmd(sel.edge)>>))
      BY <3>1, <3>2, RunKeepsDraft
    <3> QED
      BY <3>3
  <2>3. CASE undo(t)
    <3>1. Good(t, UndoLast(tabs[t]))
      BY <2>0, <2>3, UndoRedoKeepDraft DEF undo, OnlyTab
    <3> QED
      BY <3>1
  <2>4. CASE redo(t)
    <3>1. Good(t, RedoLast(tabs[t]))
      BY <2>0, <2>4, UndoRedoKeepDraft DEF redo, OnlyTab
    <3> QED
      BY <3>1
  <2> QED
    BY <1>3, <2>1, <2>2, <2>3, <2>4 DEF Edit, addNode
<1>4. ASSUME NEW t \in Tabs, Fetch(t)
      PROVE  tabs' = tabs \/ \E n : Good(t, n)
  <2>0. "draft" \in DOMAIN tabs[t]
    BY DEF Shapes
  <2> DEFINE snap == applyOntologyDraftSnapshot(tabs[t], fetches[t].draft)
             theirs == applyOntologyDraftSnapshot(clearCommandStack(tabs[t]), fetches[t].draft)
  <2>1. /\ snap.draft = fetches[t].draft /\ "draft" \in DOMAIN snap
        /\ theirs.draft = fetches[t].draft /\ "draft" \in DOMAIN theirs
    <3>1. "draft" \in DOMAIN clearCommandStack(tabs[t])
      BY <2>0 DEF clearCommandStack
    <3> QED
      BY <2>0, <3>1, SnapshotBringsDraft
  <2>2. ASSUME NEW c \in Calls, handleKeepLocal(t, c) PROVE \E n : Good(t, n)
    <3>1. tabs' = [tabs EXCEPT ![t] = [snap EXCEPT !.conflict = FALSE]] /\ fetches[t].kind = "keep"
      BY <2>2 DEF handleKeepLocal
    <3> HIDE DEF snap
    <3>2. Good(t, [snap EXCEPT !.conflict = FALSE])
      BY <2>1, <3>1
    <3> QED
      BY <3>2
  <2>3. CASE handleAcceptRemote(t)
    <3>1. tabs' = [tabs EXCEPT ![t] = [theirs EXCEPT !.conflict = FALSE]] /\ fetches[t].kind = "accept"
      BY <2>3 DEF handleAcceptRemote
    <3> HIDE DEF theirs
    <3>2. Good(t, [theirs EXCEPT !.conflict = FALSE])
      BY <2>1, <3>1
    <3> QED
      BY <3>2
  <2>4. CASE Reloaded(t)
    <3>1. tabs' = [tabs EXCEPT ![t] = snap] /\ fetches[t].kind = "reload"
      BY <2>4 DEF Reloaded
    <3> HIDE DEF snap
    <3>2. Good(t, snap)
      BY <2>1, <3>1
    <3> QED
      BY <3>2
  <2> QED
    BY <1>4, <2>2, <2>3, <2>4 DEF Fetch, Refetch
<1>5. ASSUME NEW c \in Calls, Save(c)
      PROVE  tabs' = tabs \/ (calls[c].tab \in Tabs /\ \E n : Good(calls[c].tab, n))
  <2> DEFINE u == calls[c].tab
  <2>1. CASE ReceiveSaved(c)
    <3> DEFINE snap == applyOntologyDraftSnapshot(tabs[u], calls[c].draft)
               saved == [snap EXCEPT !.conflict = @ /\ calls[c].ui # "inspector",
                                     !.acked = @ \cup Tags(calls[c].entries)]
    <3>0. u \in Tabs
      BY <2>1 DEF ReceiveSaved, Shapes
    <3>1. snap.draft = calls[c].draft /\ "draft" \in DOMAIN snap
      BY <3>0, SnapshotBringsDraft DEF Shapes
    <3>2. tabs' = [tabs EXCEPT ![u] = saved] /\ calls[c].phase = "ok"
      BY <2>1 DEF ReceiveSaved
    <3> HIDE DEF snap
    <3>3. Good(u, saved)
      BY <3>1, <3>2
    <3> QED
      BY <3>0, <3>3
  <2>2. CASE ReceiveConflict(c)
    <3>0. u \in Tabs
      BY <2>2 DEF ReceiveConflict, Shapes
    <3>1. Good(u, [tabs[u] EXCEPT !.conflict = TRUE])
      BY <2>2, <3>0 DEF ReceiveConflict, Shapes
    <3> QED
      BY <3>0, <3>1
  <2> QED
    BY <1>5, <2>1, <2>2
       DEF Save, handleSave, ServerExecute, ServerWrite, ServerReload, ReceiveFailure
<1>6. tabs' = tabs \/ \E u \in Tabs : \E n : Good(u, n)
  <2> HIDE DEF Good
  <2> QED
    BY <1>3, <1>4, <1>5 DEF AStep, verify_element
<1> QED
  <2> HIDE DEF Good
  <2> QED
    BY <1>1, <1>2, <1>6

\* What a save in flight may become.
Moved(c) ==
    \/ calls'[c] = calls[c] \/ calls'[c] = NoCall
    \/ \E t \in Tabs : \E ui, entries :
          /\ calls[c].phase = "idle"
          /\ \/ /\ entries = tabs[t].commandStack
                /\ calls'[c] = Request(t, ui, tabs[t].draft.revision, entries)
             \/ /\ fetches[t].kind # "none" /\ entries = fetches[t].entries
                /\ calls'[c] = Request(t, ui, fetches[t].rev, entries)
    \/ LET r == ExecuteAll(Current.ontology, calls[c].entries)
       IN  /\ calls[c].phase = "sent" /\ r.ok
           /\ calls'[c] = With(calls[c], [phase |-> "executed", result |-> r.ont])
    \/ /\ calls[c].phase # "idle"
       /\ \E phase \in {"rejected", "written", "conflict"} :
             calls'[c] = [calls[c] EXCEPT !.phase = phase]
    \/ /\ calls[c].phase = "written"
       /\ calls'[c] = With(calls[c], [phase |-> "ok", draft |-> Current])

LEMMA CallsStep ==
    ASSUME Shapes, AStep
    PROVE  /\ calls' = [c \in Calls |-> calls'[c]]
           /\ \A c \in Calls : Moved(c)
<1>1. ASSUME NEW d \in Calls, NEW n, calls' = [calls EXCEPT ![d] = n]
      PROVE  /\ calls' = [c \in Calls |-> calls'[c]] /\ calls'[d] = n
             /\ \A c \in Calls \ {d} : Moved(c)
  BY <1>1 DEF Shapes, Moved
<1>2. ASSUME calls' = calls
      PROVE  calls' = [c \in Calls |-> calls'[c]] /\ \A c \in Calls : Moved(c)
  BY <1>2 DEF Shapes, Moved
<1>3. ASSUME NEW d \in Calls, Save(d)
      PROVE  \E n : calls' = [calls EXCEPT ![d] = n] /\ (calls'[d] = n => Moved(d))
  <2>1. ASSUME NEW t \in Tabs, NEW ui, handleSave(t, d, ui)
        PROVE  \E n : calls' = [calls EXCEPT ![d] = n] /\ (calls'[d] = n => Moved(d))
    BY ZenonT(60), <2>1 DEF handleSave, Moved
  <2>2. CASE ServerExecute(d)
    BY <2>2 DEF ServerExecute, Moved
  <2>3. CASE ServerWrite(d)
    BY <2>3 DEF ServerWrite, Moved
  <2>4. CASE ServerReload(d)
    BY <2>4 DEF ServerReload, Moved
  <2>5. CASE ReceiveSaved(d) \/ ReceiveConflict(d) \/ ReceiveFailure(d)
    BY <2>5 DEF ReceiveSaved, ReceiveConflict, ReceiveFailure, Moved
  <2> QED
    BY <1>3, <2>1, <2>2, <2>3, <2>4, <2>5 DEF Save
<1>4. ASSUME NEW t \in Tabs, NEW d \in Calls, handleKeepLocal(t, d)
      PROVE  \/ calls' = calls
             \/ \E n : calls' = [calls EXCEPT ![d] = n] /\ (calls'[d] = n => Moved(d))
  BY ZenonT(60), <1>4 DEF handleKeepLocal, Moved
<1>5. \/ calls' = calls
      \/ \E d \in Calls : \E n : calls' = [calls EXCEPT ![d] = n] /\ (calls'[d] = n => Moved(d))
  BY <1>3, <1>4
     DEF AStep, Edit, Fetch, verify_element, applyCommand, addNode, deleteSelected, undo, redo,
         OnlyTab, Refetch, handleAcceptRemote, Reloaded
<1> QED
  BY <1>1, <1>2, <1>5

LEMMA FetchesStep ==
    ASSUME Shapes, AStep
    PROVE  /\ fetches' = [t \in Tabs |-> fetches'[t]]
           /\ \A t \in Tabs :
                 \/ fetches'[t] = fetches[t] \/ fetches'[t] = NoFetch
                 \/ /\ fetches'[t].draft = Current /\ fetches'[t].rev = tabs[t].draft.revision
                    /\ fetches'[t].entries \in {tabs[t].commandStack, <<>>}
<1>1. ASSUME NEW t \in Tabs, Fetch(t)
      PROVE  \/ fetches' = [fetches EXCEPT ![t] = NoFetch]
             \/ \E n : /\ fetches' = [fetches EXCEPT ![t] = n]
                       /\ n.draft = Current /\ n.rev = tabs[t].draft.revision
                       /\ n.entries \in {tabs[t].commandStack, <<>>}
  <2>1. ASSUME NEW kind, Refetch(t, kind)
        PROVE  \E n : /\ fetches' = [fetches EXCEPT ![t] = n]
                      /\ n.draft = Current /\ n.rev = tabs[t].draft.revision
                      /\ n.entries \in {tabs[t].commandStack, <<>>}
    <3> DEFINE n == [kind |-> kind, draft |-> Current, rev |-> tabs[t].draft.revision,
                     entries |-> IF kind = "keep" THEN tabs[t].commandStack ELSE <<>>]
    <3>1. fetches' = [fetches EXCEPT ![t] = n]
      BY <2>1 DEF Refetch
    <3>2. /\ n.draft = Current /\ n.rev = tabs[t].draft.revision
          /\ n.entries \in {tabs[t].commandStack, <<>>}
      OBVIOUS
    <3> QED
      BY ZenonT(60), <3>1, <3>2
  <2> QED
    BY <1>1, <2>1 DEF Fetch, handleKeepLocal, handleAcceptRemote, Reloaded
<1>2. fetches' = fetches \/ \E t \in Tabs : Fetch(t)
  BY ZenonT(60)
     DEF AStep, Edit, Save, verify_element, applyCommand, addNode, deleteSelected,
         undo, redo, OnlyTab, handleSave, ServerExecute, ServerWrite, ServerReload,
         ReceiveSaved, ReceiveConflict, ReceiveFailure
<1> QED
  BY <1>1, <1>2 DEF Shapes

LEMMA HistoryStep ==
    ASSUME AStep
    PROVE  \/ history' = history
           \/ \E c \in Calls :
                 /\ calls[c].phase = "executed" /\ Len(history) = calls[c].rev
                 /\ history' = Append(history, [ontology |-> calls[c].result,
                                                entries |-> calls[c].entries])
                 /\ verified' = verified
  BY DEF AStep, Edit, Fetch, Save, verify_element, applyCommand, addNode, deleteSelected,
         undo, redo, OnlyTab, Refetch, handleKeepLocal, handleAcceptRemote, Reloaded,
         handleSave, ServerExecute, ServerWrite, RevisionMatches, ServerReload, ReceiveSaved,
         ReceiveConflict, ReceiveFailure
-----------------------------------------------------------------------------
LEMMA ShapesStep ==
    ASSUME Shapes, AStep
    PROVE  Shapes'
<1>1. ASSUME NEW c \in Calls
      PROVE  /\ "phase" \in DOMAIN calls'[c]
             /\ calls'[c].phase # "idle" => /\ RequestFields \subseteq DOMAIN calls'[c]
                                            /\ calls'[c].tab \in Tabs
  <2>0. /\ Moved(c) /\ "phase" \in DOMAIN calls[c]
        /\ calls[c].phase # "idle" => RequestFields \subseteq DOMAIN calls[c] /\ calls[c].tab \in Tabs
    BY CallsStep DEF Shapes
  <2>1. CASE calls'[c] = calls[c] \/ calls'[c] = NoCall
    BY <2>0, <2>1 DEF NoCall
  <2>2. ASSUME NEW t \in Tabs, NEW ui, NEW rev, NEW entries, calls'[c] = Request(t, ui, rev, entries)
        PROVE  RequestFields \subseteq DOMAIN calls'[c] /\ calls'[c].tab \in Tabs
    BY <2>2 DEF Request, RequestFields
  <2>3. ASSUME NEW f, DOMAIN f \in {{"phase", "result"}, {"phase", "draft"}}, calls'[c] = With(calls[c], f),
               calls[c].phase # "idle"
        PROVE  RequestFields \subseteq DOMAIN calls'[c] /\ calls'[c].tab \in Tabs
    BY <2>0, <2>3 DEF RequestFields, With
  <2>4. ASSUME NEW phase, calls'[c] = [calls[c] EXCEPT !.phase = phase], calls[c].phase # "idle"
        PROVE  RequestFields \subseteq DOMAIN calls'[c] /\ calls'[c].tab \in Tabs
    BY <2>0, <2>4 DEF RequestFields
  <2>5. \/ RequestFields \subseteq DOMAIN calls'[c] /\ calls'[c].tab \in Tabs
        \/ calls'[c] = calls[c]
        \/ calls'[c] = NoCall
    BY <2>0, <2>2, <2>3, <2>4 DEF Moved
  <2> QED
    BY <2>1, <2>5 DEF RequestFields
<1>2. history' # <<>> /\ history' \in Seq({history'[r] : r \in DOMAIN history'})
  BY ZenonT(60), HistoryStep, HistoryGrows DEF Shapes
<1> QED
  BY <1>1, <1>2, TabsStep, CallsStep, FetchesStep DEF Shapes

LEMMA RevisionGrows ==
    ASSUME Shapes, AStep
    PROVE  Len(history) \in Revision /\ Revision \subseteq Revision'
<1>1. Len(history) \in Nat \ {0}
  BY EmptySeq DEF Shapes
<1>2. history' = history \/ Len(history') = Len(history) + 1
  BY HistoryStep, HistoryGrows
<1> QED
  BY <1>1, <1>2 DEF Revision

LEMMA DraftsStep ==
    ASSUME Shapes, DraftsAreRevisions, AStep
    PROVE  DraftsAreRevisions'
<1>0. /\ Len(history) \in Revision /\ Revision \subseteq Revision'
      /\ Current.revision = Len(history)
  BY RevisionGrows DEF Current, Draft
<1>1. \A t \in Tabs : tabs'[t].draft.revision \in Revision'
  BY <1>0, TabsStep DEF DraftsAreRevisions
<1>2. \A t \in Tabs : fetches'[t].kind # "none" =>
          fetches'[t].rev \in Revision' /\ fetches'[t].draft.revision \in Revision'
  BY <1>0, FetchesStep DEF DraftsAreRevisions, NoFetch
<1>3. ASSUME NEW c \in Calls
      PROVE  /\ calls'[c].phase \in {"sent", "executed"} => calls'[c].rev \in Revision'
             /\ calls'[c].phase = "ok" => calls'[c].draft.revision \in Revision'
  <2>0. /\ Moved(c) /\ "phase" \in DOMAIN calls[c]
        /\ calls[c].phase # "idle" => RequestFields \subseteq DOMAIN calls[c]
    BY CallsStep DEF Shapes
  <2>1. CASE calls'[c] = calls[c] \/ calls'[c] = NoCall
    BY <1>0, <2>1 DEF NoCall, DraftsAreRevisions
  <2>2. ASSUME NEW t \in Tabs, NEW ui, NEW entries,
               \/ calls'[c] = Request(t, ui, tabs[t].draft.revision, entries)
               \/ fetches[t].kind # "none" /\ calls'[c] = Request(t, ui, fetches[t].rev, entries)
        PROVE  calls'[c].phase = "sent" /\ calls'[c].rev \in Revision'
    BY <1>0, <2>2 DEF Request, DraftsAreRevisions
  <2>3. ASSUME NEW o, calls[c].phase = "sent",
               calls'[c] = With(calls[c], [phase |-> "executed", result |-> o])
        PROVE  calls'[c].phase = "executed" /\ calls'[c].rev \in Revision'
    BY <1>0, <2>0, <2>3 DEF RequestFields, With, DraftsAreRevisions
  <2>4. ASSUME NEW phase \in {"rejected", "written", "conflict"},
               calls'[c] = [calls[c] EXCEPT !.phase = phase]
        PROVE  calls'[c].phase = phase
    BY <2>0, <2>4
  <2>5. ASSUME calls'[c] = With(calls[c], [phase |-> "ok", draft |-> Current])
        PROVE  calls'[c].phase = "ok" /\ calls'[c].draft = Current
    BY <2>5 DEF With
  <2>6. \/ calls'[c] = calls[c] \/ calls'[c] = NoCall
        \/ calls'[c].phase \in {"sent", "executed"} /\ calls'[c].rev \in Revision'
        \/ calls'[c].phase \in {"rejected", "written", "conflict"}
        \/ calls'[c].phase = "ok" /\ calls'[c].draft = Current
    BY <2>0, <2>2, <2>3, <2>4, <2>5 DEF Moved
  <2> QED
    BY <1>0, <2>1, <2>6
<1> QED
  BY <1>1, <1>2, <1>3 DEF DraftsAreRevisions

LEMMA ExecutedStep ==
    ASSUME Shapes, DraftsAreRevisions, ExecutedOnRevision, AStep
    PROVE  ExecutedOnRevision'
<1> SUFFICES ASSUME NEW c \in Calls, calls'[c].phase = "executed"
             PROVE  \E r \in calls'[c].rev..Len(history') :
                        LET replayed == ExecuteAll(history'[r].ontology, calls'[c].entries)
                        IN  replayed.ok /\ replayed.ont = calls'[c].result
  BY DEF ExecutedOnRevision
<1>0. /\ Moved(c) /\ "phase" \in DOMAIN calls[c]
      /\ calls[c].phase # "idle" => RequestFields \subseteq DOMAIN calls[c]
  BY CallsStep DEF Shapes
<1>1. /\ Len(history) \in Nat \ {0} /\ Len(history') \in {Len(history), Len(history) + 1}
      /\ \A r \in 1..Len(history) : history'[r] = history[r]
  <2>1. Len(history) \in Nat \ {0}
    BY EmptySeq DEF Shapes
  <2> QED
    BY <2>1, HistoryStep, HistoryGrows
<1>2. CASE calls'[c] = calls[c]
  <2>1. PICK r \in calls[c].rev..Len(history) :
            LET replayed == ExecuteAll(history[r].ontology, calls[c].entries)
            IN  replayed.ok /\ replayed.ont = calls[c].result
    BY <1>2 DEF ExecutedOnRevision
  <2>2. calls[c].rev \in 1..Len(history)
    BY <1>2 DEF DraftsAreRevisions, Revision
  <2>3. history'[r] = history[r] /\ r \in calls'[c].rev..Len(history')
    BY SMTT(60), <1>1, <1>2, <2>2
  <2> QED
    BY <1>2, <2>1, <2>3
<1>3. CASE calls'[c] # calls[c]
  <2> DEFINE done == ExecuteAll(Current.ontology, calls[c].entries)
  <2>1. /\ calls[c].phase = "sent" /\ done.ok
        /\ calls'[c] = With(calls[c], [phase |-> "executed", result |-> done.ont])
    <3>1. calls'[c] # NoCall
      BY DEF NoCall
    <3>2. \A t, ui, rev, entries : calls'[c] # Request(t, ui, rev, entries)
      BY DEF Request
    <3>3. \A phase \in {"rejected", "written", "conflict"} :
             calls'[c] # [calls[c] EXCEPT !.phase = phase]
      BY <1>0
    <3>4. calls'[c] # With(calls[c], [phase |-> "ok", draft |-> Current])
      BY DEF With
    <3> QED
      BY <1>0, <1>3, <3>1, <3>2, <3>3, <3>4 DEF Moved
  <2>2. /\ calls'[c].result = done.ont /\ calls'[c].rev = calls[c].rev
        /\ calls'[c].entries = calls[c].entries
    BY <1>0, <2>1 DEF RequestFields, With
  <2>3. calls[c].rev \in 1..Len(history)
    BY <2>1 DEF DraftsAreRevisions, Revision
  <2>4. Len(history) \in calls'[c].rev..Len(history') /\ history'[Len(history)] = history[Len(history)]
    BY <1>1, <2>2, <2>3
  <2>5. Current.ontology = history[Len(history)].ontology
    BY DEF Current, Draft
  <2> QED
    BY <2>1, <2>2, <2>4, <2>5
<1> QED
  BY <1>2, <1>3

LEMMA ReplayStep ==
    ASSUME IInv, AStep
    PROVE  RevisionsReplay'
<1> USE DEF IInv
<1>1. CASE history' = history
  BY <1>1 DEF RevisionsReplay
<1>2. CASE history' # history
  <2>1. PICK c \in Calls :
            /\ calls[c].phase = "executed" /\ Len(history) = calls[c].rev
            /\ history' = Append(history, [ontology |-> calls[c].result,
                                           entries |-> calls[c].entries])
    BY <1>2, HistoryStep
  <2>2. /\ Len(history) \in Nat \ {0} /\ Len(history') = Len(history) + 1
        /\ \A r \in 1..Len(history) : history'[r] = history[r]
        /\ history'[Len(history) + 1] = [ontology |-> calls[c].result, entries |-> calls[c].entries]
    BY <2>1, HistoryGrows
  <2>3. LET replayed == ExecuteAll(history[Len(history)].ontology, calls[c].entries)
        IN  replayed.ok /\ replayed.ont = calls[c].result
    BY <2>1, <2>2 DEF ExecutedOnRevision
  <2>4. ASSUME NEW r \in 2..Len(history')
        PROVE  LET replayed == ExecuteAll(history'[r - 1].ontology, history'[r].entries)
               IN  replayed.ok /\ replayed.ont = history'[r].ontology
    <3>1. CASE r = Len(history) + 1
      <4>1. history'[r - 1] = history[Len(history)]
        BY <2>2, <3>1
      <4> QED
        BY <2>2, <2>3, <3>1, <4>1
    <3>2. CASE r # Len(history) + 1
      <4>1. r \in 2..Len(history) /\ history'[r] = history[r] /\ history'[r - 1] = history[r - 1]
        BY <2>2, <3>2
      <4> QED
        BY <4>1 DEF RevisionsReplay
    <3> QED
      BY <3>1, <3>2
  <2> QED
    BY <2>4 DEF RevisionsReplay
<1> QED
  BY <1>1, <1>2
-----------------------------------------------------------------------------
(* Unsaved edits.                                                           *)

\* What was on the stack is on one of the stacks, or one of them is full.
Kept(old, new) ==
    \/ Tags(old.commandStack) \subseteq Tags(new.commandStack) \cup Tags(new.redoStack)
    \/ Full(new.commandStack) \/ Full(new.redoStack)

LEMMA EmptyIsStack == IsStack(<<>>) /\ Len(<<>>) = 0
<1>1. <<>> \in Seq({<<>>[i] : i \in DOMAIN <<>>}) /\ Len(<<>>) = 0
  BY EmptySeq
<1> QED
  BY <1>1, StackAssumption DEF IsStack, Batches

\* A push keeps every entry, unless the stack is full afterwards.
LEMMA PushKeeps ==
    ASSUME NEW s, IsStack(s), NEW e, IsBatch(e.command)
    PROVE  LET new == capStack(Append(s, e))
           IN  /\ IsStack(new)
               /\ Tags(s) \cup {e.tag} \subseteq Tags(new) \/ Full(new)
               /\ Full(s) => Full(new)
<1> DEFINE S == {s[i] : i \in DOMAIN s} \cup {e}
           long == Append(s, e)
           from == Len(long) - MAX_UNDO_DEPTH + 1
<1>1. s \in Seq(S) /\ e \in S /\ Len(s) \in Nat /\ DOMAIN s = 1..Len(s) /\ Len(s) <= MAX_UNDO_DEPTH
  BY LenProperties DEF IsStack
<1>2. /\ long \in Seq(S) /\ Len(long) = Len(s) + 1 /\ DOMAIN long = 1..(Len(s) + 1)
      /\ \A i \in 1..Len(s) : long[i] = s[i]
      /\ long[Len(s) + 1] = e
  BY <1>1, AppendProperties, LenProperties
<1>3. MAX_UNDO_DEPTH \in Nat \ {0}
  BY StackAssumption
<1> HIDE DEF long
<1>batches. Batches(long)
  <2>1. \A i \in 1..Len(s) : IsBatch(s[i].command)
    BY <1>1 DEF IsStack, Batches
  <2>2. \A i \in 1..(Len(s) + 1) : i \in 1..Len(s) \/ i = Len(s) + 1
    BY <1>1
  <2> QED
    BY <1>2, <2>1, <2>2 DEF Batches
<1>4. CASE Len(long) > MAX_UNDO_DEPTH
  <2> DEFINE new == SubSeq(long, from, Len(long))
  <2>1. from \in 1..Len(long) /\ Len(s) = MAX_UNDO_DEPTH /\ Len(long) - from + 1 = MAX_UNDO_DEPTH
    <3>1. \A n \in Nat : n <= MAX_UNDO_DEPTH /\ n + 1 > MAX_UNDO_DEPTH => n = MAX_UNDO_DEPTH
      BY <1>3
    <3>2. Len(s) = MAX_UNDO_DEPTH
      <4> HIDE DEF from
      <4>1. Len(s) + 1 > MAX_UNDO_DEPTH
        BY <1>2, <1>4
      <4> QED
        BY <1>1, <3>1, <4>1
    <3>3. Len(long) = MAX_UNDO_DEPTH + 1
      BY <1>2, <3>2
    <3> QED
      BY <1>3, <3>2, <3>3
  <2>2. \A i \in from..Len(long) : long[i] \in {long[k] : k \in DOMAIN long}
    <3> HIDE DEF from
    <3>1. \A i \in from..Len(long) : i \in DOMAIN long
      BY <1>1, <1>2, <2>1
    <3> QED
      BY <3>1
  <2>3. /\ new \in Seq({long[k] : k \in DOMAIN long}) /\ Len(new) = MAX_UNDO_DEPTH
    <3> HIDE DEF from
    <3> QED
      BY <1>1, <1>2, <1>3, <2>1, <2>2, SubSeqProperties
  <2> HIDE DEF new
  <2>4. new \in Seq({new[i] : i \in DOMAIN new})
    BY <2>3
  <2>5. capStack(long) = new
    BY <1>4 DEF capStack, new
  <2>6. Batches(new)
    <3>1. \A i \in DOMAIN new : \E k \in DOMAIN long : new[i] = long[k]
      BY <2>3, ElementOfSeq, LenProperties
    <3> QED
      BY <1>batches, <3>1 DEF Batches
  <2> QED
    BY <1>3, <2>3, <2>4, <2>5, <2>6 DEF IsStack, Full, long
<1>5. CASE ~(Len(long) > MAX_UNDO_DEPTH)
  <2>1. capStack(long) = long
    BY <1>5 DEF capStack
  <2>2. long \in Seq({long[i] : i \in DOMAIN long}) /\ Len(long) <= MAX_UNDO_DEPTH
    BY <1>1, <1>2, <1>3, <1>5
  <2>3. Tags(s) \cup {e.tag} \subseteq Tags(long)
    BY <1>1, <1>2 DEF Tags
  <2>4. ~Full(s)
    <3> HIDE DEF from
    <3>1. Len(s) + 1 <= MAX_UNDO_DEPTH
      BY <1>1, <1>2, <1>3, <1>5
    <3>2. \A n \in Nat : n + 1 <= MAX_UNDO_DEPTH => n # MAX_UNDO_DEPTH
      BY <1>3
    <3>3. Len(s) # MAX_UNDO_DEPTH
      BY <1>1, <3>1, <3>2
    <3> QED
      BY <3>3 DEF Full
  <2> QED
    BY <1>batches, <2>1, <2>2, <2>3, <2>4 DEF IsStack, long
<1> QED
  BY <1>4, <1>5

\* All but the last entry of a stack.
LEMMA PopKeeps ==
    ASSUME NEW s, IsStack(s), s # <<>>
    PROVE  /\ IsStack(Front(s)) /\ Tags(s) = Tags(Front(s)) \cup {Last(s).tag}
           /\ IsBatch(Last(s).command)
<1> DEFINE S == {s[i] : i \in DOMAIN s}
           new == SubSeq(s, 1, Len(s) - 1)
<1>1. s \in Seq(S) /\ Len(s) \in Nat \ {0} /\ DOMAIN s = 1..Len(s) /\ Len(s) <= MAX_UNDO_DEPTH
  BY LenProperties, EmptySeq DEF IsStack
<1>2. /\ new \in Seq(S) /\ Len(new) = Len(s) - 1 /\ DOMAIN new = 1..(Len(s) - 1)
      /\ \A i \in 1..(Len(s) - 1) : new[i] = s[i]
  <2>1. \A i \in 1..(Len(s) - 1) : s[i] \in S
    BY <1>1
  <2>2. new \in Seq(S) /\ Len(new) = Len(s) - 1 /\ \A i \in 1..(Len(s) - 1) : new[i] = s[i]
    <3> HIDE DEF S
    <3> QED
      BY <1>1, <2>1, SubSeqProperties
  <2> QED
    BY <2>2, LenProperties
<1>3. Front(s) = new /\ Last(s) = s[Len(s)]
  BY SMTT(60) DEF Front, Last
<1> HIDE DEF new
<1>4. new \in Seq({new[i] : i \in DOMAIN new})
  BY SMTT(60), <1>2
<1>5. Tags(s) = Tags(new) \cup {s[Len(s)].tag}
  <2>1. DOMAIN s = DOMAIN new \cup {Len(s)}
    BY <1>1, <1>2
  <2>2. \A i \in DOMAIN new : new[i].tag = s[i].tag
    BY <1>2
  <2> QED
    BY <2>1, <2>2 DEF Tags
<1>6. Batches(new) /\ IsBatch(s[Len(s)].command)
  BY <1>1, <1>2 DEF IsStack, Batches
<1> QED
  BY <1>1, <1>2, <1>3, <1>4, <1>5, <1>6, StackAssumption DEF IsStack

LEMMA RunKeeps ==
    ASSUME NEW tab, HasStacks(tab), NEW tag, NEW cmd, IsBatch(cmd)
    PROVE  LET new == Run(tab, tag, cmd)
           IN  /\ HasStacks(new) /\ new.redoStack = tab.redoStack
               /\ Tags(tab.commandStack) \cup {tag} \subseteq Tags(new.commandStack)
                  \/ Full(new.commandStack)
               /\ Full(tab.commandStack) => Full(new.commandStack)
<1> DEFINE e == [tag |-> tag, command |-> cmd,
                 inverse |-> applyCommandToOntology(tab.ontology, cmd).inverse]
           new == Run(tab, tag, cmd)
<1>1. /\ new.commandStack = capStack(Append(tab.commandStack, e))
      /\ new.redoStack = tab.redoStack /\ DOMAIN new = DOMAIN tab
  BY DEF Run, HasStacks, StackFields
<1>2. e.tag = tag /\ IsBatch(e.command) /\ IsStack(tab.commandStack)
  BY DEF HasStacks
<1> HIDE DEF e, new
<1> QED
  BY <1>1, <1>2, PushKeeps DEF HasStacks, new

LEMMA RunNewKeeps ==
    ASSUME NEW tab, HasStacks(tab), NEW tag, NEW cmd, IsBatch(cmd)
    PROVE  LET new == RunNew(tab, tag, cmd)
           IN  /\ HasStacks(new)
               /\ Tags(tab.commandStack) \subseteq Tags(new.commandStack) \/ Full(new.commandStack)
               /\ Full(tab.commandStack) => Full(new.commandStack)
<1> DEFINE ran == Run(tab, tag, cmd)
<1>1. /\ HasStacks(ran)
      /\ Tags(tab.commandStack) \subseteq Tags(ran.commandStack) \/ Full(ran.commandStack)
      /\ Full(tab.commandStack) => Full(ran.commandStack)
  BY RunKeeps
<1>2. RunNew(tab, tag, cmd) = [ran EXCEPT !.redoStack = <<>>]
  BY DEF RunNew
<1> HIDE DEF ran
<1> QED
  BY <1>1, <1>2, EmptyIsStack DEF HasStacks, StackFields

LEMMA UndoKeeps ==
    ASSUME NEW tab, HasStacks(tab), tab.commandStack # <<>>
    PROVE  HasStacks(UndoLast(tab)) /\ Kept(tab, UndoLast(tab))
<1> DEFINE new == UndoLast(tab)
           last == Last(tab.commandStack)
<1>1. /\ new.commandStack = Front(tab.commandStack)
      /\ new.redoStack = capStack(Append(tab.redoStack, last)) /\ DOMAIN new = DOMAIN tab
  BY DEF UndoLast, HasStacks, StackFields
<1>2. /\ IsStack(Front(tab.commandStack))
      /\ Tags(tab.commandStack) = Tags(Front(tab.commandStack)) \cup {last.tag}
      /\ IsBatch(last.command)
  BY PopKeeps DEF HasStacks
<1> HIDE DEF last, new
<1>3. /\ IsStack(new.redoStack)
      /\ last.tag \in Tags(new.redoStack) \/ Full(new.redoStack)
  BY <1>1, <1>2, PushKeeps DEF HasStacks
<1> QED
  BY <1>1, <1>2, <1>3 DEF HasStacks, Kept, new

LEMMA RedoKeeps ==
    ASSUME NEW tab, HasStacks(tab), tab.redoStack # <<>>
    PROVE  HasStacks(RedoLast(tab)) /\ Kept(tab, RedoLast(tab))
<1> DEFINE entry == Last(tab.redoStack)
           ran == Run(tab, entry.tag, entry.command)
<1>0. IsBatch(entry.command)
  BY PopKeeps DEF HasStacks
<1>1. /\ HasStacks(ran)
      /\ Tags(tab.commandStack) \subseteq Tags(ran.commandStack) \/ Full(ran.commandStack)
      /\ ran.redoStack = tab.redoStack
  BY <1>0, RunKeeps
<1>2. RedoLast(tab) = [ran EXCEPT !.redoStack = Front(ran.redoStack)]
  BY DEF RedoLast
<1>3. IsStack(Front(tab.redoStack))
  BY PopKeeps DEF HasStacks
<1> HIDE DEF ran
<1> QED
  BY <1>1, <1>2, <1>3 DEF HasStacks, StackFields, Kept

\* A replay has the same commands, with inverses of their own.
LEMMA ReplayKeeps ==
    ASSUME NEW tab, HasStacks(tab), NEW draft
    PROVE  LET again == Replay(tab, draft).commandStack
           IN  IsStack(again) /\ Tags(again) = Tags(tab.commandStack)
<1> DEFINE stack == tab.commandStack
           again == Replay(tab, draft).commandStack
<1>1. stack \in Seq({stack[i] : i \in DOMAIN stack}) /\ Len(stack) \in Nat /\ DOMAIN stack = 1..Len(stack)
      /\ Len(stack) <= MAX_UNDO_DEPTH
  BY LenProperties DEF HasStacks, IsStack
<1>2. PICK inverse : again = [i \in DOMAIN stack |->
          [tag |-> stack[i].tag, command |-> stack[i].command, inverse |-> inverse[i]]]
  <2> SUFFICES \E inverse : again = [i \in DOMAIN stack |->
          [tag |-> stack[i].tag, command |-> stack[i].command, inverse |-> inverse[i]]]
    OBVIOUS
  <2> DEFINE inverse == [i \in DOMAIN stack |-> again[i].inverse]
  <2>1. again = [i \in DOMAIN stack |->
          [tag |-> stack[i].tag, command |-> stack[i].command, inverse |-> inverse[i]]]
    BY DEF Replay
  <2> QED
    BY <2>1
<1> HIDE DEF again, stack
<1>3. /\ DOMAIN again = 1..Len(stack)
      /\ \A i \in 1..Len(stack) :
            again[i].tag = stack[i].tag /\ again[i].command = stack[i].command
  BY <1>1, <1>2
<1>4. again \in Seq({again[i] : i \in DOMAIN again})
  <2>1. again = [i \in 1..Len(stack) |-> again[i]]
    BY SMTT(60), <1>1, <1>2
  <2>2. again \in [1..Len(stack) -> {again[i] : i \in DOMAIN again}]
    BY SMTT(60), <1>3, <2>1
  <2> DEFINE S == {again[i] : i \in DOMAIN again}
  <2>3. again \in UNION {[1..n -> S] : n \in Nat}
    BY <1>1, <2>2
  <2> HIDE DEF S
  <2>4. again \in Seq(S)
    BY <2>3, SeqDef, Zenon
  <2> QED
    BY SMTT(60), <2>4 DEF S
<1>5. Len(again) = Len(stack)
  BY <1>1, <1>3, <1>4, LenProperties
<1>6. Tags(again) = Tags(stack)
  BY <1>1, <1>3 DEF Tags
<1>7. Batches(again)
  <2>1. Batches(stack)
    BY DEF HasStacks, IsStack, stack
  <2> QED
    BY <1>1, <1>3, <2>1 DEF Batches
<1> QED
  BY <1>1, <1>4, <1>5, <1>6, <1>7 DEF IsStack, again, stack

LEMMA SnapshotKeeps ==
    ASSUME NEW tab, HasStacks(tab), NEW draft
    PROVE  LET new == applyOntologyDraftSnapshot(tab, draft)
           IN  HasStacks(new) /\ Tags(tab.commandStack) \subseteq Tags(new.commandStack)
<1> DEFINE new == applyOntologyDraftSnapshot(tab, draft)
           again == Replay(tab, draft).commandStack
<1>1. IsStack(again) /\ Tags(again) = Tags(tab.commandStack)
  BY ReplayKeeps
<1>2. DOMAIN new = DOMAIN tab
  BY DEF applyOntologyDraftSnapshot
<1> HIDE DEF again
<1>3. CASE tab.commandStack # <<>>
  <2>1. new.commandStack = again /\ new.redoStack = tab.redoStack
    BY <1>3 DEF applyOntologyDraftSnapshot, HasStacks, StackFields, again
  <2> HIDE DEF new
  <2> QED
    BY <1>1, <1>2, <2>1 DEF HasStacks, new
<1>4. CASE tab.commandStack = <<>>
  <2>1. new.commandStack = tab.commandStack /\ new.redoStack = <<>>
    BY <1>4 DEF applyOntologyDraftSnapshot, HasStacks, StackFields
  <2> HIDE DEF new
  <2> QED
    BY <1>2, <2>1, EmptyIsStack DEF HasStacks, new
<1> QED
  BY <1>3, <1>4

LEMMA KeptAlone ==
    ASSUME NEW tab, HasStacks(tab), NEW f \in {"conflict", "acked"}, NEW x
    PROVE  LET new == [tab EXCEPT ![f] = x]
           IN  /\ HasStacks(new)
               /\ new.commandStack = tab.commandStack /\ new.redoStack = tab.redoStack
  BY DEF HasStacks, StackFields

\* The commands of the user's interface.
LEMMA CommandsAreBatches ==
    ASSUME NEW x, NEW y
    PROVE  /\ IsBatch(<<DeleteNodeCmd(x)>>) /\ IsBatch(<<DeleteEdgeCmd(x)>>)
           /\ IsBatch(<<[op |-> "add_node", id |-> x, label |-> y, description |-> ""]>>)
<1>1. ASSUME NEW c, c.op \in Ops \ {"create_node_type", "create_edge_type"}
      PROVE  IsBatch(<<c>>)
  <2>1. ToSet(<<c>>) = {c} /\ <<c>> \in Seq({c})
    BY DEF ToSet
  <2> QED
    BY <1>1, <2>1 DEF IsBatch
<1> QED
  BY <1>1 DEF DeleteNodeCmd, DeleteEdgeCmd, Ops

LEMMA StacksStep ==
    ASSUME Shapes, StacksCapped, AStep
    PROVE  \A t \in Tabs : /\ HasStacks(tabs'[t])
                           /\ fetches[t].kind = "accept" \/ Kept(tabs[t], tabs'[t])
<1> DEFINE Fine(u, n) == HasStacks(n) /\ (fetches[u].kind = "accept" \/ Kept(tabs[u], n))
           Good(u, n) == tabs' = [tabs EXCEPT ![u] = n] /\ Fine(u, n)
<1>0. \A t \in Tabs : HasStacks(tabs[t]) /\ Kept(tabs[t], tabs[t])
  BY DEF StacksCapped, Kept
<1>1. ASSUME NEW u \in Tabs, NEW n, Good(u, n)
      PROVE  \A t \in Tabs : Fine(t, tabs'[t])
  <2> HIDE DEF Fine
  <2>1. \A t \in Tabs : Fine(t, tabs[t])
    BY <1>0 DEF Fine
  <2> QED
    BY <1>1, <2>1 DEF Shapes
<1>2. CASE tabs' = tabs
  BY <1>0, <1>2
<1>3. ASSUME NEW t \in Tabs, Edit(t)
      PROVE  \E n : Good(t, n)
  <2>1. ASSUME NEW cmd, IsBatch(cmd), applyCommand(t, cmd) PROVE \E n : Good(t, n)
    <3>1. HasStacks(RunNew(tabs[t], edits + 1, cmd)) /\ Kept(tabs[t], RunNew(tabs[t], edits + 1, cmd))
      BY <1>0, <2>1, RunNewKeeps DEF Kept
    <3>2. Good(t, RunNew(tabs[t], edits + 1, cmd))
      BY <2>1, <3>1 DEF applyCommand, OnlyTab
    <3> QED
      BY <3>2
  <2>2. ASSUME NEW sel, deleteSelected(t, sel.node, sel.edge) PROVE \E n : Good(t, n)
    <3> DEFINE m == RunNew(tabs[t], edits + 1, <<DeleteNodeCmd(sel.node)>>)
               n == RunNew(m, edits + 2, <<DeleteEdgeCmd(sel.edge)>>)
    <3>1. /\ HasStacks(m)
          /\ Tags(tabs[t].commandStack) \subseteq Tags(m.commandStack) \/ Full(m.commandStack)
      BY <1>0, CommandsAreBatches, RunNewKeeps
    <3>2. tabs' = [tabs EXCEPT ![t] = n]
      BY <2>2 DEF deleteSelected, OnlyTab
    <3> HIDE DEF m
    <3>3. /\ HasStacks(n)
          /\ Tags(m.commandStack) \subseteq Tags(n.commandStack) \/ Full(n.commandStack)
          /\ Full(m.commandStack) => Full(n.commandStack)
      BY <3>1, CommandsAreBatches, RunNewKeeps
    <3> HIDE DEF n
    <3>4. Kept(tabs[t], n)
      BY <3>1, <3>3 DEF Kept
    <3> QED
      BY <3>2, <3>3, <3>4
  <2>3. CASE undo(t)
    <3>1. Good(t, UndoLast(tabs[t]))
      BY <1>0, <2>3, UndoKeeps DEF undo, OnlyTab
    <3> QED
      BY <3>1
  <2>4. CASE redo(t)
    <3>1. Good(t, RedoLast(tabs[t]))
      BY <1>0, <2>4, RedoKeeps DEF redo, OnlyTab
    <3> QED
      BY <3>1
  <2> QED
    BY <1>3, <2>1, <2>2, <2>3, <2>4, EditsAssumption, CommandsAreBatches DEF Edit, addNode
<1>4. ASSUME NEW t \in Tabs, Fetch(t)
      PROVE  tabs' = tabs \/ \E n : Good(t, n)
  <2> DEFINE snap == applyOntologyDraftSnapshot(tabs[t], fetches[t].draft)
             mine == [snap EXCEPT !["conflict"] = FALSE]
  <2>1. HasStacks(snap) /\ Tags(tabs[t].commandStack) \subseteq Tags(snap.commandStack)
    BY <1>0, SnapshotKeeps
  <2>2. ASSUME NEW c \in Calls, handleKeepLocal(t, c) PROVE \E n : Good(t, n)
    <3>1. tabs' = [tabs EXCEPT ![t] = mine]
      BY <2>2 DEF handleKeepLocal
    <3> HIDE DEF snap
    <3>2. HasStacks(mine) /\ mine.commandStack = snap.commandStack
      BY <2>1, KeptAlone
    <3> HIDE DEF mine
    <3>3. Kept(tabs[t], mine)
      BY <2>1, <3>2 DEF Kept
    <3> QED
      BY <3>1, <3>2, <3>3
  <2>3. CASE handleAcceptRemote(t)
    <3> DEFINE cleared == clearCommandStack(tabs[t])
               theirs == applyOntologyDraftSnapshot(cleared, fetches[t].draft)
               accepted == [theirs EXCEPT !["conflict"] = FALSE]
    <3>1. tabs' = [tabs EXCEPT ![t] = accepted] /\ fetches[t].kind = "accept"
      BY <2>3 DEF handleAcceptRemote
    <3>2. HasStacks(cleared)
      BY <1>0, EmptyIsStack DEF clearCommandStack, HasStacks, StackFields
    <3> HIDE DEF cleared
    <3>3. HasStacks(theirs)
      BY <3>2, SnapshotKeeps
    <3> HIDE DEF theirs
    <3>4. HasStacks(accepted)
      BY <3>3, KeptAlone
    <3> HIDE DEF accepted
    <3> QED
      BY <3>1, <3>4
  <2>4. CASE Reloaded(t)
    <3>1. tabs' = [tabs EXCEPT ![t] = snap]
      BY <2>4 DEF Reloaded
    <3> HIDE DEF snap
    <3>2. Kept(tabs[t], snap)
      BY <2>1 DEF Kept
    <3> QED
      BY <2>1, <3>1, <3>2
  <2> QED
    BY <1>4, <2>2, <2>3, <2>4 DEF Fetch, Refetch
<1>5. ASSUME NEW c \in Calls, Save(c)
      PROVE  tabs' = tabs \/ (calls[c].tab \in Tabs /\ \E n : Good(calls[c].tab, n))
  <2> DEFINE u == calls[c].tab
  <2>1. CASE ReceiveSaved(c)
    <3> DEFINE snap == applyOntologyDraftSnapshot(tabs[u], calls[c].draft)
               saved == [snap EXCEPT !.conflict = @ /\ calls[c].ui # "inspector",
                                     !.acked = @ \cup Tags(calls[c].entries)]
    <3>0. u \in Tabs
      BY <2>1 DEF ReceiveSaved, Shapes
    <3>1. HasStacks(snap) /\ Tags(tabs[u].commandStack) \subseteq Tags(snap.commandStack)
      BY <1>0, <3>0, SnapshotKeeps
    <3>2. tabs' = [tabs EXCEPT ![u] = saved]
      BY <2>1 DEF ReceiveSaved
    <3> HIDE DEF snap
    <3>3. HasStacks(saved) /\ saved.commandStack = snap.commandStack
      BY <3>1 DEF HasStacks, StackFields
    <3> HIDE DEF saved
    <3>4. Kept(tabs[u], saved)
      BY <3>1, <3>3 DEF Kept
    <3> QED
      BY <3>0, <3>2, <3>3, <3>4
  <2>2. CASE ReceiveConflict(c)
    <3> DEFINE told == [tabs[u] EXCEPT !["conflict"] = TRUE]
    <3>0. u \in Tabs
      BY <2>2 DEF ReceiveConflict, Shapes
    <3>1. tabs' = [tabs EXCEPT ![u] = told]
      BY <2>2, <3>0 DEF ReceiveConflict, Shapes
    <3>2. HasStacks(told) /\ told.commandStack = tabs[u].commandStack
      BY <1>0, <3>0, KeptAlone
    <3> HIDE DEF told
    <3>3. Kept(tabs[u], told)
      BY <3>2 DEF Kept
    <3> QED
      BY <3>0, <3>1, <3>2, <3>3
  <2> QED
    BY <1>5, <2>1, <2>2
       DEF Save, handleSave, ServerExecute, ServerWrite, ServerReload, ReceiveFailure
<1>6. tabs' = tabs \/ \E u \in Tabs : \E n : Good(u, n)
  <2> HIDE DEF Good
  <2> QED
    BY <1>3, <1>4, <1>5 DEF AStep, verify_element
<1> QED
  <2> HIDE DEF Good
  <2> QED
    BY <1>1, <1>2, <1>6

-----------------------------------------------------------------------------
(* Natural numbers.                                                         *)

LEMMA Least ==
    ASSUME NEW T, T \subseteq Nat, T # {}
    PROVE  \E x \in T : \A y \in T : x <= y
<1> DEFINE R == OpToRel(<, Nat)
<1>1. \E x \in T : \A y \in T : ~ (<<y, x>> \in R)
  <2>1. IsWellFoundedOn(R, Nat)
    BY NatLessThanWellFounded
  <2> HIDE DEF R
  <2> QED
    BY <2>1, WFMin
<1>2. \A x, y \in Nat : x < y => <<x, y>> \in R
  BY DEF OpToRel
<1> HIDE DEF R
<1>3. PICK x \in T : \A y \in T : ~ (<<y, x>> \in R)
  BY <1>1
<1>4. \A y \in T : ~ (y < x)
  BY <1>2, <1>3
<1> QED
  BY <1>3, <1>4

\* Induction up to n, as a fact about sets of numbers.
LEMMA Upto ==
    ASSUME NEW n \in Nat, NEW T, 0 \in T,
           \A k \in Nat : k < n /\ k \in T => k + 1 \in T
    PROVE  \A k \in 0..n : k \in T
<1> DEFINE Out == {k \in 0..n : k \notin T}
<1>1. SUFFICES ASSUME Out # {} PROVE FALSE
  OBVIOUS
<1>2. PICK x \in Out : \A y \in Out : x <= y
  <2>1. Out \subseteq Nat
    OBVIOUS
  <2> HIDE DEF Out
  <2> QED
    BY <1>1, <2>1, Least
<1>3. x # 0 /\ x - 1 \in Nat /\ x - 1 < n /\ x - 1 \notin Out
  BY <1>2
<1>4. x - 1 \in T /\ (x - 1) + 1 = x
  BY <1>3
<1> QED
  BY <1>2, <1>3, <1>4

LEMMA MinIsLeast ==
    ASSUME NEW T, T \subseteq Nat, T # {}
    PROVE  Min(T) \in T /\ \A y \in T : Min(T) <= y
  BY Least DEF Min

LEMMA Greatest ==
    ASSUME NEW n \in Nat, NEW T, T \subseteq 0..n, T # {}
    PROVE  \E x \in T : \A y \in T : y <= x
<1> DEFINE Bounds == {b \in 0..n : \A y \in T : y <= b}
<1>1. n \in Bounds /\ Bounds \subseteq Nat
  OBVIOUS
<1>2. PICK x \in Bounds : \A y \in Bounds : x <= y
  <2> HIDE DEF Bounds
  <2> QED
    BY <1>1, Least
<1>3. CASE x \in T
  BY <1>2, <1>3
<1>4. CASE x \notin T
  <2>1. x # 0
    <3>1. PICK y \in T : y <= x /\ y \in 0..n
      BY <1>2
    <3>2. y # x
      BY <1>4, <3>1
    <3> QED
      BY <1>2, <3>1, <3>2
  <2>2. x - 1 \in 0..n /\ \A y \in T : y <= x - 1
    BY <1>2, <1>4, <2>1
  <2> QED
    BY <1>2, <2>2
<1> QED
  BY <1>3, <1>4

LEMMA MaxIsGreatest ==
    ASSUME NEW n \in Nat, NEW T, T \subseteq 0..n, T # {}
    PROVE  Max(T) \in T /\ \A y \in T : y <= Max(T)
  BY Greatest DEF Max

-----------------------------------------------------------------------------
(* What commands change.                                                    *)

\* The new list has entries of the old one, and others of the given ids only.
Reworks(old, new, ids) ==
    Identified(new) /\ \A x \in ToSet(new) : x.id \in ids \/ x \in ToSet(old)

Changes(old, new, ids) ==
    /\ IsOntology(new)
    /\ Reworks(old.node_types, new.node_types, ids)
    /\ Reworks(old.edge_types, new.edge_types, ids)

LEMMA OwnSeq ==
    ASSUME NEW n \in Nat, NEW s, DOMAIN s = 1..n, s = [i \in 1..n |-> s[i]]
    PROVE  s \in Seq(ToSet(s)) /\ Len(s) = n
<1> DEFINE S == {s[i] : i \in DOMAIN s}
<1>1. s \in [1..n -> S]
  <2>1. \A i \in 1..n : s[i] \in S
    OBVIOUS
  <2> HIDE DEF S
  <2> QED
    BY <2>1
<1> HIDE DEF S
<1>2. s \in Seq(S)
  BY <1>1, SeqDef, Zenon
<1>3. ToSet(s) = S
  BY DEF ToSet, S
<1> QED
  BY <1>2, <1>3, LenProperties

LEMMA SameReworks ==
    ASSUME NEW l, Identified(l), NEW ids
    PROVE  Reworks(l, l, ids)
  BY DEF Reworks

LEMMA AppendReworks ==
    ASSUME NEW l, Identified(l), NEW x, "id" \in DOMAIN x
    PROVE  Reworks(l, Append(l, x), {x.id})
<1> DEFINE S == ToSet(l) \cup {x}
           new == Append(l, x)
<1>1. l \in Seq(S) /\ x \in S
  BY DEF Identified
<1>2. new \in Seq(S) /\ \A i \in DOMAIN new : new[i] \in S
  BY <1>1, AppendProperties, ElementOfSeq, LenProperties
<1> HIDE DEF new
<1>3. new \in Seq(ToSet(new)) /\ \A y \in ToSet(new) : y \in S
  BY <1>2 DEF ToSet
<1> QED
  BY <1>3 DEF Reworks, Identified, new

LEMMA MappedReworks ==
    ASSUME NEW l, Identified(l), NEW new, NEW id,
           new = [i \in DOMAIN l |-> new[i]],
           \A i \in DOMAIN l : IF l[i].id = id THEN "id" \in DOMAIN new[i] /\ new[i].id = id
                               ELSE new[i] = l[i]
    PROVE  Reworks(l, new, {id})
<1>1. Len(l) \in Nat /\ DOMAIN l = 1..Len(l) /\ \A i \in DOMAIN l : "id" \in DOMAIN l[i]
  BY LenProperties DEF Identified, ToSet
<1>2. new \in Seq(ToSet(new)) /\ DOMAIN new = DOMAIN l
  BY <1>1, OwnSeq
<1>3. \A x \in ToSet(new) : "id" \in DOMAIN x /\ (x.id \in {id} \/ x \in ToSet(l))
  BY <1>1, <1>2 DEF ToSet
<1> QED
  BY <1>2, <1>3 DEF Reworks, Identified

\* In a finite set of numbers there is one of each rank.
LEMMA RanksExist ==
    ASSUME NEW K, K \subseteq Nat, IsFiniteSet(K)
    PROVE  /\ Cardinality(K) \in Nat
           /\ \A k \in 1..Cardinality(K) : \E i \in K : Cardinality({j \in K : j <= i}) = k
<1> DEFINE Below(i) == {j \in K : j <= i}
           rank == [i \in K |-> Cardinality(Below(i))]
           n == Cardinality(K)
<1>1. n \in Nat
  BY FS_CardinalityType
<1>2. \A i \in K : /\ IsFiniteSet(Below(i)) /\ Cardinality(Below(i)) \in Nat
                   /\ Cardinality(Below(i)) <= n /\ Cardinality(Below(i)) # 0
  <2>1. SUFFICES ASSUME NEW i \in K
                 PROVE  /\ IsFiniteSet(Below(i)) /\ Cardinality(Below(i)) \in Nat
                        /\ Cardinality(Below(i)) <= n /\ Cardinality(Below(i)) # 0
    OBVIOUS
  <2>2. Below(i) \subseteq K /\ i \in Below(i)
    OBVIOUS
  <2> HIDE DEF Below
  <2> QED
    BY <2>2, FS_Subset, FS_CardinalityType, FS_EmptySet
<1>3. \A i, j \in K : i < j => rank[i] < rank[j]
  <2>1. SUFFICES ASSUME NEW i \in K, NEW j \in K, i < j PROVE rank[i] < rank[j]
    OBVIOUS
  <2>2. Below(i) \subseteq Below(j) /\ j \in Below(j) /\ j \notin Below(i)
    <3>1. i \in Nat /\ j \in Nat /\ \A k \in K : k \in Nat
      OBVIOUS
    <3>2. \A k \in K : k <= i => k <= j
      BY <2>1, <3>1
    <3>3. j <= j /\ ~(j <= i)
      BY <2>1, <3>1
    <3> QED
      BY <3>2, <3>3
  <2>3. /\ IsFiniteSet(Below(i)) /\ IsFiniteSet(Below(j))
        /\ Cardinality(Below(i)) \in Nat /\ Cardinality(Below(j)) \in Nat
    BY <1>2
  <2> HIDE DEF Below
  <2>4. Cardinality(Below(i)) <= Cardinality(Below(j)) /\ Cardinality(Below(i)) # Cardinality(Below(j))
    BY <2>2, <2>3, FS_Subset
  <2> QED
    BY <2>3, <2>4
<1>4. rank \in [K -> 1..n]
  <2> HIDE DEF Below
  <2> QED
    BY <1>1, <1>2
<1>5. \A i, j \in K : rank[i] = rank[j] => i = j
  <2> HIDE DEF rank
  <2>1. \A i \in K : rank[i] \in Nat
    BY <1>1, <1>4
  <2> QED
    BY <1>3, <2>1
<1> DEFINE R == {rank[i] : i \in K}
<1>6. R \subseteq 1..n /\ IsFiniteSet(R)
  <2>1. R \subseteq 1..n
    <3> HIDE DEF rank
    <3> QED
      BY <1>4
  <2>2. IsFiniteSet(1..n)
    BY <1>1, FS_Interval
  <2> HIDE DEF R
  <2> QED
    BY <2>1, <2>2, FS_Subset
<1>7. Cardinality(R) = n
  <2>1. rank \in Bijection(K, R)
    <3> HIDE DEF rank
    <3>1. rank \in [K -> R]
      BY <1>4
    <3> QED
      BY <1>5, <3>1 DEF Bijection, Injection, Surjection, IsInjective
  <2>2. ExistsBijection(K, R)
    BY <2>1 DEF ExistsBijection
  <2> HIDE DEF R, rank
  <2> QED
    BY <1>6, <2>2, FS_Bijection
<1>8. R = 1..n
  <2>1. IsFiniteSet(1..n) /\ Cardinality(1..n) = n
    BY <1>1, FS_Interval
  <2> HIDE DEF R
  <2> QED
    BY <1>6, <1>7, <2>1, FS_Subset
<1> QED
  BY <1>1, <1>8

LEMMA PickedReworks ==
    ASSUME NEW l, Identified(l), NEW K, K \subseteq DOMAIN l
    PROVE  Reworks(l, Picked(l, K), {})
<1> DEFINE n == Cardinality(K)
           At(k) == CHOOSE i \in K : Cardinality({j \in K : j <= i}) = k
           new == Picked(l, K)
<1>1. Len(l) \in Nat /\ DOMAIN l = 1..Len(l)
  BY LenProperties DEF Identified
<1>2. K \subseteq Nat /\ IsFiniteSet(K)
  <2>1. IsFiniteSet(1..Len(l))
    BY <1>1, FS_Interval
  <2> QED
    BY <1>1, <2>1, FS_Subset
<1>3. n \in Nat /\ \A k \in 1..n : At(k) \in K
  BY <1>2, RanksExist
<1>4. new = [k \in 1..n |-> l[At(k)]]
  BY DEF Picked
<1> HIDE DEF n, At, new
<1>5. DOMAIN new = 1..n /\ new = [k \in 1..n |-> new[k]] /\ \A k \in 1..n : new[k] \in ToSet(l)
  BY <1>3, <1>4 DEF ToSet
<1>6. new \in Seq(ToSet(new)) /\ ToSet(new) \subseteq ToSet(l)
  BY <1>3, <1>5, OwnSeq DEF ToSet
<1> QED
  BY <1>6 DEF Reworks, Identified, new

\* A change keeps what it does not name, so changes compose.
LEMMA ReworksChain ==
    ASSUME NEW a, NEW b, NEW c, NEW I, NEW J, Reworks(a, b, I), Reworks(b, c, J)
    PROVE  Reworks(a, c, I \cup J)
  BY DEF Reworks

LEMMA ReworksMore ==
    ASSUME NEW a, NEW b, NEW I, NEW J, I \subseteq J, Reworks(a, b, I)
    PROVE  Reworks(a, b, J)
  BY DEF Reworks

LEMMA ChangesChain ==
    ASSUME NEW a, NEW b, NEW c, NEW I, NEW J, Changes(a, b, I), Changes(b, c, J)
    PROVE  Changes(a, c, I \cup J)
  BY ReworksChain DEF Changes

LEMMA FoundHas ==
    ASSUME NEW l, Identified(l), NEW id, id \in Ids(l)
    PROVE  "id" \in DOMAIN Find(l, id) /\ Find(l, id).id = id
<1>1. Len(l) \in Nat /\ DOMAIN l = 1..Len(l) /\ \A i \in DOMAIN l : "id" \in DOMAIN l[i]
  BY LenProperties DEF Identified, ToSet
<1>2. \E i \in 1..Len(l) : l[i].id = id
  BY <1>1 DEF Ids
<1>3. /\ SelectInSeq(l, LAMBDA x : x.id = id) \in 1..Len(l)
      /\ l[SelectInSeq(l, LAMBDA x : x.id = id)].id = id
  <2> DEFINE I == {i \in 1..Len(l) : l[i].id = id}
  <2>1. I # {} /\ I \subseteq Nat
    BY <1>1, <1>2
  <2>2. SelectInSeq(l, LAMBDA x : x.id = id) = IF I # {} THEN Min(I) ELSE 0
    BY DEF SelectInSeq
  <2>3. Min(I) \in I
    <3> HIDE DEF I
    <3> QED
      BY <2>1, MinIsLeast
  <2> QED
    BY <2>1, <2>2, <2>3
<1> QED
  BY <1>1, <1>3 DEF Find

SetsField(l, new, id, f, v) ==
    new = [i \in DOMAIN l |-> IF l[i].id = id THEN [l[i] EXCEPT ![f] = v[i]] ELSE l[i]]

\* Setting one field of an entry keeps its id.
LEMMA FieldReworks ==
    ASSUME NEW l, Identified(l), NEW id, NEW f, f # "id", NEW v, NEW new,
           SetsField(l, new, id, f, v)
    PROVE  Reworks(l, new, {id})
<1>1. \A i \in DOMAIN l : "id" \in DOMAIN l[i]
  BY DEF Identified, ToSet
<1>2. new = [i \in DOMAIN l |-> new[i]]
  BY DEF SetsField
<1>3. ASSUME NEW i \in DOMAIN l
      PROVE  IF l[i].id = id THEN "id" \in DOMAIN new[i] /\ new[i].id = id ELSE new[i] = l[i]
  BY <1>1 DEF SetsField
<1> QED
  BY <1>2, <1>3, MappedReworks

\* The ontology with other lists of definitions.
LEMMA ListsChange ==
    ASSUME NEW o, IsOntology(o), NEW new, DOMAIN new = DOMAIN o, NEW ids,
           Reworks(o.node_types, new.node_types, ids), Reworks(o.edge_types, new.edge_types, ids)
    PROVE  Changes(o, new, ids)
  BY DEF Changes, IsOntology, Reworks

Refines(r, o, ids) == r.ok => Changes(o, r.ont, ids)

LEMMA WhenRefines ==
    ASSUME NEW cond, NEW o, NEW new, NEW inverse, NEW ids, cond => Changes(o, new, ids)
    PROVE  Refines(When(cond, Ok(new, inverse)), o, ids)
  BY DEF Refines, When, Ok, Err

LEMMA UntouchedRefines ==
    ASSUME NEW o, IsOntology(o), NEW list, list \notin {"node_types", "edge_types"},
           NEW x, NEW ids
    PROVE  Changes(o, [o EXCEPT ![list] = x], ids)
<1> DEFINE new == [o EXCEPT ![list] = x]
<1>1. /\ DOMAIN new = DOMAIN o
      /\ new.node_types = o.node_types /\ new.edge_types = o.edge_types
  BY DEF IsOntology
<1>2. /\ Reworks(o.node_types, new.node_types, ids)
      /\ Reworks(o.edge_types, new.edge_types, ids)
  BY <1>1, SameReworks DEF IsOntology
<1> QED
  BY <1>1, <1>2, ListsChange

LEMMA OneListChanges ==
    ASSUME NEW o, IsOntology(o), NEW list \in {"node_types", "edge_types"},
           NEW x, NEW ids, Reworks(o[list], x, ids)
    PROVE  Changes(o, [o EXCEPT ![list] = x], ids)
<1> DEFINE new == [o EXCEPT ![list] = x]
<1>1. DOMAIN new = DOMAIN o
  OBVIOUS
<1>2. CASE list = "node_types"
  <2>1. new.node_types = x /\ new.edge_types = o.edge_types
    BY <1>2 DEF IsOntology
  <2> HIDE DEF new
  <2> QED
    BY <1>1, <1>2, <2>1, SameReworks, ListsChange DEF IsOntology, new
<1>3. CASE list = "edge_types"
  <2>1. new.edge_types = x /\ new.node_types = o.node_types
    BY <1>3 DEF IsOntology
  <2> HIDE DEF new
  <2> QED
    BY <1>1, <1>3, <2>1, SameReworks, ListsChange DEF IsOntology, new
<1> QED
  BY <1>2, <1>3

LEMMA FieldChanges ==
    ASSUME NEW o, IsOntology(o), NEW list \in {"node_types", "edge_types"},
           NEW id, NEW f, f # "id", NEW v, NEW new,
           SetsField(o[list], new, id, f, v)
    PROVE  Changes(o, [o EXCEPT ![list] = new], {id})
<1>1. Identified(o[list])
  BY DEF IsOntology
<1>2. Reworks(o[list], new, {id})
  BY <1>1, FieldReworks
<1> QED
  BY <1>2, OneListChanges

\* The commands that set one field of a definition.
LEMMA FieldCommandsRefine ==
    ASSUME NEW o, IsOntology(o), NEW c
    PROVE  /\ Refines(RenameNode(o, c), o, {c.node_id})
           /\ Refines(UpdateNodeDescription(o, c), o, {c.node_id})
           /\ Refines(UpdateEdgeCardinality(o, c), o, {c.edge_id})
           /\ Refines(UpdateEdgeDescription(o, c), o, {c.edge_id})
<1> DEFINE Set(list, id, f, x) ==
        [o EXCEPT ![list] = MapById(@, id, LAMBDA y : [y EXCEPT ![f] = x])]
<1>1. ASSUME NEW list \in {"node_types", "edge_types"}, NEW id, NEW f, f # "id", NEW x
      PROVE  Changes(o, Set(list, id, f, x), {id})
  <2> DEFINE v == [i \in DOMAIN o[list] |-> x]
             new == MapById(o[list], id, LAMBDA y : [y EXCEPT ![f] = x])
  <2>1. Set(list, id, f, x) = [o EXCEPT ![list] = new]
    OBVIOUS
  <2>2. Changes(o, [o EXCEPT ![list] = new], {id})
    <3>1. SetsField(o[list], new, id, f, v)
      BY DEF MapById, SetsField
    <3> HIDE DEF v, new
    <3> QED
      BY <1>1, <3>1, FieldChanges
  <2> QED
    BY <2>1, <2>2
<1>2. /\ Changes(o, Set("node_types", c.node_id, "label", c.new_label), {c.node_id})
      /\ Changes(o, Set("node_types", c.node_id, "description", c.description), {c.node_id})
      /\ Changes(o, Set("edge_types", c.edge_id, "cardinality", c.cardinality), {c.edge_id})
      /\ Changes(o, Set("edge_types", c.edge_id, "description", c.description), {c.edge_id})
  <2> HIDE DEF Set
  <2> QED
    BY <1>1
<1>3. Refines(RenameNode(o, c), o, {c.node_id})
  BY <1>2, WhenRefines DEF RenameNode
<1>4. Refines(UpdateNodeDescription(o, c), o, {c.node_id})
  BY <1>2, WhenRefines DEF UpdateNodeDescription
<1>5. Refines(UpdateEdgeCardinality(o, c), o, {c.edge_id})
  BY <1>2, WhenRefines DEF UpdateEdgeCardinality
<1>6. Refines(UpdateEdgeDescription(o, c), o, {c.edge_id})
  BY <1>2, WhenRefines DEF UpdateEdgeDescription
<1> QED
  BY <1>3, <1>4, <1>5, <1>6

\* The commands that add a definition.
LEMMA CreatesRefine ==
    ASSUME NEW o, IsOntology(o), NEW x, "id" \in DOMAIN x
    PROVE  /\ Refines(CreateNodeType(o, x), o, {x.id})
           /\ Refines(CreateEdgeType(o, x), o, {x.id})
<1>1. ASSUME NEW list \in {"node_types", "edge_types"}
      PROVE  Changes(o, [o EXCEPT ![list] = Append(@, x)], {x.id})
  <2>1. Reworks(o[list], Append(o[list], x), {x.id})
    BY AppendReworks DEF IsOntology
  <2>2. Changes(o, [o EXCEPT ![list] = Append(o[list], x)], {x.id})
    BY <2>1, OneListChanges
  <2> QED
    BY <2>2
<1>2. /\ Changes(o, [o EXCEPT !.node_types = Append(@, x)], {x.id})
      /\ Changes(o, [o EXCEPT !.edge_types = Append(@, x)], {x.id})
  BY <1>1
<1>3. Refines(CreateNodeType(o, x), o, {x.id})
  BY <1>2, WhenRefines DEF CreateNodeType
<1>4. Refines(CreateEdgeType(o, x), o, {x.id})
  BY <1>2, WhenRefines DEF CreateEdgeType
<1> QED
  BY <1>3, <1>4

\* A command that writes a list of another kind leaves the definitions alone.
LEMMA OtherListsRefine ==
    ASSUME NEW o, IsOntology(o), NEW c, NEW ids
    PROVE  /\ Refines(AddIndex(o, c), o, ids) /\ Refines(RemoveIndex(o, c), o, ids)
           /\ \A list \in {"object_mappings", "link_mappings"} :
                 /\ Refines(CreateMapping(o, list, c.mapping), o, ids)
                 /\ Refines(UpdateMapping(o, list, c), o, ids)
                 /\ Refines(DeleteMapping(o, list, c), o, ids)
<1>1. \A list \in {"indexes", "object_mappings", "link_mappings"} : \A x :
          Changes(o, [o EXCEPT ![list] = x], ids)
  BY UntouchedRefines
<1>2. Refines(AddIndex(o, c), o, ids)
  <2>1. Changes(o, [o EXCEPT !.indexes = Append(@, c.index)], ids)
    BY <1>1
  <2> QED
    BY <2>1, WhenRefines DEF AddIndex
<1>3. Refines(RemoveIndex(o, c), o, ids)
  <2>1. Changes(o, [o EXCEPT !.indexes = Retain(@, LAMBDA i : i.id # c.index_id)], ids)
    BY <1>1
  <2> QED
    BY <2>1, WhenRefines DEF RemoveIndex
<1>4. ASSUME NEW list \in {"object_mappings", "link_mappings"}
      PROVE  /\ Refines(CreateMapping(o, list, c.mapping), o, ids)
             /\ Refines(UpdateMapping(o, list, c), o, ids)
             /\ Refines(DeleteMapping(o, list, c), o, ids)
  <2>1. /\ Changes(o, [o EXCEPT ![list] = Append(@, c.mapping)], ids)
        /\ Changes(o, [o EXCEPT ![list] = MapById(@, c.id, LAMBDA m : c.mapping)], ids)
        /\ Changes(o, [o EXCEPT ![list] = Retain(@, LAMBDA m : m.id # c.id)], ids)
    BY <1>1
  <2>2. Refines(CreateMapping(o, list, c.mapping), o, ids)
    BY <2>1, WhenRefines DEF CreateMapping
  <2>3. Refines(UpdateMapping(o, list, c), o, ids)
    BY <2>1, WhenRefines DEF UpdateMapping
  <2>4. Refines(DeleteMapping(o, list, c), o, ids)
    BY <2>1, WhenRefines DEF DeleteMapping
  <2> QED
    BY <2>2, <2>3, <2>4
<1> QED
  BY <1>2, <1>3, <1>4

LEMMA RenameEdgeRefines ==
    ASSUME NEW o, IsOntology(o), NEW c
    PROVE  Refines(RenameEdge(o, c), o, {c.edge_id})
<1> DEFINE l == o.edge_types
           old == Find(l, c.edge_id)
           new == [old EXCEPT !.label = c.new_label]
           m == MapById(l, c.edge_id, LAMBDA e : new)
<1>1. ASSUME c.edge_id \in Ids(l)
      PROVE  Changes(o, [o EXCEPT !.edge_types = m], {c.edge_id})
  <2>1. Identified(l)
    BY DEF IsOntology
  <2>2. "id" \in DOMAIN old /\ old.id = c.edge_id
    BY <1>1, <2>1, FoundHas
  <2>3. "id" \in DOMAIN new /\ new.id = c.edge_id
    <3> HIDE DEF old
    <3> QED
      BY <2>2
  <2>4. m = [i \in DOMAIN l |-> IF l[i].id = c.edge_id THEN new ELSE l[i]]
    BY DEF MapById
  <2> HIDE DEF m, new
  <2>5. Reworks(l, m, {c.edge_id})
    <3> HIDE DEF l
    <3>1. m = [i \in DOMAIN l |-> m[i]]
      BY <2>4
    <3>2. \A i \in DOMAIN l : IF l[i].id = c.edge_id THEN "id" \in DOMAIN m[i] /\ m[i].id = c.edge_id
                              ELSE m[i] = l[i]
      BY <2>3, <2>4
    <3> QED
      BY <2>1, <3>1, <3>2, MappedReworks
  <2>6. Changes(o, [o EXCEPT !["edge_types"] = m], {c.edge_id})
    BY <2>5, OneListChanges
  <2> QED
    BY <2>6
<1>2. RenameEdge(o, c) =
          When(/\ c.edge_id \in Ids(l)
               /\ \A e \in ToSet(l) : Signature(e) = Signature(new) => e.id = c.edge_id,
               Ok([o EXCEPT !.edge_types = m], <<[c EXCEPT !.new_label = old.label]>>))
  BY DEF RenameEdge
<1> HIDE DEF l, m, new, old
<1> QED
  BY ZenonT(60), <1>1, <1>2, WhenRefines

LEMMA RetainedReworks ==
    ASSUME NEW o, IsOntology(o), NEW id
    PROVE  /\ Reworks(o.node_types, Retain(o.node_types, LAMBDA n : n.id # id), {id})
           /\ Reworks(o.edge_types, Retain(o.edge_types, LAMBDA e : e.id # id), {id})
           /\ Reworks(o.edge_types, Retain(o.edge_types,
                          LAMBDA e : ~ (id \in {e.source_node_id, e.target_node_id})), {id})
<1>1. ASSUME NEW l, Identified(l), NEW K, K \subseteq DOMAIN l
      PROVE  Reworks(l, Picked(l, K), {id})
  <2>1. Reworks(l, Picked(l, K), {})
    BY <1>1, PickedReworks
  <2> QED
    BY <2>1, ReworksMore
<1>2. Identified(o.node_types) /\ Identified(o.edge_types)
  BY DEF IsOntology
<1> QED
  BY <1>1, <1>2 DEF Retain

LEMMA DeletesRefine ==
    ASSUME NEW o, IsOntology(o), NEW c
    PROVE  /\ Refines(DeleteNode(o, c), o, {c.node_id})
           /\ Refines(DeleteEdge(o, c), o, {c.edge_id})
<1>1. ASSUME NEW new, DOMAIN new = DOMAIN o, NEW id,
             Reworks(o.node_types, new.node_types, {id}), Reworks(o.edge_types, new.edge_types, {id})
      PROVE  Changes(o, new, {id})
  BY <1>1, ListsChange
<1>2. /\ {"node_types", "edge_types"} \subseteq DOMAIN o
      /\ Reworks(o.node_types, o.node_types, {c.edge_id})
  BY SameReworks DEF IsOntology
<1>3. ASSUME NEW ns, NEW es, NEW ls, NEW is, NEW ms,
             Reworks(o.node_types, ns, {c.node_id}), Reworks(o.edge_types, es, {c.node_id})
      PROVE  Changes(o, [o EXCEPT !.node_types = ns, !.edge_types = es, !.link_mappings = ls,
                                  !.indexes = is, !.object_mappings = ms], {c.node_id})
  <2> DEFINE new == [o EXCEPT !.node_types = ns, !.edge_types = es, !.link_mappings = ls,
                              !.indexes = is, !.object_mappings = ms]
  <2>1. DOMAIN new = DOMAIN o /\ new.node_types = ns /\ new.edge_types = es
    BY <1>2
  <2> HIDE DEF new
  <2>2. Changes(o, new, {c.node_id})
    BY <1>1, <1>3, <2>1
  <2> QED
    BY <2>2 DEF new
<1>4. ASSUME NEW es, NEW ls, Reworks(o.edge_types, es, {c.edge_id})
      PROVE  Changes(o, [o EXCEPT !.edge_types = es, !.link_mappings = ls], {c.edge_id})
  <2> DEFINE new == [o EXCEPT !.edge_types = es, !.link_mappings = ls]
  <2>1. DOMAIN new = DOMAIN o /\ new.node_types = o.node_types /\ new.edge_types = es
    BY <1>2
  <2> HIDE DEF new
  <2>2. Changes(o, new, {c.edge_id})
    BY <1>1, <1>2, <1>4, <2>1
  <2> QED
    BY <2>2 DEF new
<1>5. Refines(DeleteNode(o, c), o, {c.node_id})
  <2> DEFINE Incident(e) == c.node_id \in {e.source_node_id, e.target_node_id}
             edges == Retain(o.edge_types, Incident)
             links == Retain(o.link_mappings, LAMBDA m : m.edge_type_id \in Ids(edges))
             idxs == Retain(o.indexes, LAMBDA i : i.node_id = c.node_id)
             objs == Retain(o.object_mappings, LAMBDA m : m.node_type_id = c.node_id)
             ns == Retain(o.node_types, LAMBDA n : n.id # c.node_id)
             es == Retain(o.edge_types, LAMBDA e : ~Incident(e))
             ls == Retain(o.link_mappings, LAMBDA m : m \notin ToSet(links))
             is == Retain(o.indexes, LAMBDA i : i \notin ToSet(idxs))
             ms == Retain(o.object_mappings, LAMBDA m : m \notin ToSet(objs))
             new == [o EXCEPT !.node_types = ns, !.edge_types = es, !.link_mappings = ls,
                              !.indexes = is, !.object_mappings = ms]
             inverse == <<CreateNodeCmd(Find(o.node_types, c.node_id))>>
                        \o Each(edges, CreateEdgeCmd) \o Each(idxs, AddIndexCmd)
                        \o Each(objs, CreateObjectMappingCmd) \o Each(links, CreateLinkMappingCmd)
  <2>1. Reworks(o.node_types, ns, {c.node_id}) /\ Reworks(o.edge_types, es, {c.node_id})
    BY RetainedReworks
  <2>2. DeleteNode(o, c) = When(c.node_id \in Ids(o.node_types), Ok(new, inverse))
    BY Zenon DEF DeleteNode
  <2>3. Changes(o, new, {c.node_id})
    <3> HIDE DEF ns, es, ls, is, ms
    <3> QED
      BY <1>3, <2>1
  <2> HIDE DEF new, inverse
  <2> QED
    BY <2>2, <2>3, WhenRefines
<1>6. Refines(DeleteEdge(o, c), o, {c.edge_id})
  <2> DEFINE links == Retain(o.link_mappings, LAMBDA m : m.edge_type_id = c.edge_id)
             es == Retain(o.edge_types, LAMBDA e : e.id # c.edge_id)
             ls == Retain(o.link_mappings, LAMBDA m : m \notin ToSet(links))
             new == [o EXCEPT !.edge_types = es, !.link_mappings = ls]
             inverse == <<CreateEdgeCmd(Find(o.edge_types, c.edge_id))>>
                        \o Each(links, CreateLinkMappingCmd)
  <2>1. Reworks(o.edge_types, es, {c.edge_id})
    BY RetainedReworks
  <2>2. DeleteEdge(o, c) = When(c.edge_id \in Ids(o.edge_types), Ok(new, inverse))
    BY Zenon DEF DeleteEdge
  <2>3. Changes(o, new, {c.edge_id})
    <3> HIDE DEF es, ls
    <3> QED
      BY <1>4, <2>1
  <2> HIDE DEF new, inverse
  <2> QED
    BY <2>2, <2>3, WhenRefines
<1> QED
  BY <1>5, <1>6

LEMMA ConstraintsRefine ==
    ASSUME NEW o, IsOntology(o), NEW c
    PROVE  /\ Refines(AddConstraint(o, c), o, {c.node_id})
           /\ Refines(RemoveConstraint(o, c), o, {c.node_id})
<1> DEFINE l == o.node_types
           more == MapById(l, c.node_id,
                       LAMBDA n : [n EXCEPT !.constraints = Append(@, c.constraint)])
           less == MapById(l, c.node_id, LAMBDA n : [n EXCEPT !.constraints =
                                            Retain(@, LAMBDA x : x.id # c.constraint_id)])
<1>1. Changes(o, [o EXCEPT !["node_types"] = more], {c.node_id})
  <2> DEFINE v == [i \in DOMAIN l |-> Append(l[i].constraints, c.constraint)]
  <2>1. SetsField(l, more, c.node_id, "constraints", v)
    BY DEF SetsField, MapById
  <2> HIDE DEF v, more
  <2> QED
    BY <2>1, FieldChanges
<1>2. Changes(o, [o EXCEPT !["node_types"] = less], {c.node_id})
  <2> DEFINE v == [i \in DOMAIN l |-> Retain(l[i].constraints, LAMBDA x : x.id # c.constraint_id)]
  <2>1. SetsField(l, less, c.node_id, "constraints", v)
    BY DEF SetsField, MapById
  <2> HIDE DEF v, less
  <2> QED
    BY <2>1, FieldChanges
<1>3. Refines(AddConstraint(o, c), o, {c.node_id})
  <2>1. \E cond, inverse : AddConstraint(o, c) = When(cond, Ok([o EXCEPT !["node_types"] = more], inverse))
    BY Zenon DEF AddConstraint
  <2> HIDE DEF more
  <2> QED
    BY <1>1, <2>1, WhenRefines
<1>4. Refines(RemoveConstraint(o, c), o, {c.node_id})
  <2>1. \E cond, inverse : RemoveConstraint(o, c) = When(cond, Ok([o EXCEPT !["node_types"] = less], inverse))
    BY Zenon DEF RemoveConstraint
  <2> HIDE DEF less
  <2> QED
    BY <1>2, <2>1, WhenRefines
<1> QED
  BY <1>3, <1>4

LEMMA PropertiesRefine ==
    ASSUME NEW o, IsOntology(o), NEW c
    PROVE  /\ Refines(AddProperty(o, c), o, {c.owner.type_id})
           /\ Refines(DeleteProperty(o, c), o, {c.owner.type_id})
           /\ Refines(UpdateProperty(o, c), o, {c.owner.type_id})
<1> DEFINE id == c.owner.type_id
<1>1. ASSUME NEW ps
      PROVE  Changes(o, WithProperties(o, c.owner, ps), {id})
  <2> DEFINE list == Collection(c.owner)
             new == MapById(o[list], id, LAMBDA x : [x EXCEPT !.properties = ps])
             v == [i \in DOMAIN o[list] |-> ps]
  <2>1. list \in {"node_types", "edge_types"}
    BY DEF Collection
  <2>2. SetsField(o[list], new, id, "properties", v)
    BY DEF SetsField, MapById
  <2>3. WithProperties(o, c.owner, ps) = [o EXCEPT ![list] = new]
    BY DEF WithProperties
  <2>4. Changes(o, [o EXCEPT ![list] = new], {id})
    <3> HIDE DEF v, new, list, id
    <3> QED
      BY <2>1, <2>2, FieldChanges
  <2> HIDE DEF new, list
  <2> QED
    BY <2>3, <2>4
<1>2. ASSUME NEW a, NEW b, NEW d, Changes(a, b, {id}), Changes(b, d, {id})
      PROVE  Changes(a, d, {id})
  <2>1. Changes(a, d, {id} \cup {id})
    <3> HIDE DEF id
    <3> QED
      BY <1>2, ChangesChain
  <2> QED
    BY Zenon, <2>1, \A S : S \cup S = S
<1>3. Refines(AddProperty(o, c), o, {id})
  BY <1>1, WhenRefines DEF AddProperty
<1>4. Refines(UpdateProperty(o, c), o, {id})
  BY <1>1, WhenRefines DEF UpdateProperty
<1>5. Refines(DeleteProperty(o, c), o, {id})
  <2> DEFINE pid == c.property_id
             Uses(x) == pid \in ToSet(x.property_ids)
             cs == IF c.owner.kind = "node" THEN Retain(Find(o.node_types, id).constraints, Uses)
                   ELSE <<>>
             idxs == Retain(o.indexes, LAMBDA i : i.node_id = id /\ Uses(i))
             Touched(m) == /\ c.owner.kind = "node" /\ m.node_type_id = id
                           /\ pid \in ToSet(m.property_mappings)
             ps == Retain(OwnerProperties(o, c.owner), LAMBDA p : p.id # pid)
             w == WithProperties(o, c.owner, ps)
             fewer == MapById(w.node_types, id, LAMBDA n :
                          [n EXCEPT !.constraints = Retain(@, LAMBDA x : x \notin ToSet(cs))])
             w1 == [w EXCEPT !["node_types"] = fewer]
             w2 == [w1 EXCEPT !["indexes"] = Retain(@, LAMBDA i : i \notin ToSet(idxs))]
             new == [w2 EXCEPT !["object_mappings"] = [k \in DOMAIN @ |->
                        IF Touched(@[k]) THEN Unmap(@[k], pid) ELSE @[k]]]
  <2>1. \E cond, inverse : DeleteProperty(o, c) = When(cond, Ok(new, inverse))
    BY ZenonT(60) DEF DeleteProperty
  <2>2. Changes(o, w, {id}) /\ IsOntology(w)
    <3>1. Changes(o, w, {id})
      <4> HIDE DEF ps
      <4> QED
        BY <1>1
    <3> QED
      BY <3>1 DEF Changes
  <2>3. Changes(w, w1, {id}) /\ IsOntology(w1)
    <3> DEFINE v == [i \in DOMAIN w.node_types |->
                        Retain(w.node_types[i].constraints, LAMBDA x : x \notin ToSet(cs))]
    <3>1. SetsField(w.node_types, fewer, id, "constraints", v)
      BY DEF SetsField, MapById
    <3> HIDE DEF w, v, fewer, id
    <3>2. Changes(w, w1, {id})
      BY <2>2, <3>1, FieldChanges
    <3> QED
      BY <3>2 DEF Changes
  <2> HIDE DEF w1
  <2>4. Changes(w1, w2, {id}) /\ IsOntology(w2)
    <3>1. Changes(w1, w2, {id})
      BY <2>3, UntouchedRefines
    <3> QED
      BY <3>1 DEF Changes
  <2> HIDE DEF w2
  <2>5. Changes(w2, new, {id})
    BY <2>4, UntouchedRefines
  <2> HIDE DEF new, w
  <2>6. Changes(o, new, {id})
    BY <1>2, <2>2, <2>3, <2>4, <2>5
  <2> QED
    BY <2>1, <2>6, WhenRefines
<1> QED
  BY <1>3, <1>4, <1>5

\* A command changes the definitions it names, and no others.
LEMMA OneRefines ==
    ASSUME NEW o, IsOntology(o), NEW c, c.op \in Ops,
           c.op = "create_node_type" => "id" \in DOMAIN c.node,
           c.op = "create_edge_type" => "id" \in DOMAIN c.edge
    PROVE  Refines(ExecuteOne(o, c), o, AffectedOne(c))
<1>1. CASE c.op \in {"add_node", "create_node_type", "add_edge", "create_edge_type"}
  <2>1. /\ "id" \in DOMAIN NewNode(c) /\ NewNode(c).id = c.id
        /\ "id" \in DOMAIN NewEdge(c) /\ NewEdge(c).id = c.id
    BY DEF NewNode, NewEdge
  <2>2. CASE c.op = "add_node"
    BY <2>1, <2>2, CreatesRefine DEF ExecuteOne, AffectedOne, AddNode
  <2>3. CASE c.op = "create_node_type"
    BY <2>3, CreatesRefine DEF ExecuteOne, AffectedOne
  <2>4. CASE c.op = "add_edge"
    BY <2>1, <2>4, CreatesRefine DEF ExecuteOne, AffectedOne, AddEdge
  <2>5. CASE c.op = "create_edge_type"
    BY <2>5, CreatesRefine DEF ExecuteOne, AffectedOne
  <2> QED
    BY <1>1, <2>2, <2>3, <2>4, <2>5
<1>2. CASE c.op \in {"delete_node", "delete_edge"}
  BY <1>2, DeletesRefine DEF ExecuteOne, AffectedOne
<1>3. CASE c.op \in {"rename_node", "update_node_description", "update_edge_cardinality",
                     "update_edge_description"}
  BY <1>3, FieldCommandsRefine DEF ExecuteOne, AffectedOne
<1>4. CASE c.op = "rename_edge"
  BY <1>4, RenameEdgeRefines DEF ExecuteOne, AffectedOne
<1>5. CASE c.op \in {"add_property", "delete_property", "update_property"}
  BY <1>5, PropertiesRefine DEF ExecuteOne, AffectedOne
<1>6. CASE c.op \in {"add_constraint", "remove_constraint"}
  BY <1>6, ConstraintsRefine DEF ExecuteOne, AffectedOne
<1>7. CASE c.op \in {"add_index", "remove_index"}
  BY <1>7, OtherListsRefine DEF ExecuteOne
<1>8. CASE c.op \in {"create_object_mapping", "update_object_mapping", "delete_object_mapping",
                     "create_link_mapping", "update_link_mapping", "delete_link_mapping"}
  BY <1>8, OtherListsRefine DEF ExecuteOne
<1> QED
  BY <1>1, <1>2, <1>3, <1>4, <1>5, <1>6, <1>7, <1>8 DEF Ops

-----------------------------------------------------------------------------
(* A batch is a fold of its commands, and a save is a fold of its batches.  *)

StepOf(kind, acc, x) ==
    IF kind = "batch" THEN IF acc.ok THEN Then(acc, ExecuteOne(acc.ont, x)) ELSE acc
    ELSE IF kind = "browser" THEN FeThen(acc, FeApplyOne(acc.ont, x))
    ELSE When(acc.ok, execute(acc.ont, x.command))

\* What a fold from the left has made of each set of places.
Folding(f, kind, base, s) ==
    [T \in SUBSET (DOMAIN s) |->
        IF T = {} THEN base ELSE StepOf(kind, f[T \ {Max(T)}], s[Max(T)])]

LEMMA PlacesFinite ==
    ASSUME NEW n \in Nat, NEW T \in SUBSET (1..n)
    PROVE  /\ IsFiniteSet(T) /\ Cardinality(T) \in Nat /\ (Cardinality(T) <= 0 => T = {})
           /\ Cardinality(T) <= Cardinality(1..n) /\ Cardinality(1..n) \in Nat
<1>1. IsFiniteSet(1..n)
  BY FS_Interval
<1>2. IsFiniteSet(T) /\ Cardinality(T) <= Cardinality(1..n)
  BY <1>1, FS_Subset
<1>3. Cardinality(T) \in Nat /\ Cardinality(1..n) \in Nat /\ (Cardinality(T) = 0 => T = {})
  BY <1>1, <1>2, FS_CardinalityType, FS_EmptySet
<1> QED
  BY <1>2, <1>3

LEMMA MaxOut ==
    ASSUME NEW n \in Nat, NEW T \in SUBSET (1..n), T # {}
    PROVE  /\ Max(T) \in T /\ Max(T) \in 1..n /\ T \ {Max(T)} \in SUBSET (1..n)
           /\ IsFiniteSet(T) /\ Cardinality(T) \in Nat \ {0}
           /\ Cardinality(T \ {Max(T)}) = Cardinality(T) - 1
<1>1. IsFiniteSet(T) /\ Max(T) \in T
  <2>1. T \subseteq 0..n /\ IsFiniteSet(1..n)
    BY FS_Interval
  <2> QED
    BY <2>1, MaxIsGreatest, FS_Subset
<1> QED
  BY <1>1, FS_RemoveElement, FS_CardinalityType, FS_EmptySet

\* Induction over the sets of places, the last place taken out each time.
LEMMA OverPlaces ==
    ASSUME NEW n \in Nat, NEW P, {} \in P,
           \A T \in SUBSET (1..n) : T # {} /\ T \ {Max(T)} \in P => T \in P
    PROVE  1..n \in P
<1> DEFINE Sizes == {m \in Nat : \A T \in SUBSET (1..n) : Cardinality(T) <= m => T \in P}
<1>0. /\ \A T \in SUBSET (1..n) : Cardinality(T) \in Nat /\ (Cardinality(T) <= 0 => T = {})
      /\ Cardinality(1..n) \in Nat
  BY PlacesFinite
<1>1. 0 \in Sizes
  BY <1>0
<1>2. ASSUME NEW m \in Nat, m \in Sizes PROVE m + 1 \in Sizes
  <2>1. SUFFICES ASSUME NEW T \in SUBSET (1..n), Cardinality(T) <= m + 1 PROVE T \in P
    OBVIOUS
  <2>2. T # {} => T \ {Max(T)} \in SUBSET (1..n) /\ Cardinality(T \ {Max(T)}) <= m
    BY SMTT(60), <2>1, MaxOut
  <2> QED
    BY <1>2, <2>1, <2>2
<1>3. \A k \in 0..Cardinality(1..n) : k \in Sizes
  <2> HIDE DEF Sizes
  <2> QED
    BY <1>0, <1>1, <1>2, Upto
<1>4. Cardinality(1..n) \in Nat /\ Cardinality(1..n) \in Sizes
  <2> HIDE DEF Sizes
  <2> QED
    BY <1>0, <1>3
<1> QED
  BY <1>4

LEMMA FoldingExists ==
    ASSUME NEW n \in Nat, NEW s, DOMAIN s = 1..n, NEW kind, NEW base
    PROVE  \E f : f = Folding(f, kind, base, s)
<1> DEFINE Small(m) == {T \in SUBSET (1..n) : Cardinality(T) <= m}
           Up(f, m) == [T \in Small(m) |->
                           IF T = {} THEN base ELSE StepOf(kind, f[T \ {Max(T)}], s[Max(T)])]
           Sizes == {m \in Nat : \E f : f = Up(f, m)}
<1>0. \A T \in SUBSET (1..n) : /\ Cardinality(T) \in Nat /\ (Cardinality(T) <= 0 => T = {})
                               /\ Cardinality(T) <= Cardinality(1..n)
  BY PlacesFinite
<1>1. 0 \in Sizes
  <2> DEFINE f == [T \in Small(0) |-> base]
  <2>1. \A T \in Small(0) : T = {}
    BY <1>0
  <2>2. f = Up(f, 0)
    BY <2>1
  <2> QED
    BY <2>2
<1>2. ASSUME NEW m \in Nat, m \in Sizes PROVE m + 1 \in Sizes
  <2>1. PICK f : f = Up(f, m)
    BY <1>2
  <2> DEFINE h == Up(f, m + 1)
  <2>2. ASSUME NEW T \in Small(m + 1), T # {} PROVE T \ {Max(T)} \in Small(m)
    BY <2>2, MaxOut
  <2>3. Small(m) \subseteq Small(m + 1)
    BY <1>0
  <2>4. \A T \in Small(m) : h[T] = f[T]
    <3>1. \A T \in Small(m) : f[T] = IF T = {} THEN base ELSE StepOf(kind, f[T \ {Max(T)}], s[Max(T)])
      <4> HIDE DEF Small
      <4> QED
        BY <2>1
    <3> HIDE DEF Small
    <3> QED
      BY <2>3, <3>1
  <2>5. h = Up(h, m + 1)
    <3>1. \A T \in Small(m + 1) : T # {} => h[T \ {Max(T)}] = f[T \ {Max(T)}]
      <4> HIDE DEF Small, h
      <4> QED
        BY <2>2, <2>4
    <3> HIDE DEF Small
    <3> QED
      BY <3>1
  <2> HIDE DEF h, Up
  <2> QED
    BY <2>5
<1>3. Cardinality(1..n) \in Sizes
  <2> HIDE DEF Sizes
  <2>1. Cardinality(1..n) \in Nat
    BY <1>0
  <2>2. \A k \in 0..Cardinality(1..n) : k \in Sizes
    BY <1>1, <1>2, <2>1, Upto
  <2> QED
    BY <2>1, <2>2
<1>4. Small(Cardinality(1..n)) = SUBSET (1..n)
  BY <1>0
<1> QED
  <2> HIDE DEF Small
  <2> QED
    BY <1>3, <1>4 DEF Folding

\* Whatever holds of the base, and is kept by each step, holds of the fold.
LEMMA FoldKeeps ==
    ASSUME NEW n \in Nat, NEW s, DOMAIN s = 1..n, NEW kind, NEW base, NEW iter,
           iter = Folding(iter, kind, base, s), NEW o, NEW ids, Refines(base, o, ids),
           \A acc : \A i \in 1..n : Refines(acc, o, ids) => Refines(StepOf(kind, acc, s[i]), o, ids)
    PROVE  Refines(iter[DOMAIN s], o, ids)
<1> DEFINE P == {T \in SUBSET (1..n) : Refines(iter[T], o, ids)}
<1>1. \A T \in SUBSET (1..n) :
          iter[T] = IF T = {} THEN base ELSE StepOf(kind, iter[T \ {Max(T)}], s[Max(T)])
  BY DEF Folding
<1>2. {} \in P
  BY <1>1
<1>3. ASSUME NEW T \in SUBSET (1..n), T # {}, T \ {Max(T)} \in P PROVE T \in P
  <2>1. Max(T) \in 1..n
    BY <1>3, MaxOut
  <2>2. Refines(StepOf(kind, iter[T \ {Max(T)}], s[Max(T)]), o, ids)
    BY <1>3, <2>1
  <2> QED
    BY <1>1, <1>3, <2>2
<1>4. 1..n \in P
  <2> HIDE DEF P
  <2> QED
    BY <1>2, <1>3, OverPlaces
<1> QED
  BY <1>4

LEMMA BatchRefines ==
    ASSUME NEW o, IsOntology(o), NEW cmds, IsBatch(cmds)
    PROVE  Refines(execute(o, cmds), o, affected_element_ids(cmds))
<1> DEFINE base == Ok(o, <<>>)
           ids == affected_element_ids(cmds)
           E(f) == [T \in SUBSET (DOMAIN cmds) |-> IF T = {} THEN base
                       ELSE IF f[T \ {Max(T)}].ok
                            THEN Then(f[T \ {Max(T)}], ExecuteOne(f[T \ {Max(T)}].ont, cmds[Max(T)]))
                            ELSE f[T \ {Max(T)}]]
           iter == CHOOSE f : f = E(f)
<1>1. execute_inner(o, cmds) = iter[DOMAIN cmds]
  BY Zenon DEF execute_inner, FoldLeft, MapThenFoldSet
<1>2. PICK n \in Nat : DOMAIN cmds = 1..n
  BY LenProperties DEF IsBatch
<1>3. ASSUME NEW f PROVE E(f) = Folding(f, "batch", base, cmds)
  BY DEF Folding, StepOf
<1>4. iter = Folding(iter, "batch", base, cmds)
  <2>1. \E f : f = E(f)
    <3> HIDE DEF E
    <3>1. PICK f : f = Folding(f, "batch", base, cmds)
      BY <1>2, FoldingExists
    <3> QED
      BY <1>3, <3>1
  <2> HIDE DEF E
  <2> QED
    BY <1>3, <2>1
<1> HIDE DEF iter
<1>5. Refines(base, o, ids)
  BY SameReworks DEF Refines, Ok, Changes, IsOntology
<1>6. ASSUME NEW acc, NEW i \in 1..n, Refines(acc, o, ids)
      PROVE  Refines(StepOf("batch", acc, cmds[i]), o, ids)
  <2> DEFINE r == ExecuteOne(acc.ont, cmds[i])
  <2>1. cmds[i] \in ToSet(cmds)
    BY <1>2 DEF ToSet
  <2>2. AffectedOne(cmds[i]) \subseteq ids
    BY <2>1 DEF affected_element_ids
  <2>3. CASE acc.ok
    <3>1. IsOntology(acc.ont) /\ Changes(o, acc.ont, ids)
      BY <1>6, <2>3 DEF Refines, Changes
    <3>2. Refines(r, acc.ont, AffectedOne(cmds[i]))
      BY <2>1, <3>1, OneRefines DEF IsBatch
    <3> HIDE DEF r, ids
    <3>3. r.ok => Changes(o, r.ont, ids \cup AffectedOne(cmds[i]))
      BY <3>1, <3>2, ChangesChain DEF Refines
    <3>4. ids \cup AffectedOne(cmds[i]) = ids
      BY <2>2
    <3>5. Refines(Then(acc, r), o, ids)
      BY <3>3, <3>4 DEF Refines, Then, When, Ok, Err
    <3> QED
      BY <2>3, <3>5 DEF StepOf, r
  <2>4. CASE ~acc.ok
    BY <1>6, <2>4 DEF StepOf
  <2> QED
    BY <2>3, <2>4
<1>7. Refines(iter[DOMAIN cmds], o, ids)
  <2> HIDE DEF base, ids
  <2> QED
    BY <1>2, <1>4, <1>5, <1>6, FoldKeeps
<1> QED
  BY <1>1, <1>7 DEF execute, Validated, When, Refines, Err

\* A save that executes changes what its commands name, and nothing else.
LEMMA SaveRefines ==
    ASSUME NEW o, IsOntology(o), NEW entries, NEW n \in Nat, DOMAIN entries = 1..n,
           \A i \in 1..n : IsBatch(entries[i].command)
    PROVE  Refines(ExecuteAll(o, entries), o, Named(entries))
<1> DEFINE base == Ok(o, <<>>)
           ids == Named(entries)
           E(f) == [T \in SUBSET (DOMAIN entries) |-> IF T = {} THEN base
                       ELSE When(f[T \ {Max(T)}].ok,
                                 execute(f[T \ {Max(T)}].ont, entries[Max(T)].command))]
           iter == CHOOSE f : f = E(f)
<1>1. ExecuteAll(o, entries) = iter[DOMAIN entries]
  BY Zenon DEF ExecuteAll, FoldLeft, MapThenFoldSet
<1>3. ASSUME NEW f PROVE E(f) = Folding(f, "save", base, entries)
  BY DEF Folding, StepOf
<1>4. iter = Folding(iter, "save", base, entries)
  <2>1. \E f : f = E(f)
    <3> HIDE DEF E
    <3>1. PICK f : f = Folding(f, "save", base, entries)
      BY FoldingExists
    <3> QED
      BY <1>3, <3>1
  <2> HIDE DEF E
  <2> QED
    BY <1>3, <2>1
<1> HIDE DEF iter
<1>5. Refines(base, o, ids)
  BY SameReworks DEF Refines, Ok, Changes, IsOntology
<1>6. ASSUME NEW acc, NEW i \in 1..n, Refines(acc, o, ids)
      PROVE  Refines(StepOf("save", acc, entries[i]), o, ids)
  <2> DEFINE r == execute(acc.ont, entries[i].command)
             named == affected_element_ids(entries[i].command)
  <2>1. named \subseteq ids
    BY DEF Named, ToSet
  <2>2. CASE acc.ok
    <3>1. IsOntology(acc.ont) /\ Changes(o, acc.ont, ids)
      BY <1>6, <2>2 DEF Refines, Changes
    <3>2. Refines(r, acc.ont, named)
      BY <3>1, BatchRefines
    <3> HIDE DEF r, ids, named
    <3>3. r.ok => Changes(o, r.ont, ids \cup named)
      BY <3>1, <3>2, ChangesChain DEF Refines
    <3>4. ids \cup named = ids
      BY <2>1
    <3>5. Refines(When(acc.ok, r), o, ids)
      BY <3>3, <3>4 DEF Refines, When, Err
    <3> QED
      BY <3>5 DEF StepOf, r
  <2>3. CASE ~acc.ok
    BY <2>3 DEF StepOf, When, Err, Refines
  <2> QED
    BY <2>2, <2>3
<1>7. Refines(iter[DOMAIN entries], o, ids)
  <2> HIDE DEF base, ids
  <2> QED
    BY <1>4, <1>5, <1>6, FoldKeeps
<1> QED
  BY <1>1, <1>7

-----------------------------------------------------------------------------
(* Lists: what is kept, appended, rewritten in place or put in another      *)
(* order.                                                                   *)

LEMMA ListFacts ==
    ASSUME NEW S, NEW s \in Seq(S)
    PROVE  /\ Len(s) \in Nat /\ DOMAIN s = 1..Len(s)
           /\ \A i \in DOMAIN s : s[i] \in S
           /\ s = [i \in 1..Len(s) |-> s[i]]
           /\ ToSet(s) \subseteq S
  BY LenProperties, ElementOfSeq DEF ToSet

LEMMA ListFromPlaces ==
    ASSUME NEW S, NEW n \in Nat, NEW s, s = [i \in 1..n |-> s[i]], \A i \in 1..n : s[i] \in S
    PROVE  s \in Seq(S) /\ Len(s) = n /\ DOMAIN s = 1..n
<1>1. s \in [1..n -> S]
  OBVIOUS
<1>2. s \in Seq(S)
  BY <1>1, SeqDef, Zenon
<1> QED
  BY <1>2, LenProperties

\* t has the entries of s at the places K, one place of t for each.
Picks(t, s, K) ==
    \E n \in Nat : \E g \in Bijection(1..n, K) : t = [k \in 1..n |-> s[g[k]]]

LEMMA PickedPicks ==
    ASSUME NEW S, NEW s \in Seq(S), NEW K, K \subseteq DOMAIN s
    PROVE  Picks(Picked(s, K), s, K)
<1> DEFINE n == Cardinality(K)
           rank(i) == Cardinality({j \in K : j <= i})
           At(k) == CHOOSE i \in K : rank(i) = k
           g == [k \in 1..n |-> At(k)]
<1>1. K \subseteq Nat /\ IsFiniteSet(K)
  <2>1. DOMAIN s = 1..Len(s) /\ Len(s) \in Nat
    BY ListFacts
  <2>2. IsFiniteSet(1..Len(s))
    BY <2>1, FS_Interval
  <2> QED
    BY <2>1, <2>2, FS_Subset
<1>0. n = Cardinality(K)
  OBVIOUS
<1>2. n \in Nat /\ \A k \in 1..n : At(k) \in K /\ rank(At(k)) = k
  <2>1. n \in Nat /\ \A k \in 1..n : \E i \in K : rank(i) = k
    BY <1>1, RanksExist
  <2> HIDE DEF n, rank
  <2> QED
    BY <2>1
<1>3. Picked(s, K) = [k \in 1..n |-> s[g[k]]]
  BY DEF Picked
<1> HIDE DEF n, rank
<1>4. g \in Injection(1..n, K)
  BY <1>2 DEF Injection, IsInjective
<1> DEFINE R == {g[k] : k \in 1..n}
<1>5. R \subseteq K /\ IsFiniteSet(R) /\ Cardinality(R) = n
  <2>1. R \subseteq K
    BY <1>2
  <2>2. g \in Bijection(1..n, R)
    BY <1>4 DEF Bijection, Injection, Surjection, IsInjective
  <2>3. IsFiniteSet(1..n) /\ Cardinality(1..n) = n
    BY <1>2, FS_Interval
  <2>4. ExistsBijection(1..n, R)
    BY <2>2 DEF ExistsBijection
  <2> HIDE DEF R, g
  <2> QED
    BY <2>1, <2>3, <2>4, <1>1, FS_Bijection, FS_Subset
<1>6. R = K
  <2> HIDE DEF R, g
  <2> QED
    BY <1>0, <1>1, <1>5, FS_Subset
<1>7. g \in Bijection(1..n, K)
  BY <1>4, <1>6 DEF Bijection, Injection, Surjection
<1> QED
  BY <1>2, <1>3, <1>7 DEF Picks

LEMMA PicksList ==
    ASSUME NEW S, NEW s \in Seq(S), NEW K, K \subseteq DOMAIN s, NEW t, Picks(t, s, K)
    PROVE  /\ t \in Seq(S)
           /\ ToSet(t) = {s[i] : i \in K}
           /\ \A i \in DOMAIN t : t[i] \in {s[j] : j \in K}
<1>0. PICK n \in Nat : \E g \in Bijection(1..n, K) : t = [k \in 1..n |-> s[g[k]]]
  BY DEF Picks
<1>1. PICK g \in Bijection(1..n, K) : t = [k \in 1..n |-> s[g[k]]]
  BY <1>0
<1>2. \A k \in 1..n : g[k] \in K
  BY DEF Bijection, Injection
<1>3. \A i \in K : \E k \in 1..n : g[k] = i
  BY DEF Bijection, Surjection
<1>4. \A i \in K : s[i] \in S
  BY ListFacts
<1>5. t \in Seq(S) /\ DOMAIN t = 1..n
  BY <1>1, <1>2, <1>4, ListFromPlaces
<1> QED
  BY <1>1, <1>2, <1>3, <1>5 DEF ToSet

LEMMA AppendList ==
    ASSUME NEW S, NEW s \in Seq(S), NEW x \in S
    PROVE  /\ Append(s, x) \in Seq(S)
           /\ DOMAIN Append(s, x) = 1..(Len(s) + 1) /\ Len(Append(s, x)) = Len(s) + 1
           /\ \A i \in 1..Len(s) : Append(s, x)[i] = s[i]
           /\ Append(s, x)[Len(s) + 1] = x
           /\ ToSet(Append(s, x)) = ToSet(s) \cup {x}
           /\ Append(s, x) = s \o <<x>>
<1>1. /\ Append(s, x) \in Seq(S) /\ Len(Append(s, x)) = Len(s) + 1
      /\ \A i \in 1..Len(s) : Append(s, x)[i] = s[i]
      /\ Append(s, x)[Len(s) + 1] = x
  BY AppendProperties
<1>2. DOMAIN Append(s, x) = 1..(Len(s) + 1) /\ DOMAIN s = 1..Len(s) /\ Len(s) \in Nat
  BY <1>1, ListFacts
<1>3. ToSet(Append(s, x)) = ToSet(s) \cup {x}
  BY <1>1, <1>2 DEF ToSet
<1>4. Append(s, x) = s \o <<x>>
  OBVIOUS
<1> QED
  BY <1>1, <1>2, <1>3, <1>4

LEMMA RewrittenList ==
    ASSUME NEW S, NEW s \in Seq(S), NEW R, NEW t, t = [i \in DOMAIN s |-> t[i]],
           \A i \in DOMAIN s : t[i] \in R
    PROVE  t \in Seq(R) /\ DOMAIN t = DOMAIN s /\ Len(t) = Len(s)
<1>1. Len(s) \in Nat /\ DOMAIN s = 1..Len(s)
  BY ListFacts
<1> QED
  BY <1>1, ListFromPlaces

DistinctIds(s) == \A i, j \in DOMAIN s : s[i].id = s[j].id => i = j

LEMMA IdsOfSet == ASSUME NEW s PROVE Ids(s) = {x.id : x \in ToSet(s)}
  BY DEF Ids, ToSet

LEMMA Found ==
    ASSUME NEW S, NEW s \in Seq(S), NEW id, id \in Ids(s)
    PROVE  \E k \in DOMAIN s : Find(s, id) = s[k] /\ s[k].id = id
<1> DEFINE I == {i \in 1..Len(s) : s[i].id = id}
<1>1. Len(s) \in Nat /\ DOMAIN s = 1..Len(s)
  BY ListFacts
<1>2. I # {} /\ I \subseteq Nat
  BY <1>1 DEF Ids
<1>3. SelectInSeq(s, LAMBDA x : x.id = id) = IF I # {} THEN Min(I) ELSE 0
  BY DEF SelectInSeq
<1>4. Min(I) \in I
  <2> HIDE DEF I
  <2> QED
    BY <1>2, MinIsLeast
<1>5. Find(s, id) = s[Min(I)]
  BY <1>2, <1>3 DEF Find
<1> QED
  BY <1>1, <1>4, <1>5

LEMMA FoundAt ==
    ASSUME NEW S, NEW s \in Seq(S), DistinctIds(s), NEW k \in DOMAIN s
    PROVE  Find(s, s[k].id) = s[k]
<1>1. s[k].id \in Ids(s)
  BY DEF Ids
<1>2. PICK j \in DOMAIN s : Find(s, s[k].id) = s[j] /\ s[j].id = s[k].id
  BY <1>1, Found
<1> QED
  BY <1>2 DEF DistinctIds

-----------------------------------------------------------------------------
(* Lists that differ in their order only.                                   *)

Shuffles(s, t) == \E f \in Bijection(DOMAIN s, DOMAIN t) : \A i \in DOMAIN s : t[f[i]] = s[i]

\* Every entry of t stands for a place of s of its own.
Injects(t, s) == \E f \in Injection(DOMAIN t, DOMAIN s) : \A i \in DOMAIN t : t[i] = s[f[i]]

LEMMA PicksInject ==
    ASSUME NEW t, NEW s, NEW K, K \subseteq DOMAIN s, Picks(t, s, K)
    PROVE  Injects(t, s)
<1>0. PICK n \in Nat : \E g \in Bijection(1..n, K) : t = [k \in 1..n |-> s[g[k]]]
  BY DEF Picks
<1>1. PICK g \in Bijection(1..n, K) : t = [k \in 1..n |-> s[g[k]]]
  BY <1>0
<1>2. g \in Injection(DOMAIN t, DOMAIN s)
  BY <1>1 DEF Bijection, Injection, IsInjective
<1> QED
  BY <1>1, <1>2 DEF Injects

LEMMA InjectsDistinct ==
    ASSUME NEW s, NEW t, Injects(t, s), DistinctIds(s)
    PROVE  DistinctIds(t)
<1>1. PICK f \in Injection(DOMAIN t, DOMAIN s) : \A i \in DOMAIN t : t[i] = s[f[i]]
  BY DEF Injects
<1>2. \A i, j \in DOMAIN t : f[i] \in DOMAIN s /\ (f[i] = f[j] => i = j)
  BY DEF Injection, IsInjective
<1> QED
  BY <1>1, <1>2 DEF DistinctIds

LEMMA ShufflesInject ==
    ASSUME NEW s, NEW t, Shuffles(s, t)
    PROVE  Injects(s, t) /\ Injects(t, s) /\ ToSet(s) = ToSet(t)
<1>1. PICK f \in Bijection(DOMAIN s, DOMAIN t) : \A i \in DOMAIN s : t[f[i]] = s[i]
  BY DEF Shuffles
<1>2. Injects(s, t)
  BY <1>1 DEF Injects, Bijection
<1> DEFINE g == [j \in DOMAIN t |-> CHOOSE i \in DOMAIN s : f[i] = j]
<1>3. \A j \in DOMAIN t : g[j] \in DOMAIN s /\ f[g[j]] = j
  BY DEF Bijection, Surjection
<1> HIDE DEF g
<1>4. g \in Injection(DOMAIN t, DOMAIN s)
  BY <1>3 DEF g, Injection, IsInjective
<1>5. Injects(t, s)
  BY <1>1, <1>3, <1>4 DEF Injects
<1>6. ToSet(s) = ToSet(t)
  <2>1. \A i \in DOMAIN s : f[i] \in DOMAIN t
    BY DEF Bijection, Injection
  <2> QED
    BY <1>1, <1>3, <2>1 DEF ToSet
<1> QED
  BY <1>2, <1>5, <1>6

LEMMA ShufflesAlike ==
    ASSUME NEW s PROVE Shuffles(s, s)
<1> DEFINE f == [i \in DOMAIN s |-> i]
<1>1. f \in Bijection(DOMAIN s, DOMAIN s)
  BY DEF Bijection, Injection, Surjection, IsInjective
<1> QED
  BY <1>1 DEF Shuffles

\* What is kept, followed by what is left out, is the list in another order.
LEMMA SplitShuffles ==
    ASSUME NEW S, NEW s \in Seq(S), NEW K, K \subseteq DOMAIN s,
           NEW a, Picks(a, s, K), NEW b, Picks(b, s, DOMAIN s \ K)
    PROVE  a \o b \in Seq(S) /\ Shuffles(s, a \o b)
<1> DEFINE L == DOMAIN s \ K
<1>1. PICK m \in Nat : \E g \in Bijection(1..m, K) : a = [k \in 1..m |-> s[g[k]]]
  BY DEF Picks
<1>2. PICK g \in Bijection(1..m, K) : a = [k \in 1..m |-> s[g[k]]]
  BY <1>1
<1>3. PICK n \in Nat : \E h \in Bijection(1..n, L) : b = [k \in 1..n |-> s[h[k]]]
  BY DEF Picks
<1>4. PICK h \in Bijection(1..n, L) : b = [k \in 1..n |-> s[h[k]]]
  BY <1>3
<1>5. a \in Seq(S) /\ b \in Seq(S) /\ Len(a) = m /\ Len(b) = n
  <2>1. a \in Seq(S) /\ b \in Seq(S)
    BY PicksList
  <2>2. DOMAIN a = 1..m /\ DOMAIN b = 1..n
    BY <1>2, <1>4
  <2> QED
    BY <2>1, <2>2, LenProperties
<1>6. /\ a \o b \in Seq(S) /\ DOMAIN (a \o b) = 1..(m + n)
      /\ \A k \in 1..(m + n) : (a \o b)[k] = IF k <= m THEN a[k] ELSE b[k - m]
  <2>1. /\ a \o b \in Seq(S) /\ Len(a \o b) = m + n
        /\ \A k \in 1..(m + n) : (a \o b)[k] = IF k <= m THEN a[k] ELSE b[k - m]
    BY <1>5, ConcatProperties
  <2> QED
    BY <2>1, ListFacts
<1> DEFINE At(i) == IF i \in K THEN CHOOSE k \in 1..m : g[k] = i
                    ELSE m + (CHOOSE k \in 1..n : h[k] = i)
           f == [i \in DOMAIN s |-> At(i)]
<1>7. ASSUME NEW i \in DOMAIN s
      PROVE  /\ i \in K => f[i] \in 1..m /\ g[f[i]] = i
             /\ i \notin K => f[i] \in (m+1)..(m+n) /\ f[i] - m \in 1..n /\ h[f[i] - m] = i
  <2>1. i \in K => \E k \in 1..m : g[k] = i
    BY DEF Bijection, Surjection
  <2>2. i \notin K => \E k \in 1..n : h[k] = i
    BY DEF Bijection, Surjection
  <2>3. CASE i \in K
    BY <2>1, <2>3
  <2>4. CASE i \notin K
    <3> DEFINE k == CHOOSE k \in 1..n : h[k] = i
    <3>1. k \in 1..n /\ h[k] = i
      BY <2>2, <2>4
    <3>2. f[i] = m + k
      BY <2>4
    <3> HIDE DEF k, f
    <3> QED
      BY <2>4, <3>1, <3>2
  <2> QED
    BY <2>3, <2>4
<1> HIDE DEF f
<1>8. \A i \in DOMAIN s : (a \o b)[f[i]] = s[i]
  <2>1. SUFFICES ASSUME NEW i \in DOMAIN s PROVE (a \o b)[f[i]] = s[i]
    OBVIOUS
  <2>2. CASE i \in K
    <3>1. f[i] \in 1..m /\ g[f[i]] = i /\ f[i] <= m /\ f[i] \in 1..(m + n)
      BY <1>7, <2>2
    <3> QED
      BY <1>2, <1>6, <3>1
  <2>3. CASE i \notin K
    <3>1. f[i] - m \in 1..n /\ h[f[i] - m] = i /\ ~(f[i] <= m) /\ f[i] \in 1..(m + n)
      BY <1>7, <2>3
    <3> QED
      BY <1>4, <1>6, <3>1
  <2> QED
    BY <2>2, <2>3
<1>9. f \in Bijection(DOMAIN s, DOMAIN (a \o b))
  <2>1. \A i \in DOMAIN s : f[i] \in 1..(m + n)
    BY <1>7
  <2>2. \A i, j \in DOMAIN s : f[i] = f[j] => i = j
    <3>1. SUFFICES ASSUME NEW i \in DOMAIN s, NEW j \in DOMAIN s, f[i] = f[j] PROVE i = j
      OBVIOUS
    <3>2. i \in K <=> j \in K
      BY <1>7, <3>1
    <3> QED
      BY <1>7, <3>1, <3>2
  <2>3. \A k \in 1..(m + n) : \E i \in DOMAIN s : f[i] = k
    <3>1. SUFFICES ASSUME NEW k \in 1..(m + n) PROVE \E i \in DOMAIN s : f[i] = k
      OBVIOUS
    <3>2. CASE k <= m
      <4>1. k \in 1..m /\ g[k] \in K
        BY <3>2 DEF Bijection, Injection
      <4>2. f[g[k]] \in 1..m /\ g[f[g[k]]] = g[k]
        BY <1>7, <4>1
      <4>3. f[g[k]] = k
        BY <4>1, <4>2 DEF Bijection, Injection, IsInjective
      <4> QED
        BY <4>1, <4>3
    <3>3. CASE ~(k <= m)
      <4>1. k - m \in 1..n /\ h[k - m] \in L
        BY <3>3 DEF Bijection, Injection
      <4>2. f[h[k - m]] - m \in 1..n /\ h[f[h[k - m]] - m] = h[k - m] /\ f[h[k - m]] \in Nat
        BY <1>7, <4>1
      <4>3. f[h[k - m]] - m = k - m
        BY <4>1, <4>2 DEF Bijection, Injection, IsInjective
      <4> QED
        BY <4>1, <4>2, <4>3
    <3> QED
      BY <3>2, <3>3
  <2>4. f = [i \in DOMAIN s |-> f[i]]
    BY DEF f
  <2> QED
    BY <1>6, <2>1, <2>2, <2>3, <2>4 DEF Bijection, Injection, Surjection, IsInjective
<1> QED
  BY <1>6, <1>8, <1>9 DEF Shuffles

LEMMA ShufflesBag ==
    ASSUME NEW S, NEW s \in Seq(S), NEW t, Shuffles(s, t)
    PROVE  ToBag(s) = ToBag(t)
<1>1. PICK f \in Bijection(DOMAIN s, DOMAIN t) : \A i \in DOMAIN s : t[f[i]] = s[i]
  BY DEF Shuffles
<1>2. Range(s) = Range(t)
  <2>1. ToSet(s) = ToSet(t)
    BY ShufflesInject
  <2>2. Range(s) = ToSet(s) /\ Range(t) = ToSet(t)
    BY DEF Range, ToSet
  <2> QED
    BY <2>1, <2>2
<1> DEFINE At(u, x) == {i \in DOMAIN u : u[i] = x}
<1>3. ASSUME NEW x PROVE Cardinality(At(s, x)) = Cardinality(At(t, x))
  <2> DEFINE h == [i \in At(s, x) |-> f[i]]
  <2>1. IsFiniteSet(At(s, x))
    <3>0. DOMAIN s = 1..Len(s) /\ Len(s) \in Nat
      BY ListFacts
    <3>1. IsFiniteSet(1..Len(s)) /\ At(s, x) \subseteq 1..Len(s)
      BY <3>0, FS_Interval
    <3> HIDE DEF At
    <3> QED
      BY <3>1, FS_Subset
  <2>2. \A i \in DOMAIN s : f[i] \in DOMAIN t
    BY DEF Bijection, Injection
  <2>3. \A j \in DOMAIN t : \E i \in DOMAIN s : f[i] = j
    BY DEF Bijection, Surjection
  <2>4. \A i, j \in DOMAIN s : f[i] = f[j] => i = j
    BY DEF Bijection, Injection, IsInjective
  <2>5. h \in Bijection(At(s, x), At(t, x))
    BY <1>1, <2>2, <2>3, <2>4 DEF Bijection, Injection, Surjection, IsInjective
  <2>6. ExistsBijection(At(s, x), At(t, x))
    BY <2>5 DEF ExistsBijection
  <2> HIDE DEF At
  <2> QED
    BY <2>1, <2>6, FS_Bijection
<1> QED
  BY <1>2, <1>3 DEF ToBag

-----------------------------------------------------------------------------
(* Types.                                                                   *)

NodeOps == {"add_node", "create_node_type", "delete_node", "rename_node",
            "update_node_description"}
EdgeOps == {"add_edge", "create_edge_type", "delete_edge", "rename_edge",
            "update_edge_cardinality", "update_edge_description"}
PropertyOps == {"add_property", "delete_property", "update_property"}
ConstraintOps == {"add_constraint", "remove_constraint"}
IndexOps == {"add_index", "remove_index"}
MappingOps == {"create_object_mapping", "update_object_mapping", "delete_object_mapping",
               "create_link_mapping", "update_link_mapping", "delete_link_mapping"}

LEMMA CommandKinds ==
    ASSUME NEW c \in Command
    PROVE  /\ c.op \in Ops
           /\ c.op \in NodeOps => c \in NodeCommand
           /\ c.op \in EdgeOps => c \in EdgeCommand
           /\ c.op \in PropertyOps => c \in PropertyCommand
           /\ c.op \in ConstraintOps => c \in ConstraintCommand
           /\ c.op \in IndexOps => c \in IndexCommand
           /\ c.op \in MappingOps => c \in MappingCommand
<1>1. /\ c \in NodeCommand => c.op \in NodeOps
      /\ c \in EdgeCommand => c.op \in EdgeOps
      /\ c \in PropertyCommand => c.op \in PropertyOps
      /\ c \in ConstraintCommand => c.op \in ConstraintOps
      /\ c \in IndexCommand => c.op \in IndexOps
      /\ c \in MappingCommand => c.op \in MappingOps
  BY DEF NodeCommand, EdgeCommand, PropertyCommand, ConstraintCommand, IndexCommand,
         MappingCommand, NodeOps, EdgeOps, PropertyOps, ConstraintOps, IndexOps, MappingOps
<1>2. c \in NodeCommand \/ c \in EdgeCommand \/ c \in PropertyCommand
      \/ c \in ConstraintCommand \/ c \in IndexCommand \/ c \in MappingCommand
  BY DEF Command
<1> QED
  BY <1>1, <1>2 DEF Ops, NodeOps, EdgeOps, PropertyOps, ConstraintOps, IndexOps, MappingOps

LEMMA OntologyLists ==
    ASSUME NEW o \in Ontology
    PROVE  /\ o.node_types \in Seq(NodeType) /\ o.edge_types \in Seq(EdgeType)
           /\ o.indexes \in Seq(IndexDef) /\ o.object_mappings \in Seq(ObjectMapping)
           /\ o.link_mappings \in Seq(LinkMapping)
  BY DEF Ontology

LEMMA WithLists ==
    ASSUME NEW o \in Ontology
    PROVE  /\ \A x \in Seq(NodeType) : [o EXCEPT !.node_types = x] \in Ontology
           /\ \A x \in Seq(EdgeType) : [o EXCEPT !.edge_types = x] \in Ontology
           /\ \A x \in Seq(IndexDef) : [o EXCEPT !.indexes = x] \in Ontology
           /\ \A x \in Seq(ObjectMapping) : [o EXCEPT !.object_mappings = x] \in Ontology
           /\ \A x \in Seq(LinkMapping) : [o EXCEPT !.link_mappings = x] \in Ontology
  BY DEF Ontology

LEMMA PickedList ==
    ASSUME NEW S, NEW s \in Seq(S), NEW K, K \subseteq DOMAIN s
    PROVE  Picked(s, K) \in Seq(S) /\ ToSet(Picked(s, K)) = {s[i] : i \in K}
  BY PickedPicks, PicksList

LEMMA FoundTyped ==
    ASSUME NEW S, NEW s \in Seq(S), NEW id, id \in Ids(s)
    PROVE  Find(s, id) \in S /\ Find(s, id) \in ToSet(s)
  BY Found, ListFacts DEF ToSet

Typed(r) == r.ok => r.ont \in Ontology

LEMMA WhenTyped ==
    ASSUME NEW cond, NEW new, NEW inverse, cond => new \in Ontology
    PROVE  Typed(When(cond, Ok(new, inverse)))
  BY DEF Typed, When, Ok, Err

LEMMA NodesTyped ==
    ASSUME NEW o \in Ontology, NEW c \in NodeCommand
    PROVE  Typed(ExecuteOne(o, c))
<1> DEFINE ns == o.node_types
<1>0. ns \in Seq(NodeType)
  BY OntologyLists
<1>1. ASSUME NEW x \in NodeType PROVE Typed(CreateNodeType(o, x))
  <2>1. Append(ns, x) \in Seq(NodeType)
    BY <1>0, <1>1, AppendList
  <2>2. [o EXCEPT !.node_types = Append(ns, x)] \in Ontology
    BY <2>1, WithLists
  <2> QED
    BY <2>2, WhenTyped DEF CreateNodeType
<1>2. ASSUME NEW x, x = [i \in DOMAIN ns |-> x[i]], \A i \in DOMAIN ns : x[i] \in NodeType
      PROVE  [o EXCEPT !.node_types = x] \in Ontology
  <2>1. x \in Seq(NodeType)
    BY <1>0, <1>2, RewrittenList
  <2> QED
    BY <2>1, WithLists
<1>3. \A i \in DOMAIN ns : ns[i] \in NodeType
  BY <1>0, ListFacts
<1>4. CASE c.op = "add_node"
  <2>1. c.id \in NodeId /\ c.label \in Text /\ c.description \in Text
    BY <1>4 DEF NodeCommand
  <2>2. <<>> \in Seq(Property) /\ <<>> \in Seq(ConstraintDef)
    BY EmptySeq
  <2>3. NewNode(c) \in NodeType
    BY <2>1, <2>2 DEF NewNode, NodeType
  <2> QED
    BY <1>1, <1>4, <2>3 DEF ExecuteOne, AddNode
<1>5. CASE c.op = "create_node_type"
  <2>1. c.node \in NodeType
    BY <1>5 DEF NodeCommand
  <2> QED
    BY <1>1, <1>5, <2>1 DEF ExecuteOne
<1>6. CASE c.op = "rename_node"
  <2> DEFINE x == MapById(ns, c.node_id, LAMBDA n : [n EXCEPT !.label = c.new_label])
  <2>1. c.new_label \in Text
    BY <1>6 DEF NodeCommand
  <2>2. x = [i \in DOMAIN ns |-> x[i]] /\ \A i \in DOMAIN ns : x[i] \in NodeType
    BY <1>3, <2>1 DEF MapById, NodeType
  <2> HIDE DEF x
  <2>3. [o EXCEPT !.node_types = x] \in Ontology
    BY <1>2, <2>2
  <2> QED
    BY <1>6, <2>3, WhenTyped DEF ExecuteOne, RenameNode, x
<1>7. CASE c.op = "update_node_description"
  <2> DEFINE x == MapById(ns, c.node_id, LAMBDA n : [n EXCEPT !.description = c.description])
  <2>1. c.description \in Text
    BY <1>7 DEF NodeCommand
  <2>2. x = [i \in DOMAIN ns |-> x[i]] /\ \A i \in DOMAIN ns : x[i] \in NodeType
    BY <1>3, <2>1 DEF MapById, NodeType
  <2> HIDE DEF x
  <2>3. [o EXCEPT !.node_types = x] \in Ontology
    BY <1>2, <2>2
  <2> QED
    BY <1>7, <2>3, WhenTyped DEF ExecuteOne, UpdateNodeDescription, x
<1>8. CASE c.op = "delete_node"
  <2> DEFINE Incident(e) == c.node_id \in {e.source_node_id, e.target_node_id}
             edges == Retain(o.edge_types, Incident)
             links == Retain(o.link_mappings, LAMBDA m : m.edge_type_id \in Ids(edges))
             idxs == Retain(o.indexes, LAMBDA i : i.node_id = c.node_id)
             objs == Retain(o.object_mappings, LAMBDA m : m.node_type_id = c.node_id)
             x == Retain(o.node_types, LAMBDA n : n.id # c.node_id)
             es == Retain(o.edge_types, LAMBDA e : ~Incident(e))
             ls == Retain(o.link_mappings, LAMBDA m : m \notin ToSet(links))
             is == Retain(o.indexes, LAMBDA i : i \notin ToSet(idxs))
             ms == Retain(o.object_mappings, LAMBDA m : m \notin ToSet(objs))
             new == [o EXCEPT !.node_types = x, !.edge_types = es, !.link_mappings = ls,
                              !.indexes = is, !.object_mappings = ms]
  <2>1. /\ x \in Seq(NodeType) /\ es \in Seq(EdgeType) /\ ls \in Seq(LinkMapping)
        /\ is \in Seq(IndexDef) /\ ms \in Seq(ObjectMapping)
    BY OntologyLists, PickedList DEF Retain
  <2>2. \E cond, inverse : DeleteNode(o, c) = When(cond, Ok(new, inverse))
    BY Zenon DEF DeleteNode
  <2> HIDE DEF x, es, ls, is, ms
  <2>3. new \in Ontology
    BY <2>1 DEF Ontology
  <2> HIDE DEF new
  <2> QED
    BY <1>8, <2>2, <2>3, WhenTyped DEF ExecuteOne
<1> QED
  BY <1>4, <1>5, <1>6, <1>7, <1>8 DEF NodeCommand

LEMMA EdgesTyped ==
    ASSUME NEW o \in Ontology, NEW c \in EdgeCommand
    PROVE  Typed(ExecuteOne(o, c))
<1> DEFINE es == o.edge_types
<1>0. es \in Seq(EdgeType)
  BY OntologyLists
<1>1. ASSUME NEW x \in EdgeType PROVE Typed(CreateEdgeType(o, x))
  <2>1. Append(es, x) \in Seq(EdgeType)
    BY <1>0, <1>1, AppendList
  <2>2. [o EXCEPT !.edge_types = Append(es, x)] \in Ontology
    BY <2>1, WithLists
  <2> QED
    BY <2>2, WhenTyped DEF CreateEdgeType
<1>2. ASSUME NEW x, x = [i \in DOMAIN es |-> x[i]], \A i \in DOMAIN es : x[i] \in EdgeType
      PROVE  [o EXCEPT !.edge_types = x] \in Ontology
  <2>1. x \in Seq(EdgeType)
    BY <1>0, <1>2, RewrittenList
  <2> QED
    BY <2>1, WithLists
<1>3. \A i \in DOMAIN es : es[i] \in EdgeType
  BY <1>0, ListFacts
<1>4. CASE c.op = "add_edge"
  <2>1. /\ c.id \in EdgeId /\ c.label \in Text /\ c.source_node_id \in NodeId
        /\ c.target_node_id \in NodeId /\ c.cardinality \in Cardinalities
    BY <1>4 DEF EdgeCommand
  <2>2. <<>> \in Seq(Property)
    BY EmptySeq
  <2>3. "" \in Text => NewEdge(c) \in EdgeType
    BY <2>1, <2>2 DEF NewEdge, EdgeType
  <2>4. "" \in Text
    BY TextAssumption
  <2> QED
    BY <1>1, <1>4, <2>3, <2>4 DEF ExecuteOne, AddEdge
<1>5. CASE c.op = "create_edge_type"
  <2>1. c.edge \in EdgeType
    BY <1>5 DEF EdgeCommand
  <2> QED
    BY <1>1, <1>5, <2>1 DEF ExecuteOne
<1>6. CASE c.op = "rename_edge"
  <2> DEFINE new == [Find(es, c.edge_id) EXCEPT !.label = c.new_label]
             x == MapById(es, c.edge_id, LAMBDA e : new)
             cond == /\ c.edge_id \in Ids(es)
                     /\ \A e \in ToSet(es) : Signature(e) = Signature(new) => e.id = c.edge_id
  <2>1. c.new_label \in Text
    BY <1>6 DEF EdgeCommand
  <2>2. ASSUME cond PROVE [o EXCEPT !.edge_types = x] \in Ontology
    <3>1. Find(es, c.edge_id) \in EdgeType
      BY <1>0, <2>2, FoundTyped
    <3>2. new \in EdgeType
      BY <2>1, <3>1 DEF EdgeType
    <3>3. x = [i \in DOMAIN es |-> x[i]] /\ \A i \in DOMAIN es : x[i] \in EdgeType
      <4> HIDE DEF new
      <4> QED
        BY <1>3, <3>2 DEF MapById
    <3> HIDE DEF x
    <3> QED
      BY <1>2, <3>3
  <2>3. \E inverse : RenameEdge(o, c) = When(cond, Ok([o EXCEPT !.edge_types = x], inverse))
    BY Zenon DEF RenameEdge
  <2> HIDE DEF x, cond
  <2> QED
    BY <1>6, <2>2, <2>3, WhenTyped DEF ExecuteOne
<1>7. CASE c.op = "update_edge_cardinality"
  <2> DEFINE x == MapById(es, c.edge_id, LAMBDA e : [e EXCEPT !.cardinality = c.cardinality])
  <2>1. c.cardinality \in Cardinalities
    BY <1>7 DEF EdgeCommand
  <2>2. x = [i \in DOMAIN es |-> x[i]] /\ \A i \in DOMAIN es : x[i] \in EdgeType
    BY <1>3, <2>1 DEF MapById, EdgeType
  <2> HIDE DEF x
  <2>3. [o EXCEPT !.edge_types = x] \in Ontology
    BY <1>2, <2>2
  <2> QED
    BY <1>7, <2>3, WhenTyped DEF ExecuteOne, UpdateEdgeCardinality, x
<1>8. CASE c.op = "update_edge_description"
  <2> DEFINE x == MapById(es, c.edge_id, LAMBDA e : [e EXCEPT !.description = c.description])
  <2>1. c.description \in Text
    BY <1>8 DEF EdgeCommand
  <2>2. x = [i \in DOMAIN es |-> x[i]] /\ \A i \in DOMAIN es : x[i] \in EdgeType
    BY <1>3, <2>1 DEF MapById, EdgeType
  <2> HIDE DEF x
  <2>3. [o EXCEPT !.edge_types = x] \in Ontology
    BY <1>2, <2>2
  <2> QED
    BY <1>8, <2>3, WhenTyped DEF ExecuteOne, UpdateEdgeDescription, x
<1>9. CASE c.op = "delete_edge"
  <2> DEFINE links == Retain(o.link_mappings, LAMBDA m : m.edge_type_id = c.edge_id)
             x == Retain(o.edge_types, LAMBDA e : e.id # c.edge_id)
             ls == Retain(o.link_mappings, LAMBDA m : m \notin ToSet(links))
             new == [o EXCEPT !.edge_types = x, !.link_mappings = ls]
  <2>1. x \in Seq(EdgeType) /\ ls \in Seq(LinkMapping)
    BY OntologyLists, PickedList DEF Retain
  <2>2. \E cond, inverse : DeleteEdge(o, c) = When(cond, Ok(new, inverse))
    BY Zenon DEF DeleteEdge
  <2> HIDE DEF x, ls
  <2>3. new \in Ontology
    BY <2>1 DEF Ontology
  <2> HIDE DEF new
  <2> QED
    BY <1>9, <2>2, <2>3, WhenTyped DEF ExecuteOne
<1> QED
  BY <1>4, <1>5, <1>6, <1>7, <1>8, <1>9 DEF EdgeCommand

LEMMA ConstraintsTyped ==
    ASSUME NEW o \in Ontology, NEW c \in ConstraintCommand
    PROVE  Typed(ExecuteOne(o, c))
<1> DEFINE ns == o.node_types
<1>0. ns \in Seq(NodeType) /\ \A i \in DOMAIN ns : ns[i] \in NodeType
  BY OntologyLists, ListFacts
<1>2. ASSUME NEW x, x = [i \in DOMAIN ns |-> x[i]], \A i \in DOMAIN ns : x[i] \in NodeType
      PROVE  [o EXCEPT !.node_types = x] \in Ontology
  <2>1. x \in Seq(NodeType)
    BY <1>0, <1>2, RewrittenList
  <2> QED
    BY <2>1, WithLists
<1>3. CASE c.op = "add_constraint"
  <2> DEFINE x == MapById(ns, c.node_id,
                          LAMBDA n : [n EXCEPT !.constraints = Append(@, c.constraint)])
  <2>1. c.constraint \in ConstraintDef
    BY <1>3 DEF ConstraintCommand
  <2>2. \A i \in DOMAIN ns : Append(ns[i].constraints, c.constraint) \in Seq(ConstraintDef)
    BY <1>0, <2>1, AppendList DEF NodeType
  <2>3. x = [i \in DOMAIN ns |-> x[i]] /\ \A i \in DOMAIN ns : x[i] \in NodeType
    BY <1>0, <2>2 DEF MapById, NodeType
  <2> HIDE DEF x
  <2>4. [o EXCEPT !.node_types = x] \in Ontology
    BY <1>2, <2>3
  <2> QED
    BY <1>3, <2>4, WhenTyped DEF ExecuteOne, AddConstraint, x
<1>4. CASE c.op = "remove_constraint"
  <2> DEFINE less(n) == Retain(n.constraints, LAMBDA y : y.id # c.constraint_id)
             x == MapById(ns, c.node_id, LAMBDA n : [n EXCEPT !.constraints = less(n)])
  <2>1. \A i \in DOMAIN ns : less(ns[i]) \in Seq(ConstraintDef)
    <3>1. \A i \in DOMAIN ns : ns[i].constraints \in Seq(ConstraintDef)
      BY <1>0 DEF NodeType
    <3> QED
      BY <3>1, PickedList DEF Retain
  <2>2. x = [i \in DOMAIN ns |-> x[i]] /\ \A i \in DOMAIN ns : x[i] \in NodeType
    <3> HIDE DEF less
    <3> QED
      BY <1>0, <2>1 DEF MapById, NodeType
  <2>3. \E cond, inverse : RemoveConstraint(o, c) = When(cond, Ok([o EXCEPT !.node_types = x], inverse))
    BY Zenon DEF RemoveConstraint, MapById
  <2> HIDE DEF x
  <2>4. [o EXCEPT !.node_types = x] \in Ontology
    BY <1>2, <2>2
  <2> QED
    BY <1>4, <2>3, <2>4, WhenTyped DEF ExecuteOne
<1> QED
  BY <1>3, <1>4 DEF ConstraintCommand

LEMMA IndexesTyped ==
    ASSUME NEW o \in Ontology, NEW c \in IndexCommand
    PROVE  Typed(ExecuteOne(o, c))
<1>1. CASE c.op = "add_index"
  <2>1. c.index \in IndexDef
    BY <1>1 DEF IndexCommand
  <2>2. Append(o.indexes, c.index) \in Seq(IndexDef)
    BY <2>1, OntologyLists, AppendList
  <2>3. [o EXCEPT !.indexes = Append(@, c.index)] \in Ontology
    BY <2>2, WithLists
  <2> QED
    BY <1>1, <2>3, WhenTyped DEF ExecuteOne, AddIndex
<1>2. CASE c.op = "remove_index"
  <2> DEFINE x == Retain(o.indexes, LAMBDA i : i.id # c.index_id)
  <2>1. x \in Seq(IndexDef)
    BY OntologyLists, PickedList DEF Retain
  <2> HIDE DEF x
  <2>2. [o EXCEPT !.indexes = x] \in Ontology
    BY <2>1, WithLists
  <2> QED
    BY <1>2, <2>2, WhenTyped DEF ExecuteOne, RemoveIndex, x
<1> QED
  BY <1>1, <1>2 DEF IndexCommand

LEMMA MappingListsTyped ==
    ASSUME NEW o \in Ontology, NEW list, NEW S, o[list] \in Seq(S),
           \A x \in Seq(S) : [o EXCEPT ![list] = x] \in Ontology, NEW c
    PROVE  /\ c.mapping \in S => Typed(CreateMapping(o, list, c.mapping))
           /\ c.mapping \in S => Typed(UpdateMapping(o, list, c))
           /\ Typed(DeleteMapping(o, list, c))
<1>1. ASSUME c.mapping \in S PROVE Typed(CreateMapping(o, list, c.mapping))
  <2>1. Append(o[list], c.mapping) \in Seq(S)
    BY <1>1, AppendList
  <2>2. [o EXCEPT ![list] = Append(@, c.mapping)] \in Ontology
    BY <2>1
  <2> QED
    BY <2>2, WhenTyped DEF CreateMapping
<1>2. ASSUME c.mapping \in S PROVE Typed(UpdateMapping(o, list, c))
  <2> DEFINE x == MapById(o[list], c.id, LAMBDA m : c.mapping)
  <2>1. x = [i \in DOMAIN o[list] |-> x[i]] /\ \A i \in DOMAIN o[list] : x[i] \in S
    BY <1>2, ListFacts DEF MapById
  <2> HIDE DEF x
  <2>2. x \in Seq(S)
    BY <2>1, RewrittenList
  <2>3. [o EXCEPT ![list] = x] \in Ontology
    BY <2>2
  <2> QED
    BY <2>3, WhenTyped DEF UpdateMapping, x
<1>3. Typed(DeleteMapping(o, list, c))
  <2> DEFINE x == Retain(o[list], LAMBDA m : m.id # c.id)
  <2>1. x \in Seq(S)
    BY PickedList DEF Retain
  <2> HIDE DEF x
  <2>2. [o EXCEPT ![list] = x] \in Ontology
    BY <2>1
  <2> QED
    BY <2>2, WhenTyped DEF DeleteMapping, x
<1> QED
  BY <1>1, <1>2, <1>3

LEMMA MappingsTyped ==
    ASSUME NEW o \in Ontology, NEW c \in MappingCommand
    PROVE  Typed(ExecuteOne(o, c))
<1>1. /\ c.op \in {"create_object_mapping", "update_object_mapping"} => c.mapping \in ObjectMapping
      /\ c.op \in {"create_link_mapping", "update_link_mapping"} => c.mapping \in LinkMapping
      /\ c.op \in MappingOps
  BY DEF MappingCommand, MappingOps
<1>2. /\ c.mapping \in ObjectMapping =>
            /\ Typed(CreateMapping(o, "object_mappings", c.mapping))
            /\ Typed(UpdateMapping(o, "object_mappings", c))
      /\ Typed(DeleteMapping(o, "object_mappings", c))
  <2>1. /\ o["object_mappings"] \in Seq(ObjectMapping)
        /\ \A x \in Seq(ObjectMapping) : [o EXCEPT !["object_mappings"] = x] \in Ontology
    BY OntologyLists, WithLists
  <2> QED
    BY <2>1, MappingListsTyped
<1>3. /\ c.mapping \in LinkMapping =>
            /\ Typed(CreateMapping(o, "link_mappings", c.mapping))
            /\ Typed(UpdateMapping(o, "link_mappings", c))
      /\ Typed(DeleteMapping(o, "link_mappings", c))
  <2>1. /\ o["link_mappings"] \in Seq(LinkMapping)
        /\ \A x \in Seq(LinkMapping) : [o EXCEPT !["link_mappings"] = x] \in Ontology
    BY OntologyLists, WithLists
  <2> QED
    BY <2>1, MappingListsTyped
<1> QED
  BY <1>1, <1>2, <1>3 DEF ExecuteOne, MappingOps

LEMMA OwnerTyped ==
    ASSUME NEW o \in Ontology, NEW owner \in Owner
    PROVE  /\ \A ps \in Seq(Property) : WithProperties(o, owner, ps) \in Ontology
           /\ OwnerExists(o, owner) => OwnerProperties(o, owner) \in Seq(Property)
<1>1. CASE owner.kind = "node"
  <2> DEFINE ns == o.node_types
             x(ps) == MapById(ns, owner.type_id, LAMBDA n : [n EXCEPT !.properties = ps])
  <2>1. ns \in Seq(NodeType) /\ \A i \in DOMAIN ns : ns[i] \in NodeType
    BY OntologyLists, ListFacts
  <2>2. ASSUME NEW ps \in Seq(Property) PROVE x(ps) \in Seq(NodeType)
    <3>1. x(ps) = [i \in DOMAIN ns |-> x(ps)[i]] /\ \A i \in DOMAIN ns : x(ps)[i] \in NodeType
      BY <2>1 DEF MapById, NodeType
    <3> HIDE DEF x
    <3> QED
      BY <2>1, <3>1, RewrittenList
  <2>3. \A ps : WithProperties(o, owner, ps) = [o EXCEPT !.node_types = x(ps)]
    BY <1>1 DEF WithProperties, Collection
  <2>4. OwnerExists(o, owner) => OwnerProperties(o, owner) \in Seq(Property)
    <3>1. OwnerExists(o, owner) => Find(ns, owner.type_id) \in NodeType
      BY <1>1, <2>1, FoundTyped DEF OwnerExists, Collection
    <3> QED
      BY <1>1, <3>1 DEF OwnerProperties, Collection, NodeType
  <2> HIDE DEF x
  <2> QED
    BY <2>2, <2>3, <2>4, WithLists
<1>2. CASE owner.kind # "node"
  <2> DEFINE es == o.edge_types
             x(ps) == MapById(es, owner.type_id, LAMBDA n : [n EXCEPT !.properties = ps])
  <2>1. es \in Seq(EdgeType) /\ \A i \in DOMAIN es : es[i] \in EdgeType
    BY OntologyLists, ListFacts
  <2>2. ASSUME NEW ps \in Seq(Property) PROVE x(ps) \in Seq(EdgeType)
    <3>1. x(ps) = [i \in DOMAIN es |-> x(ps)[i]] /\ \A i \in DOMAIN es : x(ps)[i] \in EdgeType
      BY <2>1 DEF MapById, EdgeType
    <3> HIDE DEF x
    <3> QED
      BY <2>1, <3>1, RewrittenList
  <2>3. \A ps : WithProperties(o, owner, ps) = [o EXCEPT !.edge_types = x(ps)]
    BY <1>2 DEF WithProperties, Collection
  <2>4. OwnerExists(o, owner) => OwnerProperties(o, owner) \in Seq(Property)
    <3>1. OwnerExists(o, owner) => Find(es, owner.type_id) \in EdgeType
      BY <1>2, <2>1, FoundTyped DEF OwnerExists, Collection
    <3> QED
      BY <1>2, <3>1 DEF OwnerProperties, Collection, EdgeType
  <2> HIDE DEF x
  <2> QED
    BY <2>2, <2>3, <2>4, WithLists
<1> QED
  BY <1>1, <1>2

LEMMA PatchForm ==
    ASSUME NEW patch \in Patch
    PROVE  \E fs \in SUBSET {"name", "nullable", "default_value"} :
             \E v \in Patched : patch = [f \in fs |-> v[f]]
BY SMTT(30) DEF Patch

LEMMA PatchedProperty ==
    ASSUME NEW p \in Property, NEW patch \in Patch
    PROVE  [f \in DOMAIN p |-> IF f \in DOMAIN patch THEN patch[f] ELSE p[f]] \in Property
<1> DEFINE names == {"name", "nullable", "default_value"}
<1>0. \E fs \in SUBSET names : \E v \in Patched : patch = [f \in fs |-> v[f]]
  BY PatchForm
<1>1. PICK fs \in SUBSET names : \E v \in Patched : patch = [f \in fs |-> v[f]]
  BY <1>0
<1>1a. PICK v \in Patched : patch = [f \in fs |-> v[f]]
  BY <1>1
<1>2. DOMAIN patch = fs /\ \A f \in fs : patch[f] = v[f]
  BY <1>1a
<1>3. /\ "name" \in fs => patch["name"] \in Text
      /\ "nullable" \in fs => patch["nullable"] \in BOOLEAN
      /\ "default_value" \in fs => patch["default_value"] \in Text
      /\ "id" \notin fs
  BY <1>2 DEF Patched
<1>4. DOMAIN p = {"id", "name", "nullable", "default_value"}
  BY DEF Property
<1> DEFINE q == [f \in DOMAIN p |-> IF f \in DOMAIN patch THEN patch[f] ELSE p[f]]
<1>5. q = [id |-> q.id, name |-> q.name, nullable |-> q.nullable,
           default_value |-> q.default_value]
  BY <1>4
<1>6. /\ q.id \in PropertyId /\ q.name \in Text /\ q.nullable \in BOOLEAN
      /\ q.default_value \in Text
  BY <1>2, <1>3, <1>4 DEF Property
<1> HIDE DEF q
<1>7. q \in Property
  BY <1>5, <1>6 DEF Property
<1> QED
  BY <1>7 DEF q

LEMMA PropertiesTyped ==
    ASSUME NEW o \in Ontology, NEW c \in PropertyCommand
    PROVE  Typed(ExecuteOne(o, c))
<1> DEFINE ps == OwnerProperties(o, c.owner)
<1>0. /\ c.owner \in Owner
      /\ c.op = "add_property" => c.property \in Property
      /\ c.op = "update_property" => c.patch \in Patch
      /\ c.op \in PropertyOps
  BY DEF PropertyCommand, PropertyOps
<1>1. /\ \A x \in Seq(Property) : WithProperties(o, c.owner, x) \in Ontology
      /\ OwnerExists(o, c.owner) => ps \in Seq(Property)
  BY <1>0, OwnerTyped
<1>2. CASE c.op = "add_property"
  <2>1. OwnerExists(o, c.owner) => WithProperties(o, c.owner, Append(ps, c.property)) \in Ontology
    BY <1>0, <1>1, <1>2, AppendList
  <2> QED
    BY <1>2, <2>1, WhenTyped DEF ExecuteOne, AddProperty
<1>3. CASE c.op = "update_property"
  <2> DEFINE old == Find(ps, c.property_id)
             new == [f \in DOMAIN old |-> IF f \in DOMAIN c.patch THEN c.patch[f] ELSE old[f]]
             x == MapById(ps, c.property_id, LAMBDA p : new)
             cond == OwnerExists(o, c.owner) /\ c.property_id \in Ids(ps)
  <2>1. ASSUME cond PROVE WithProperties(o, c.owner, x) \in Ontology
    <3>1. old \in Property
      BY <1>1, <2>1, FoundTyped
    <3>2. new \in Property
      BY <1>0, <1>3, <3>1, PatchedProperty
    <3>3. x = [i \in DOMAIN ps |-> x[i]] /\ \A i \in DOMAIN ps : x[i] \in Property
      <4> HIDE DEF new
      <4> QED
        BY <1>1, <2>1, <3>2, ListFacts DEF MapById
    <3> HIDE DEF x
    <3>4. x \in Seq(Property)
      BY <1>1, <2>1, <3>3, RewrittenList
    <3> QED
      BY <1>1, <3>4
  <2>2. \E inverse : UpdateProperty(o, c) = When(cond, Ok(WithProperties(o, c.owner, x), inverse))
    BY Zenon DEF UpdateProperty
  <2> HIDE DEF x, cond
  <2> QED
    BY <1>3, <2>1, <2>2, WhenTyped DEF ExecuteOne
<1>4. CASE c.op = "delete_property"
  <2> DEFINE pid == c.property_id
             id == c.owner.type_id
             Uses(x) == pid \in ToSet(x.property_ids)
             cs == IF c.owner.kind = "node" THEN Retain(Find(o.node_types, id).constraints, Uses)
                   ELSE <<>>
             idxs == Retain(o.indexes, LAMBDA i : i.node_id = id /\ Uses(i))
             Touched(m) == /\ c.owner.kind = "node" /\ m.node_type_id = id
                           /\ pid \in ToSet(m.property_mappings)
             x == Retain(ps, LAMBDA p : p.id # pid)
             w == WithProperties(o, c.owner, x)
             less(n) == Retain(n.constraints, LAMBDA y : y \notin ToSet(cs))
             ns == MapById(w.node_types, id, LAMBDA n :
                       [n EXCEPT !.constraints = Retain(@, LAMBDA y : y \notin ToSet(cs))])
             w1 == [w EXCEPT !["node_types"] = ns]
             is == Retain(w1["indexes"], LAMBDA i : i \notin ToSet(idxs))
             w2 == [w1 EXCEPT !["indexes"] = Retain(@, LAMBDA i : i \notin ToSet(idxs))]
             without(m) == Retain(m.property_mappings, LAMBDA p : p # pid)
             ms == [k \in DOMAIN w2.object_mappings |->
                       IF Touched(w2.object_mappings[k])
                       THEN Unmap(w2.object_mappings[k], pid) ELSE w2.object_mappings[k]]
             new == [w2 EXCEPT !["object_mappings"] = [k \in DOMAIN @ |->
                        IF Touched(@[k]) THEN Unmap(@[k], pid) ELSE @[k]]]
             cond == OwnerExists(o, c.owner) /\ pid \in Ids(ps)
  <2>1. \E inverse : DeleteProperty(o, c) = When(cond, Ok(new, inverse))
    BY ZenonT(60) DEF DeleteProperty
  <2>1a. w2 = [w1 EXCEPT !["indexes"] = is]
    <3> HIDE DEF w1
    <3> QED
      OBVIOUS
  <2>1b. new = [w2 EXCEPT !["object_mappings"] = ms]
    <3> HIDE DEF w2, Touched
    <3> QED
      OBVIOUS
  <2>2. ASSUME cond PROVE new \in Ontology
    <3>1. w \in Ontology
      <4>1. x \in Seq(Property)
        BY <1>1, <2>2, PickedList DEF Retain
      <4> HIDE DEF x
      <4> QED
        BY <1>1, <4>1
    <3> HIDE DEF w
    <3>2. w.node_types \in Seq(NodeType) /\ \A i \in DOMAIN w.node_types : w.node_types[i] \in NodeType
      BY <3>1, OntologyLists, ListFacts
    <3>3. ns \in Seq(NodeType)
      <4>1. ASSUME NEW i \in DOMAIN w.node_types PROVE less(w.node_types[i]) \in Seq(ConstraintDef)
        <5>1. w.node_types[i].constraints \in Seq(ConstraintDef)
          BY <3>2 DEF NodeType
        <5> QED
          BY <5>1, PickedList DEF Retain
      <4>2. ns = MapById(w.node_types, id, LAMBDA n : [n EXCEPT !.constraints = less(n)])
        BY DEF MapById
      <4> HIDE DEF less, ns
      <4>3. ns = [i \in DOMAIN w.node_types |-> ns[i]] /\ \A i \in DOMAIN w.node_types : ns[i] \in NodeType
        BY <3>2, <4>1, <4>2 DEF MapById, NodeType
      <4> QED
        BY <3>2, <4>3, RewrittenList
    <3> HIDE DEF ns
    <3>4. w1 \in Ontology
      BY <3>1, <3>3, WithLists
    <3> HIDE DEF w1
    <3>5. is \in Seq(IndexDef)
      BY <3>4, OntologyLists, PickedList DEF Retain
    <3> HIDE DEF is
    <3>6. w2 \in Ontology
      BY <3>4, <3>5, WithLists, <2>1a
    <3> HIDE DEF w2
    <3>7. /\ w2.object_mappings \in Seq(ObjectMapping)
          /\ \A i \in DOMAIN w2.object_mappings : w2.object_mappings[i] \in ObjectMapping
      BY <3>6, OntologyLists, ListFacts
    <3>8. ms \in Seq(ObjectMapping)
      <4>1. ASSUME NEW i \in DOMAIN w2.object_mappings
            PROVE  without(w2.object_mappings[i]) \in Seq(PropertyId)
        <5>1. w2.object_mappings[i].property_mappings \in Seq(PropertyId)
          BY <3>7 DEF ObjectMapping
        <5> QED
          BY <5>1, PickedList DEF Retain
      <4>2. ms = [i \in DOMAIN w2.object_mappings |->
                    IF Touched(w2.object_mappings[i])
                    THEN [w2.object_mappings[i] EXCEPT !.property_mappings =
                             without(w2.object_mappings[i])]
                    ELSE w2.object_mappings[i]]
        BY DEF Unmap
      <4> HIDE DEF without, Touched, ms
      <4>3. /\ ms = [i \in DOMAIN w2.object_mappings |-> ms[i]]
            /\ \A i \in DOMAIN w2.object_mappings : ms[i] \in ObjectMapping
        BY <3>7, <4>1, <4>2 DEF ObjectMapping
      <4> QED
        BY <3>7, <4>3, RewrittenList
    <3> HIDE DEF ms
    <3> QED
      BY <3>6, <3>8, WithLists, <2>1b
  <2> HIDE DEF new, cond
  <2> QED
    BY <1>4, <2>1, <2>2, WhenTyped DEF ExecuteOne
<1> QED
  BY <1>0, <1>2, <1>3, <1>4 DEF PropertyOps

\* A command makes an ontology of an ontology.
LEMMA OneTyped ==
    ASSUME NEW o \in Ontology, NEW c \in Command
    PROVE  Typed(ExecuteOne(o, c))
  BY NodesTyped, EdgesTyped, PropertiesTyped, ConstraintsTyped, IndexesTyped, MappingsTyped
  DEF Command

-----------------------------------------------------------------------------
(* Runs of commands, one after the other.                                   *)

\* What the places of a fold hold, one prefix after the other.
LEMMA FoldingRuns ==
    ASSUME NEW n \in Nat, NEW s, DOMAIN s = 1..n, NEW kind, NEW base, NEW iter,
           iter = Folding(iter, kind, base, s)
    PROVE  \E g : /\ g[0] = base /\ g[n] = iter[DOMAIN s]
                  /\ \A k \in 1..n : g[k] = StepOf(kind, g[k - 1], s[k])
<1> DEFINE g == [k \in 0..n |-> iter[1..k]]
<1>1. \A T \in SUBSET (1..n) :
          iter[T] = IF T = {} THEN base ELSE StepOf(kind, iter[T \ {Max(T)}], s[Max(T)])
  BY DEF Folding
<1>2. g[0] = base
  <2>1. 1..0 = {} /\ g[0] = iter[1..0]
    OBVIOUS
  <2> QED
    BY <1>1, <2>1
<1>3. ASSUME NEW k \in 1..n PROVE g[k] = StepOf(kind, g[k - 1], s[k])
  <2>1. Max(1..k) = k
    <3>1. 1..k \subseteq 0..k /\ 1..k # {} /\ k \in 1..k /\ k \in Nat
      OBVIOUS
    <3>2. Max(1..k) \in 1..k /\ k <= Max(1..k)
      BY <3>1, MaxIsGreatest
    <3> QED
      BY <3>2
  <2>2. (1..k) \ {k} = 1..(k - 1) /\ 1..k \in SUBSET (1..n) /\ 1..k # {}
    OBVIOUS
  <2>3. iter[1..k] = StepOf(kind, iter[1..(k - 1)], s[k])
    BY <1>1, <2>1, <2>2
  <2>4. g[k] = iter[1..k] /\ g[k - 1] = iter[1..(k - 1)]
    OBVIOUS
  <2> QED
    BY <2>3, <2>4
<1>4. g[n] = iter[DOMAIN s]
  OBVIOUS
<1> QED
  <2> HIDE DEF g
  <2> QED
    BY <1>2, <1>3, <1>4

\* g holds what a batch made of an ontology, one command after the other.
ServerRuns(g, o, n, cmds) ==
    /\ g[0] = Ok(o, <<>>) /\ g[n] = execute_inner(o, cmds)
    /\ \A k \in 1..n : g[k] = IF g[k - 1].ok
                              THEN Then(g[k - 1], ExecuteOne(g[k - 1].ont, cmds[k]))
                              ELSE g[k - 1]

BrowserRuns(h, o, n, cmds) ==
    /\ h[0] = Applied(o, <<>>) /\ h[n] = applyCommandToOntology(o, cmds)
    /\ \A k \in 1..n : h[k] = FeThen(h[k - 1], FeApplyOne(h[k - 1].ont, cmds[k]))

LEMMA BatchRuns ==
    ASSUME NEW o, NEW n \in Nat, NEW cmds, DOMAIN cmds = 1..n
    PROVE  \E g : ServerRuns(g, o, n, cmds)
<1> DEFINE base == Ok(o, <<>>)
           E(f) == [T \in SUBSET (DOMAIN cmds) |-> IF T = {} THEN base
                       ELSE IF f[T \ {Max(T)}].ok
                            THEN Then(f[T \ {Max(T)}], ExecuteOne(f[T \ {Max(T)}].ont, cmds[Max(T)]))
                            ELSE f[T \ {Max(T)}]]
           iter == CHOOSE f : f = E(f)
<1>1. execute_inner(o, cmds) = iter[DOMAIN cmds]
  BY Zenon DEF execute_inner, FoldLeft, MapThenFoldSet
<1>3. ASSUME NEW f PROVE E(f) = Folding(f, "batch", base, cmds)
  BY DEF Folding, StepOf
<1>4. iter = Folding(iter, "batch", base, cmds)
  <2>1. \E f : f = E(f)
    <3> HIDE DEF E
    <3>1. PICK f : f = Folding(f, "batch", base, cmds)
      BY FoldingExists
    <3> QED
      BY <1>3, <3>1
  <2> HIDE DEF E
  <2> QED
    BY <1>3, <2>1
<1> HIDE DEF iter, base
<1>5. PICK g : /\ g[0] = base /\ g[n] = iter[DOMAIN cmds]
               /\ \A k \in 1..n : g[k] = StepOf("batch", g[k - 1], cmds[k])
  BY <1>4, FoldingRuns
<1>6. \A k \in 1..n : g[k] = IF g[k - 1].ok
                             THEN Then(g[k - 1], ExecuteOne(g[k - 1].ont, cmds[k]))
                             ELSE g[k - 1]
  BY <1>5 DEF StepOf
<1>7. g[0] = Ok(o, <<>>) /\ g[n] = execute_inner(o, cmds)
  BY <1>1, <1>5 DEF base
<1>8. ServerRuns(g, o, n, cmds)
  BY <1>6, <1>7 DEF ServerRuns
<1> QED
  BY <1>8

LEMMA BrowserBatchRuns ==
    ASSUME NEW o, NEW n \in Nat, NEW cmds, DOMAIN cmds = 1..n
    PROVE  \E h : BrowserRuns(h, o, n, cmds)
<1> DEFINE base == Applied(o, <<>>)
           E(f) == [T \in SUBSET (DOMAIN cmds) |-> IF T = {} THEN base
                       ELSE FeThen(f[T \ {Max(T)}], FeApplyOne(f[T \ {Max(T)}].ont, cmds[Max(T)]))]
           iter == CHOOSE f : f = E(f)
<1>1. applyCommandToOntology(o, cmds) = iter[DOMAIN cmds]
  BY Zenon DEF applyCommandToOntology, FoldLeft, MapThenFoldSet
<1>3. ASSUME NEW f PROVE E(f) = Folding(f, "browser", base, cmds)
  BY DEF Folding, StepOf
<1>4. iter = Folding(iter, "browser", base, cmds)
  <2>1. \E f : f = E(f)
    <3> HIDE DEF E
    <3>1. PICK f : f = Folding(f, "browser", base, cmds)
      BY FoldingExists
    <3> QED
      BY <1>3, <3>1
  <2> HIDE DEF E
  <2> QED
    BY <1>3, <2>1
<1> HIDE DEF iter, base
<1>5. PICK g : /\ g[0] = base /\ g[n] = iter[DOMAIN cmds]
               /\ \A k \in 1..n : g[k] = StepOf("browser", g[k - 1], cmds[k])
  BY <1>4, FoldingRuns
<1>6. \A k \in 1..n : g[k] = FeThen(g[k - 1], FeApplyOne(g[k - 1].ont, cmds[k]))
  BY <1>5 DEF StepOf
<1>7. g[0] = Applied(o, <<>>) /\ g[n] = applyCommandToOntology(o, cmds)
  BY <1>1, <1>5 DEF base
<1>8. BrowserRuns(g, o, n, cmds)
  BY <1>6, <1>7 DEF BrowserRuns
<1> QED
  BY <1>8

\* A command issued by itself.
LEMMA RunOfOne ==
    ASSUME NEW o, NEW c
    PROVE  /\ execute_inner(o, <<c>>) = Then(Ok(o, <<>>), ExecuteOne(o, c))
           /\ applyCommandToOntology(o, <<c>>) = FeThen(Applied(o, <<>>), FeApplyOne(o, c))
<1> DEFINE s == <<c>>
           n == 1
<1>1. DOMAIN s = 1..n /\ s[1] = c /\ n \in Nat
  OBVIOUS
<1> HIDE DEF s, n
<1>2. PICK g : ServerRuns(g, o, n, s)
  BY <1>1, BatchRuns
<1>3. g[1] = IF g[0].ok THEN Then(g[0], ExecuteOne(g[0].ont, c)) ELSE g[0]
  <2>1. 1 \in 1..n /\ 1 - 1 = 0
    BY DEF n
  <2> QED
    BY <1>1, <1>2, <2>1 DEF ServerRuns
<1>4. PICK h : BrowserRuns(h, o, n, s)
  BY <1>1, BrowserBatchRuns
<1>5. h[1] = FeThen(h[0], FeApplyOne(h[0].ont, c))
  <2>1. 1 \in 1..n /\ 1 - 1 = 0
    BY DEF n
  <2> QED
    BY <1>1, <1>4, <2>1 DEF BrowserRuns
<1>6. (Ok(o, <<>>)).ok /\ (Ok(o, <<>>)).ont = o /\ (Applied(o, <<>>)).ont = o
  BY DEF Ok, Applied
<1>7. execute_inner(o, s) = Then(Ok(o, <<>>), ExecuteOne(o, c))
  BY <1>2, <1>3, <1>6 DEF n, ServerRuns
<1>8. applyCommandToOntology(o, s) = FeThen(Applied(o, <<>>), FeApplyOne(o, c))
  BY <1>4, <1>5, <1>6 DEF n, BrowserRuns
<1> QED
  BY <1>7, <1>8 DEF s

-----------------------------------------------------------------------------
(* Verifications.                                                           *)

LEMMA DefinitionsChange ==
    ASSUME NEW a, NEW b, NEW ids, IsOntology(a), Changes(a, b, ids), NEW id, id \notin ids
    PROVE  {x \in ToSet(b.node_types \o b.edge_types) : x.id = id}
           \subseteq {x \in ToSet(a.node_types \o a.edge_types) : x.id = id}
<1>1. ASSUME NEW o, IsOntology(o)
      PROVE  ToSet(o.node_types \o o.edge_types) = ToSet(o.node_types) \cup ToSet(o.edge_types)
  <2> DEFINE l == o.node_types
             m == o.edge_types
             S == ToSet(l) \cup ToSet(m)
  <2>1. l \in Seq(S) /\ m \in Seq(S)
    BY <1>1 DEF IsOntology, Identified
  <2>2. /\ Len(l) \in Nat /\ Len(m) \in Nat
        /\ DOMAIN l = 1..Len(l) /\ DOMAIN m = 1..Len(m)
        /\ DOMAIN (l \o m) = 1..(Len(l) + Len(m))
        /\ \A i \in 1..(Len(l) + Len(m)) :
              (l \o m)[i] = IF i <= Len(l) THEN l[i] ELSE m[i - Len(l)]
    <3> HIDE DEF l, m, S
    <3> QED
      BY <2>1, LenProperties, ConcatProperties
  <2> HIDE DEF l, m, S
  <2>3. \A i \in DOMAIN l : l[i] = (l \o m)[i] /\ i \in DOMAIN (l \o m)
    BY <2>2
  <2>4. \A i \in DOMAIN m : m[i] = (l \o m)[i + Len(l)] /\ i + Len(l) \in DOMAIN (l \o m)
    BY <2>2
  <2>5. \A i \in DOMAIN (l \o m) : \/ i \in DOMAIN l /\ (l \o m)[i] = l[i]
                                   \/ i - Len(l) \in DOMAIN m /\ (l \o m)[i] = m[i - Len(l)]
    BY <2>2
  <2>6. ToSet(l \o m) = ToSet(l) \cup ToSet(m)
    BY <2>3, <2>4, <2>5 DEF ToSet
  <2> QED
    BY <2>6 DEF l, m
<1>2. IsOntology(b)
  BY DEF Changes
<1>3. \A x \in ToSet(b.node_types) \cup ToSet(b.edge_types) :
          x.id = id => x \in ToSet(a.node_types) \cup ToSet(a.edge_types)
  BY DEF Changes, Reworks
<1> QED
  BY <1>1, <1>2, <1>3

LEMMA SavesStep ==
    ASSUME Shapes, StacksCapped, SavesAreStacks, AStep
    PROVE  SavesAreStacks'
<1>1. IsStack(<<>>) /\ \A t \in Tabs : IsStack(tabs[t].commandStack)
  BY EmptyIsStack DEF StacksCapped, HasStacks
<1>2. ASSUME NEW t \in Tabs, fetches'[t].kind # "none"
      PROVE  IsStack(fetches'[t].entries)
  BY <1>1, <1>2, FetchesStep DEF SavesAreStacks, NoFetch
<1>3. ASSUME NEW c \in Calls, calls'[c].phase # "idle"
      PROVE  IsStack(calls'[c].entries)
  <2>0. /\ Moved(c)
        /\ calls[c].phase # "idle" => RequestFields \subseteq DOMAIN calls[c]
    BY CallsStep DEF Shapes
  <2>1. CASE calls[c].phase # "idle" /\ calls'[c].entries = calls[c].entries
    BY <2>1 DEF SavesAreStacks
  <2>2. ASSUME NEW t \in Tabs, NEW ui, NEW rev, NEW entries, IsStack(entries),
               calls'[c] = Request(t, ui, rev, entries)
        PROVE  IsStack(calls'[c].entries)
    BY <2>2 DEF Request
  <2>3. ASSUME NEW n, calls'[c] = With(calls[c], n), calls[c].phase # "idle",
               "entries" \notin DOMAIN n
        PROVE  calls'[c].entries = calls[c].entries
    BY <2>0, <2>3 DEF RequestFields, With
  <2>4. ASSUME NEW phase, calls'[c] = [calls[c] EXCEPT !.phase = phase], calls[c].phase # "idle"
        PROVE  calls'[c].entries = calls[c].entries
    BY <2>0, <2>4 DEF RequestFields
  <2>5. calls'[c] # NoCall
    BY <1>3 DEF NoCall
  <2>6. CASE \E t \in Tabs : \E ui, entries :
                \/ /\ entries = tabs[t].commandStack
                   /\ calls'[c] = Request(t, ui, tabs[t].draft.revision, entries)
                \/ /\ fetches[t].kind # "none" /\ entries = fetches[t].entries
                   /\ calls'[c] = Request(t, ui, fetches[t].rev, entries)
    BY <1>1, <2>2, <2>6 DEF SavesAreStacks
  <2>7. CASE /\ calls[c].phase # "idle"
             /\ \/ \E o : calls'[c] = With(calls[c], [phase |-> "executed", result |-> o])
                \/ \E phase : calls'[c] = [calls[c] EXCEPT !.phase = phase]
                \/ calls'[c] = With(calls[c], [phase |-> "ok", draft |-> Current])
    <3>1. ASSUME NEW o, NEW d
          PROVE  /\ "entries" \notin DOMAIN [phase |-> "executed", result |-> o]
                 /\ "entries" \notin DOMAIN [phase |-> "ok", draft |-> d]
      OBVIOUS
    <3>2. calls'[c].entries = calls[c].entries
      BY ZenonT(60), <2>3, <2>4, <2>7, <3>1
    <3> QED
      BY <2>1, <2>7, <3>2
  <2>8. CASE calls'[c] = calls[c]
    BY <1>3, <2>8 DEF SavesAreStacks
  <2> QED
    <3>1. Moved(c)
      BY <2>0
    <3>2. calls[c].phase \in {"sent", "written"} => calls[c].phase # "idle"
      OBVIOUS
    <3> QED
      BY ZenonT(60), <2>5, <2>6, <2>7, <2>8, <3>1, <3>2 DEF Moved
<1> QED
  BY <1>2, <1>3 DEF SavesAreStacks

\* What a save writes differs from the revision before in what it names only.
LEMMA WriteChanges ==
    ASSUME IInv, NEW c \in Calls, calls[c].phase = "executed", Len(history) = calls[c].rev
    PROVE  Changes(history[Len(history)].ontology, calls[c].result, Named(calls[c].entries))
<1> DEFINE entries == calls[c].entries
           o == history[Len(history)].ontology
           replayed == ExecuteAll(o, entries)
<1>1. Len(history) \in Nat \ {0}
  BY EmptySeq DEF IInv, Shapes
<1>2. replayed.ok /\ replayed.ont = calls[c].result
  BY <1>1 DEF IInv, ExecutedOnRevision
<1>3. IsOntology(o)
  BY <1>1 DEF IInv, Ontologies, Revision
<1>4. /\ Len(entries) \in Nat /\ DOMAIN entries = 1..Len(entries)
      /\ \A i \in 1..Len(entries) : IsBatch(entries[i].command)
  BY LenProperties DEF IInv, SavesAreStacks, IsStack, Batches
<1>5. Refines(replayed, o, Named(entries))
  <2> HIDE DEF o, entries
  <2> QED
    BY <1>3, <1>4, SaveRefines
<1> QED
  BY <1>2, <1>5 DEF Refines

\* A request that has just been executed has dropped what stood in its way.
LEMMA ExecutionInvalidates ==
    ASSUME Shapes, AStep, NEW c \in Calls,
           calls[c].phase # "executed", calls'[c].phase = "executed"
    PROVE  /\ calls'[c].entries = calls[c].entries
           /\ verified' = invalidate_for_elements(Named(calls[c].entries))
<1>1. ASSUME NEW d \in Calls, Save(d)
      PROVE  d = c /\ ServerExecute(d)
  <2>1. ASSUME NEW t, NEW ui, NEW rev, NEW entries
        PROVE  Request(t, ui, rev, entries).phase = "sent"
    BY DEF Request
  <2>2. \A e \in Calls : e # d => calls'[e] = calls[e]
    BY <1>1 DEF Save, handleSave, ServerExecute, ServerWrite, ServerReload, ReceiveSaved,
                ReceiveConflict, ReceiveFailure, Shapes
  <2>3. d = c
    BY <2>2
  <2>4. "phase" \in DOMAIN calls[d]
    BY DEF Shapes
  <2>5. ASSUME NEW n, calls' = [calls EXCEPT ![d] = n], n.phase # "executed"
        PROVE  FALSE
    BY <2>3, <2>5 DEF Shapes
  <2>6. ~ (\E t \in Tabs, ui \in {"inspector", "canvas"} : handleSave(t, d, ui))
    BY <2>1, <2>5 DEF handleSave
  <2>7. ~ServerWrite(d)
    <3>1. [calls[d] EXCEPT !.phase = "written"].phase = "written"
          /\ [calls[d] EXCEPT !.phase = "conflict"].phase = "conflict"
      BY <2>4
    <3> QED
      BY <2>5, <3>1 DEF ServerWrite
  <2>8. ~ServerReload(d)
    <3>1. With(calls[d], [phase |-> "ok", draft |-> Current]).phase = "ok"
      BY DEF With
    <3> QED
      BY <2>5, <3>1 DEF ServerReload
  <2>9. ~ReceiveSaved(d) /\ ~ReceiveConflict(d) /\ ~ReceiveFailure(d)
    BY <2>5 DEF ReceiveSaved, ReceiveConflict, ReceiveFailure, NoCall
  <2> QED
    BY <1>1, <2>3, <2>6, <2>7, <2>8, <2>9 DEF Save
<1>2. ASSUME NEW t \in Tabs, NEW d \in Calls, handleKeepLocal(t, d) PROVE FALSE
  BY <1>2 DEF handleKeepLocal, Request, Shapes
<1>3. calls' # calls
  OBVIOUS
<1>4. ServerExecute(c)
  BY <1>1, <1>2, <1>3
     DEF AStep, Edit, Fetch, verify_element, applyCommand, addNode, deleteSelected, undo, redo,
         OnlyTab, Refetch, handleAcceptRemote, Reloaded
<1>5. /\ verified' = invalidate_for_elements(Named(calls[c].entries)) /\ calls[c].phase = "sent"
      /\ calls'[c] = With(calls[c], [phase |-> "executed",
                                     result |-> ExecuteAll(Current.ontology, calls[c].entries).ont])
  <2>1. "phase" \in DOMAIN calls[c]
    BY DEF Shapes
  <2>2. ~ (calls' = [calls EXCEPT ![c].phase = "rejected"])
    BY <2>1 DEF Shapes
  <2> QED
    BY <1>4, <2>2 DEF ServerExecute, Shapes
<1>6. "entries" \in DOMAIN calls[c]
  BY <1>5 DEF Shapes, RequestFields
<1> QED
  BY <1>5, <1>6 DEF With

LEMMA ExecutedStays ==
    ASSUME Shapes, AStep, NEW c \in Calls,
           calls[c].phase = "executed", calls'[c].phase = "executed"
    PROVE  calls'[c].entries = calls[c].entries
<1>1. Moved(c) /\ "phase" \in DOMAIN calls[c] /\ RequestFields \subseteq DOMAIN calls[c]
  BY CallsStep DEF Shapes
<1>2. calls'[c] = calls[c] \/ \E phase : calls'[c] = [calls[c] EXCEPT !.phase = phase]
  BY <1>1 DEF Moved, NoCall
<1> QED
  BY <1>1, <1>2 DEF RequestFields

\* Verifications go, and one that comes is of the current revision.
NewlyVerified(v) ==
    /\ v.rev = Len(history)
    /\ v.raced = (\E c \in Calls : calls[c].phase = "executed" /\ v.id \in Named(calls[c].entries))

LEMMA VerifiedStep ==
    ASSUME AStep
    PROVE  \/ verified' \subseteq verified
           \/ /\ \A v \in verified' : v \in verified \/ NewlyVerified(v)
              /\ calls' = calls /\ history' = history
<1>1. ASSUME NEW id, verify_element(id)
      PROVE  /\ \A v \in verified' : v \in verified \/ NewlyVerified(v)
             /\ calls' = calls /\ history' = history
  <2> DEFINE new == [id |-> id, rev |-> Len(history),
                     raced |-> \E c \in Calls : /\ calls[c].phase = "executed"
                                                /\ id \in Named(calls[c].entries)]
  <2>1. verified' = verified \cup {new} /\ calls' = calls /\ history' = history
    BY <1>1 DEF verify_element
  <2>2. NewlyVerified(new)
    BY ZenonT(60) DEF NewlyVerified
  <2> HIDE DEF new
  <2> QED
    BY <2>1, <2>2
<1>2. (\E id \in Reviewed : verify_element(id)) \/ verified' \subseteq verified
  BY DEF AStep, Edit, Fetch, Save, applyCommand, addNode, deleteSelected,
         undo, redo, OnlyTab, Refetch, handleKeepLocal, handleAcceptRemote, Reloaded,
         handleSave, ServerExecute, invalidate_for_elements, ServerWrite, ServerReload,
         ReceiveSaved, ReceiveConflict, ReceiveFailure
<1> QED
  BY <1>1, <1>2

LEMMA OntologiesStep ==
    ASSUME IInv, AStep
    PROVE  Ontologies'
<1>1. CASE history' = history
  BY <1>1 DEF IInv, Ontologies, Revision
<1>2. CASE history' # history
  <2>1. PICK c \in Calls :
            /\ calls[c].phase = "executed" /\ Len(history) = calls[c].rev
            /\ history' = Append(history, [ontology |-> calls[c].result,
                                           entries |-> calls[c].entries])
    BY <1>2, HistoryStep
  <2>2. /\ Len(history) \in Nat \ {0} /\ Len(history') = Len(history) + 1
        /\ \A r \in 1..Len(history) : history'[r] = history[r]
        /\ history'[Len(history) + 1] = [ontology |-> calls[c].result, entries |-> calls[c].entries]
    BY <2>1, HistoryGrows DEF IInv
  <2>3. IsOntology(calls[c].result)
    BY <2>1, WriteChanges DEF Changes
  <2>4. \A r \in 1..(Len(history) + 1) : r \in 1..Len(history) \/ r = Len(history) + 1
    BY <2>2
  <2> QED
    BY <2>2, <2>3, <2>4 DEF IInv, Ontologies, Revision
<1> QED
  BY <1>1, <1>2

LEMMA VerifiedBeforeStep ==
    ASSUME IInv, AStep
    PROVE  VerifiedBefore'
<1>1. Len(history) \in Revision /\ Revision \subseteq Revision'
  BY RevisionGrows DEF IInv
<1>2. \A v \in verified' : v \in verified \/ v.rev = Len(history)
  BY VerifiedStep DEF NewlyVerified
<1> QED
  BY <1>1, <1>2 DEF IInv, VerifiedBefore

LEMMA RacesStep ==
    ASSUME IInv, AStep
    PROVE  RacesMarked'
<1> SUFFICES ASSUME NEW v \in verified', NEW c \in Calls,
                    calls'[c].phase = "executed", v.id \in Named(calls'[c].entries)
             PROVE  v.raced
  BY DEF RacesMarked
<1>1. CASE v \in verified
  <2>1. CASE calls[c].phase = "executed"
    <3>1. calls'[c].entries = calls[c].entries
      BY <2>1, ExecutedStays DEF IInv
    <3> QED
      BY <1>1, <2>1, <3>1 DEF IInv, RacesMarked
  <2>2. CASE calls[c].phase # "executed"
    <3>1. v.id \notin Named(calls[c].entries) /\ calls'[c].entries = calls[c].entries
      BY <2>2, ExecutionInvalidates DEF IInv, invalidate_for_elements
    <3> QED
      BY <3>1
  <2> QED
    BY <2>1, <2>2
<1>2. CASE v \notin verified
  <2>1. NewlyVerified(v) /\ calls' = calls
    BY <1>2, VerifiedStep
  <2> QED
    BY <2>1 DEF NewlyVerified
<1> QED
  BY <1>1, <1>2

LEMMA UnchangedStep ==
    ASSUME IInv, AStep
    PROVE  VerifiedMeansUnchanged'
<1>0. Len(history) \in Nat \ {0}
  BY EmptySeq DEF IInv, Shapes
<1>1. CASE history' = history
  <2> SUFFICES ASSUME NEW v \in verified', ~v.raced
               PROVE  Definition(Len(history), v.id) \subseteq Definition(v.rev, v.id)
    BY <1>1 DEF VerifiedMeansUnchanged, Definition
  <2>1. CASE v \in verified
    BY <2>1 DEF IInv, VerifiedMeansUnchanged
  <2>2. CASE v \notin verified
    BY <2>2, VerifiedStep DEF NewlyVerified
  <2> QED
    BY <2>1, <2>2
<1>2. CASE history' # history
  <2>1. PICK c \in Calls :
            /\ calls[c].phase = "executed" /\ Len(history) = calls[c].rev
            /\ history' = Append(history, [ontology |-> calls[c].result,
                                           entries |-> calls[c].entries])
            /\ verified' = verified
    BY <1>2, HistoryStep
  <2>2. /\ Len(history') = Len(history) + 1
        /\ \A r \in 1..Len(history) : history'[r] = history[r]
        /\ history'[Len(history) + 1] = [ontology |-> calls[c].result, entries |-> calls[c].entries]
    BY <2>1, HistoryGrows DEF IInv
  <2>3. /\ Changes(history[Len(history)].ontology, calls[c].result, Named(calls[c].entries))
        /\ IsOntology(history[Len(history)].ontology)
    BY <1>0, <2>1, WriteChanges DEF IInv, Ontologies, Revision
  <2> SUFFICES ASSUME NEW v \in verified, ~v.raced
               PROVE  Definition(Len(history), v.id)' \subseteq Definition(v.rev, v.id)'
    BY <2>1 DEF VerifiedMeansUnchanged, Definition
  <2>4. v.id \notin Named(calls[c].entries)
    BY <2>1 DEF IInv, RacesMarked
  <2>5. Definition(Len(history), v.id)' \subseteq Definition(Len(history), v.id)
    <3>1. history'[Len(history')].ontology = calls[c].result
      BY <2>2
    <3> QED
      BY <2>3, <2>4, <3>1, DefinitionsChange DEF Definition
  <2>6. Definition(v.rev, v.id)' = Definition(v.rev, v.id)
    BY <2>2 DEF IInv, VerifiedBefore, Revision, Definition
  <2>7. Definition(Len(history), v.id) \subseteq Definition(v.rev, v.id)
    BY DEF IInv, VerifiedMeansUnchanged
  <2> QED
    BY <2>5, <2>6, <2>7
<1> QED
  BY <1>1, <1>2
-----------------------------------------------------------------------------
LEMMA InvInit ==
    ASSUME Init
    PROVE  IInv
<1> DEFINE first == [ontology |-> BaseOntology, entries |-> <<>>]
<1>1. history = <<first>> /\ Len(history) = 1 /\ history[1] = first /\ DOMAIN history = {1}
  BY DEF Init
<1>2. history # <<>> /\ history \in Seq({history[r] : r \in DOMAIN history})
  BY <1>1
<1>3. Shapes
  BY <1>2 DEF Init, Shapes, NewTab, NoCall
<1>4. DraftsAreRevisions
  BY <1>1 DEF Init, DraftsAreRevisions, Revision, NewTab, FirstDraft, NoCall, NoFetch
<1>5. ExecutedOnRevision /\ RevisionsReplay
  BY <1>1 DEF Init, ExecutedOnRevision, RevisionsReplay, NoCall
<1>6. StacksCapped
  BY EmptyIsStack DEF Init, NewTab, StacksCapped, HasStacks, StackFields
<1>7. SavesAreStacks
  BY DEF Init, SavesAreStacks, NoCall, NoFetch
<1>8. Ontologies
  BY <1>1, EditsAssumption DEF Ontologies, Revision
<1>9. VerifiedBefore /\ RacesMarked /\ VerifiedMeansUnchanged
  BY DEF Init, VerifiedBefore, RacesMarked, VerifiedMeansUnchanged
<1> QED
  BY <1>3, <1>4, <1>5, <1>6, <1>7, <1>8, <1>9 DEF IInv

LEMMA InvStep ==
    ASSUME IInv, [Next]_vars
    PROVE  IInv'
<1>1. CASE AStep
  <2>1. Shapes' /\ DraftsAreRevisions' /\ ExecutedOnRevision' /\ RevisionsReplay'
    BY <1>1, ShapesStep, DraftsStep, ExecutedStep, ReplayStep DEF IInv
  <2>2. StacksCapped'
    BY <1>1, StacksStep DEF IInv, StacksCapped, HasStacks, IsStack
  <2>3. SavesAreStacks' /\ Ontologies' /\ VerifiedBefore' /\ RacesMarked'
    BY <1>1, SavesStep, OntologiesStep, VerifiedBeforeStep, RacesStep DEF IInv
  <2>4. VerifiedMeansUnchanged'
    BY <1>1, UnchangedStep
  <2> QED
    BY <2>1, <2>2, <2>3, <2>4 DEF IInv
<1>2. CASE UNCHANGED vars
  <2>1. Shapes' /\ DraftsAreRevisions' /\ ExecutedOnRevision' /\ RevisionsReplay' /\ StacksCapped'
    BY <1>2 DEF vars, IInv, Shapes, DraftsAreRevisions, Revision, ExecutedOnRevision,
                RevisionsReplay, StacksCapped
  <2>2. SavesAreStacks' /\ Ontologies' /\ VerifiedBefore' /\ RacesMarked' /\ VerifiedMeansUnchanged'
    BY <1>2 DEF vars, IInv, SavesAreStacks, Ontologies, Revision, VerifiedBefore, RacesMarked,
                VerifiedMeansUnchanged, Definition
  <2> QED
    BY <2>1, <2>2 DEF IInv
<1> QED
  BY <1>1, <1>2 DEF Next, AStep

\* The draft's history replays: every revision is what the commands of the
\* save that wrote it make of the revision before, so that no save overwrites
\* another it had not seen, whichever of them read, execute and write in which
\* order (apply_ontology_commands, update_design_result).
THEOREM EveryRevisionReplays == Spec => []RevisionsReplay
<1>1. IInv => RevisionsReplay
  BY DEF IInv
<1> QED
  BY <1>1, InvInit, InvStep, PTL DEF Spec

\* What is there of an element whose verification stands is what the reviewer
\* saw, unless it was verified while a save of it was about to be written: a
\* save changes no element that its commands do not name
\* (affected_element_ids), and has dropped the verifications of those before
\* it writes (apply_ontology_commands).
THEOREM VerificationsHold == Spec => []VerifiedMeansUnchanged
<1>1. IInv => VerifiedMeansUnchanged
  BY DEF IInv
<1> QED
  BY <1>1, InvInit, InvStep, PTL DEF Spec

\* Nothing but the user's own choice, a save or a full stack takes an edit off
\* a tab's stack: conflicts, refused and lost saves, answers and re-fetches in
\* any order replay it on whatever draft they bring (applyOntologyDraftSnapshot,
\* handleKeepLocal).
THEOREM UnsavedEditsSurvive == Spec => EditsSurvive
<1> DEFINE Stays == \A t \in Tabs :
               \/ Tags(tabs[t].commandStack) \subseteq
                     Tags(tabs'[t].commandStack) \cup Tags(tabs'[t].redoStack)
                     \cup SavedTags(Len(history))
               \/ fetches[t].kind = "accept"
               \/ Full(tabs'[t].commandStack) \/ Full(tabs'[t].redoStack)
<1>1. IInv /\ [Next]_vars => [Stays]_vars
  <2> SUFFICES ASSUME IInv, AStep PROVE Stays
    BY DEF Next, AStep
  <2>1. \A t \in Tabs : fetches[t].kind = "accept" \/ Kept(tabs[t], tabs'[t])
    BY StacksStep DEF IInv
  <2> QED
    BY <2>1 DEF Kept
<1> QED
  BY <1>1, InvInit, InvStep, PTL DEF Spec, EditsSurvive
=============================================================================
