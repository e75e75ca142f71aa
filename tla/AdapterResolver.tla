--------------------------- MODULE AdapterResolver ---------------------------
(***************************************************************************)
(* One workspace's federation adapters: the rows of data_sources, and the  *)
(* in-memory resolver that queries plan against (federation_resolver.rs,   *)
(* WorkspaceResolverSlot in state.rs, the handlers of federation_admin.rs).*)
(*                                                                         *)
(* federation_resolvers is a DashMap from the workspace to a slot; a slot  *)
(* is filled once, from the store, and then changed under its own lock.    *)
(* The map's lock blocks a thread, the slot's only a task; `get` on the    *)
(* map returns a guard that lives as long as what was found.               *)
(***************************************************************************)
EXTENDS Naturals, FiniteSets

CONSTANTS Request,   \* tasks, each serving one request after another
          Source,    \* source ids
          Config,    \* what a source may be registered with
          Serves,    \* [Request -> the operations it is about], a bound
          Brings,    \* [Request -> the Config it registers]
          MaxStarts, \* bound on the requests
          None,
          Workers    \* threads of the runtime

Op == {"register", "delete", "refresh", "query", "health"}

ASSUME RequestsAreFinite == IsFiniteSet(Request)
ASSUME NoneIsNothing == None \notin Request \cup Op
ASSUME WorkersAssumption == Workers \in Nat \ {0} /\ MaxStarts \in Nat
ASSUME RequestsAssumption == /\ Serves \in [Request -> SUBSET Op]
                             /\ Brings \in [Request -> Config]

VARIABLES store,     \* data_sources: [Source -> Config \cup {None}]
          entry,     \* the slot in federation_resolvers, or 0
          slots,     \* slots by number; a number is used again when its Arc is gone
          guards,    \* requests that hold a guard of the map
          blocked,   \* requests that hold a thread, waiting for the map
          started,   \* how many requests there have been
          req,       \* [Request -> what it does and where it stands]
          raced      \* history: something overlapped that nothing keeps apart

vars == <<store, entry, slots, guards, blocked, started, req, raced>>

Idle == [pc |-> "idle", op |-> None, source |-> None, slot |-> 0]

Cold == [warm |-> FALSE, hydrator |-> None, writer |-> None,
         adapters |-> [s \in Source |-> None], skipped |-> {}]

Slot == 1..Cardinality(Request) + 1

Init == /\ store = [s \in Source |-> None]
        /\ entry = 0
        /\ slots = [i \in Slot |-> Cold]
        /\ guards = {} /\ blocked = {}
        /\ started = 0
        /\ req = [p \in Request |-> Idle]
        /\ raced = FALSE

-----------------------------------------------------------------------------
Active(op) == \E p \in Request : req[p].op = op
Hydrating == \E i \in Slot : slots[i].hydrator # None

\* Blocked requests keep their threads, the others share what is left.
HasThread(p) == p \in blocked \/ Cardinality(blocked) < Workers

At(p, pc) == req[p].pc = pc /\ HasThread(p)
Goto(p, pc) == req' = [req EXCEPT ![p].pc = pc]
Done(p) == req' = [req EXCEPT ![p] = Idle]

MySlot(p) == slots[req[p].slot]
EntryWarm == entry # 0 /\ slots[entry].warm

\* A slot lives as long as the map or a request has its Arc.
Live(changed) ==
    [i \in Slot |-> IF i = entry' \/ \E p \in Request : req'[p].slot = i
                    THEN changed[i] ELSE Cold]

FirstStep(op) == CASE op \in {"register", "query"} -> "slot"
                   [] op = "refresh" -> "drop"
                   [] op = "delete" -> "erase"
                   [] op = "health" -> "peek"

\* What two requests do to a source, or to the slot it is in, out of step.
Overlaps(op) ==
    \/ op = "register" /\ (Active("refresh") \/ Active("delete"))
    \/ op = "refresh" /\ (Active("register") \/ Active("delete"))
    \/ op = "delete" /\ (Active("register") \/ Active("refresh") \/ Hydrating)

\* A registration has built its adapter: one that cannot be built ends here.
Start(p) ==
    /\ At(p, "idle")
    /\ started < MaxStarts /\ started' = started + 1
    /\ \E op \in Serves[p], s \in Source :
          /\ req' = [req EXCEPT ![p] = [pc |-> FirstStep(op), op |-> op, slot |-> 0,
                 source |-> IF op \in {"register", "delete"} THEN s ELSE None]]
          /\ raced' = (raced \/ Overlaps(op))
    /\ UNCHANGED <<store, entry, slots, guards, blocked>>

\* An exclusive access to the map finds it guarded and waits in its thread.
Block(p) ==
    /\ At(p, "slot") \/ At(p, "drop")
    /\ p \notin blocked /\ guards # {}
    /\ blocked' = blocked \cup {p}
    /\ UNCHANGED <<started, store, entry, slots, guards, req, raced>>

-----------------------------------------------------------------------------
(* ensure_workspace_resolver.                                               *)

TakeSlot(p) ==
    /\ At(p, "slot") /\ guards = {}
    /\ \E i \in Slot :
          /\ IF entry # 0 THEN i = entry
             ELSE i = CHOOSE j \in Slot : \A q \in Request : req[q].slot # j
          /\ entry' = i
          /\ req' = [req EXCEPT ![p].pc = "hydrate", ![p].slot = i]
    /\ blocked' = blocked \ {p}
    /\ UNCHANGED <<started, store, slots, guards, raced>>

AfterHydration(p) == IF req[p].op = "register" THEN "lock" ELSE "clone"

\* get_or_init of a slot that is filled.
FindWarm(p) ==
    /\ At(p, "hydrate") /\ MySlot(p).warm
    /\ Goto(p, AfterHydration(p))
    /\ UNCHANGED <<started, store, entry, slots, guards, blocked, raced>>

\* hydrate_workspace, up to the rows: one initialiser at a time.  Rows whose
\* adapter cannot be built are skipped; if the rows cannot be read the
\* request ends and the slot stays cold.
ReadRows(p) ==
    /\ At(p, "hydrate") /\ ~MySlot(p).warm /\ MySlot(p).hydrator = None
    /\ UNCHANGED <<started, store, entry, guards, blocked>>
    /\ \/ /\ \E skip \in SUBSET Source :
                slots' = [slots EXCEPT ![req[p].slot] = [@ EXCEPT
                    !.hydrator = p,
                    !.skipped = skip,
                    !.adapters = [s \in Source |-> IF s \in skip THEN None ELSE store[s]]]]
          /\ Goto(p, "fill")
          /\ raced' = (raced \/ Active("delete"))
       \/ /\ Done(p)
          /\ slots' = Live(slots)
          /\ UNCHANGED raced

Fill(p) ==
    /\ At(p, "fill")
    /\ slots' = [slots EXCEPT ![req[p].slot] = [@ EXCEPT !.warm = TRUE, !.hydrator = None]]
    /\ Goto(p, AfterHydration(p))
    /\ UNCHANGED <<started, store, entry, guards, blocked, raced>>

\* The caller gets a copy, taken under the slot's read lock.
Clone(p) ==
    /\ At(p, "clone") /\ MySlot(p).writer = None
    /\ Done(p)
    /\ UNCHANGED <<started, store, entry, guards, blocked, raced>>
    /\ slots' = Live(slots)

-----------------------------------------------------------------------------
(* upsert_workspace_adapter: the slot's write lock covers the two writes.   *)

\* Mutant: the write lock is not waited for.
LockAnyway(p) == TRUE

LockFree(p) == MySlot(p).writer = None

Lock(p) ==
    /\ At(p, "lock") /\ LockFree(p)
    /\ slots' = [slots EXCEPT ![req[p].slot].writer = p]
    /\ Goto(p, "upsert")
    /\ UNCHANGED <<started, store, entry, guards, blocked, raced>>

Upsert(p) ==
    /\ At(p, "upsert")
    /\ store' = [store EXCEPT ![req[p].source] = Brings[p]]
    /\ Goto(p, "register")
    /\ UNCHANGED <<started, entry, slots, guards, blocked, raced>>

Register(p) ==
    /\ At(p, "register")
    /\ Done(p)
    /\ UNCHANGED <<started, store, entry, guards, blocked, raced>>
    /\ slots' = Live([slots EXCEPT ![req[p].slot] = [MySlot(p) EXCEPT
           !.adapters[req[p].source] = Brings[p],
           !.skipped = @ \ {req[p].source},
           !.writer = None]])

-----------------------------------------------------------------------------
(* delete_adapter, federation_health and refresh_workspace_resolver.        *)

Erase(p) ==
    /\ At(p, "erase")
    /\ store' = [store EXCEPT ![req[p].source] = None]
    /\ Goto(p, "peek")
    /\ UNCHANGED <<started, entry, slots, guards, blocked, raced>>

Used(p, i) == IF req[p].op = "delete"
              THEN [slots EXCEPT ![i].adapters[req[p].source] = None]
              ELSE slots

\* remove_workspace_adapter and the health check look the slot up.  If its
\* lock is held they wait, and the guard of the map stays with them.
Peek(p) ==
    /\ At(p, "peek")
    /\ \/ /\ ~EntryWarm
          /\ Done(p)
          /\ UNCHANGED <<slots, guards>>
       \/ /\ EntryWarm /\ slots[entry].writer = None
          /\ Done(p)
          /\ slots' = Used(p, entry)
          /\ UNCHANGED guards
       \/ /\ EntryWarm /\ slots[entry].writer # None
          /\ guards' = guards \cup {p}
          /\ req' = [req EXCEPT ![p].pc = "use", ![p].slot = entry]
          /\ UNCHANGED slots
    /\ UNCHANGED <<started, store, entry, blocked, raced>>

Use(p) ==
    /\ At(p, "use") /\ MySlot(p).writer = None
    /\ Done(p)
    /\ guards' = guards \ {p}
    /\ UNCHANGED <<started, store, entry, blocked, raced>>
    /\ slots' = Live(Used(p, req[p].slot))

\* What a refresh leaves behind is filled from the store: earlier races are
\* made good, unless a writer is still at work.
Drop(p) ==
    /\ At(p, "drop") /\ guards = {}
    /\ entry' = 0
    /\ Goto(p, "slot")
    /\ blocked' = blocked \ {p}
    /\ raced' = (raced /\ (Active("register") \/ Active("delete")))
    /\ UNCHANGED <<started, store, guards>>
    /\ slots' = Live(slots)

-----------------------------------------------------------------------------
\* Mutant: a flag of one's own in place of the OnceCell.
ReleasedButInit(p) ==
    [i \in Slot |-> [slots[i] EXCEPT !.writer = IF @ = p THEN None ELSE @]]

Released(p) ==
    [i \in Slot |-> [slots[i] EXCEPT !.writer = IF @ = p THEN None ELSE @,
                                     !.hydrator = IF @ = p THEN None ELSE @]]

\* A statement fails, or the client goes away and the future is dropped at an
\* await: lock, guard and initialisation are released, what was written stays.
\* Between the two writes this leaves them apart.
Abandon(p) ==
    /\ req[p].pc \notin {"idle", "slot", "drop"} /\ HasThread(p)
    /\ guards' = guards \ {p}
    /\ raced' = (raced \/ req[p].pc = "register" \/ req[p].op = "delete")
    /\ Done(p)
    /\ UNCHANGED <<started, store, entry, blocked>>
    /\ slots' = Live(Released(p))

Step(p) == \/ TakeSlot(p) \/ FindWarm(p) \/ ReadRows(p) \/ Fill(p) \/ Clone(p)
           \/ Lock(p) \/ Upsert(p) \/ Register(p)
           \/ Erase(p) \/ Peek(p) \/ Use(p) \/ Drop(p)

Next == \E p \in Request : Start(p) \/ Block(p) \/ Step(p) \/ Abandon(p)

Spec == Init /\ [][Next]_vars

\* The runtime polls what is ready.  Waiters of the slot's lock and of its
\* initialisation queue in order; with finitely many requests nothing more is
\* needed for none to be passed over for ever.
FairSpec == Spec /\ \A p \in Request : WF_vars(Step(p))

-----------------------------------------------------------------------------
\* "The in-memory resolver mirrors the store after hydration": whatever
\* registrations, queries, failures and hydrations come together, a source
\* nobody is writing has in memory the configuration of its row, unless its
\* adapter could not be built.  Deletions beside registrations or hydrations
\* and refreshes beside registrations are kept apart by nothing, and a dropped
\* future leaves the two writes half done (upsert_workspace_adapter).
MirrorsUnlessRaced ==
    ~raced /\ EntryWarm =>
        \A s \in Source :
            \/ \E p \in Request : req[p].source = s
            \/ s \in slots[entry].skipped
            \/ slots[entry].adapters[s] = store[s]

\* Every thread waits for the map, and a lookup that has to let go of it
\* waits for a thread.
ThreadsExhausted == Cardinality(blocked) = Workers /\ guards # {}

\* A request ends, however requests fail and are dropped while others wait for
\* their slot, its initialisation or its lock, unless the threads run out:
\* lookups keep the map's guard while they wait for the slot's lock, and
\* requests that wait for the map do not give their thread back
\* (remove_workspace_adapter, federation_health, workspace_slot).
RequestsEnd ==
    \A p \in Request : req[p].pc # "idle" ~> (req[p].pc = "idle" \/ []ThreadsExhausted)
=============================================================================
