----------------------------- MODULE SessionPool -----------------------------
(***************************************************************************)
(* The PostgreSQL connections of the replicas, and what a connection       *)
(* carries from one borrower to the next: the session variables that the   *)
(* row-level-security policies read, and session-level advisory locks.     *)
(*                                                                         *)
(* Requests borrow a connection for one statement.  Each replica has a     *)
(* cron task that is to sweep every workspace in one replica at a time: it *)
(* borrows one connection for the advisory lock and, while it holds it,    *)
(* others for its statements (crates/ox-store/src/postgres/mod.rs,         *)
(* rls_session.rs, advisory_lock.rs, crates/ox-api/src/background/cron.rs).*)
(*                                                                         *)
(* sqlx's pool and PostgreSQL are external: which hook the pool runs when, *)
(* and that a session's locks die with the session and not with RESET ALL. *)
(***************************************************************************)
EXTENDS Naturals, FiniteSets

CONSTANTS
    Conns,              \* the slots of all pools
    Replicas,           \* server processes; also the names of their cron tasks
    Requests,           \* request tasks
    Workspaces,
    DefaultWorkspace,   \* the workspace with slug 'default'
    NoWorkspace,        \* WORKSPACE_ID is not set
    Nil,                \* the nil uuid
    Nobody,
    Home,               \* the replica of a slot or request
    MaxFaults           \* bound on hooks and unlocks that fail, broken
                        \* connections and panics

ASSUME PoolAssumption ==
    /\ Replicas \cap Requests = {}
    /\ Nobody \notin Replicas \cup Requests
    /\ NoWorkspace \notin Workspaces
    /\ Nil \notin Workspaces /\ Nil # NoWorkspace
    /\ DefaultWorkspace \in Workspaces
    /\ Home \in [Conns \cup Requests -> Replicas]
    /\ MaxFaults \in Nat

Tasks == Replicas \cup Requests

VARIABLES
    conn,     \* what the pool does with each slot
    vars,     \* the session variables of its connection
    depth,    \* how often its session has taken the cron's advisory lock
    task,     \* where each task is, and the WORKSPACE_ID it runs under
    faults    \* faults so far

allVars == <<conn, vars, depth, task, faults>>

\* app.system_bypass and app.workspace_id.
Unset == [bypass |-> FALSE, ws |-> NoWorkspace]
SessionVars == [bypass : BOOLEAN, ws : Workspaces \cup {NoWorkspace, Nil}]

Closed == [state |-> "closed", holder |-> Nobody, use |-> "work"]
Idle == [Closed EXCEPT !.state = "idle"]
Returning == [Closed EXCEPT !.state = "returning"]
Held(t, use) == [state |-> "held", holder |-> t, use |-> use]

At(pc, scope) == [pc |-> pc, scope |-> scope]
Asleep == At("asleep", NoWorkspace)

Init ==
    /\ conn = [c \in Conns |-> Closed]
    /\ vars = [c \in Conns |-> Unset]
    /\ depth = [c \in Conns |-> 0]
    /\ task = [t \in Tasks |-> Asleep]
    /\ faults = 0

Pool(t) == {c \in Conns : Home[c] = IF t \in Replicas THEN t ELSE Home[t]}

Fault == faults < MaxFaults /\ faults' = faults + 1

\* The session of a slot ends: its variables and its locks are gone.
EndSession(C) ==
    /\ vars' = [c \in Conns |-> IF c \in C THEN Unset ELSE vars[c]]
    /\ depth' = [c \in Conns |-> IF c \in C THEN 0 ELSE depth[c]]

-----------------------------------------------------------------------------
(* Borrowing and returning a connection                                     *)

\* Task t's task-locals.  spawn_system gives cron tasks SYSTEM_BYPASS, and a
\* sweep of one workspace adds its WORKSPACE_ID.
SystemBypass(t) == t \in Replicas

\* The variables a connection may have after the setup hook; each branch sets
\* its own and leaves the others.  Under bypass the workspace is the nil uuid,
\* or the default workspace when it is found.
configure_rls_session_vars(v, bypass, scope) ==
    IF bypass THEN [bypass : {TRUE}, ws : {Nil, DefaultWorkspace}]
    ELSE IF scope # NoWorkspace THEN {[v EXCEPT !.ws = scope]}
    ELSE {v}

Waiting(t) == task[t].pc \in {"acquiring_lock", "acquiring"}
UseOf(t) == IF task[t].pc = "acquiring_lock" THEN "lock" ELSE "work"
Served(t) == IF task[t].pc = "acquiring_lock" THEN "locking" ELSE "using"

\* An idle connection after before_acquire, or a new one after after_connect.
\* A connection whose hook fails is closed and the task keeps waiting.
Acquire(t, c) ==
    /\ Waiting(t)
    /\ c \in Pool(t)
    /\ conn[c] \in {Idle, Closed}
    /\ \/ /\ \E v \in configure_rls_session_vars(vars[c], SystemBypass(t), task[t].scope) :
                 vars' = [vars EXCEPT ![c] = v]
          /\ conn' = [conn EXCEPT ![c] = Held(t, UseOf(t))]
          /\ task' = [task EXCEPT ![t].pc = Served(t)]
          /\ UNCHANGED <<depth, faults>>
       \/ /\ Fault
          /\ conn' = [conn EXCEPT ![c] = Closed]
          /\ EndSession({c})
          /\ UNCHANGED task

\* Where a task goes when a statement of it is over.
Back(t) == IF t \in Replicas THEN At("running", NoWorkspace) ELSE Asleep

\* Mutant: a task that holds a lock waits as long as it takes.
TimeoutUnlessRunning(t) ==
    /\ task[t].pc = "acquiring_lock"
    /\ \A c \in Pool(t) : conn[c] \notin {Idle, Closed}
    /\ task' = [task EXCEPT ![t] = Asleep]
    /\ UNCHANGED <<conn, vars, depth, faults>>

\* acquire_timeout: every slot of the pool is taken.
AcquireTimeout(t) ==
    /\ Waiting(t)
    /\ \A c \in Pool(t) : conn[c] \notin {Idle, Closed}
    /\ task' = [task EXCEPT ![t] = IF @.pc = "acquiring_lock" THEN Asleep ELSE Back(t)]
    /\ UNCHANGED <<conn, vars, depth, faults>>

\* What becomes of a slot whose borrower drops it.
Dropped(k) == IF k.state = "broken" THEN Closed ELSE Returning

HeldBy(t, use) == {c \in Conns : conn[c].holder = t /\ conn[c].use = use}

\* The statement ends, with a result or an error, or its task is cancelled.
Release(t, c) ==
    /\ task[t].pc = "using"
    /\ c \in HeldBy(t, "work")
    /\ conn' = [conn EXCEPT ![c] = Dropped(@)]
    /\ task' = [task EXCEPT ![t] = Back(t)]
    /\ UNCHANGED <<vars, depth, faults>>

\* Mutant: a connection whose RESET fails is recycled all the same.
ReturnUnreset(c) ==
    /\ conn[c] = Returning
    /\ conn' = [conn EXCEPT ![c] = Idle]
    /\ \/ /\ vars' = [vars EXCEPT ![c] = Unset]
          /\ UNCHANGED <<depth, faults>>
       \/ /\ Fault
          /\ UNCHANGED <<vars, depth>>
    /\ UNCHANGED task

\* after_release: RESET ALL, and eviction when it fails.
Return(c) ==
    /\ conn[c] = Returning
    /\ \/ /\ conn' = [conn EXCEPT ![c] = Idle]
          /\ vars' = [vars EXCEPT ![c] = Unset]
          /\ UNCHANGED <<depth, faults>>
       \/ /\ Fault
          /\ conn' = [conn EXCEPT ![c] = Closed]
          /\ EndSession({c})
    /\ UNCHANGED task

\* Mutant: connections live for ever.
RetireNever(c) == conn[c] = Idle /\ UNCHANGED allVars

\* idle_timeout and max_lifetime.
Retire(c) ==
    /\ conn[c] = Idle
    /\ conn' = [conn EXCEPT ![c] = Closed]
    /\ EndSession({c})
    /\ UNCHANGED <<task, faults>>

\* The server or the network drops a connection; its borrower finds out later.
Break(c) ==
    /\ conn[c].state = "held"
    /\ Fault
    /\ conn' = [conn EXCEPT ![c].state = "broken"]
    /\ EndSession({c})
    /\ UNCHANGED task

-----------------------------------------------------------------------------
(* Requests and cron tasks                                                  *)

\* A request needs a connection, under its workspace or outside any scope.
Ask(q, w) ==
    /\ task[q] = Asleep
    /\ task' = [task EXCEPT ![q] = At("acquiring", w)]
    /\ UNCHANGED <<conn, vars, depth, faults>>

Tick(r) ==
    /\ task[r] = Asleep
    /\ task' = [task EXCEPT ![r].pc = "acquiring_lock"]
    /\ UNCHANGED <<conn, vars, depth, faults>>

\* Mutant: each replica asks for a lock of its own.
FreeInReplica(c) == \A d \in Conns \ {c} : Home[d] = Home[c] => depth[d] = 0

\* pg_try_advisory_lock succeeds when no other session has the lock.
Free(c) == \A d \in Conns \ {c} : depth[d] = 0

try_advisory_lock(r, c) ==
    /\ task[r].pc = "locking"
    /\ c \in HeldBy(r, "lock")
    /\ \/ /\ conn[c].state = "held" /\ Free(c)
          /\ depth' = [depth EXCEPT ![c] = @ + 1]
          /\ task' = [task EXCEPT ![r].pc = "running"]
          /\ UNCHANGED conn
       \/ /\ conn[c].state = "broken" \/ ~Free(c)
          /\ conn' = [conn EXCEPT ![c] = Dropped(@)]
          /\ task' = [task EXCEPT ![r] = Asleep]
          /\ UNCHANGED depth
    /\ UNCHANGED <<vars, faults>>

\* run_once makes a statement for one workspace, or for all of them.
Sweep(r, w) ==
    /\ task[r].pc = "running"
    /\ task' = [task EXCEPT ![r] = At("acquiring", w)]
    /\ UNCHANGED <<conn, vars, depth, faults>>

\* Mutant: the unlock is counted although the session is gone.
UnlockBroken(r, c) ==
    /\ task[r].pc = "running"
    /\ c \in HeldBy(r, "lock")
    /\ depth' = [depth EXCEPT ![c] = @ - 1]
    /\ conn' = [conn EXCEPT ![c] = Dropped(@)]
    /\ task' = [task EXCEPT ![r] = Asleep]
    /\ UNCHANGED <<vars, faults>>

\* run_once is over: pg_advisory_unlock, whose failure is only logged, and
\* the connection goes back to the pool.
Unlock(r, c) ==
    /\ task[r].pc = "running"
    /\ c \in HeldBy(r, "lock")
    /\ \/ /\ conn[c].state = "held"
          /\ depth' = [depth EXCEPT ![c] = @ - 1]
          /\ UNCHANGED faults
       \/ /\ conn[c].state = "held"
          /\ Fault
          /\ UNCHANGED depth
       \/ /\ conn[c].state = "broken"
          /\ UNCHANGED <<depth, faults>>
    /\ conn' = [conn EXCEPT ![c] = Dropped(@)]
    /\ task' = [task EXCEPT ![r] = Asleep]
    /\ UNCHANGED vars

Sweeping(r) == task[r].pc \in {"running", "acquiring", "using"}

\* run_once panics: the cron task is gone, its connections go back.
Panic(r) ==
    /\ Sweeping(r)
    /\ Fault
    /\ conn' = [c \in Conns |-> IF conn[c].holder = r THEN Dropped(conn[c]) ELSE conn[c]]
    /\ task' = [task EXCEPT ![r] = At("dead", NoWorkspace)]
    /\ UNCHANGED <<vars, depth>>

\* The process is killed and started again.
Restart(r) ==
    LET mine == {c \in Conns : Home[c] = r}
    IN  /\ conn' = [c \in Conns |-> IF c \in mine THEN Closed ELSE conn[c]]
        /\ EndSession(mine)
        /\ task' = [t \in Tasks |->
                       IF t = r \/ (t \in Requests /\ Home[t] = r) THEN Asleep ELSE task[t]]
        /\ UNCHANGED faults

-----------------------------------------------------------------------------
AcquireAny(t) == AcquireTimeout(t) \/ \E c \in Conns : Acquire(t, c)
EndStatement(t) == \E c \in Conns : Release(t, c)
TryLock(r) == \E c \in Conns : try_advisory_lock(r, c)
EndRun(r) == \E c \in Conns : Unlock(r, c)

Next ==
    \/ \E t \in Tasks : AcquireAny(t) \/ EndStatement(t)
    \/ \E c \in Conns : Return(c) \/ Retire(c) \/ Break(c)
    \/ \E q \in Requests, w \in Workspaces \cup {NoWorkspace} : Ask(q, w)
    \/ \E r \in Replicas :
          \/ Tick(r) \/ TryLock(r) \/ EndRun(r) \/ Panic(r) \/ Restart(r)
          \/ \E w \in Workspaces \cup {NoWorkspace} : Sweep(r, w)

\* Tasks and the pool make progress, a run ends after finitely many
\* statements, and no connection outlives max_lifetime.
Fairness ==
    /\ \A t \in Tasks : WF_allVars(AcquireAny(t)) /\ WF_allVars(EndStatement(t))
    /\ \A r \in Replicas : WF_allVars(TryLock(r)) /\ SF_allVars(EndRun(r))
    /\ \A c \in Conns : WF_allVars(Return(c)) /\ SF_allVars(Retire(c))

Spec == Init /\ [][Next]_allVars
FairSpec == Spec /\ Fairness

-----------------------------------------------------------------------------
(* Every slot, session and task is in a state of its kind.                  *)
TypeOK ==
    /\ conn \in [Conns -> [state : {"closed", "idle", "returning", "held", "broken"},
                           holder : Tasks \cup {Nobody}, use : {"work", "lock"}]]
    /\ vars \in [Conns -> SessionVars]
    /\ depth \in [Conns -> Nat]
    /\ task \in [Tasks -> [pc : {"asleep", "acquiring_lock", "locking", "running",
                                 "acquiring", "using", "dead"},
                           scope : Workspaces \cup {NoWorkspace}]]
    /\ faults \in 0..MaxFaults

(* The statements of a task run with exactly the variables its own scope    *)
(* asks for, whoever had the connection before, however that borrower let   *)
(* go of it, and whether the connection is new or reused (the three hooks   *)
(* of connect_with_min).                                                    *)
StatementsRunInScope ==
    \A c \in Conns :
        conn[c].state = "held" =>
            vars[c] \in configure_rls_session_vars(
                            Unset, SystemBypass(conn[c].holder), task[conn[c].holder].scope)

(* Two replicas sweep at the same time only when one of them has lost the   *)
(* connection that held its lock: skipping on a refused lock, failed        *)
(* unlocks, panics and restarts do not let a second sweep in                *)
(* (try_advisory_lock, spawn_cron).                                         *)
OneSweeper ==
    \A r, s \in Replicas :
        Sweeping(r) /\ Sweeping(s) /\ r # s =>
            \E c \in HeldBy(r, "lock") \cup HeldBy(s, "lock") : conn[c].state = "broken"

(* A lock that was left behind in the pool does not shut out the sweeps for *)
(* ever: every session that has it gives it up or ends.                     *)
LockFreed == \A c \in Conns : depth[c] > 0 ~> depth[c] = 0

(* Nobody waits for a connection for ever, though a cron task that waits    *)
(* for a second one keeps its first: acquire_timeout resolves the cycle.    *)
WaitsEnd == \A t \in Tasks : Waiting(t) ~> ~Waiting(t)
=============================================================================
