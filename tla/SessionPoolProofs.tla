--------------------------- MODULE SessionPoolProofs ---------------------------
(***************************************************************************)
(* Type correctness, scope of statements and mutual exclusion of sweeps    *)
(* for any number of connections, replicas, requests and faults.           *)
(***************************************************************************)
EXTENDS SessionPool, TLAPS

Owned(c) == conn[c].state \in {"held", "broken"}

\* A slot has a borrower exactly while it is lent, and otherwise no use.
Borrowed ==
    \A c \in Conns :
        IF Owned(c) THEN conn[c].holder \in Tasks
        ELSE conn[c].holder = Nobody /\ conn[c].use = "work"

\* Requests never go near the advisory lock.
RequestsAreSimple ==
    \A q \in Requests : task[q].pc \in {"asleep", "acquiring", "using"}

\* A task keeps connections of its own pool, and only where it needs them.
Placed ==
    \A c \in Conns : Owned(c) =>
        LET t == conn[c].holder
        IN  /\ c \in Pool(t)
            /\ conn[c].use = "work" => task[t].pc = "using"
            /\ conn[c].use = "lock" =>
                  t \in Replicas /\ task[t].pc \in {"locking", "running", "acquiring", "using"}

\* A task has at most one connection for each use.
Unique ==
    \A c, d \in Conns :
        /\ Owned(c) /\ Owned(d)
        /\ conn[c].holder = conn[d].holder /\ conn[c].use = conn[d].use
        => c = d

\* Only a session that is lent or just given back has variables set.
Clean == \A c \in Conns : conn[c].state \in {"idle", "closed", "broken"} => vars[c] = Unset

\* A sweep is made by a task that has the lock, or has lost it with its session.
LockBacked ==
    \A r \in Replicas : Sweeping(r) =>
        \E c \in Conns : /\ conn[c].holder = r /\ conn[c].use = "lock"
                         /\ conn[c].state = "broken" \/ depth[c] > 0

\* PostgreSQL gives the lock to one session.
OneSession == \A c, d \in Conns : depth[c] > 0 /\ depth[d] > 0 => c = d

IInv ==
    /\ TypeOK /\ Borrowed /\ RequestsAreSimple /\ Placed /\ Unique
    /\ Clean /\ StatementsRunInScope /\ LockBacked /\ OneSession

-----------------------------------------------------------------------------
(* The scope of a task matters to a connection's variables only when the    *)
(* task is not under SYSTEM_BYPASS.                                         *)

LEMMA ScopeKept ==
    ASSUME StatementsRunInScope, Borrowed,
           \A c \in Conns : conn'[c].state = "held" =>
               /\ conn[c].state = "held"
               /\ conn'[c].holder = conn[c].holder
               /\ vars'[c] = vars[c]
               /\ \/ conn[c].holder \in Replicas
                  \/ task'[conn[c].holder].scope = task[conn[c].holder].scope
    PROVE  StatementsRunInScope'
BY ZenonT(60) DEF StatementsRunInScope, configure_rls_session_vars, SystemBypass

LEMMA InitInv == Init => IInv
<1>. SUFFICES ASSUME Init PROVE IInv
    OBVIOUS
<1>1. TypeOK
    BY PoolAssumption DEF Init, TypeOK, SessionVars, Unset, Closed, Asleep, At
<1>2. Borrowed /\ RequestsAreSimple /\ Placed /\ Unique /\ Clean /\ LockBacked /\ OneSession
    BY DEF Init, Borrowed, RequestsAreSimple, Placed, Unique, Clean, LockBacked, OneSession,
           Owned, Sweeping, Tasks, Closed, Asleep, At
<1>3. StatementsRunInScope
    BY DEF Init, StatementsRunInScope, Closed
<1>. QED
    BY <1>1, <1>2, <1>3 DEF IInv

-----------------------------------------------------------------------------
(* The steps                                                                *)

LEMMA AcquireStep ==
    ASSUME IInv, NEW t \in Tasks, NEW c \in Conns,
           Acquire(t, c)
    PROVE  IInv'
<1>1. CASE /\ Waiting(t) /\ c \in Pool(t) /\ conn[c] \in {Idle, Closed}
            /\ vars'[c] \in configure_rls_session_vars(vars[c], SystemBypass(t), task[t].scope)
            /\ vars' = [vars EXCEPT ![c] = vars'[c]]
            /\ conn' = [conn EXCEPT ![c] = Held(t, UseOf(t))]
            /\ task' = [task EXCEPT ![t].pc = Served(t)]
            /\ UNCHANGED <<depth, faults>>
  <2>1. TypeOK'
      <3>1. vars'[c] \in SessionVars
            BY ZenonT(60), <1>1, PoolAssumption
               DEF IInv, TypeOK, SessionVars, configure_rls_session_vars
        <3>. QED
            BY ZenonT(60), <1>1, <3>1 DEF IInv, TypeOK, Waiting, UseOf, Served, Held
  <2>2. Borrowed'
      BY PoolAssumption, <1>1 DEF IInv, TypeOK, Borrowed, Owned, Tasks, Waiting, UseOf, Served, Held, Idle, Closed
  <2>3. RequestsAreSimple'
      BY PoolAssumption, <1>1 DEF IInv, TypeOK, RequestsAreSimple, Tasks, Waiting, UseOf, Served, Held, Idle, Closed
  <2>4. Placed'
      BY PoolAssumption, <1>1 DEF IInv, TypeOK, Borrowed, RequestsAreSimple, Placed, Unique, Owned, Pool, Tasks, Waiting, UseOf, Served, Held, Idle, Closed
  <2>5. Unique'
      BY SMTT(60), PoolAssumption, <1>1
         DEF IInv, TypeOK, Borrowed, Placed, Unique, Owned, Pool, Tasks, Waiting, UseOf,
             Served, Held, Idle, Closed
  <2>6. Clean'
      BY PoolAssumption, <1>1 DEF IInv, TypeOK, Borrowed, Clean, Owned, Waiting, UseOf, Served, Held, Idle, Closed
  <2>7. StatementsRunInScope'
      <3>1. vars[c] = Unset
            BY <1>1 DEF IInv, Clean, Idle, Closed
        <3>2. vars'[c] \in configure_rls_session_vars(
                            Unset, SystemBypass(conn'[c].holder), task'[conn'[c].holder].scope)
            BY <1>1, <3>1 DEF IInv, TypeOK, Held
        <3>3. ASSUME NEW d \in Conns, d # c, conn'[d].state = "held"
              PROVE  vars'[d] \in configure_rls_session_vars(
                            Unset, SystemBypass(conn'[d].holder), task'[conn'[d].holder].scope)
            <4>1. conn'[d] = conn[d] /\ vars'[d] = vars[d]
                BY <1>1, <3>3 DEF IInv, TypeOK
            <4>2. conn[d].holder \in Tasks
                BY <4>1, <3>3 DEF IInv, Borrowed, Owned
            <4>3. task'[conn[d].holder].scope = task[conn[d].holder].scope
                BY <1>1, <4>2 DEF IInv, TypeOK
            <4>. QED
                BY <3>3, <4>1, <4>3 DEF IInv, StatementsRunInScope
        <3>. QED
            BY <3>2, <3>3 DEF StatementsRunInScope
  <2>8. LockBacked'
      BY SMTT(60), PoolAssumption, <1>1
         DEF IInv, TypeOK, Borrowed, Placed, Unique, LockBacked, Owned, Pool, Sweeping,
             Tasks, Waiting, UseOf, Served, Held, Idle, Closed
  <2>9. OneSession'
      BY PoolAssumption, <1>1 DEF IInv, TypeOK, OneSession, Waiting, UseOf, Served, Held, Idle, Closed
  <2>. QED
      BY <2>1, <2>2, <2>3, <2>4, <2>5, <2>6, <2>7, <2>8, <2>9 DEF IInv
<1>2. CASE /\ Waiting(t) /\ c \in Pool(t) /\ conn[c] \in {Idle, Closed} /\ Fault
            /\ conn' = [conn EXCEPT ![c] = Closed] /\ EndSession({c})
            /\ UNCHANGED task
  <2>1. TypeOK'
      BY PoolAssumption, <1>2 DEF IInv, TypeOK, SessionVars, Tasks, Waiting, UseOf, Served, Held, Idle, Closed, Fault, EndSession, Unset
  <2>2. Borrowed'
      BY PoolAssumption, <1>2 DEF IInv, TypeOK, Borrowed, Owned, Tasks, Waiting, UseOf, Served, Held, Idle, Closed, Fault, EndSession, Unset
  <2>3. RequestsAreSimple'
      BY PoolAssumption, <1>2 DEF IInv, TypeOK, RequestsAreSimple, Tasks, Waiting, UseOf, Served, Held, Idle, Closed, Fault, EndSession, Unset
  <2>4. Placed'
      BY PoolAssumption, <1>2 DEF IInv, TypeOK, Borrowed, RequestsAreSimple, Placed, Unique, Owned, Pool, Tasks, Waiting, UseOf, Served, Held, Idle, Closed, Fault, EndSession, Unset
  <2>5. Unique'
      BY PoolAssumption, <1>2 DEF IInv, TypeOK, Borrowed, Placed, Unique, Owned, Pool, Tasks, Waiting, UseOf, Served, Held, Idle, Closed, Fault, EndSession, Unset
  <2>6. Clean'
      BY PoolAssumption, <1>2 DEF IInv, TypeOK, Borrowed, Clean, Owned, Waiting, UseOf, Served, Held, Idle, Closed, Fault, EndSession, Unset
  <2>7. StatementsRunInScope'
      BY <1>2, ScopeKept, PoolAssumption DEF IInv, TypeOK, Placed, Owned, Tasks, Closed, EndSession
  <2>8. LockBacked'
      BY SMTT(60), PoolAssumption, <1>2
         DEF IInv, TypeOK, Borrowed, Placed, Unique, LockBacked, Owned, Pool, Sweeping,
             Tasks, Waiting, UseOf, Served, Held, Idle, Closed, Fault, EndSession, Unset
  <2>9. OneSession'
      BY PoolAssumption, <1>2 DEF IInv, TypeOK, OneSession, Waiting, UseOf, Served, Held, Idle, Closed, Fault, EndSession, Unset
  <2>. QED
      BY <2>1, <2>2, <2>3, <2>4, <2>5, <2>6, <2>7, <2>8, <2>9 DEF IInv
<1>3. ASSUME NEW v, vars' = [vars EXCEPT ![c] = v]
      PROVE  vars'[c] = v /\ vars' = [vars EXCEPT ![c] = vars'[c]]
    BY <1>3 DEF IInv, TypeOK
<1>. QED
    BY <1>1, <1>2, <1>3 DEF Acquire

LEMMA AcquireTimeoutStep ==
    ASSUME IInv, NEW t \in Tasks,
           AcquireTimeout(t)
    PROVE  IInv'
<1>1. TypeOK'
    BY PoolAssumption DEF IInv, TypeOK, SessionVars, Tasks, AcquireTimeout, Waiting, Back, Asleep, At, Pool
<1>2. Borrowed'
    BY PoolAssumption DEF IInv, TypeOK, Borrowed, Owned, Tasks, AcquireTimeout, Waiting, Back, Asleep, At, Pool
<1>3. RequestsAreSimple'
    BY PoolAssumption DEF IInv, TypeOK, RequestsAreSimple, Tasks, AcquireTimeout, Waiting, Back, Asleep, At, Pool
<1>4. Placed'
    BY PoolAssumption DEF IInv, TypeOK, Borrowed, RequestsAreSimple, Placed, Unique, Owned, Pool, Tasks, AcquireTimeout, Waiting, Back, Asleep, At, Pool
<1>5. Unique'
    BY PoolAssumption DEF IInv, TypeOK, Borrowed, Placed, Unique, Owned, Pool, Tasks, AcquireTimeout, Waiting, Back, Asleep, At, Pool
<1>6. Clean'
    BY PoolAssumption DEF IInv, TypeOK, Borrowed, Clean, Owned, AcquireTimeout, Waiting, Back, Asleep, At, Pool
<1>7. StatementsRunInScope'
    BY ScopeKept, PoolAssumption DEF IInv, TypeOK, Placed, Owned, Tasks, AcquireTimeout, Waiting, Back, Asleep, At
<1>8. LockBacked'
    BY PoolAssumption DEF IInv, TypeOK, Borrowed, Placed, Unique, LockBacked, Owned, Pool, Sweeping, Tasks, AcquireTimeout, Waiting, Back, Asleep, At, Pool
<1>9. OneSession'
    BY PoolAssumption DEF IInv, TypeOK, OneSession, AcquireTimeout, Waiting, Back, Asleep, At, Pool
<1>. QED
    BY <1>1, <1>2, <1>3, <1>4, <1>5, <1>6, <1>7, <1>8, <1>9 DEF IInv

LEMMA ReleaseStep ==
    ASSUME IInv, NEW t \in Tasks, NEW c \in Conns,
           Release(t, c)
    PROVE  IInv'
<1>1. TypeOK'
    BY PoolAssumption DEF IInv, TypeOK, SessionVars, Tasks, Release, HeldBy, Dropped, Closed, Returning, Back, Asleep, At
<1>2. Borrowed'
    BY PoolAssumption DEF IInv, TypeOK, Borrowed, Owned, Tasks, Release, HeldBy, Dropped, Closed, Returning, Back, Asleep, At
<1>3. RequestsAreSimple'
    BY PoolAssumption DEF IInv, TypeOK, RequestsAreSimple, Tasks, Release, HeldBy, Dropped, Closed, Returning, Back, Asleep, At
<1>4. Placed'
    BY PoolAssumption DEF IInv, TypeOK, Borrowed, RequestsAreSimple, Placed, Unique, Owned, Pool, Tasks, Release, HeldBy, Dropped, Closed, Returning, Back, Asleep, At
<1>5. Unique'
    BY PoolAssumption DEF IInv, TypeOK, Borrowed, Placed, Unique, Owned, Pool, Tasks, Release, HeldBy, Dropped, Closed, Returning, Back, Asleep, At
<1>6. Clean'
    BY PoolAssumption DEF IInv, TypeOK, Borrowed, Clean, Owned, Release, HeldBy, Dropped, Closed, Returning, Back, Asleep, At
<1>7. StatementsRunInScope'
    <2>1. ASSUME NEW d \in Conns, conn'[d].state = "held"
          PROVE  /\ d # c /\ conn'[d] = conn[d]
                 /\ \/ conn[d].holder \in Replicas
                    \/ task'[conn[d].holder].scope = task[conn[d].holder].scope
        <3>1. d # c /\ conn'[d] = conn[d]
            BY <2>1 DEF IInv, TypeOK, Release, HeldBy, Dropped, Closed, Returning
        <3>2. CASE conn[d].holder \in Replicas
            BY <3>1, <3>2
        <3>3. CASE conn[d].holder \notin Replicas
            <4>1. conn[d].holder \in Tasks /\ conn[d].use = "work"
                BY <2>1, <3>1, <3>3 DEF IInv, TypeOK, Borrowed, Placed, Owned
            <4>2. conn[c].use = "work" /\ conn[c].holder = t /\ Owned(c)
                BY PoolAssumption DEF IInv, Borrowed, Release, HeldBy, Owned, Tasks
            <4>3. conn[d].holder # t
                BY <2>1, <3>1, <4>1, <4>2 DEF IInv, Unique, Owned
            <4>. QED
                BY <3>1, <4>1, <4>3 DEF IInv, TypeOK, Release
        <3>. QED
            BY <3>2, <3>3
    <2>. QED
        BY <2>1, ScopeKept DEF IInv, Release
<1>8. LockBacked'
    BY PoolAssumption DEF IInv, TypeOK, Borrowed, Placed, Unique, LockBacked, Owned, Pool, Sweeping, Tasks, Release, HeldBy, Dropped, Closed, Returning, Back, Asleep, At
<1>9. OneSession'
    BY PoolAssumption DEF IInv, TypeOK, OneSession, Release, HeldBy, Dropped, Closed, Returning, Back, Asleep, At
<1>. QED
    BY <1>1, <1>2, <1>3, <1>4, <1>5, <1>6, <1>7, <1>8, <1>9 DEF IInv

LEMMA ReturnStep ==
    ASSUME IInv, NEW c \in Conns,
           Return(c)
    PROVE  IInv'
<1>1. CASE /\ conn[c] = Returning /\ conn' = [conn EXCEPT ![c] = Idle]
            /\ vars' = [vars EXCEPT ![c] = Unset] /\ UNCHANGED <<depth, faults, task>>
  <2>1. TypeOK'
      BY PoolAssumption, <1>1 DEF IInv, TypeOK, SessionVars, Tasks, Returning, Idle, Closed, Unset
  <2>2. Borrowed'
      BY PoolAssumption, <1>1 DEF IInv, TypeOK, Borrowed, Owned, Tasks, Returning, Idle, Closed, Unset
  <2>3. RequestsAreSimple'
      BY PoolAssumption, <1>1 DEF IInv, TypeOK, RequestsAreSimple, Tasks, Returning, Idle, Closed, Unset
  <2>4. Placed'
      BY PoolAssumption, <1>1 DEF IInv, TypeOK, Borrowed, RequestsAreSimple, Placed, Unique, Owned, Pool, Tasks, Returning, Idle, Closed, Unset
  <2>5. Unique'
      BY PoolAssumption, <1>1 DEF IInv, TypeOK, Borrowed, Placed, Unique, Owned, Pool, Tasks, Returning, Idle, Closed, Unset
  <2>6. Clean'
      BY PoolAssumption, <1>1 DEF IInv, TypeOK, Borrowed, Clean, Owned, Returning, Idle, Closed, Unset
  <2>7. StatementsRunInScope'
      BY <1>1, ScopeKept, PoolAssumption DEF IInv, TypeOK, Placed, Owned, Tasks, Idle, Closed
  <2>8. LockBacked'
      BY SMTT(60), PoolAssumption, <1>1
         DEF IInv, TypeOK, Borrowed, Placed, Unique, LockBacked, Owned, Pool, Sweeping,
             Tasks, Returning, Idle, Closed, Unset
  <2>9. OneSession'
      BY PoolAssumption, <1>1 DEF IInv, TypeOK, OneSession, Returning, Idle, Closed, Unset
  <2>. QED
      BY <2>1, <2>2, <2>3, <2>4, <2>5, <2>6, <2>7, <2>8, <2>9 DEF IInv
<1>2. CASE /\ conn[c] = Returning /\ Fault /\ conn' = [conn EXCEPT ![c] = Closed]
            /\ EndSession({c}) /\ UNCHANGED task
  <2>1. TypeOK'
      BY PoolAssumption, <1>2 DEF IInv, TypeOK, SessionVars, Tasks, Returning, Closed, Fault, EndSession, Unset
  <2>2. Borrowed'
      BY PoolAssumption, <1>2 DEF IInv, TypeOK, Borrowed, Owned, Tasks, Returning, Closed, Fault, EndSession, Unset
  <2>3. RequestsAreSimple'
      BY PoolAssumption, <1>2 DEF IInv, TypeOK, RequestsAreSimple, Tasks, Returning, Closed, Fault, EndSession, Unset
  <2>4. Placed'
      BY PoolAssumption, <1>2 DEF IInv, TypeOK, Borrowed, RequestsAreSimple, Placed, Unique, Owned, Pool, Tasks, Returning, Closed, Fault, EndSession, Unset
  <2>5. Unique'
      BY PoolAssumption, <1>2 DEF IInv, TypeOK, Borrowed, Placed, Unique, Owned, Pool, Tasks, Returning, Closed, Fault, EndSession, Unset
  <2>6. Clean'
      BY PoolAssumption, <1>2 DEF IInv, TypeOK, Borrowed, Clean, Owned, Returning, Closed, Fault, EndSession, Unset
  <2>7. StatementsRunInScope'
      BY <1>2, ScopeKept, PoolAssumption DEF IInv, TypeOK, Placed, Owned, Tasks, Closed, EndSession
  <2>8. LockBacked'
      BY SMTT(60), PoolAssumption, <1>2
         DEF IInv, TypeOK, Borrowed, Placed, Unique, LockBacked, Owned, Pool, Sweeping,
             Tasks, Returning, Closed, Fault, EndSession, Unset
  <2>9. OneSession'
      BY PoolAssumption, <1>2 DEF IInv, TypeOK, OneSession, Returning, Closed, Fault, EndSession, Unset
  <2>. QED
      BY <2>1, <2>2, <2>3, <2>4, <2>5, <2>6, <2>7, <2>8, <2>9 DEF IInv
<1>. QED
    BY <1>1, <1>2 DEF Return

LEMMA RetireStep ==
    ASSUME IInv, NEW c \in Conns,
           Retire(c)
    PROVE  IInv'
<1>1. TypeOK'
    BY PoolAssumption DEF IInv, TypeOK, SessionVars, Tasks, Retire, Idle, Closed, EndSession, Unset
<1>2. Borrowed'
    BY PoolAssumption DEF IInv, TypeOK, Borrowed, Owned, Tasks, Retire, Idle, Closed, EndSession, Unset
<1>3. RequestsAreSimple'
    BY PoolAssumption DEF IInv, TypeOK, RequestsAreSimple, Tasks, Retire, Idle, Closed, EndSession, Unset
<1>4. Placed'
    BY PoolAssumption DEF IInv, TypeOK, Borrowed, RequestsAreSimple, Placed, Unique, Owned, Pool, Tasks, Retire, Idle, Closed, EndSession, Unset
<1>5. Unique'
    BY PoolAssumption DEF IInv, TypeOK, Borrowed, Placed, Unique, Owned, Pool, Tasks, Retire, Idle, Closed, EndSession, Unset
<1>6. Clean'
    BY PoolAssumption DEF IInv, TypeOK, Borrowed, Clean, Owned, Retire, Idle, Closed, EndSession, Unset
<1>7. StatementsRunInScope'
    BY ScopeKept, PoolAssumption DEF IInv, TypeOK, Placed, Owned, Tasks, Retire, Idle, Closed, EndSession
<1>8. LockBacked'
    <2>1. conn[c].holder \notin Replicas
        BY PoolAssumption DEF Retire, Idle, Closed
    <2>2. \A d \in Conns \ {c} : conn'[d] = conn[d] /\ depth'[d] = depth[d]
        BY DEF IInv, TypeOK, Retire, EndSession
    <2>. QED
        BY <2>1, <2>2 DEF IInv, LockBacked, Sweeping, Retire
<1>9. OneSession'
    BY PoolAssumption DEF IInv, TypeOK, OneSession, Retire, Idle, Closed, EndSession, Unset
<1>. QED
    BY <1>1, <1>2, <1>3, <1>4, <1>5, <1>6, <1>7, <1>8, <1>9 DEF IInv

LEMMA BreakStep ==
    ASSUME IInv, NEW c \in Conns,
           Break(c)
    PROVE  IInv'
<1>1. TypeOK'
    <2>1. conn' \in [Conns -> [state : {"closed", "idle", "returning", "held", "broken"},
                                holder : Tasks \cup {Nobody}, use : {"work", "lock"}]]
        <3>1. [conn[c] EXCEPT !.state = "broken"] \in
                  [state : {"closed", "idle", "returning", "held", "broken"},
                   holder : Tasks \cup {Nobody}, use : {"work", "lock"}]
            BY DEF IInv, TypeOK
        <3>2. conn' = [conn EXCEPT ![c] = [conn[c] EXCEPT !.state = "broken"]]
            BY DEF Break
        <3>. QED
            BY <3>1, <3>2 DEF IInv, TypeOK
    <2>2. vars' \in [Conns -> SessionVars] /\ depth' \in [Conns -> Nat]
        BY DEF IInv, TypeOK, Break, EndSession, Unset, SessionVars
    <2>3. faults' \in 0..MaxFaults
        BY PoolAssumption DEF IInv, TypeOK, Break, Fault
    <2>. QED
        BY <2>1, <2>2, <2>3 DEF IInv, TypeOK, Break
<1>2. Borrowed'
    BY PoolAssumption DEF IInv, TypeOK, Borrowed, Owned, Tasks, Break, Fault, EndSession, Unset
<1>3. RequestsAreSimple'
    BY PoolAssumption DEF IInv, TypeOK, RequestsAreSimple, Tasks, Break, Fault, EndSession, Unset
<1>4. Placed'
    BY PoolAssumption DEF IInv, TypeOK, Borrowed, RequestsAreSimple, Placed, Unique, Owned, Pool, Tasks, Break, Fault, EndSession, Unset
<1>5. Unique'
    BY PoolAssumption DEF IInv, TypeOK, Borrowed, Placed, Unique, Owned, Pool, Tasks, Break, Fault, EndSession, Unset
<1>6. Clean'
    BY PoolAssumption DEF IInv, TypeOK, Borrowed, Clean, Owned, Break, Fault, EndSession, Unset
<1>7. StatementsRunInScope'
    BY ScopeKept, PoolAssumption DEF IInv, TypeOK, Placed, Owned, Tasks, Break, EndSession
<1>8. LockBacked'
    BY PoolAssumption DEF IInv, TypeOK, Borrowed, Placed, Unique, LockBacked, Owned, Pool, Sweeping, Tasks, Break, Fault, EndSession, Unset
<1>9. OneSession'
    BY PoolAssumption DEF IInv, TypeOK, OneSession, Break, Fault, EndSession, Unset
<1>. QED
    BY <1>1, <1>2, <1>3, <1>4, <1>5, <1>6, <1>7, <1>8, <1>9 DEF IInv

LEMMA AskStep ==
    ASSUME IInv, NEW q \in Requests, NEW w \in Workspaces \cup {NoWorkspace},
           Ask(q, w)
    PROVE  IInv'
<1>1. TypeOK'
    BY PoolAssumption DEF IInv, TypeOK, SessionVars, Tasks, Ask, Asleep, At
<1>2. Borrowed'
    BY PoolAssumption DEF IInv, TypeOK, Borrowed, Owned, Tasks, Ask, Asleep, At
<1>3. RequestsAreSimple'
    BY PoolAssumption DEF IInv, TypeOK, RequestsAreSimple, Tasks, Ask, Asleep, At
<1>4. Placed'
    BY PoolAssumption DEF IInv, TypeOK, Borrowed, RequestsAreSimple, Placed, Unique, Owned, Pool, Tasks, Ask, Asleep, At
<1>5. Unique'
    BY PoolAssumption DEF IInv, TypeOK, Borrowed, Placed, Unique, Owned, Pool, Tasks, Ask, Asleep, At
<1>6. Clean'
    BY PoolAssumption DEF IInv, TypeOK, Borrowed, Clean, Owned, Ask, Asleep, At
<1>7. StatementsRunInScope'
    BY ScopeKept, PoolAssumption DEF IInv, TypeOK, Placed, Owned, Tasks, Ask, Asleep, At
<1>8. LockBacked'
    BY PoolAssumption DEF IInv, TypeOK, Borrowed, Placed, Unique, LockBacked, Owned, Pool, Sweeping, Tasks, Ask, Asleep, At
<1>9. OneSession'
    BY PoolAssumption DEF IInv, TypeOK, OneSession, Ask, Asleep, At
<1>. QED
    BY <1>1, <1>2, <1>3, <1>4, <1>5, <1>6, <1>7, <1>8, <1>9 DEF IInv

LEMMA TickStep ==
    ASSUME IInv, NEW r \in Replicas,
           Tick(r)
    PROVE  IInv'
<1>1. TypeOK'
    BY PoolAssumption DEF IInv, TypeOK, SessionVars, Tasks, Tick, Asleep, At
<1>2. Borrowed'
    BY PoolAssumption DEF IInv, TypeOK, Borrowed, Owned, Tasks, Tick, Asleep, At
<1>3. RequestsAreSimple'
    BY PoolAssumption DEF IInv, TypeOK, RequestsAreSimple, Tasks, Tick, Asleep, At
<1>4. Placed'
    BY PoolAssumption DEF IInv, TypeOK, Borrowed, RequestsAreSimple, Placed, Unique, Owned, Pool, Tasks, Tick, Asleep, At
<1>5. Unique'
    BY PoolAssumption DEF IInv, TypeOK, Borrowed, Placed, Unique, Owned, Pool, Tasks, Tick, Asleep, At
<1>6. Clean'
    BY PoolAssumption DEF IInv, TypeOK, Borrowed, Clean, Owned, Tick, Asleep, At
<1>7. StatementsRunInScope'
    BY ScopeKept, PoolAssumption DEF IInv, TypeOK, Placed, Owned, Tasks, Tick
<1>8. LockBacked'
    BY PoolAssumption DEF IInv, TypeOK, Borrowed, Placed, Unique, LockBacked, Owned, Pool, Sweeping, Tasks, Tick, Asleep, At
<1>9. OneSession'
    BY PoolAssumption DEF IInv, TypeOK, OneSession, Tick, Asleep, At
<1>. QED
    BY <1>1, <1>2, <1>3, <1>4, <1>5, <1>6, <1>7, <1>8, <1>9 DEF IInv

LEMMA TryLockStep ==
    ASSUME IInv, NEW r \in Replicas, NEW c \in Conns,
           try_advisory_lock(r, c)
    PROVE  IInv'
<1>1. CASE /\ task[r].pc = "locking" /\ c \in HeldBy(r, "lock") /\ conn[c].state = "held" /\ Free(c)
            /\ depth' = [depth EXCEPT ![c] = @ + 1] /\ task' = [task EXCEPT ![r].pc = "running"]
            /\ UNCHANGED <<conn, vars, faults>>
  <2>1. TypeOK'
      <3>1. task' \in [Tasks -> [pc : {"asleep", "acquiring_lock", "locking", "running",
                                          "acquiring", "using", "dead"},
                                    scope : Workspaces \cup {NoWorkspace}]]
            BY <1>1 DEF IInv, TypeOK, Tasks
        <3>2. depth' \in [Conns -> Nat]
            BY <1>1 DEF IInv, TypeOK
        <3>. QED
            BY <1>1, <3>1, <3>2 DEF IInv, TypeOK
  <2>2. Borrowed'
      BY PoolAssumption, <1>1 DEF IInv, TypeOK, Borrowed, Owned, Tasks, HeldBy, Free
  <2>3. RequestsAreSimple'
      BY PoolAssumption, <1>1 DEF IInv, TypeOK, RequestsAreSimple, Tasks, HeldBy, Free
  <2>4. Placed'
      BY PoolAssumption, <1>1 DEF IInv, TypeOK, Borrowed, RequestsAreSimple, Placed, Unique, Owned, Pool, Tasks, HeldBy, Free
  <2>5. Unique'
      BY PoolAssumption, <1>1 DEF IInv, TypeOK, Borrowed, Placed, Unique, Owned, Pool, Tasks, HeldBy, Free
  <2>6. Clean'
      BY PoolAssumption, <1>1 DEF IInv, TypeOK, Borrowed, Clean, Owned, HeldBy, Free
  <2>7. StatementsRunInScope'
      BY <1>1, ScopeKept, PoolAssumption DEF IInv, TypeOK, Placed, Owned, Tasks
  <2>8. LockBacked'
      BY PoolAssumption, <1>1 DEF IInv, TypeOK, Borrowed, Placed, Unique, LockBacked, Owned, Pool, Sweeping, Tasks, HeldBy, Free
  <2>9. OneSession'
      BY PoolAssumption, <1>1 DEF IInv, TypeOK, OneSession, HeldBy, Free
  <2>. QED
      BY <2>1, <2>2, <2>3, <2>4, <2>5, <2>6, <2>7, <2>8, <2>9 DEF IInv
<1>2. CASE /\ task[r].pc = "locking" /\ c \in HeldBy(r, "lock")
            /\ conn' = [conn EXCEPT ![c] = Dropped(@)] /\ task' = [task EXCEPT ![r] = Asleep]
            /\ UNCHANGED <<depth, vars, faults>>
  <2>1. TypeOK'
      BY PoolAssumption, <1>2 DEF IInv, TypeOK, SessionVars, Tasks, HeldBy, Dropped, Closed, Returning, Asleep, At
  <2>2. Borrowed'
      BY PoolAssumption, <1>2 DEF IInv, TypeOK, Borrowed, Owned, Tasks, HeldBy, Dropped, Closed, Returning, Asleep, At
  <2>3. RequestsAreSimple'
      BY PoolAssumption, <1>2 DEF IInv, TypeOK, RequestsAreSimple, Tasks, HeldBy, Dropped, Closed, Returning, Asleep, At
  <2>4. Placed'
      BY PoolAssumption, <1>2 DEF IInv, TypeOK, Borrowed, RequestsAreSimple, Placed, Unique, Owned, Pool, Tasks, HeldBy, Dropped, Closed, Returning, Asleep, At
  <2>5. Unique'
      BY PoolAssumption, <1>2 DEF IInv, TypeOK, Borrowed, Placed, Unique, Owned, Pool, Tasks, HeldBy, Dropped, Closed, Returning, Asleep, At
  <2>6. Clean'
      BY PoolAssumption, <1>2 DEF IInv, TypeOK, Borrowed, Clean, Owned, HeldBy, Dropped, Closed, Returning, Asleep, At
  <2>7. StatementsRunInScope'
      BY <1>2, ScopeKept, PoolAssumption DEF IInv, TypeOK, Placed, Owned, Tasks, HeldBy, Dropped, Closed, Returning, Asleep, At
  <2>8. LockBacked'
      BY PoolAssumption, <1>2 DEF IInv, TypeOK, Borrowed, Placed, Unique, LockBacked, Owned, Pool, Sweeping, Tasks, HeldBy, Dropped, Closed, Returning, Asleep, At
  <2>9. OneSession'
      BY PoolAssumption, <1>2 DEF IInv, TypeOK, OneSession, HeldBy, Dropped, Closed, Returning, Asleep, At
  <2>. QED
      BY <2>1, <2>2, <2>3, <2>4, <2>5, <2>6, <2>7, <2>8, <2>9 DEF IInv
<1>. QED
    BY <1>1, <1>2 DEF try_advisory_lock

LEMMA UnlockStep ==
    ASSUME IInv, NEW r \in Replicas, NEW c \in Conns,
           Unlock(r, c)
    PROVE  IInv'
<1>1. TypeOK'
    <2>1. c \in Conns /\ Owned(c) /\ conn[c].holder = r /\ conn[c].use = "lock"
        BY PoolAssumption DEF IInv, Borrowed, Owned, Unlock, HeldBy
    <2>2. PICK d \in Conns : /\ conn[d].holder = r /\ conn[d].use = "lock"
                            /\ (conn[d].state = "broken" \/ depth[d] > 0)
        BY DEF IInv, LockBacked, Sweeping, Unlock
    <2>3. d = c
        BY <2>1, <2>2, PoolAssumption DEF IInv, Borrowed, Unique, Owned
    <2>4. conn[c].state = "held" => depth[c] > 0
        BY <2>2, <2>3
    <2>5. depth' \in [Conns -> Nat] /\ faults' \in 0..MaxFaults
        BY <2>4, PoolAssumption DEF IInv, TypeOK, Unlock, Fault
    <2>6. conn' \in [Conns -> [state : {"closed", "idle", "returning", "held", "broken"},
                                holder : Tasks \cup {Nobody}, use : {"work", "lock"}]]
        BY DEF IInv, TypeOK, Unlock, Dropped, Closed, Returning
    <2>7. task' \in [Tasks -> [pc : {"asleep", "acquiring_lock", "locking", "running",
                                     "acquiring", "using", "dead"},
                               scope : Workspaces \cup {NoWorkspace}]]
        BY DEF IInv, TypeOK, Unlock, Asleep, At, Tasks
    <2>. QED
        BY <2>5, <2>6, <2>7 DEF IInv, TypeOK, Unlock
<1>2. Borrowed'
    BY PoolAssumption DEF IInv, TypeOK, Borrowed, Owned, Tasks, Unlock, LockBacked, Fault, HeldBy, Dropped, Closed, Returning, Asleep, At, Unique, Sweeping, Owned
<1>3. RequestsAreSimple'
    BY PoolAssumption DEF IInv, TypeOK, RequestsAreSimple, Tasks, Unlock, LockBacked, Fault, HeldBy, Dropped, Closed, Returning, Asleep, At, Unique, Sweeping, Owned
<1>4. Placed'
    BY PoolAssumption DEF IInv, TypeOK, Borrowed, RequestsAreSimple, Placed, Unique, Owned, Pool, Tasks, Unlock, LockBacked, Fault, HeldBy, Dropped, Closed, Returning, Asleep, At, Unique, Sweeping, Owned
<1>5. Unique'
    BY PoolAssumption DEF IInv, TypeOK, Borrowed, Placed, Unique, Owned, Pool, Tasks, Unlock, LockBacked, Fault, HeldBy, Dropped, Closed, Returning, Asleep, At, Unique, Sweeping, Owned
<1>6. Clean'
    BY PoolAssumption DEF IInv, TypeOK, Borrowed, Clean, Owned, Unlock, LockBacked, Fault, HeldBy, Dropped, Closed, Returning, Asleep, At, Unique, Sweeping, Owned
<1>7. StatementsRunInScope'
    BY ScopeKept, PoolAssumption DEF IInv, TypeOK, Placed, Owned, Tasks, Unlock, HeldBy, Dropped, Closed, Returning, Asleep, At
<1>8. LockBacked'
    BY PoolAssumption DEF IInv, TypeOK, Borrowed, Placed, Unique, LockBacked, Owned, Pool, Sweeping, Tasks, Unlock, LockBacked, Fault, HeldBy, Dropped, Closed, Returning, Asleep, At, Unique, Sweeping, Owned
<1>9. OneSession'
    BY PoolAssumption DEF IInv, TypeOK, OneSession, Unlock, LockBacked, Fault, HeldBy, Dropped, Closed, Returning, Asleep, At, Unique, Sweeping, Owned
<1>. QED
    BY <1>1, <1>2, <1>3, <1>4, <1>5, <1>6, <1>7, <1>8, <1>9 DEF IInv

LEMMA PanicStep ==
    ASSUME IInv, NEW r \in Replicas,
           Panic(r)
    PROVE  IInv'
<1>1. TypeOK'
    BY PoolAssumption DEF IInv, TypeOK, SessionVars, Tasks, Panic, Sweeping, Fault, Dropped, Closed, Returning, At
<1>2. Borrowed'
    BY PoolAssumption DEF IInv, TypeOK, Borrowed, Owned, Tasks, Panic, Sweeping, Fault, Dropped, Closed, Returning, At
<1>3. RequestsAreSimple'
    BY PoolAssumption DEF IInv, TypeOK, RequestsAreSimple, Tasks, Panic, Sweeping, Fault, Dropped, Closed, Returning, At
<1>4. Placed'
    BY PoolAssumption DEF IInv, TypeOK, Borrowed, RequestsAreSimple, Placed, Unique, Owned, Pool, Tasks, Panic, Sweeping, Fault, Dropped, Closed, Returning, At
<1>5. Unique'
    BY PoolAssumption DEF IInv, TypeOK, Borrowed, Placed, Unique, Owned, Pool, Tasks, Panic, Sweeping, Fault, Dropped, Closed, Returning, At
<1>6. Clean'
    BY PoolAssumption DEF IInv, TypeOK, Borrowed, Clean, Owned, Panic, Sweeping, Fault, Dropped, Closed, Returning, At
<1>7. StatementsRunInScope'
    BY ScopeKept, PoolAssumption DEF IInv, TypeOK, Placed, Owned, Tasks, Panic, Dropped, Closed, Returning, At
<1>8. LockBacked'
    BY PoolAssumption DEF IInv, TypeOK, Borrowed, Placed, Unique, LockBacked, Owned, Pool, Sweeping, Tasks, Panic, Sweeping, Fault, Dropped, Closed, Returning, At
<1>9. OneSession'
    BY PoolAssumption DEF IInv, TypeOK, OneSession, Panic, Sweeping, Fault, Dropped, Closed, Returning, At
<1>. QED
    BY <1>1, <1>2, <1>3, <1>4, <1>5, <1>6, <1>7, <1>8, <1>9 DEF IInv

LEMMA RestartStep ==
    ASSUME IInv, NEW r \in Replicas,
           Restart(r)
    PROVE  IInv'
<1>1. TypeOK'
    BY PoolAssumption DEF IInv, TypeOK, SessionVars, Tasks, Restart, EndSession, Closed, Unset, Asleep, At
<1>2. Borrowed'
    BY PoolAssumption DEF IInv, TypeOK, Borrowed, Owned, Tasks, Restart, EndSession, Closed, Unset, Asleep, At
<1>3. RequestsAreSimple'
    BY PoolAssumption DEF IInv, TypeOK, RequestsAreSimple, Tasks, Restart, EndSession, Closed, Unset, Asleep, At
<1>4. Placed'
    BY PoolAssumption DEF IInv, TypeOK, Borrowed, RequestsAreSimple, Placed, Unique, Owned, Pool, Tasks, Restart, EndSession, Closed, Unset, Asleep, At
<1>5. Unique'
    BY PoolAssumption DEF IInv, TypeOK, Borrowed, Placed, Unique, Owned, Pool, Tasks, Restart, EndSession, Closed, Unset, Asleep, At
<1>6. Clean'
    BY PoolAssumption DEF IInv, TypeOK, Borrowed, Clean, Owned, Restart, EndSession, Closed, Unset, Asleep, At
<1>7. StatementsRunInScope'
    <2>1. ASSUME NEW d \in Conns, conn'[d].state = "held"
          PROVE  /\ conn'[d] = conn[d] /\ vars'[d] = vars[d]
                 /\ task'[conn[d].holder] = task[conn[d].holder]
        <3>1. Home[d] # r /\ conn'[d] = conn[d] /\ vars'[d] = vars[d]
            BY <2>1 DEF Restart, EndSession, Closed
        <3>2. conn[d].holder \in Tasks /\ d \in Pool(conn[d].holder)
            BY <2>1, <3>1 DEF IInv, Borrowed, Placed, Owned
        <3>. QED
            BY <3>1, <3>2, PoolAssumption DEF Restart, Pool, Tasks
    <2>. QED
        BY <2>1, ScopeKept DEF IInv
<1>8. LockBacked'
    BY PoolAssumption DEF IInv, TypeOK, Borrowed, Placed, Unique, LockBacked, Owned, Pool, Sweeping, Tasks, Restart, EndSession, Closed, Unset, Asleep, At
<1>9. OneSession'
    BY PoolAssumption DEF IInv, TypeOK, OneSession, Restart, EndSession, Closed, Unset, Asleep, At
<1>. QED
    BY <1>1, <1>2, <1>3, <1>4, <1>5, <1>6, <1>7, <1>8, <1>9 DEF IInv

LEMMA SweepStep ==
    ASSUME IInv, NEW r \in Replicas, NEW w \in Workspaces \cup {NoWorkspace},
           Sweep(r, w)
    PROVE  IInv'
<1>1. TypeOK'
    BY PoolAssumption DEF IInv, TypeOK, SessionVars, Tasks, Sweep, At
<1>2. Borrowed'
    BY PoolAssumption DEF IInv, TypeOK, Borrowed, Owned, Tasks, Sweep, At
<1>3. RequestsAreSimple'
    BY PoolAssumption DEF IInv, TypeOK, RequestsAreSimple, Tasks, Sweep, At
<1>4. Placed'
    BY PoolAssumption DEF IInv, TypeOK, Borrowed, RequestsAreSimple, Placed, Unique, Owned, Pool, Tasks, Sweep, At
<1>5. Unique'
    BY PoolAssumption DEF IInv, TypeOK, Borrowed, Placed, Unique, Owned, Pool, Tasks, Sweep, At
<1>6. Clean'
    BY PoolAssumption DEF IInv, TypeOK, Borrowed, Clean, Owned, Sweep, At
<1>7. StatementsRunInScope'
    BY ScopeKept, PoolAssumption DEF IInv, TypeOK, Placed, Owned, Tasks, Sweep, At
<1>8. LockBacked'
    BY PoolAssumption DEF IInv, TypeOK, Borrowed, Placed, Unique, LockBacked, Owned, Pool, Sweeping, Tasks, Sweep, At
<1>9. OneSession'
    BY PoolAssumption DEF IInv, TypeOK, OneSession, Sweep, At
<1>. QED
    BY <1>1, <1>2, <1>3, <1>4, <1>5, <1>6, <1>7, <1>8, <1>9 DEF IInv

LEMMA StutterStep == IInv /\ UNCHANGED allVars => IInv'
BY DEF allVars, IInv, TypeOK, Borrowed, RequestsAreSimple, Placed, Unique, Clean,
       StatementsRunInScope, LockBacked, OneSession, Owned, Sweeping

(* The inductive invariant of the pool, the task-locals and the advisory   *)
(* lock: every step of every task, of the pool and of the cron keeps it.   *)
THEOREM Inductive == Spec => []IInv
<1>1. IInv /\ [Next]_allVars => IInv'
    BY AcquireStep, AcquireTimeoutStep, ReleaseStep, ReturnStep, RetireStep, BreakStep, AskStep,
       TickStep, TryLockStep, UnlockStep, PanicStep, RestartStep, SweepStep, StutterStep
    DEF Next, AcquireAny, EndStatement, TryLock, EndRun, Tasks
<1>. QED
    BY <1>1, InitInv, PTL DEF Spec

(* Whatever the pools, tasks and faults, every slot, session and task is   *)
(* in a state of its kind; in particular no unlock is counted twice.       *)
THEOREM TypeCorrect == Spec => []TypeOK
BY Inductive, PTL DEF IInv

(* Every statement runs with the session variables its own scope asks for. *)
THEOREM ScopesAreKept == Spec => []StatementsRunInScope
BY Inductive, PTL DEF IInv

(* Two replicas never sweep together, unless one lost the session that     *)
(* held its lock.                                                          *)
THEOREM SweepsExclude == Spec => []OneSweeper
<1>1. IInv => OneSweeper
    BY PoolAssumption DEF IInv, OneSweeper, LockBacked, OneSession, TypeOK, HeldBy
<1>. QED
    BY <1>1, Inductive, PTL
==============================================================================
