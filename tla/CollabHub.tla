----------------------------- MODULE CollabHub -----------------------------
(***************************************************************************)
(* Realtime collaboration on one draft: InProcessCollaborationHub          *)
(* (ox-api, collaboration.rs), the WebSocket handler that drives it        *)
(* (routes/ws.rs), the idle reaper (background/collab_idle_reap.rs) and    *)
(* the browser's reducer (web, lib/collab/store.ts).                       *)
(*                                                                         *)
(* The hub maps the draft id to an Arc of a Room behind a mutex.  A room   *)
(* that became empty is dropped from the registry and a later join makes a *)
(* new one, so rooms are numbered instances and `registry` names the       *)
(* registered one.  A hub operation borrows the Arc from the registry in   *)
(* one step and works under the room's mutex in another; it never awaits   *)
(* while it holds the mutex, so the second step is atomic.                 *)
(***************************************************************************)
EXTENDS Naturals, FiniteSets, Sequences, SequencesExt

CONSTANTS User, Conn,     \* people and their browser tabs
          UserOf,         \* the user behind each tab
          Entity,         \* lockable entities of the draft
          Reaper, Author, \* the cron task; an HTTP handler that saved an edit
          None,
          Ops,            \* client frames and clock events exercised
          MaxSessions,    \* HubLimits.max_sessions_per_user
          Buffer,         \* HubLimits.broadcast_buffer
          MaxRooms,       \* bound on room instances
          MaxJoins        \* bound on Join frames of one connection

AllOps == {"leave", "cursor", "acquire", "release", "update", "expire", "idle"}
Task == Conn \cup {Reaper, Author}

ASSUME UserOfAssumption == UserOf \in [Conn -> User]
ASSUME NoneIsNobody == None \notin User
ASSUME EntitiesAreFinite == IsFiniteSet(Entity)
ASSUME TasksAreDistinct == Reaper \notin Conn /\ Author \notin Conn /\ Reaper # Author
ASSUME HubOpsAssumption == Ops \subseteq AllOps
ASSUME LimitsAssumption == /\ MaxSessions \in Nat /\ Buffer \in Nat \ {0}
                           /\ MaxRooms \in Nat /\ MaxJoins \in Nat

VARIABLES registry,   \* the registered room instance, 0 for none
          created,    \* room instances made so far
          room,       \* [1..MaxRooms -> Room]
          sessions,   \* [User -> Nat]: session slots in use
          task,       \* [Task -> TaskState]
          victims,    \* the users the reaper still has to remove
          feed,       \* [Conn -> Seq(Feed)]: one forward_broadcast per Join
          view        \* [Conn -> View]: the tab's store

vars == <<registry, created, room, sessions, task, victims, feed, view>>

Locks == [Entity -> User \cup {None}]
Room  == [members : SUBSET User, idle : SUBSET User, locks : Locks, expired : SUBSET Entity]
View  == [users : SUBSET User, locks : Locks]

Frame == [kind : {"user_joined", "user_left", "remote_cursor"}, user : User]
         \cup [kind : {"lock_granted"}, entity : Entity, user : User]
         \cup [kind : {"lock_released"}, entity : Entity]
         \cup [kind : {"presence"}, users : SUBSET User, locks : Locks]
         \cup [kind : {"entity_updated", "lock_denied", "error"}]

Feed == [room : 1..MaxRooms, queue : Seq(Frame), missed : BOOLEAN]

TaskState == [pc : {"closed", "ready", "held", "emptied", "reply", "releasing"},
              op : {"none", "join", "leave", "cursor", "acquire", "release", "update"},
              user : User \cup {None}, entity : Entity \cup {None},
              arc : 0..MaxRooms, reply : Frame \cup {None},
              joined : BOOLEAN, closing : BOOLEAN]

TypeOK == /\ registry \in 0..MaxRooms /\ created \in 0..MaxRooms
          /\ room \in [1..MaxRooms -> Room]
          /\ sessions \in [User -> 0..MaxSessions]
          /\ task \in [Task -> TaskState]
          /\ victims \subseteq User
          /\ \A c \in Conn : \A k \in DOMAIN feed[c] :
               feed[c][k] \in [room : 1..MaxRooms, queue : Seq(Frame), missed : BOOLEAN]
               /\ Len(feed[c][k].queue) <= Buffer
          /\ view \in [Conn -> View]

NoLocks == [e \in Entity |-> None]
NoView == [users |-> {}, locks |-> NoLocks]
EmptyRoom == [members |-> {}, idle |-> {}, locks |-> NoLocks, expired |-> {}]
AtRest(pc, u) == [pc |-> pc, op |-> "none", user |-> u, entity |-> None, arc |-> 0,
                  reply |-> None, joined |-> FALSE, closing |-> FALSE]

Init == /\ registry = 0 /\ created = 0
        /\ room = [i \in 1..MaxRooms |-> EmptyRoom]
        /\ sessions = [u \in User |-> 0]
        /\ task = [t \in Task |-> IF t \in Conn THEN AtRest("closed", UserOf[t])
                                  ELSE AtRest("ready", None)]
        /\ victims = {}
        /\ feed = [c \in Conn |-> << >>]
        /\ view = [c \in Conn |-> NoView]

---------------------------------------------------------------------------
(* tokio's broadcast channel: every subscriber keeps the last Buffer       *)
(* frames; one that is overrun loses its oldest and is told Lagged.        *)
Overrun(q) == IF Len(q) > Buffer THEN SubSeq(q, Len(q) - Buffer + 1, Len(q)) ELSE q

Published(i, frames) ==
  [c \in Conn |-> [k \in DOMAIN feed[c] |->
     IF feed[c][k].room = i
     THEN [feed[c][k] EXCEPT !.queue = Overrun(@ \o frames),
                             !.missed = @ \/ Len(feed[c][k].queue \o frames) > Buffer]
     ELSE feed[c][k]]]

(* The store's reducer, applyServerMessage.                                *)
Apply(v, m) ==
  CASE m.kind = "presence"      -> [users |-> m.users, locks |-> m.locks]
    [] m.kind = "user_joined"   -> [v EXCEPT !.users = @ \cup {m.user}]
    [] m.kind = "user_left"     -> [v EXCEPT !.users = @ \ {m.user}]
    [] m.kind = "lock_granted"  -> [v EXCEPT !.locks[m.entity] = m.user]
    [] m.kind = "lock_released" -> [v EXCEPT !.locks[m.entity] = None]
    [] OTHER -> v

Granted(e, u) == [kind |-> "lock_granted", entity |-> e, user |-> u]
Released(e)   == [kind |-> "lock_released", entity |-> e]
Joined(u)     == [kind |-> "user_joined", user |-> u]
UserLeft(u)   == [kind |-> "user_left", user |-> u]

---------------------------------------------------------------------------
(* Mutant: the slot is reserved at the upgrade and again by the socket.    *)
ConnectCountsTwice(c) ==
  /\ task[c].pc = "closed"
  /\ sessions[UserOf[c]] < MaxSessions
  /\ sessions' = [sessions EXCEPT ![UserOf[c]] = @ + 2]
  /\ task' = [task EXCEPT ![c] = AtRest("ready", UserOf[c])]
  /\ UNCHANGED <<registry, created, room, victims, feed, view>>

(* Connections.  open_session reserves a slot or the socket is refused.    *)
Connect(c) ==
  /\ task[c].pc = "closed"
  /\ sessions[UserOf[c]] < MaxSessions
  /\ sessions' = [sessions EXCEPT ![UserOf[c]] = @ + 1]
  /\ task' = [task EXCEPT ![c] = AtRest("ready", UserOf[c])]
  /\ UNCHANGED <<registry, created, room, victims, feed, view>>

(* Registry lookup.  join and acquire_lock go through room(), which makes  *)
(* the room when it is missing; the others return when it is.              *)
Borrow(t, op, u, e, closing) ==
  LET creates == op \in {"join", "acquire"} /\ registry = 0
      r       == IF creates THEN created + 1 ELSE registry
  IN /\ r # 0 /\ r <= MaxRooms
     /\ registry' = r
     /\ created' = IF creates THEN r ELSE created
     /\ task' = [task EXCEPT ![t].pc = "held", ![t].op = op, ![t].user = u,
                             ![t].entity = e, ![t].arc = r, ![t].closing = closing]
     /\ UNCHANGED <<room, sessions, feed, view>>

(* A frame from the client (handle_client_message).                        *)
ReceiveJoin(c) == /\ task[c].pc = "ready" /\ Len(feed[c]) < MaxJoins
                  /\ Borrow(c, "join", UserOf[c], None, FALSE)
                  /\ UNCHANGED victims

ReceiveFrame(c, op) == /\ task[c].pc = "ready" /\ op \in Ops \cap {"leave", "cursor"}
                       /\ Borrow(c, op, UserOf[c], None, FALSE)
                       /\ UNCHANGED victims

ReceiveLockFrame(c, op, e) == /\ task[c].pc = "ready" /\ op \in Ops \cap {"acquire", "release"}
                              /\ Borrow(c, op, UserOf[c], e, FALSE)
                              /\ UNCHANGED victims

(* Leave when the room is already gone.                                    *)
LeaveNothing(c) == /\ task[c].pc = "ready" /\ "leave" \in Ops /\ registry = 0
                   /\ task[c].joined
                   /\ task' = [task EXCEPT ![c].joined = FALSE]
                   /\ UNCHANGED <<registry, created, room, sessions, victims, feed, view>>

(* serve_collab's loop ends: the socket closed or failed, or the session   *)
(* was revoked.  The forwarders die with the socket; joined rooms are left *)
(* and then the SessionHandle is dropped.  What the tab showed is forgotten *)
(* here: the presence snapshot of its next Join replaces all of it.        *)
Disconnect(c) ==
  /\ task[c].pc = "ready"
  /\ feed' = [feed EXCEPT ![c] = << >>]
  /\ view' = [view EXCEPT ![c] = NoView]
  /\ IF task[c].joined /\ registry # 0
     THEN task' = [task EXCEPT ![c].pc = "held", ![c].op = "leave", ![c].arc = registry,
                               ![c].closing = TRUE]
     ELSE task' = [task EXCEPT ![c] = AtRest("releasing", UserOf[c])]
  /\ UNCHANGED <<registry, created, room, sessions, victims>>

(* Drop for SessionHandle only spawns release_session, which runs later.   *)
ReleaseSession(c) ==
  /\ task[c].pc = "releasing"
  /\ sessions' = [sessions EXCEPT ![UserOf[c]] = IF @ > 0 THEN @ - 1 ELSE 0]
  /\ task' = [task EXCEPT ![c].pc = "closed"]
  /\ UNCHANGED <<registry, created, room, victims, feed, view>>

---------------------------------------------------------------------------
(* The operations under the room's mutex.                                  *)
Holds(t, op) == task[t].pc = "held" /\ task[t].op = op

(* What a task does next once its operation returned without a reply.      *)
Finished(t) == [task[t] EXCEPT !.pc = IF task[t].closing THEN "releasing" ELSE "ready",
                               !.op = "none", !.entity = None, !.arc = 0, !.reply = None,
                               !.closing = FALSE]
Replying(t, m) == [task[t] EXCEPT !.pc = "reply", !.arc = 0, !.reply = m]

(* join: the snapshot is taken and the receiver subscribed before          *)
(* UserJoined is broadcast.                                                *)
Join(c) ==
  /\ Holds(c, "join")
  /\ LET i == task[c].arc
         u == task[c].user
         joinedRoom == [room[i] EXCEPT !.members = @ \cup {u}, !.idle = @ \ {u}]
     IN /\ room' = [room EXCEPT ![i] = joinedRoom]
        /\ feed' = [Published(i, <<Joined(u)>>) EXCEPT ![c] =
                      Append(@, [room |-> i, queue |-> <<Joined(u)>>, missed |-> FALSE])]
        /\ task' = [task EXCEPT ![c] =
             [Replying(c, [kind |-> "presence", users |-> joinedRoom.members,
                           locks |-> joinedRoom.locks]) EXCEPT !.joined = TRUE]]
  /\ UNCHANGED <<registry, created, sessions, victims, view>>

HeldBy(i, u) == {e \in Entity : room[i].locks[e] = u}

(* Mutant: the member goes and its locks stay.                             *)
LeaveKeepsLocks(t) ==
  /\ Holds(t, "leave")
  /\ LET i == task[t].arc
         u == task[t].user
     IN /\ room' = [room EXCEPT ![i].members = @ \ {u}, ![i].idle = @ \ {u}]
        /\ feed' = Published(i, <<UserLeft(u)>>)
        /\ task' = [task EXCEPT ![t] = [Finished(t) EXCEPT !.joined = FALSE]]
  /\ UNCHANGED <<registry, created, sessions, victims, view>>

(* leave, up to drop(room_arc): every lock of the user goes with it.       *)
Leave(t) ==
  /\ Holds(t, "leave")
  /\ LET i == task[t].arc
         u == task[t].user
         left == room[i].members \ {u}
     IN /\ room' = [room EXCEPT ![i] =
                      [members |-> left, idle |-> @.idle \ {u},
                       locks |-> [e \in Entity |-> IF @.locks[e] = u THEN None ELSE @.locks[e]],
                       expired |-> @.expired \ HeldBy(i, u)]]
        /\ feed' = Published(i, SetToSeq({Released(e) : e \in HeldBy(i, u)}) \o <<UserLeft(u)>>)
        /\ task' = [task EXCEPT ![t] =
             IF left = {} THEN [@ EXCEPT !.pc = "emptied", !.arc = 0, !.joined = FALSE]
             ELSE [Finished(t) EXCEPT !.joined = FALSE]]
  /\ UNCHANGED <<registry, created, sessions, victims, view>>

(* The rest of leave: the registry entry goes if nobody borrows its Arc    *)
(* at this moment.                                                         *)
CollectRoom(t) ==
  /\ task[t].pc = "emptied"
  /\ registry' = IF \E s \in Task : task[s].arc = registry THEN registry ELSE 0
  /\ task' = [task EXCEPT ![t] = Finished(t)]
  /\ UNCHANGED <<created, room, sessions, victims, feed, view>>

(* move_cursor, when the sender is a member and not throttled; otherwise   *)
(* the frame is dropped.                                                   *)
MoveCursor(c) ==
  /\ Holds(c, "cursor")
  /\ LET i == task[c].arc
         u == task[c].user
     IN \/ /\ u \in room[i].members
           /\ room' = [room EXCEPT ![i].idle = @ \ {u}]
           /\ feed' = Published(i, <<[kind |-> "remote_cursor", user |-> u]>>)
        \/ UNCHANGED <<room, feed>>
  /\ task' = [task EXCEPT ![c] = Finished(c)]
  /\ UNCHANGED <<registry, created, sessions, victims, view>>

NotJoined == [kind |-> "error"]

(* acquire_lock: refresh the caller's own lock, deny while another's is    *)
(* unexpired, otherwise take it and broadcast.  Always answers.            *)
AcquireLock(c) ==
  /\ Holds(c, "acquire")
  /\ LET i == task[c].arc
         u == task[c].user
         e == task[c].entity
         holder == room[i].locks[e]
         mayTake == holder = None \/ (holder # u /\ e \in room[i].expired)
     IN IF u \notin room[i].members
        THEN /\ task' = [task EXCEPT ![c] = Replying(c, NotJoined)]
             /\ UNCHANGED <<room, feed>>
        ELSE /\ room' = [room EXCEPT ![i].idle = @ \ {u},
                           ![i].locks[e] = IF mayTake THEN u ELSE @,
                           ![i].expired = IF mayTake \/ holder = u THEN @ \ {e} ELSE @]
             /\ feed' = IF mayTake THEN Published(i, <<Granted(e, u)>>) ELSE feed
             /\ task' = [task EXCEPT ![c] =
                  Replying(c, IF mayTake \/ holder = u THEN Granted(e, u)
                              ELSE [kind |-> "lock_denied"])]
  /\ UNCHANGED <<registry, created, sessions, victims, view>>

(* release_lock: a lock of somebody else's is left alone.                  *)
ReleaseLock(c) ==
  /\ Holds(c, "release")
  /\ LET i == task[c].arc
         u == task[c].user
         e == task[c].entity
         owns == room[i].locks[e] = u
     IN IF u \notin room[i].members
        THEN /\ task' = [task EXCEPT ![c] = Replying(c, NotJoined)]
             /\ UNCHANGED <<room, feed>>
        ELSE /\ room' = [room EXCEPT ![i].idle = @ \ {u},
                           ![i].locks[e] = IF owns THEN None ELSE @,
                           ![i].expired = IF owns THEN @ \ {e} ELSE @]
             /\ feed' = IF owns THEN Published(i, <<Released(e)>>) ELSE feed
             /\ task' = [task EXCEPT ![c] = Finished(c)]
  /\ UNCHANGED <<registry, created, sessions, victims, view>>

(* The handler sends its answer on the socket, out of step with the        *)
(* forwarders' frames.                                                     *)
SendReply(c) ==
  /\ task[c].pc = "reply"
  /\ view' = [view EXCEPT ![c] = Apply(@, task[c].reply)]
  /\ task' = [task EXCEPT ![c] = Finished(c)]
  /\ UNCHANGED <<registry, created, room, sessions, victims, feed>>

(* Mutant: the forwarder is spawned before the snapshot is sent.           *)
StartedAtOnce(c, k) == task[c].pc # "closed"

(* forward_broadcast: frames of one subscription arrive in order.  A join  *)
(* starts its forwarder after it sent the presence snapshot.               *)
Started(c, k) == ~(k = Len(feed[c]) /\ task[c].pc = "reply" /\ task[c].op = "join")

Deliver(c, k) ==
  /\ feed[c][k].queue # << >> /\ Started(c, k)
  /\ view' = [view EXCEPT ![c] = Apply(@, Head(feed[c][k].queue))]
  /\ feed' = [feed EXCEPT ![c][k].queue = Tail(@)]
  /\ UNCHANGED <<registry, created, room, sessions, task, victims>>

---------------------------------------------------------------------------
(* broadcast_entity_updated, from the HTTP handler of an edit.             *)
AuthorSaves == /\ "update" \in Ops /\ task[Author].pc = "ready"
               /\ Borrow(Author, "update", None, None, FALSE)
               /\ UNCHANGED victims

BroadcastEntityUpdated ==
  /\ Holds(Author, "update")
  /\ feed' = Published(task[Author].arc, <<[kind |-> "entity_updated"]>>)
  /\ task' = [task EXCEPT ![Author] = Finished(Author)]
  /\ UNCHANGED <<registry, created, room, sessions, victims, view>>

(* Mutant: the cutoff comparison is inverted.                              *)
SweepActive == /\ task[Reaper].pc = "ready" /\ victims = {} /\ registry # 0
               /\ room[registry].idle # room[registry].members
               /\ victims' = room[registry].members \ room[registry].idle
               /\ UNCHANGED <<registry, created, room, sessions, task, feed, view>>

(* reap_idle_members: list the idle members under the locks, then leave    *)
(* them one by one without looking again.                                  *)
SweepIdle == /\ task[Reaper].pc = "ready" /\ victims = {} /\ registry # 0
             /\ room[registry].idle # {}
             /\ victims' = room[registry].idle
             /\ UNCHANGED <<registry, created, room, sessions, task, feed, view>>

ReapNext(u) ==
  /\ task[Reaper].pc = "ready" /\ u \in victims
  /\ victims' = victims \ {u}
  /\ \/ Borrow(Reaper, "leave", u, None, FALSE)
     \/ registry = 0 /\ UNCHANGED <<registry, created, room, sessions, task, feed, view>>

(* The clock: a lock outlives its TTL, a member its idle timeout.          *)
Expire(e) == /\ "expire" \in Ops
             /\ \E i \in 1..created :
                  /\ room[i].locks[e] # None
                  /\ room' = [room EXCEPT ![i].expired = @ \cup {e}]
             /\ UNCHANGED <<registry, created, sessions, task, victims, feed, view>>

GoIdle(u) == /\ "idle" \in Ops
             /\ \E i \in 1..created :
                  /\ u \in room[i].members
                  /\ room' = [room EXCEPT ![i].idle = @ \cup {u}]
             /\ UNCHANGED <<registry, created, sessions, task, victims, feed, view>>

---------------------------------------------------------------------------
ClientStep(c) ==
  \/ Connect(c) \/ ReceiveJoin(c) \/ LeaveNothing(c) \/ Disconnect(c)
  \/ \E op \in {"leave", "cursor"} : ReceiveFrame(c, op)
  \/ \E op \in {"acquire", "release"}, e \in Entity : ReceiveLockFrame(c, op, e)

ServerStep(c) ==
  \/ Join(c) \/ Leave(c) \/ CollectRoom(c) \/ MoveCursor(c) \/ AcquireLock(c)
  \/ ReleaseLock(c) \/ SendReply(c) \/ ReleaseSession(c)
  \/ \E k \in DOMAIN feed[c] : Deliver(c, k)

ReaperStep == SweepIdle \/ (\E u \in User : ReapNext(u)) \/ Leave(Reaper) \/ CollectRoom(Reaper)

AuthorStep == AuthorSaves \/ BroadcastEntityUpdated

Clock == (\E e \in Entity : Expire(e)) \/ (\E u \in User : GoIdle(u))

Next == (\E c \in Conn : ClientStep(c) \/ ServerStep(c)) \/ ReaperStep \/ AuthorStep \/ Clock

Spec == Init /\ [][Next]_vars

(* spawn_cron ticks forever and tokio runs every ready task.               *)
FairSpec == Spec /\ WF_vars(ReaperStep)

---------------------------------------------------------------------------
(* No lock survives its holder: whatever mixture of leaves, disconnects,   *)
(* reaps and second tabs emptied or reshaped a room, each lock in it       *)
(* belongs to one of its members (leave, acquire_lock).                    *)
LocksHeldByMembers ==
  \A i \in 1..MaxRooms, e \in Entity :
    room[i].locks[e] # None => room[i].locks[e] \in room[i].members

(* c has been delivered everything: all of its subscriptions are to room   *)
(* i, none was overrun, none has a frame left and no answer is under way.  *)
CaughtUp(c, i) == /\ feed[c] # << >> /\ task[c].pc # "reply"
                  /\ \A k \in DOMAIN feed[c] :
                       feed[c][k].room = i /\ feed[c][k].queue = << >> /\ ~feed[c][k].missed

(* A tab that has been delivered everything shows the room as it is: its   *)
(* members, and its locks except that the tab may still believe it holds   *)
(* one itself.  Snapshot, broadcasts and direct answers reach the tab on   *)
(* separate paths, and after a second Join twice over.                     *)
ViewConverges ==
  \A c \in Conn, i \in 1..MaxRooms : CaughtUp(c, i) =>
    /\ view[c].users = room[i].members
    /\ \A e \in Entity : view[c].locks[e] \in {room[i].locks[e], UserOf[c]}

(* An idle member is not left behind: reap_idle_members removes it from    *)
(* the registered room unless it becomes active first.                     *)
GhostsLeave ==
  \A i \in 1..MaxRooms, u \in User :
    (registry = i /\ u \in room[i].idle) ~> (registry # i \/ u \notin room[i].idle)

===========================================================================
