-------------------------- MODULE CollabHubProofs --------------------------
(***************************************************************************)
(* Type correctness, ownership of locks and convergence of the tabs, for   *)
(* any number of people, tabs, entities, rooms and frames in flight.       *)
(***************************************************************************)
EXTENDS CollabHub, FiniteSetTheorems, SequenceTheorems, TLAPS

\* What the rooms broadcast; presence goes to one tab only.
Broadcast == {m \in Frame : m.kind # "presence"}
Subscription == [room : 1..MaxRooms, queue : Seq(Broadcast), missed : BOOLEAN]

Types == /\ registry \in 0..MaxRooms /\ created \in 0..MaxRooms
         /\ room \in [1..MaxRooms -> Room]
         /\ sessions \in [User -> 0..MaxSessions]
         /\ task \in [Task -> TaskState]
         /\ victims \subseteq User
         /\ feed \in [Conn -> Seq(Subscription)]
         /\ view \in [Conn -> View]

QueuesBounded == \A c \in Conn : \A k \in DOMAIN feed[c] : Len(feed[c][k].queue) <= Buffer

\* Who works in a room has its Arc and works for a user.
TasksPlaced ==
    /\ \A c \in Conn :
          /\ task[c].user = UserOf[c]
          /\ task[c].pc = "held" /\ task[c].op \in {"acquire", "release"} => task[c].entity \in Entity
    /\ \A t \in Task : task[t].pc = "held" => task[t].arc # 0
    /\ task[Reaper].pc = "held" => task[Reaper].user \in User
    /\ \A c \in Conn : task[c].pc = "reply" =>
          IF task[c].op = "join" THEN task[c].reply \in Frame \ Broadcast
          ELSE /\ task[c].reply \in Broadcast
               /\ task[c].reply.kind \in {"lock_granted", "lock_denied", "error"}
               /\ task[c].reply.kind = "lock_granted" => task[c].reply.user = UserOf[c]

-----------------------------------------------------------------------------
(* What a frame, a room and a tab say of a topic: of whether a user is      *)
(* there, or of who holds an entity's lock.                                 *)

Topic == [about : {"user"}, id : User] \cup [about : {"lock"}, id : Entity]

About(m, t) == IF t.about = "user" THEN m.kind \in {"user_joined", "user_left"} /\ m.user = t.id
               ELSE m.kind \in {"lock_granted", "lock_released"} /\ m.entity = t.id

Says(m, t) == IF t.about = "user" THEN IF m.kind = "user_joined" THEN {t.id} ELSE {}
              ELSE IF m.kind = "lock_granted" THEN m.user ELSE None

\* A room, and a tab or a snapshot.
Truth(r, t) == IF t.about = "user" THEN {t.id} \cap r.members ELSE r.locks[t.id]
Shown(v, t) == IF t.about = "user" THEN {t.id} \cap v.users ELSE v.locks[t.id]

Silent(q, t) == \A n \in 1..Len(q) : ~About(q[n], t)

\* The last frame of the queue on the topic.
LastSays(q, t, x) ==
    \A n \in 1..Len(q) :
        About(q[n], t) /\ (\A m \in 1..Len(q) : m > n => ~About(q[m], t)) => Says(q[n], t) = x

Tuned(c, i) == feed[c] # <<>> /\ \A k \in DOMAIN feed[c] : feed[c][k].room = i /\ ~feed[c][k].missed

Pending(c) == task[c].pc = "reply" /\ task[c].op = "join"

\* What is under way to a tab ends in the truth: the last frame of each of its
\* queues, or, without one, what the tab shows or the snapshot it will be sent.
Converging(c, i, t) ==
    Tuned(c, i) =>
        /\ \A k \in DOMAIN feed[c] : LastSays(feed[c][k].queue, t, Truth(room[i], t))
        /\ IF Pending(c)
           THEN Silent(feed[c][Len(feed[c])].queue, t) => Shown(task[c].reply, t) = Truth(room[i], t)
           ELSE (\A k \in DOMAIN feed[c] : Silent(feed[c][k].queue, t)) =>
                    \/ Shown(view[c], t) = Truth(room[i], t)
                    \/ t.about = "lock" /\ Shown(view[c], t) = UserOf[c]

Converge == \A c \in Conn, i \in 1..MaxRooms, t \in Topic : Converging(c, i, t)

Sorts == Types /\ QueuesBounded /\ TasksPlaced

IInv == Sorts /\ LocksHeldByMembers /\ Converge

-----------------------------------------------------------------------------
LEMMA ApplyCases ==
  ASSUME NEW v \in View, NEW m \in Frame
  PROVE  /\ m.kind = "presence" => Apply(v, m) = [users |-> m.users, locks |-> m.locks]
         /\ m.kind = "user_joined" => Apply(v, m) = [v EXCEPT !.users = @ \cup {m.user}]
         /\ m.kind = "user_left" => Apply(v, m) = [v EXCEPT !.users = @ \ {m.user}]
         /\ m.kind = "lock_granted" => Apply(v, m) = [v EXCEPT !.locks[m.entity] = m.user]
         /\ m.kind = "lock_released" => Apply(v, m) = [v EXCEPT !.locks[m.entity] = None]
         /\ m.kind \notin {"presence", "user_joined", "user_left", "lock_granted", "lock_released"}
              => Apply(v, m) = v
  BY Zenon DEF Apply

LEMMA FrameShapes ==
  ASSUME NEW m \in Frame
  PROVE  /\ m.kind = "presence" => m.users \in SUBSET User /\ m.locks \in Locks
         /\ m.kind \in {"user_joined", "user_left"} => m.user \in User
         /\ m.kind = "lock_granted" => m.user \in User
         /\ m.kind \in {"lock_granted", "lock_released"} => m.entity \in Entity
  BY DEF Frame

LEMMA ApplyType ==
  ASSUME NEW v \in View, NEW m \in Frame
  PROVE  Apply(v, m) \in View
  BY ApplyCases, FrameShapes DEF View, Locks

LEMMA SetToSeqLists ==
  ASSUME NEW S, IsFiniteSet(S)
  PROVE  /\ SetToSeq(S) \in Seq(S)
         /\ \A x \in S : \E n \in 1..Len(SetToSeq(S)) : SetToSeq(S)[n] = x
<1> DEFINE f == SetToSeq(S)
<1>1. PICK b \in Bijection(1..Cardinality(S), S) : TRUE
  BY FS_CardinalityType DEF ExistsBijection
<1>2. b \in [1..Cardinality(S) -> S] /\ IsInjective(b)
  BY <1>1 DEF Bijection, Injection, IsInjective
<1>3. f \in [1..Cardinality(S) -> S] /\ IsInjective(f)
  BY <1>2 DEF SetToSeq
<1> HIDE DEF f
<1>4. f \in Injection(1..Cardinality(S), S)
  BY <1>3 DEF Injection, IsInjective
<1>5. Cardinality(S) \in Nat /\ Cardinality(1..Cardinality(S)) = Cardinality(S)
  BY FS_CardinalityType, FS_Interval
<1>6. f \in Surjection(1..Cardinality(S), S)
  BY <1>4, <1>5, FS_Injection
<1>7. f \in Seq(S) /\ Len(f) = Cardinality(S)
  BY <1>3, <1>5
<1> QED
  BY <1>6, <1>7 DEF Surjection, f

\* What a tab shows after a frame.
LEMMA ApplyShown ==
  ASSUME NEW v \in View, NEW m \in Frame, NEW t \in Topic
  PROVE  /\ m.kind = "presence" => Shown(Apply(v, m), t) = Shown(m, t)
         /\ About(m, t) => Shown(Apply(v, m), t) = Says(m, t)
         /\ m.kind # "presence" /\ ~About(m, t) => Shown(Apply(v, m), t) = Shown(v, t)
<1>0. /\ v = [users |-> v.users, locks |-> v.locks] /\ v.locks \in [Entity -> User \cup {None}]
      /\ m.kind \in {"presence", "user_joined", "user_left", "lock_granted", "lock_released"}
           \/ Apply(v, m) = v
  BY ApplyCases DEF View, Locks
<1>1. CASE t.about = "user"
  <2>1. CASE m.kind = "presence"
    BY <1>1, <2>1, ApplyCases DEF Shown, About
  <2>2. CASE m.kind = "user_joined"
    BY <1>0, <1>1, <2>2, ApplyCases DEF Shown, About, Says
  <2>3. CASE m.kind = "user_left"
    BY <1>0, <1>1, <2>3, ApplyCases DEF Shown, About, Says
  <2>4. CASE m.kind \in {"lock_granted", "lock_released"}
    BY <1>0, <1>1, <2>4, ApplyCases DEF Shown, About
  <2> QED
    BY <1>0, <1>1, <2>1, <2>2, <2>3, <2>4, ApplyCases DEF About
<1>2. CASE t.about = "lock"
  <2>0. t.id \in Entity
    BY <1>2 DEF Topic
  <2>1. CASE m.kind = "presence"
    BY <1>2, <2>1, ApplyCases DEF Shown, About
  <2>2. CASE m.kind = "lock_granted"
    BY <1>0, <1>2, <2>0, <2>2, ApplyCases DEF Shown, About, Says
  <2>3. CASE m.kind = "lock_released"
    BY <1>0, <1>2, <2>0, <2>3, ApplyCases DEF Shown, About, Says
  <2>4. CASE m.kind \in {"user_joined", "user_left"}
    BY <1>0, <1>2, <2>4, ApplyCases DEF Shown, About
  <2> QED
    BY <1>0, <1>2, <2>1, <2>2, <2>3, <2>4, ApplyCases DEF About
<1> QED
  BY <1>1, <1>2 DEF Topic

\* Frames of a step go behind what is queued.
LEMMA QueueGrows ==
  ASSUME NEW q \in Seq(Broadcast), NEW F \in Seq(Broadcast), NEW t \in Topic, NEW x, NEW y,
         LastSays(q, t, x), Silent(F, t) => x = y,
         \A n \in 1..Len(F) : About(F[n], t) => Says(F[n], t) = y
  PROVE  /\ LastSays(q \o F, t, y)
         /\ Silent(q \o F, t) => Silent(q, t) /\ Silent(F, t)
<1> DEFINE r == q \o F
<1>1. /\ Len(q) \in Nat /\ Len(F) \in Nat /\ Len(r) = Len(q) + Len(F)
      /\ \A n \in 1..Len(q) : r[n] = q[n] /\ n \in 1..Len(r)
      /\ \A n \in 1..Len(F) : r[n + Len(q)] = F[n] /\ n + Len(q) \in 1..Len(r)
  BY ConcatProperties, LenProperties
<1> HIDE DEF r
<1>2. ASSUME NEW n \in 1..Len(r), About(r[n], t), \A m \in 1..Len(r) : m > n => ~About(r[m], t)
      PROVE  Says(r[n], t) = y
  <2>1. CASE n <= Len(q)
    <3>1. n \in 1..Len(q) /\ r[n] = q[n]
      BY <1>1, <2>1
    <3>2. Silent(F, t)
      BY <1>1, <1>2, <2>1 DEF Silent
    <3>3. \A m \in 1..Len(q) : m > n => ~About(q[m], t)
      BY <1>1, <1>2
    <3> QED
      BY <1>2, <3>1, <3>2, <3>3 DEF LastSays
  <2>2. CASE n > Len(q)
    <3>1. n - Len(q) \in 1..Len(F) /\ r[n] = F[n - Len(q)]
      BY <1>1, <2>2
    <3> QED
      BY <1>2, <3>1
  <2> QED
    BY <1>1, <2>1, <2>2
<1>3. Silent(r, t) => Silent(q, t) /\ Silent(F, t)
  BY <1>1 DEF Silent
<1> QED
  BY <1>2, <1>3 DEF LastSays, r

LEMMA QueueShrinks ==
  ASSUME NEW q \in Seq(Broadcast), q # <<>>, NEW t \in Topic, NEW x, LastSays(q, t, x)
  PROVE  /\ LastSays(Tail(q), t, x)
         /\ Silent(Tail(q), t) /\ ~About(Head(q), t) => Silent(q, t)
         /\ Silent(Tail(q), t) /\ About(Head(q), t) => Says(Head(q), t) = x
<1> DEFINE r == Tail(q)
<1>1. /\ Len(q) \in Nat \ {0} /\ Len(r) = Len(q) - 1
      /\ \A n \in 1..Len(r) : r[n] = q[n + 1] /\ n + 1 \in 1..Len(q)
      /\ \A n \in 1..Len(q) : n # 1 => n - 1 \in 1..Len(r) /\ q[n] = r[n - 1]
      /\ Head(q) = q[1] /\ 1 \in 1..Len(q)
  <2>1. Len(q) \in Nat \ {0} /\ Len(r) = Len(q) - 1 /\ \A n \in 1..Len(r) : r[n] = q[n + 1]
    BY HeadTailProperties, EmptySeq
  <2> QED
    BY <2>1
<1> HIDE DEF r
<1>2. LastSays(r, t, x)
  <2>1. ASSUME NEW n \in 1..Len(r), About(r[n], t), \A m \in 1..Len(r) : m > n => ~About(r[m], t)
        PROVE  Says(r[n], t) = x
    <3>1. \A m \in 1..Len(q) : m > n + 1 => ~About(q[m], t)
      BY <1>1, <2>1
    <3> QED
      BY <1>1, <2>1, <3>1 DEF LastSays
  <2> QED
    BY <2>1 DEF LastSays
<1>3. Silent(r, t) /\ ~About(Head(q), t) => Silent(q, t)
  BY <1>1 DEF Silent
<1>4. Silent(r, t) /\ About(Head(q), t) => Says(Head(q), t) = x
  BY <1>1 DEF Silent, LastSays
<1> QED
  BY <1>2, <1>3, <1>4 DEF r

-----------------------------------------------------------------------------
LEMMA OverrunKeeps ==
  ASSUME NEW q \in Seq(Broadcast)
  PROVE  /\ Overrun(q) \in Seq(Broadcast) /\ Len(Overrun(q)) <= Buffer
         /\ ~(Len(q) > Buffer) => Overrun(q) = q
<1>1. Buffer \in Nat /\ Len(q) \in Nat /\ \A n \in 1..Len(q) : q[n] \in Broadcast
  BY LimitsAssumption, ElementOfSeq, LenProperties
<1>2. CASE Len(q) > Buffer
  <2>1. /\ Len(q) - Buffer + 1 \in Int /\ Len(q) \in Int
        /\ \A n \in (Len(q) - Buffer + 1)..Len(q) : q[n] \in Broadcast
    BY <1>1, <1>2
  <2>2. /\ SubSeq(q, Len(q) - Buffer + 1, Len(q)) \in Seq(Broadcast)
        /\ Len(SubSeq(q, Len(q) - Buffer + 1, Len(q)))
             = IF Len(q) - Buffer + 1 <= Len(q) THEN Len(q) - (Len(q) - Buffer + 1) + 1 ELSE 0
    BY ZenonT(60), <2>1, SubSeqProperties, Zenon
  <2> QED
    BY <1>1, <1>2, <2>2 DEF Overrun
<1> QED
  BY <1>1, <1>2 DEF Overrun

\* What a broadcast to room i does to the subscriptions of a tab.
LEMMA PublishedFields ==
  ASSUME Types, QueuesBounded, NEW i \in 1..MaxRooms, NEW F \in Seq(Broadcast), NEW c \in Conn
  PROVE  /\ Published(i, F)[c] \in Seq(Subscription)
         /\ Len(Published(i, F)[c]) = Len(feed[c])
         /\ \A k \in 1..Len(feed[c]) :
              /\ Len(Published(i, F)[c][k].queue) <= Buffer
              /\ Published(i, F)[c][k].room = feed[c][k].room
              /\ feed[c][k].room # i => Published(i, F)[c][k] = feed[c][k]
              /\ feed[c][k].room = i /\ ~Published(i, F)[c][k].missed =>
                   ~feed[c][k].missed /\ Published(i, F)[c][k].queue = feed[c][k].queue \o F
<1> DEFINE p == Published(i, F)[c]
           N == Len(feed[c])
<1>1. N \in Nat /\ DOMAIN feed[c] = 1..N /\ \A k \in 1..N : feed[c][k] \in Subscription
  BY ElementOfSeq, LenProperties DEF Types
<1>2. p = [k \in 1..N |->
             IF feed[c][k].room = i
             THEN [feed[c][k] EXCEPT !.queue = Overrun(feed[c][k].queue \o F),
                                     !.missed = feed[c][k].missed \/ Len(feed[c][k].queue \o F) > Buffer]
             ELSE feed[c][k]]
  BY <1>1 DEF Published
<1>3. ASSUME NEW k \in 1..N
      PROVE  /\ p[k] \in Subscription /\ Len(p[k].queue) <= Buffer
             /\ p[k].room = feed[c][k].room
             /\ feed[c][k].room # i => p[k] = feed[c][k]
             /\ feed[c][k].room = i /\ ~p[k].missed =>
                  ~feed[c][k].missed /\ p[k].queue = feed[c][k].queue \o F
  <2>1. feed[c][k] \in Subscription /\ feed[c][k].queue \in Seq(Broadcast)
    BY SMTT(60), <1>1 DEF Subscription
  <2>2. CASE feed[c][k].room # i
    BY <1>1, <1>2, <2>1, <2>2 DEF QueuesBounded
  <2>3. CASE feed[c][k].room = i
    <3> DEFINE q == feed[c][k].queue \o F
    <3>1. q \in Seq(Broadcast)
      BY <2>1, ConcatProperties
    <3>2. /\ Overrun(q) \in Seq(Broadcast) /\ Len(Overrun(q)) <= Buffer
          /\ ~(Len(q) > Buffer) => Overrun(q) = q
      BY <3>1, OverrunKeeps
    <3>3. p[k] = [feed[c][k] EXCEPT !.queue = Overrun(q),
                                    !.missed = feed[c][k].missed \/ Len(q) > Buffer]
      BY <1>2, <2>3
    <3> HIDE DEF q, p
    <3>4. /\ p[k].queue = Overrun(q) /\ p[k].room = feed[c][k].room
          /\ p[k].missed = (feed[c][k].missed \/ Len(q) > Buffer)
          /\ p[k] \in Subscription
      BY <2>1, <3>2, <3>3 DEF Subscription
    <3> QED
      BY <2>3, <3>2, <3>4 DEF q
  <2> QED
    BY SMTT(60), <2>2, <2>3
<1>4. p \in Seq(Subscription) /\ Len(p) = N
  <2>1. p = [k \in 1..N |-> p[k]]
    BY <1>2, Zenon
  <2>2. N \in Nat /\ \A k \in 1..N : p[k] \in Subscription
    BY <1>1, <1>3
  <2> HIDE DEF p, N
  <2>3. \A n \in Nat : p = [k \in 1..n |-> p[k]] /\ (\A k \in 1..n : p[k] \in Subscription)
                         => p \in Seq(Subscription) /\ Len(p) = n
    OBVIOUS
  <2> QED
    BY <2>1, <2>2, <2>3
<1> QED
  BY <1>3, <1>4

\* Who works in a room, and where.
LEMMA Working ==
  ASSUME Types, TasksPlaced, NEW t \in Task, task[t].pc = "held"
  PROVE  /\ task[t].arc \in 1..MaxRooms /\ room[task[t].arc] \in Room
         /\ t \in Conn \cup {Reaper} => task[t].user \in User
         /\ t \in Conn => task[t].user = UserOf[t]
         /\ t \in Conn /\ task[t].op \in {"acquire", "release"} => task[t].entity \in Entity
<1>1. task[t] \in TaskState /\ task[t].arc # 0 /\ MaxRooms \in Nat
  BY LimitsAssumption DEF Types, TasksPlaced
<1>2. task[t].arc \in 1..MaxRooms
  BY <1>1 DEF TaskState
<1>3. t \in Conn => task[t].user = UserOf[t] /\ UserOf[t] \in User
  BY UserOfAssumption DEF TasksPlaced
<1>4. t = Reaper => task[t].user \in User
  BY DEF TasksPlaced
<1>5. t \in Conn /\ task[t].op \in {"acquire", "release"} => task[t].entity \in Entity
  BY DEF TasksPlaced
<1> QED
  BY <1>2, <1>3, <1>4, <1>5 DEF Types

\* The frames of a leave: the releases in some order, then the departure.
LEMMA LeaveFrames ==
  ASSUME Types, NEW i \in 1..MaxRooms, NEW u \in User
  PROVE  LET F == SetToSeq({Released(e) : e \in HeldBy(i, u)}) \o <<UserLeft(u)>>
         IN  /\ F \in Seq(Broadcast)
             /\ \A n \in 1..Len(F) : F[n] = UserLeft(u) \/ \E e \in HeldBy(i, u) : F[n] = Released(e)
             /\ \E n \in 1..Len(F) : F[n] = UserLeft(u)
             /\ \A e \in HeldBy(i, u) : \E n \in 1..Len(F) : F[n] = Released(e)
<1> DEFINE R == {Released(e) : e \in HeldBy(i, u)}
           s == SetToSeq(R)
           l == <<UserLeft(u)>>
<1>1. IsFiniteSet(R)
  <2> DEFINE f == [e \in HeldBy(i, u) |-> Released(e)]
  <2>1. IsFiniteSet(HeldBy(i, u))
    BY EntitiesAreFinite, FS_Subset DEF HeldBy
  <2>2. f \in Surjection(HeldBy(i, u), R)
    BY DEF Surjection
  <2> QED
    BY <2>1, <2>2, FS_Surjection
<1>2. R \subseteq Broadcast /\ UserLeft(u) \in Broadcast
  BY DEF HeldBy, Released, UserLeft, Broadcast, Frame
<1> HIDE DEF R
<1>3. s \in Seq(R) /\ \A x \in R : \E n \in 1..Len(s) : s[n] = x
  BY <1>1, SetToSeqLists
<1> HIDE DEF s
<1>4. s \in Seq(Broadcast) /\ l \in Seq(Broadcast) /\ Len(l) = 1 /\ l[1] = UserLeft(u)
  BY <1>2, <1>3, SeqMonotonic
<1> HIDE DEF l
<1>5. /\ s \o l \in Seq(Broadcast) /\ Len(s) \in Nat /\ Len(s \o l) = Len(s) + 1
      /\ \A n \in 1..Len(s) : (s \o l)[n] = s[n] /\ s[n] \in R
      /\ (s \o l)[Len(s) + 1] = UserLeft(u)
  <2>1. \A n \in 1..Len(s) : s[n] \in R
    BY <1>3, ElementOfSeq
  <2>2. /\ s \o l \in Seq(Broadcast) /\ Len(s \o l) = Len(s) + Len(l)
        /\ \A n \in 1..(Len(s) + Len(l)) :
             (s \o l)[n] = IF n <= Len(s) THEN s[n] ELSE l[n - Len(s)]
    BY <1>4, ConcatProperties, Zenon
  <2>3. Len(s) \in Nat
    BY <1>4, LenProperties
  <2>4. (Len(s) + 1) - Len(s) = 1
    BY <2>3
  <2> QED
    BY <1>4, <2>1, <2>2, <2>3, <2>4
<1>6. \A n \in 1..Len(s \o l) : (s \o l)[n] = UserLeft(u) \/ (s \o l)[n] \in R
  BY <1>5
<1>7. \A x \in R : \E n \in 1..Len(s \o l) : (s \o l)[n] = x
  BY <1>3, <1>5
<1>8. \E n \in 1..Len(s \o l) : (s \o l)[n] = UserLeft(u)
  BY <1>5
<1> QED
  BY <1>5, <1>6, <1>7, <1>8 DEF R, s, l

-----------------------------------------------------------------------------
LEMMA TaskFields ==
  ASSUME Types, NEW t \in Task
  PROVE  /\ task[t] \in TaskState
         /\ Finished(t) \in TaskState
         /\ Finished(t).pc = (IF task[t].closing THEN "releasing" ELSE "ready")
         /\ Finished(t).user = task[t].user
         /\ [Finished(t) EXCEPT !.joined = FALSE] \in TaskState
         /\ [Finished(t) EXCEPT !.joined = FALSE].pc = Finished(t).pc
         /\ [Finished(t) EXCEPT !.joined = FALSE].user = task[t].user
         /\ \A m \in Frame :
              /\ Replying(t, m) \in TaskState /\ Replying(t, m).pc = "reply"
              /\ Replying(t, m).user = task[t].user /\ Replying(t, m).op = task[t].op
              /\ Replying(t, m).reply = m
<1>1. /\ task[t] \in TaskState
      /\ task[t] = [pc |-> task[t].pc, op |-> task[t].op, user |-> task[t].user,
                    entity |-> task[t].entity, arc |-> task[t].arc, reply |-> task[t].reply,
                    joined |-> task[t].joined, closing |-> task[t].closing]
      /\ 0 \in 0..MaxRooms
  BY LimitsAssumption DEF Types, TaskState
<1>2. /\ Finished(t) \in TaskState
      /\ Finished(t).pc = (IF task[t].closing THEN "releasing" ELSE "ready")
      /\ Finished(t).user = task[t].user
  BY ZenonT(60), <1>1 DEF Finished, TaskState
<1>3. /\ [Finished(t) EXCEPT !.joined = FALSE] \in TaskState
      /\ [Finished(t) EXCEPT !.joined = FALSE].pc = Finished(t).pc
      /\ [Finished(t) EXCEPT !.joined = FALSE].user = Finished(t).user
  BY <1>2 DEF TaskState
<1>4. ASSUME NEW m \in Frame
      PROVE  /\ Replying(t, m) \in TaskState /\ Replying(t, m).pc = "reply"
             /\ Replying(t, m).user = task[t].user /\ Replying(t, m).op = task[t].op
             /\ Replying(t, m).reply = m
  BY <1>1, <1>4 DEF Replying, TaskState
<1> QED
  BY <1>1, <1>2, <1>3, <1>4

\* A task that moved on alone: what its new state must be.
TaskMoves(t, s) == /\ task' = [task EXCEPT ![t] = s] /\ s \in TaskState

Placed(t, s) ==
    /\ t \in Conn => s.user = UserOf[t]
    /\ t \in Conn /\ s.pc = "held" /\ s.op \in {"acquire", "release"} => s.entity \in Entity
    /\ s.pc = "held" => s.arc # 0
    /\ t = Reaper /\ s.pc = "held" => s.user \in User
    /\ t \in Conn /\ s.pc = "reply" =>
          IF s.op = "join" THEN s.reply \in Frame \ Broadcast
          ELSE /\ s.reply \in Broadcast
               /\ s.reply.kind \in {"lock_granted", "lock_denied", "error"}
               /\ s.reply.kind = "lock_granted" => s.reply.user = UserOf[t]

LEMMA PlacedPointwise == TasksPlaced <=> \A t \in Task : Placed(t, task[t])
  BY TasksAreDistinct DEF TasksPlaced, Placed, Task

LEMMA TaskMovesKeeps ==
  ASSUME Types, TasksPlaced, NEW t \in Task, NEW s, TaskMoves(t, s), Placed(t, s)
  PROVE  task' \in [Task -> TaskState] /\ TasksPlaced'
<1>1. /\ task' \in [Task -> TaskState] /\ task'[t] = s
      /\ \A r \in Task \ {t} : task'[r] = task[r]
  BY DEF TaskMoves, Types
<1>2. \A r \in Task : Placed(r, task'[r])
  BY <1>1, PlacedPointwise
<1> QED
  BY <1>1, <1>2, TasksAreDistinct DEF TasksPlaced, Placed, Task

Arcs == 0..MaxRooms
Operations == {"join", "leave", "cursor", "acquire", "release", "update"}

\* A task that borrowed a room's Arc.
Held(x, op, u, e, r) == [x EXCEPT !.pc = "held", !.op = op, !.user = u, !.entity = e, !.arc = r,
                                  !.closing = FALSE]

LEMMA HeldShape ==
  ASSUME NEW x \in TaskState, NEW op \in Operations,
         NEW u \in User \cup {None}, NEW e \in Entity \cup {None}, NEW r \in Arcs
  PROVE  /\ Held(x, op, u, e, r) \in TaskState
         /\ Held(x, op, u, e, r).pc = "held" /\ Held(x, op, u, e, r).op = op
         /\ Held(x, op, u, e, r).user = u /\ Held(x, op, u, e, r).entity = e
         /\ Held(x, op, u, e, r).arc = r
<1> DEFINE x1 == [x EXCEPT !.pc = "held", !.op = op]
           x2 == [x1 EXCEPT !.user = u, !.entity = e]
           x3 == [x2 EXCEPT !.arc = r, !.closing = FALSE]
<1>1. x1 \in TaskState /\ x1.pc = "held" /\ x1.op = op
  BY DEF TaskState, Operations
<1> HIDE DEF x1
<1>2. x2 \in TaskState /\ x2.pc = x1.pc /\ x2.op = x1.op /\ x2.user = u /\ x2.entity = e
  BY <1>1 DEF TaskState
<1> HIDE DEF x2
<1>3. /\ x3 \in TaskState /\ x3.pc = x2.pc /\ x3.op = x2.op /\ x3.user = x2.user
      /\ x3.entity = x2.entity /\ x3.arc = r
  BY ZenonT(60), <1>2 DEF TaskState, Arcs
<1> HIDE DEF x3
<1>4. /\ x3 \in TaskState /\ x3.pc = "held" /\ x3.op = op /\ x3.user = u /\ x3.entity = e
      /\ x3.arc = r
  BY <1>1, <1>2, <1>3
<1> QED
  BY <1>4 DEF x1, x2, x3, Held

LEMMA BorrowKeeps ==
  ASSUME Types, TasksPlaced, NEW t \in Task, NEW op \in Operations,
         NEW u \in User \cup {None}, NEW e \in Entity \cup {None}, Borrow(t, op, u, e, FALSE),
         t \in Conn => u = UserOf[t], t = Reaper => u \in User,
         op \in {"acquire", "release"} => e \in Entity
  PROVE  /\ registry' \in 0..MaxRooms /\ created' \in 0..MaxRooms
         /\ task' \in [Task -> TaskState] /\ TasksPlaced'
         /\ \A c \in Conn : Pending(c)' => Pending(c) /\ task'[c].reply = task[c].reply
         /\ \A c \in Conn : Pending(c) /\ c # t => Pending(c)'
<1> DEFINE creates == op \in {"join", "acquire"} /\ registry = 0
           r == IF creates THEN created + 1 ELSE registry
           s == Held(task[t], op, u, e, r)
<1>1. /\ r # 0 /\ r <= MaxRooms /\ registry' = r /\ created' = IF creates THEN r ELSE created
      /\ task' = [task EXCEPT ![t] = s]
  BY DEF Borrow, Held
<1>2. r \in 1..MaxRooms /\ created \in 0..MaxRooms /\ MaxRooms \in Nat
  BY <1>1, LimitsAssumption DEF Types
<1>3. registry' \in 0..MaxRooms /\ created' \in 0..MaxRooms
  BY <1>1, <1>2
<1> HIDE DEF r
<1>4. s \in TaskState /\ s.pc = "held" /\ s.op = op /\ s.user = u /\ s.entity = e /\ s.arc = r
  <2>1. task[t] \in TaskState /\ r \in Arcs
    BY <1>2 DEF Types, Arcs
  <2>2. ASSUME NEW x \in TaskState, NEW a \in Arcs
        PROVE  Held(x, op, u, e, a) \in TaskState
               /\ Held(x, op, u, e, a).pc = "held" /\ Held(x, op, u, e, a).op = op
               /\ Held(x, op, u, e, a).user = u /\ Held(x, op, u, e, a).entity = e
               /\ Held(x, op, u, e, a).arc = a
    BY HeldShape
  <2> QED
    BY <2>1, <2>2
<1> HIDE DEF s
<1>5. task' \in [Task -> TaskState] /\ TasksPlaced'
  <2>1. TaskMoves(t, s) /\ Placed(t, s)
    BY <1>1, <1>2, <1>4 DEF TaskMoves, Placed
  <2> QED
    BY <2>1, TaskMovesKeeps
<1>6. /\ task'[t] = s
      /\ \A c \in Task \ {t} : task'[c] = task[c]
  BY <1>1 DEF Types
<1>7. \A c \in Conn : c \in Task
  BY DEF Task
<1> QED
  BY <1>3, <1>4, <1>5, <1>6, <1>7 DEF Pending

-----------------------------------------------------------------------------
LEMMA AtRestFields ==
  ASSUME NEW pc \in {"closed", "ready", "releasing"}, NEW u \in User \cup {None}
  PROVE  AtRest(pc, u) \in TaskState /\ AtRest(pc, u).pc = pc /\ AtRest(pc, u).user = u
<1>1. 0 \in 0..MaxRooms
  BY LimitsAssumption
<1> QED
  BY <1>1 DEF AtRest, TaskState

LEMMA SortsInit == Init => Sorts
<1> SUFFICES ASSUME Init PROVE Sorts
  OBVIOUS
<1>1. 0 \in 0..MaxRooms /\ 0 \in 0..MaxSessions
  BY LimitsAssumption
<1>2. NoLocks \in Locks /\ EmptyRoom \in Room /\ NoView \in View
  BY DEF NoLocks, Locks, EmptyRoom, Room, NoView, View
<1>3. \A t \in Task : /\ task[t] \in TaskState /\ task[t].pc \in {"closed", "ready"}
                      /\ t \in Conn => task[t].user = UserOf[t]
  <2>1. ASSUME NEW t \in Task
        PROVE  /\ task[t] \in TaskState /\ task[t].pc \in {"closed", "ready"}
               /\ t \in Conn => task[t].user = UserOf[t]
    <3>1. CASE t \in Conn
      <4>1. task[t] = AtRest("closed", UserOf[t]) /\ UserOf[t] \in User \cup {None}
        BY <3>1, UserOfAssumption DEF Init
      <4> QED
        BY <4>1, AtRestFields
    <3>2. CASE t \notin Conn
      <4>1. task[t] = AtRest("ready", None)
        BY <3>2 DEF Init
      <4> QED
        BY <3>2, <4>1, AtRestFields
    <3> QED
      BY <3>1, <3>2
  <2> QED
    BY <2>1
<1>4. task \in [Task -> TaskState]
  <2>1. DOMAIN task = Task /\ task = [t \in Task |-> task[t]]
    BY DEF Init
  <2>2. \A t \in Task : task[t] \in TaskState
    BY <1>3
  <2> QED
    BY <2>1, <2>2, Zenon
<1>5. \A c \in Conn : feed[c] = <<>>
  BY DEF Init
<1>6. feed \in [Conn -> Seq(Subscription)]
  BY <1>5 DEF Init
<1>7. Types
  BY <1>1, <1>2, <1>4, <1>6 DEF Init, Types
<1>8. TasksPlaced
  <2>1. Conn \subseteq Task /\ Reaper \in Task
    BY DEF Task
  <2>2. \A t \in Task : task[t].pc # "held" /\ task[t].pc # "reply"
    BY <1>3
  <2> QED
    BY <1>3, <2>1, <2>2 DEF TasksPlaced
<1> QED
  BY <1>5, <1>7, <1>8 DEF Sorts, QueuesBounded

\* A room changed in place.
LEMMA RoomType ==
  ASSUME Types, NEW i \in 1..MaxRooms, NEW r \in Room, room' = [room EXCEPT ![i] = r]
  PROVE  room' \in [1..MaxRooms -> Room]
  BY DEF Types

\* Every feed is as it was or received the broadcast F of room i.
LEMMA FeedsType ==
  ASSUME Sorts, NEW i \in 1..MaxRooms, NEW F \in Seq(Broadcast), feed' = Published(i, F)
  PROVE  feed' \in [Conn -> Seq(Subscription)] /\ QueuesBounded'
<1>1. \A c \in Conn : /\ feed'[c] \in Seq(Subscription)
                      /\ Len(feed'[c]) = Len(feed[c])
                      /\ \A k \in 1..Len(feed[c]) : Len(feed'[c][k].queue) <= Buffer
  BY PublishedFields DEF Sorts
<1>2. feed' = [c \in Conn |-> feed'[c]]
  BY DEF Published
<1>3. \A c \in Conn : DOMAIN feed'[c] = 1..Len(feed[c])
  BY <1>1
<1> QED
  BY <1>1, <1>2, <1>3 DEF QueuesBounded

LEMMA ClientSorts ==
  ASSUME Sorts, NEW c \in Conn, ClientStep(c)
  PROVE  Sorts'
<1>0. /\ c \in Task /\ UserOf[c] \in User /\ None \in Entity \cup {None} /\ task[c] \in TaskState
      /\ 0 \in 0..MaxRooms
  BY UserOfAssumption, LimitsAssumption DEF Task, Sorts, Types
<1>1. CASE Connect(c)
  <2>1. TaskMoves(c, AtRest("ready", UserOf[c])) /\ Placed(c, AtRest("ready", UserOf[c]))
    BY <1>0, <1>1, AtRestFields, TasksAreDistinct DEF Connect, TaskMoves, Placed
  <2>2. task' \in [Task -> TaskState] /\ TasksPlaced'
    BY <1>0, <2>1, TaskMovesKeeps DEF Sorts
  <2>3. sessions' \in [User -> 0..MaxSessions]
    <3>1. sessions[UserOf[c]] + 1 \in 0..MaxSessions
      BY <1>0, <1>1, LimitsAssumption DEF Connect, Sorts, Types
    <3> QED
      BY <1>0, <1>1, <3>1 DEF Connect, Sorts, Types
  <2> QED
    BY <1>1, <2>2, <2>3 DEF Connect, Sorts, Types, QueuesBounded
<1>2. CASE ReceiveJoin(c)
  <2>1. Borrow(c, "join", UserOf[c], None, FALSE)
    BY <1>2 DEF ReceiveJoin
  <2>2. registry' \in 0..MaxRooms /\ created' \in 0..MaxRooms /\ task' \in [Task -> TaskState] /\ TasksPlaced'
    BY <1>0, <2>1, BorrowKeeps, TasksAreDistinct DEF Sorts, Operations
  <2> QED
    BY <1>2, <2>1, <2>2 DEF ReceiveJoin, Borrow, Sorts, Types, QueuesBounded
<1>3. CASE LeaveNothing(c)
  <2> DEFINE s == [task[c] EXCEPT !.joined = FALSE]
  <2>1. TaskMoves(c, s) /\ s.pc = "ready" /\ s.user = task[c].user
    BY <1>0, <1>3 DEF LeaveNothing, TaskMoves, TaskState
  <2> HIDE DEF s
  <2>2. Placed(c, s)
    BY <2>1, TasksAreDistinct DEF Placed, Sorts, TasksPlaced
  <2>3. task' \in [Task -> TaskState] /\ TasksPlaced'
    BY <1>0, <2>1, <2>2, TaskMovesKeeps DEF Sorts
  <2> QED
    BY <1>3, <2>3 DEF LeaveNothing, Sorts, Types, QueuesBounded
<1>4. CASE Disconnect(c)
  <2>1. /\ feed' = [feed EXCEPT ![c] = <<>>] /\ view' = [view EXCEPT ![c] = NoView]
        /\ UNCHANGED <<registry, created, room, sessions, victims>>
    BY <1>4 DEF Disconnect
  <2>2. task' \in [Task -> TaskState] /\ TasksPlaced'
    <3>1. CASE task[c].joined /\ registry # 0
      <4> DEFINE s == [task[c] EXCEPT !.pc = "held", !.op = "leave", !.arc = registry, !.closing = TRUE]
           x == [task[c] EXCEPT !.pc = "held", !.op = "leave"]
      <4>0. registry \in 0..MaxRooms /\ registry # 0
        BY <3>1 DEF Sorts, Types
      <4>1. task' = [task EXCEPT ![c] = s]
        BY <1>4, <3>1 DEF Disconnect
      <4>2. s \in TaskState /\ s.pc = "held" /\ s.op = "leave" /\ s.arc = registry /\ s.user = task[c].user
        <5>1. x \in TaskState /\ x.pc = "held" /\ x.op = "leave" /\ x.user = task[c].user
          BY <1>0 DEF TaskState
        <5>2. s = [x EXCEPT !.arc = registry, !.closing = TRUE]
          OBVIOUS
        <5> HIDE DEF x, s
        <5> QED
          BY <4>0, <5>1, <5>2 DEF TaskState
      <4> HIDE DEF s
      <4>3. TaskMoves(c, s) /\ Placed(c, s)
        BY <4>0, <4>1, <4>2, TasksAreDistinct DEF TaskMoves, Placed, Sorts, TasksPlaced
      <4> QED
        BY <1>0, <4>3, TaskMovesKeeps DEF Sorts
    <3>2. CASE ~(task[c].joined /\ registry # 0)
      <4>1. TaskMoves(c, AtRest("releasing", UserOf[c])) /\ Placed(c, AtRest("releasing", UserOf[c]))
        BY <1>0, <1>4, <3>2, AtRestFields, TasksAreDistinct DEF Disconnect, TaskMoves, Placed
      <4> QED
        BY <1>0, <4>1, TaskMovesKeeps DEF Sorts
    <3> QED
      BY <3>1, <3>2
  <2>3. NoView \in View
    BY DEF NoView, View, NoLocks, Locks
  <2>4. feed' \in [Conn -> Seq(Subscription)] /\ QueuesBounded'
    BY <2>1 DEF Sorts, Types, QueuesBounded
  <2> QED
    BY <2>1, <2>2, <2>3, <2>4 DEF Sorts, Types
<1>5. ASSUME NEW op \in {"leave", "cursor"}, ReceiveFrame(c, op) PROVE Sorts'
  <2>1. Borrow(c, op, UserOf[c], None, FALSE)
    BY <1>5 DEF ReceiveFrame
  <2>2. op \in Operations /\ op \notin {"acquire", "release"}
    BY DEF Operations
  <2>3. registry' \in 0..MaxRooms /\ created' \in 0..MaxRooms /\ task' \in [Task -> TaskState] /\ TasksPlaced'
    BY <1>0, <2>1, <2>2, BorrowKeeps, TasksAreDistinct DEF Sorts
  <2> QED
    BY <1>5, <2>1, <2>3 DEF ReceiveFrame, Borrow, Sorts, Types, QueuesBounded
<1>6. ASSUME NEW op \in {"acquire", "release"}, NEW e \in Entity, ReceiveLockFrame(c, op, e) PROVE Sorts'
  <2>1. Borrow(c, op, UserOf[c], e, FALSE)
    BY <1>6 DEF ReceiveLockFrame
  <2>2. op \in Operations /\ e \in Entity \cup {None}
    BY DEF Operations
  <2>3. registry' \in 0..MaxRooms /\ created' \in 0..MaxRooms /\ task' \in [Task -> TaskState] /\ TasksPlaced'
    BY <1>0, <2>1, <2>2, BorrowKeeps, TasksAreDistinct DEF Sorts
  <2> QED
    BY <1>6, <2>1, <2>3 DEF ReceiveLockFrame, Borrow, Sorts, Types, QueuesBounded
<1> QED
  BY <1>1, <1>2, <1>3, <1>4, <1>5, <1>6 DEF ClientStep

-----------------------------------------------------------------------------
(* What an operation does to its room i it tells the room's tabs: F has a   *)
(* frame on every topic that changed, with what became of it.               *)

Announced(i, F) ==
    /\ i \in 1..MaxRooms /\ F \in Seq(Broadcast)
    /\ room' \in [1..MaxRooms -> Room]
    /\ \A j \in 1..MaxRooms : j # i => room'[j] = room[j]
    /\ \A e \in Entity : room'[i].locks[e] # None => room'[i].locks[e] \in room'[i].members
    /\ \A t \in Topic :
         /\ Silent(F, t) => Truth(room'[i], t) = Truth(room[i], t)
         /\ \A n \in 1..Len(F) : About(F[n], t) => Says(F[n], t) = Truth(room'[i], t)

LEMMA OneFrame ==
  ASSUME NEW m \in Broadcast
  PROVE  /\ <<m>> \in Seq(Broadcast) /\ <<m>> # <<>> /\ Len(<<m>>) = 1 /\ <<m>>[1] = m
         /\ \A n \in 1..Len(<<m>>) : <<m>>[n] = m
         /\ \A t : Silent(<<m>>, t) <=> ~About(m, t)
  BY DEF Silent

LEMMA NoFrame ==
  <<>> \in Seq(Broadcast) /\ Len(<<>>) = 0 /\ \A t : Silent(<<>>, t)
  BY DEF Silent

LEMMA RoomShape ==
  ASSUME Types, NEW i \in 1..MaxRooms
  PROVE  /\ room[i] \in Room
         /\ room[i].members \in SUBSET User /\ room[i].idle \in SUBSET User
         /\ room[i].locks \in [Entity -> User \cup {None}] /\ room[i].expired \in SUBSET Entity
         /\ room[i] = [members |-> room[i].members, idle |-> room[i].idle,
                       locks |-> room[i].locks, expired |-> room[i].expired]
  BY DEF Types, Room, Locks

LEMMA TopicCases ==
  ASSUME NEW t \in Topic
  PROVE  \/ t.about = "user" /\ t.id \in User
         \/ t.about = "lock" /\ t.id \in Entity
  BY DEF Topic

\* A room in place of room i, told by one frame.
LEMMA AnnouncedByOne ==
  ASSUME Sorts, LocksHeldByMembers, NEW i \in 1..MaxRooms, NEW r \in Room, NEW m \in Broadcast,
         room' = [room EXCEPT ![i] = r],
         \A e \in Entity : r.locks[e] # None => r.locks[e] \in r.members,
         \A u \in User : IF m.kind \in {"user_joined", "user_left"} /\ m.user = u
                         THEN u \in r.members <=> m.kind = "user_joined"
                         ELSE u \in r.members <=> u \in room[i].members,
         \A e \in Entity : IF m.kind \in {"lock_granted", "lock_released"} /\ m.entity = e
                           THEN r.locks[e] = IF m.kind = "lock_granted" THEN m.user ELSE None
                           ELSE r.locks[e] = room[i].locks[e]
  PROVE  Announced(i, <<m>>)
<1>1. /\ room' \in [1..MaxRooms -> Room] /\ room'[i] = r
      /\ \A j \in 1..MaxRooms : j # i => room'[j] = room[j]
  BY DEF Sorts, Types
<1>2. ASSUME NEW t \in Topic
      PROVE  IF About(m, t) THEN Says(m, t) = Truth(room'[i], t) ELSE Truth(room'[i], t) = Truth(room[i], t)
  <2>1. CASE t.about = "user"
    <3>1. t.id \in User
      BY <2>1, TopicCases
    <3> QED
      BY <1>1, <2>1, <3>1 DEF About, Says, Truth
  <2>2. CASE t.about = "lock"
    <3>1. t.id \in Entity
      BY <2>2, TopicCases
    <3> QED
      BY <1>1, <2>2, <3>1 DEF About, Says, Truth
  <2> QED
    BY <2>1, <2>2, TopicCases
<1>3. \A t \in Topic : /\ Silent(<<m>>, t) => Truth(room'[i], t) = Truth(room[i], t)
                       /\ \A n \in 1..Len(<<m>>) :
                            About(<<m>>[n], t) => Says(<<m>>[n], t) = Truth(room'[i], t)
  BY <1>2, OneFrame
<1> QED
  BY <1>1, <1>3, OneFrame DEF Announced

\* A room in place of room i with the same members and locks.
LEMMA AnnouncedByNone ==
  ASSUME Sorts, LocksHeldByMembers, NEW i \in 1..MaxRooms, room' \in [1..MaxRooms -> Room],
         \A j \in 1..MaxRooms : room'[j].members = room[j].members /\ room'[j].locks = room[j].locks,
         \A j \in 1..MaxRooms : j # i => room'[j] = room[j]
  PROVE  Announced(i, <<>>)
<1>1. \A t \in Topic : Truth(room'[i], t) = Truth(room[i], t)
  BY DEF Truth
<1>2. \A e \in Entity : room'[i].locks[e] # None => room'[i].locks[e] \in room'[i].members
  BY DEF LocksHeldByMembers
<1> QED
  BY <1>1, <1>2, NoFrame DEF Announced

\* A step tells the tabs of one room what it did there, or has nothing to tell.
Spreads ==
    \E i \in 1..MaxRooms, F \in Seq(Broadcast) :
        Announced(i, F) /\ (feed' = Published(i, F) \/ (F = <<>> /\ feed' = feed))

LEMMA JoinAnnounces ==
  ASSUME Sorts, LocksHeldByMembers, NEW c \in Conn, Join(c)
  PROVE  /\ Announced(task[c].arc, <<Joined(task[c].user)>>)
         /\ Joined(task[c].user) \in Broadcast
<1> DEFINE i == task[c].arc
           u == task[c].user
           r == [room[i] EXCEPT !.members = @ \cup {u}, !.idle = @ \ {u}]
<1>1. /\ i \in 1..MaxRooms /\ u \in User /\ Types
  BY Working DEF Join, Holds, Sorts, Task
<1>2. room' = [room EXCEPT ![i] = r]
  BY DEF Join
<1> HIDE DEF i, u
<1>3. r.members = room[i].members \cup {u} /\ r.locks = room[i].locks /\ r \in Room
  BY <1>1, RoomShape DEF Room, Locks
<1>4. Joined(u) \in Broadcast /\ Joined(u).kind = "user_joined" /\ Joined(u).user = u
  BY <1>1 DEF Joined, Broadcast, Frame
<1> HIDE DEF r
<1>5. /\ \A e \in Entity : r.locks[e] # None => r.locks[e] \in r.members
      /\ \A e \in Entity : r.locks[e] = room[i].locks[e]
      /\ \A w \in User : IF w = u THEN w \in r.members
                         ELSE w \in r.members <=> w \in room[i].members
  BY <1>1, <1>3 DEF LocksHeldByMembers
<1>6. Announced(i, <<Joined(u)>>)
  BY <1>1, <1>2, <1>3, <1>4, <1>5, AnnouncedByOne
<1> QED
  BY <1>4, <1>6 DEF i, u

LEMMA DepartureTopics ==
  ASSUME NEW u, NEW x \in Topic
  PROVE  /\ About(UserLeft(u), x) => x.about = "user" /\ x.id = u /\ Says(UserLeft(u), x) = {}
         /\ x.about = "user" /\ x.id = u => About(UserLeft(u), x)
  BY DEF Topic, About, Says, UserLeft

LEMMA ReleaseTopics ==
  ASSUME NEW e, NEW x \in Topic
  PROVE  /\ About(Released(e), x) => x.about = "lock" /\ x.id = e /\ Says(Released(e), x) = None
         /\ x.about = "lock" /\ x.id = e => About(Released(e), x)
  BY DEF Topic, About, Says, Released

LEMMA LeaveSpreads ==
  ASSUME Sorts, LocksHeldByMembers, NEW t \in Conn \cup {Reaper}, Leave(t)
  PROVE  Spreads
<1> DEFINE i == task[t].arc
           u == task[t].user
           r == [members |-> room[i].members \ {u}, idle |-> room[i].idle \ {u},
                 locks |-> [e \in Entity |-> IF room[i].locks[e] = u THEN None ELSE room[i].locks[e]],
                 expired |-> room[i].expired \ HeldBy(i, u)]
           F == SetToSeq({Released(e) : e \in HeldBy(i, u)}) \o <<UserLeft(u)>>
<1>1. i \in 1..MaxRooms /\ u \in User /\ Types
  BY Working DEF Leave, Holds, Sorts, Task
<1>2. room' = [room EXCEPT ![i] = r] /\ feed' = Published(i, F)
  BY DEF Leave
<1> HIDE DEF i, u
<1>3. /\ F \in Seq(Broadcast)
      /\ \A n \in 1..Len(F) : F[n] = UserLeft(u) \/ \E e \in HeldBy(i, u) : F[n] = Released(e)
      /\ \E n \in 1..Len(F) : F[n] = UserLeft(u)
      /\ \A e \in HeldBy(i, u) : \E n \in 1..Len(F) : F[n] = Released(e)
  BY <1>1, LeaveFrames
<1> HIDE DEF F
<1>4. /\ r.members = room[i].members \ {u} /\ r \in Room
      /\ \A e \in Entity : r.locks[e] = IF room[i].locks[e] = u THEN None ELSE room[i].locks[e]
  BY ZenonT(60), <1>1, RoomShape DEF Room, Locks
<1> HIDE DEF r
<1>5. /\ room' \in [1..MaxRooms -> Room] /\ room'[i] = r
      /\ \A j \in 1..MaxRooms : j # i => room'[j] = room[j]
  BY <1>1, <1>2, <1>4 DEF Types
<1>6. ASSUME NEW x \in Topic
      PROVE  /\ Silent(F, x) => Truth(room'[i], x) = Truth(room[i], x)
             /\ \A n \in 1..Len(F) : About(F[n], x) => Says(F[n], x) = Truth(room'[i], x)
  <2>1. CASE x.about = "user"
    <3>1. x.id \in User
      BY <2>1, TopicCases
    <3>2. /\ \A n \in 1..Len(F) : About(F[n], x) => x.id = u /\ Says(F[n], x) = {}
          /\ x.id = u => ~Silent(F, x)
      <4>1. ASSUME NEW n \in 1..Len(F), About(F[n], x) PROVE x.id = u /\ Says(F[n], x) = {}
        <5>1. CASE F[n] = UserLeft(u)
          BY <4>1, <5>1, DepartureTopics, ReleaseTopics
        <5>2. CASE \E e \in HeldBy(i, u) : F[n] = Released(e)
          BY <2>1, <4>1, <5>2, DepartureTopics, ReleaseTopics
        <5> QED
          BY <1>3, <5>1, <5>2
      <4>2. x.id = u => About(UserLeft(u), x)
        BY <2>1, DepartureTopics, ReleaseTopics
      <4> QED
        BY <1>3, <4>1, <4>2 DEF Silent
    <3> QED
      BY <1>4, <1>5, <2>1, <3>1, <3>2 DEF Truth
  <2>2. CASE x.about = "lock"
    <3>1. x.id \in Entity
      BY <2>2, TopicCases
    <3>2. /\ \A n \in 1..Len(F) : About(F[n], x) => x.id \in HeldBy(i, u) /\ Says(F[n], x) = None
          /\ x.id \in HeldBy(i, u) => ~Silent(F, x)
      <4>1. ASSUME NEW n \in 1..Len(F), About(F[n], x)
            PROVE  x.id \in HeldBy(i, u) /\ Says(F[n], x) = None
        <5>1. CASE F[n] = UserLeft(u)
          BY <2>2, <4>1, <5>1, DepartureTopics, ReleaseTopics
        <5>2. CASE \E e \in HeldBy(i, u) : F[n] = Released(e)
          BY <4>1, <5>2, DepartureTopics, ReleaseTopics
        <5> QED
          BY <1>3, <5>1, <5>2
      <4>2. \A e : x.id = e => About(Released(e), x)
        BY <2>2, DepartureTopics, ReleaseTopics
      <4> QED
        BY <1>3, <4>1, <4>2 DEF Silent
    <3>3. x.id \in HeldBy(i, u) <=> room[i].locks[x.id] = u
      BY <3>1 DEF HeldBy
    <3> QED
      BY <1>4, <1>5, <2>2, <3>1, <3>2, <3>3 DEF Truth
  <2> QED
    BY <2>1, <2>2, TopicCases
<1>7. \A e \in Entity : r.locks[e] # None => r.locks[e] \in r.members
  BY <1>1, <1>4 DEF LocksHeldByMembers
<1>8. Announced(i, F)
  BY <1>1, <1>3, <1>5, <1>6, <1>7 DEF Announced
<1> QED
  BY <1>1, <1>2, <1>3, <1>8 DEF Spreads

\* A room changed in place and told by one frame.
LEMMA SpreadsOne ==
  ASSUME Sorts, NEW i \in 1..MaxRooms, NEW m \in Broadcast, Announced(i, <<m>>), feed' = Published(i, <<m>>)
  PROVE  Spreads
  BY OneFrame DEF Spreads

LEMMA SpreadsNone ==
  ASSUME Sorts, NEW i \in 1..MaxRooms, Announced(i, <<>>), feed' = feed
  PROVE  Spreads
  BY NoFrame DEF Spreads

LEMMA MoveCursorSpreads ==
  ASSUME Sorts, LocksHeldByMembers, NEW c \in Conn, MoveCursor(c)
  PROVE  Spreads \/ UNCHANGED <<room, feed>>
<1> SUFFICES ASSUME ~UNCHANGED <<room, feed>> PROVE Spreads
  OBVIOUS
<1>1. task[c].arc \in 1..MaxRooms /\ task[c].user \in User /\ Types
  BY Working DEF MoveCursor, Holds, Sorts, Task
<1>2. PICK i \in 1..MaxRooms, u \in User : i = task[c].arc /\ u = task[c].user
  BY <1>1
<1> DEFINE r == [room[i] EXCEPT !.idle = @ \ {u}]
           m == [kind |-> "remote_cursor", user |-> u]
<1>3. room' = [room EXCEPT ![i] = r] /\ feed' = Published(i, <<m>>)
  BY <1>2 DEF MoveCursor
<1>4. r \in Room /\ r.members = room[i].members /\ r.locks = room[i].locks
  BY ZenonT(60), <1>1, RoomShape DEF Room, Locks
<1>5. m \in Broadcast /\ m.kind = "remote_cursor"
  BY DEF Broadcast, Frame
<1> HIDE DEF r, m
<1>6. Announced(i, <<m>>)
  BY <1>3, <1>4, <1>5, AnnouncedByOne DEF LocksHeldByMembers
<1> QED
  BY <1>3, <1>5, <1>6, SpreadsOne

\* One lock of a room changes hands and a frame says so.
LockMoves(i, e, u, r) ==
    /\ u \in room[i].members /\ r \in Room /\ room' = [room EXCEPT ![i] = r]
    /\ r.members = room[i].members
    /\ \A x \in Entity : x # e => r.locks[x] = room[i].locks[x]
    /\ \/ r.locks[e] = u /\ feed' = Published(i, <<Granted(e, u)>>)
       \/ r.locks[e] = None /\ feed' = Published(i, <<Released(e)>>)
       \/ r.locks[e] = room[i].locks[e] /\ feed' = feed

LEMMA LockMovesSpread ==
  ASSUME Sorts, LocksHeldByMembers, NEW i \in 1..MaxRooms, NEW e \in Entity, NEW u, NEW r,
         LockMoves(i, e, u, r)
  PROVE  Spreads
<1> USE DEF LockMoves
<1>1. u \in User /\ u # None /\ room[i] \in Room
  BY RoomShape, NoneIsNobody DEF Sorts
<1>2. \A x \in Entity : r.locks[x] # None => r.locks[x] \in r.members
  BY DEF LocksHeldByMembers
<1>3. CASE r.locks[e] = u /\ feed' = Published(i, <<Granted(e, u)>>)
  <2>1. Granted(e, u) \in Broadcast
    BY <1>1 DEF Granted, Broadcast, Frame
  <2>2. Granted(e, u).kind = "lock_granted" /\ Granted(e, u).entity = e /\ Granted(e, u).user = u
    BY DEF Granted
  <2> DEFINE m == Granted(e, u)
  <2>3. \A x \in Entity : IF m.kind \in {"lock_granted", "lock_released"} /\ m.entity = x
                          THEN r.locks[x] = IF m.kind = "lock_granted" THEN m.user ELSE None
                          ELSE r.locks[x] = room[i].locks[x]
    BY <1>3, <2>2
  <2>4. \A w \in User : IF m.kind \in {"user_joined", "user_left"} /\ m.user = w
                        THEN w \in r.members <=> m.kind = "user_joined"
                        ELSE w \in r.members <=> w \in room[i].members
    BY <2>2
  <2> HIDE DEF m
  <2>5. Announced(i, <<m>>)
    BY <1>2, <2>1, <2>3, <2>4, AnnouncedByOne DEF m
  <2> QED
    BY <1>3, <2>1, <2>5, SpreadsOne DEF m
<1>4. CASE r.locks[e] = None /\ feed' = Published(i, <<Released(e)>>)
  <2>1. Released(e) \in Broadcast
    BY DEF Released, Broadcast, Frame
  <2>2. Released(e).kind = "lock_released" /\ Released(e).entity = e
    BY DEF Released
  <2>3. Announced(i, <<Released(e)>>)
    BY ZenonT(60), <1>2, <1>4, <2>1, <2>2, AnnouncedByOne
  <2> QED
    BY <1>4, <2>1, <2>3, SpreadsOne
<1>5. CASE r.locks[e] = room[i].locks[e] /\ feed' = feed
  <2>1. room' \in [1..MaxRooms -> Room] /\ room'[i] = r /\ \A j \in 1..MaxRooms : j # i => room'[j] = room[j]
    BY DEF Sorts, Types
  <2>2. r.locks = room[i].locks
    <3>1. r.locks \in [Entity -> User \cup {None}] /\ room[i].locks \in [Entity -> User \cup {None}]
      BY <1>1 DEF Room, Locks
    <3> QED
      BY <1>5, <3>1
  <2>3. Announced(i, <<>>)
    BY <2>1, <2>2, AnnouncedByNone
  <2> QED
    BY <1>5, <2>3, SpreadsNone
<1> QED
  BY <1>3, <1>4, <1>5

LEMMA AcquireLockSpreads ==
  ASSUME Sorts, LocksHeldByMembers, NEW c \in Conn, AcquireLock(c)
  PROVE  /\ Spreads \/ UNCHANGED <<room, feed>>
         /\ \E m \in Broadcast : /\ task' = [task EXCEPT ![c] = Replying(c, m)]
                                 /\ m.kind \in {"lock_granted", "lock_denied", "error"}
                                 /\ m.kind = "lock_granted" => m.user = UserOf[c]
<1>1. /\ task[c].arc \in 1..MaxRooms /\ task[c].user \in User /\ task[c].entity \in Entity
      /\ task[c].user = UserOf[c] /\ Types
  BY Working DEF AcquireLock, Holds, Sorts, Task
<1>2. PICK i \in 1..MaxRooms, u \in User, e \in Entity :
        i = task[c].arc /\ u = task[c].user /\ e = task[c].entity
  BY <1>1
<1> DEFINE mayTake == room[i].locks[e] = None \/ (room[i].locks[e] # u /\ e \in room[i].expired)
           owns == room[i].locks[e] = u
           answer == IF mayTake \/ owns THEN Granted(e, u) ELSE [kind |-> "lock_denied"]
<1>3. /\ Granted(e, u) \in Broadcast /\ Granted(e, u).kind = "lock_granted" /\ Granted(e, u).user = UserOf[c]
      /\ [kind |-> "lock_denied"] \in Broadcast /\ NotJoined \in Broadcast /\ NotJoined.kind = "error"
  BY <1>1, <1>2 DEF Granted, NotJoined, Broadcast, Frame
<1>4. CASE u \notin room[i].members
  <2>1. task' = [task EXCEPT ![c] = Replying(c, NotJoined)] /\ UNCHANGED <<room, feed>>
    BY <1>2, <1>4 DEF AcquireLock
  <2> QED
    BY <1>3, <2>1
<1>5. CASE u \in room[i].members
  <2> DEFINE r == [room[i] EXCEPT !.idle = @ \ {u}, !.locks[e] = IF mayTake THEN u ELSE @,
                                  !.expired = IF mayTake \/ owns THEN @ \ {e} ELSE @]
  <2>1. /\ room' = [room EXCEPT ![i].idle = @ \ {u},
                      ![i].locks[e] = IF mayTake THEN u ELSE @,
                      ![i].expired = IF mayTake \/ owns THEN @ \ {e} ELSE @]
        /\ feed' = IF mayTake THEN Published(i, <<Granted(e, u)>>) ELSE feed
        /\ task' = [task EXCEPT ![c] = Replying(c, answer)]
    BY <1>2, <1>5, Zenon DEF AcquireLock
  <2>2. room' = [room EXCEPT ![i] = r]
    BY ZenonT(60), <1>1, <2>1, RoomShape DEF Types
  <2> DEFINE l == IF mayTake THEN u ELSE room[i].locks[e]
             x == IF mayTake \/ owns THEN room[i].expired \ {e} ELSE room[i].expired
  <2>3. /\ r \in Room /\ r.members = room[i].members
        /\ r.locks = [room[i].locks EXCEPT ![e] = l]
    <3>1. l \in User \cup {None} /\ x \in SUBSET Entity
      BY ZenonT(60), <1>1, RoomShape
    <3>2. r = [room[i] EXCEPT !.idle = @ \ {u}, !.locks[e] = l, !.expired = x]
      OBVIOUS
    <3> HIDE DEF l, x, r
    <3> QED
      BY ZenonT(60), <1>1, <3>1, <3>2, RoomShape DEF Room, Locks
  <2> HIDE DEF r
  <2>4. /\ \A y \in Entity : y # e => r.locks[y] = room[i].locks[y]
        /\ r.locks[e] = IF mayTake THEN u ELSE room[i].locks[e]
    BY ZenonT(60), <1>1, <2>3, RoomShape
  <2>5. Spreads
    <3>1. \/ r.locks[e] = u /\ feed' = Published(i, <<Granted(e, u)>>)
          \/ r.locks[e] = None /\ feed' = Published(i, <<Released(e)>>)
          \/ r.locks[e] = room[i].locks[e] /\ feed' = feed
      BY <2>1, <2>4
    <3>2. LockMoves(i, e, u, r)
      BY <1>5, <2>2, <2>3, <2>4, <3>1 DEF LockMoves
    <3> QED
      BY <3>2, LockMovesSpread
  <2>6. answer \in Broadcast /\ answer.kind \in {"lock_granted", "lock_denied", "error"}
        /\ (answer.kind = "lock_granted" => answer.user = UserOf[c])
    BY <1>3
  <2> QED
    BY <2>1, <2>5, <2>6
<1> QED
  BY SMTT(60), <1>4, <1>5

LEMMA ReleaseLockSpreads ==
  ASSUME Sorts, LocksHeldByMembers, NEW c \in Conn, ReleaseLock(c)
  PROVE  /\ Spreads \/ UNCHANGED <<room, feed>>
         /\ \/ task' = [task EXCEPT ![c] = Finished(c)]
            \/ task' = [task EXCEPT ![c] = Replying(c, NotJoined)]
<1>1. /\ task[c].arc \in 1..MaxRooms /\ task[c].user \in User /\ task[c].entity \in Entity /\ Types
  BY Working DEF ReleaseLock, Holds, Sorts, Task
<1>2. PICK i \in 1..MaxRooms, u \in User, e \in Entity :
        i = task[c].arc /\ u = task[c].user /\ e = task[c].entity
  BY <1>1
<1> DEFINE owns == room[i].locks[e] = u
<1>3. CASE u \notin room[i].members
  BY <1>2, <1>3 DEF ReleaseLock
<1>4. CASE u \in room[i].members
  <2> DEFINE l == IF owns THEN None ELSE room[i].locks[e]
             x == IF owns THEN room[i].expired \ {e} ELSE room[i].expired
             r == [room[i] EXCEPT !.idle = @ \ {u}, !.locks[e] = IF owns THEN None ELSE @,
                                  !.expired = IF owns THEN @ \ {e} ELSE @]
  <2>1. /\ room' = [room EXCEPT ![i].idle = @ \ {u},
                      ![i].locks[e] = IF owns THEN None ELSE @,
                      ![i].expired = IF owns THEN @ \ {e} ELSE @]
        /\ feed' = IF owns THEN Published(i, <<Released(e)>>) ELSE feed
        /\ task' = [task EXCEPT ![c] = Finished(c)]
    BY <1>2, <1>4, Zenon DEF ReleaseLock
  <2>2. room' = [room EXCEPT ![i] = r]
    <3>1. room' = [room EXCEPT ![i].idle = @ \ {u}, ![i].locks[e] = l, ![i].expired = x]
      BY <2>1, Zenon
    <3>2. r = [room[i] EXCEPT !.idle = @ \ {u}, !.locks[e] = l, !.expired = x]
      OBVIOUS
    <3> HIDE DEF l, x, r
    <3> DEFINE f1 == [room EXCEPT ![i].idle = @ \ {u}]
               r1 == [room[i] EXCEPT !.idle = @ \ {u}]
               f2 == [f1 EXCEPT ![i].locks[e] = l]
               r2 == [r1 EXCEPT !.locks[e] = l]
               f3 == [f2 EXCEPT ![i].expired = x]
    <3>3. f1 = [room EXCEPT ![i] = r1] /\ f1[i] = r1 /\ DOMAIN f1 = 1..MaxRooms
      BY <1>1 DEF Types
    <3>4. room' = f3 /\ r = [r2 EXCEPT !.expired = x]
      BY <3>1, <3>2
    <3> HIDE DEF f1, r1
    <3>5. f2 = [f1 EXCEPT ![i] = r2] /\ f2[i] = r2 /\ DOMAIN f2 = 1..MaxRooms
      BY <3>3
    <3> HIDE DEF f2, r2
    <3>6. f3 = [f2 EXCEPT ![i] = r]
      BY <3>4, <3>5
    <3> QED
      BY <3>3, <3>4, <3>5, <3>6
  <2>3. /\ r \in Room /\ r.members = room[i].members
        /\ r.locks = [room[i].locks EXCEPT ![e] = l]
    <3>1. l \in User \cup {None} /\ x \in SUBSET Entity
      BY <1>1, RoomShape
    <3>2. r = [room[i] EXCEPT !.idle = @ \ {u}, !.locks[e] = l, !.expired = x]
      OBVIOUS
    <3> HIDE DEF l, x, r
    <3> QED
      BY ZenonT(60), <1>1, <3>1, <3>2, RoomShape DEF Room, Locks
  <2> HIDE DEF r
  <2>4. /\ \A y \in Entity : y # e => r.locks[y] = room[i].locks[y]
        /\ r.locks[e] = IF owns THEN None ELSE room[i].locks[e]
    <3>1. room[i].locks \in [Entity -> User \cup {None}]
      BY <1>1, RoomShape
    <3> QED
      BY <2>3, <3>1
  <2>5. Spreads
    <3>1. \/ r.locks[e] = u /\ feed' = Published(i, <<Granted(e, u)>>)
          \/ r.locks[e] = None /\ feed' = Published(i, <<Released(e)>>)
          \/ r.locks[e] = room[i].locks[e] /\ feed' = feed
      BY <2>1, <2>4
    <3>2. LockMoves(i, e, u, r)
      BY <1>4, <2>2, <2>3, <2>4, <3>1 DEF LockMoves
    <3> QED
      BY <3>2, LockMovesSpread
  <2> QED
    BY <2>1, <2>5
<1> QED
  BY <1>3, <1>4

LEMMA BroadcastSpreads ==
  ASSUME Sorts, LocksHeldByMembers, BroadcastEntityUpdated
  PROVE  Spreads
<1>1. task[Author].arc \in 1..MaxRooms
  BY Working DEF BroadcastEntityUpdated, Holds, Sorts, Task
<1>2. PICK i \in 1..MaxRooms : i = task[Author].arc
  BY <1>1
<1> DEFINE m == [kind |-> "entity_updated"]
<1>3. feed' = Published(i, <<m>>) /\ room' = room /\ room[i] \in Room
  BY <1>2, RoomShape DEF BroadcastEntityUpdated, Sorts
<1>4. room' = [room EXCEPT ![i] = room[i]]
  BY <1>3 DEF Sorts, Types
<1>5. m \in Broadcast /\ m.kind = "entity_updated"
  BY DEF Broadcast, Frame
<1> HIDE DEF m
<1>6. Announced(i, <<m>>)
  BY <1>3, <1>4, <1>5, AnnouncedByOne DEF LocksHeldByMembers
<1> QED
  BY <1>3, <1>5, <1>6, SpreadsOne

LEMMA ClockSpreads ==
  ASSUME Sorts, LocksHeldByMembers, Clock
  PROVE  Spreads
<1>1. Types /\ created \in 0..MaxRooms /\ feed' = feed /\ MaxRooms \in Nat
  BY LimitsAssumption DEF Clock, Expire, GoIdle, Sorts, Types
<1>2. PICK i \in 1..created :
        \/ \E e \in Entity : room' = [room EXCEPT ![i].expired = @ \cup {e}]
        \/ \E u \in User : room' = [room EXCEPT ![i].idle = @ \cup {u}]
  BY DEF Clock, Expire, GoIdle
<1>3. i \in 1..MaxRooms
  BY <1>1
<1>4. \E r \in Room : /\ room' = [room EXCEPT ![i] = r]
                      /\ r.members = room[i].members /\ r.locks = room[i].locks
  <2>1. CASE \E e \in Entity : room' = [room EXCEPT ![i].expired = @ \cup {e}]
    <3>1. PICK e \in Entity : room' = [room EXCEPT ![i].expired = @ \cup {e}]
      BY <2>1
    <3> DEFINE r == [room[i] EXCEPT !.expired = @ \cup {e}]
    <3>2. r \in Room /\ r.members = room[i].members /\ r.locks = room[i].locks
      BY <1>1, <1>3, RoomShape DEF Room, Locks
    <3>3. room' = [room EXCEPT ![i] = r]
      BY <3>1
    <3> QED
      BY <3>2, <3>3
  <2>2. CASE \E u \in User : room' = [room EXCEPT ![i].idle = @ \cup {u}]
    <3>1. PICK u \in User : room' = [room EXCEPT ![i].idle = @ \cup {u}]
      BY <2>2
    <3> DEFINE r == [room[i] EXCEPT !.idle = @ \cup {u}]
    <3>2. r \in Room /\ r.members = room[i].members /\ r.locks = room[i].locks
      BY <1>1, <1>3, RoomShape DEF Room, Locks
    <3>3. room' = [room EXCEPT ![i] = r]
      BY <3>1
    <3> QED
      BY <3>2, <3>3
  <2> QED
    BY <1>2, <2>1, <2>2
<1>5. Announced(i, <<>>)
  <2>1. PICK r \in Room : /\ room' = [room EXCEPT ![i] = r]
                          /\ r.members = room[i].members /\ r.locks = room[i].locks
    BY <1>4
  <2>2. room' \in [1..MaxRooms -> Room] /\ room'[i] = r /\ \A j \in 1..MaxRooms : j # i => room'[j] = room[j]
    BY <1>1, <1>3, <2>1 DEF Types
  <2> QED
    BY <1>3, <2>1, <2>2, AnnouncedByNone
<1> QED
  BY <1>1, <1>3, <1>5, SpreadsNone

\* What every spreading step keeps, whoever takes it.
LEMMA SpreadsSorts ==
  ASSUME Sorts, Spreads
  PROVE  /\ room' \in [1..MaxRooms -> Room]
         /\ feed' \in [Conn -> Seq(Subscription)] /\ QueuesBounded'
<1>1. PICK i \in 1..MaxRooms, F \in Seq(Broadcast) :
        Announced(i, F) /\ (feed' = Published(i, F) \/ (F = <<>> /\ feed' = feed))
  BY DEF Spreads
<1>2. CASE feed' = Published(i, F)
  BY <1>1, <1>2, FeedsType DEF Announced
<1>3. CASE feed' = feed
  BY <1>1, <1>3 DEF Announced, Sorts, Types, QueuesBounded
<1> QED
  BY <1>1, <1>2, <1>3

LEMMA SpreadsLocks ==
  ASSUME Sorts, LocksHeldByMembers, Spreads
  PROVE  LocksHeldByMembers'
<1>1. PICK i \in 1..MaxRooms, F \in Seq(Broadcast) : Announced(i, F)
  BY DEF Spreads
<1>2. ASSUME NEW j \in 1..MaxRooms, NEW e \in Entity, room'[j].locks[e] # None
      PROVE  room'[j].locks[e] \in room'[j].members
  BY <1>1, <1>2 DEF Announced, LocksHeldByMembers
<1> QED
  BY <1>2 DEF LocksHeldByMembers

-----------------------------------------------------------------------------
\* The queues of a tab of room j, after room i told F.
LEMMA QueuesTold ==
  ASSUME Sorts, Converge, NEW i, NEW F, Announced(i, F),
         NEW c \in Conn, NEW j \in 1..MaxRooms, NEW t \in Topic, feed[c] # <<>>,
         NEW P, P = Published(i, F)[c] \/ (F = <<>> /\ P = feed[c]),
         \A k \in 1..Len(feed[c]) : P[k].room = j /\ ~P[k].missed
  PROVE  /\ Tuned(c, j)
         /\ \A k \in 1..Len(feed[c]) :
              /\ LastSays(P[k].queue, t, Truth(room'[j], t))
              /\ Silent(P[k].queue, t) => /\ Silent(feed[c][k].queue, t)
                                          /\ Truth(room'[j], t) = Truth(room[j], t)
<1> DEFINE G == IF j = i THEN F ELSE <<>>
           x == Truth(room[j], t)
           y == Truth(room'[j], t)
<1>1. /\ i \in 1..MaxRooms /\ F \in Seq(Broadcast) /\ \A k : k # i /\ k \in 1..MaxRooms => room'[k] = room[k]
      /\ Silent(F, t) => Truth(room'[i], t) = Truth(room[i], t)
      /\ \A n \in 1..Len(F) : About(F[n], t) => Says(F[n], t) = Truth(room'[i], t)
  BY DEF Announced
<1>2. /\ G \in Seq(Broadcast) /\ (Silent(G, t) => x = y)
      /\ \A n \in 1..Len(G) : About(G[n], t) => Says(G[n], t) = y
  <2>1. CASE j = i
    BY <1>1, <2>1
  <2>2. CASE j # i
    <3>1. G = <<>> /\ x = y
      BY <1>1, <2>2
    <3>2. G \in Seq(Broadcast) /\ Len(G) = 0
      BY <3>1, NoFrame
    <3> HIDE DEF G, x, y
    <3> QED
      BY <3>1, <3>2
  <2> QED
    BY <2>1, <2>2
<1>3. ASSUME NEW k \in 1..Len(feed[c])
      PROVE  /\ feed[c][k].room = j /\ ~feed[c][k].missed /\ feed[c][k].queue \in Seq(Broadcast)
             /\ P[k].queue = feed[c][k].queue \o G
  <2>1. feed[c][k] \in Subscription /\ feed[c][k].queue \in Seq(Broadcast)
    <3>1. feed[c] \in Seq(Subscription)
      BY DEF Sorts, Types
    <3>2. feed[c][k] \in Subscription
      BY <3>1, ElementOfSeq
    <3> QED
      BY <3>2 DEF Subscription
  <2>2. feed[c][k].queue \o <<>> = feed[c][k].queue
    BY <2>1, ConcatEmptySeq
  <2>3. CASE P = feed[c] /\ F = <<>>
    BY <2>1, <2>2, <2>3
  <2>4. CASE P = Published(i, F)[c]
    <3>1. /\ P[k].room = feed[c][k].room
          /\ feed[c][k].room # i => P[k] = feed[c][k]
          /\ feed[c][k].room = i /\ ~P[k].missed =>
               ~feed[c][k].missed /\ P[k].queue = feed[c][k].queue \o F
      BY <1>1, <2>4, PublishedFields DEF Sorts
    <3> QED
      BY <2>1, <2>2, <3>1
  <2> QED
    BY <2>3, <2>4
<1>4. DOMAIN feed[c] = 1..Len(feed[c])
  BY DEF Sorts, Types
<1>5. Tuned(c, j)
  BY <1>3, <1>4 DEF Tuned
<1> HIDE DEF G, x, y
<1>6. ASSUME NEW k \in 1..Len(feed[c])
      PROVE  /\ LastSays(P[k].queue, t, y)
             /\ Silent(P[k].queue, t) => Silent(feed[c][k].queue, t) /\ y = x
  <2>1. LastSays(feed[c][k].queue, t, x)
    BY <1>4, <1>5 DEF Converge, Converging, x
  <2>2. PICK q \in Seq(Broadcast) : q = feed[c][k].queue
    BY <1>3
  <2>3. /\ LastSays(q \o G, t, y)
        /\ Silent(q \o G, t) => Silent(q, t) /\ Silent(G, t)
    <3>1. LastSays(q, t, x) /\ (Silent(G, t) => x = y)
      BY <1>2, <2>1, <2>2
    <3>2. G \in Seq(Broadcast) /\ \A n \in 1..Len(G) : About(G[n], t) => Says(G[n], t) = y
      BY <1>2
    <3> QED
      BY <3>1, <3>2, QueueGrows
  <2>4. P[k].queue = q \o G
    BY <1>3, <2>2
  <2> QED
    BY <1>2, <2>2, <2>3, <2>4
<1> QED
  BY <1>5, <1>6 DEF x, y

\* A tab that is told what happened stays on its way to the truth.
LEMMA ToldConverges ==
  ASSUME Sorts, Converge, Sorts', NEW i, NEW F, Announced(i, F),
         NEW c \in Conn, NEW j \in 1..MaxRooms, NEW t \in Topic,
         feed'[c] = Published(i, F)[c] \/ (F = <<>> /\ feed'[c] = feed[c]),
         view'[c] = view[c], Pending(c)' <=> Pending(c), Pending(c) => task'[c].reply = task[c].reply
  PROVE  Converging(c, j, t)'
<1> SUFFICES ASSUME Tuned(c, j)'
             PROVE  /\ \A k \in DOMAIN feed'[c] : LastSays(feed'[c][k].queue, t, Truth(room'[j], t))
                    /\ IF Pending(c)
                       THEN Silent(feed'[c][Len(feed'[c])].queue, t) =>
                              Shown(task[c].reply, t) = Truth(room'[j], t)
                       ELSE (\A k \in DOMAIN feed'[c] : Silent(feed'[c][k].queue, t)) =>
                              \/ Shown(view[c], t) = Truth(room'[j], t)
                              \/ t.about = "lock" /\ Shown(view[c], t) = UserOf[c]
  BY DEF Converging
<1>1. /\ Len(feed'[c]) = Len(feed[c]) /\ Len(feed[c]) \in Nat
      /\ DOMAIN feed'[c] = 1..Len(feed[c]) /\ DOMAIN feed[c] = 1..Len(feed[c])
  <2>1. feed[c] \in Seq(Subscription) /\ feed'[c] \in Seq(Subscription)
    BY DEF Sorts, Types
  <2>2. F \in Seq(Broadcast) /\ i \in 1..MaxRooms
    BY DEF Announced
  <2>3. Len(feed'[c]) = Len(feed[c])
    BY <2>2, PublishedFields DEF Sorts
  <2> QED
    BY <2>1, <2>3
<1>2. feed[c] # <<>> /\ Len(feed[c]) \in 1..Len(feed[c])
  <2>1. feed'[c] # <<>> /\ feed'[c] \in Seq(Subscription) /\ feed[c] \in Seq(Subscription)
    BY DEF Tuned, Sorts, Types
  <2> QED
    BY <1>1, <2>1, EmptySeq
<1>3. \A k \in 1..Len(feed[c]) : feed'[c][k].room = j /\ ~feed'[c][k].missed
  BY <1>1 DEF Tuned
<1>4. /\ Tuned(c, j)
      /\ \A k \in 1..Len(feed[c]) :
           /\ LastSays(feed'[c][k].queue, t, Truth(room'[j], t))
           /\ Silent(feed'[c][k].queue, t) => /\ Silent(feed[c][k].queue, t)
                                              /\ Truth(room'[j], t) = Truth(room[j], t)
  BY SMTT(60), <1>2, <1>3, QueuesTold
<1>5. /\ Pending(c) => (Silent(feed[c][Len(feed[c])].queue, t) => Shown(task[c].reply, t) = Truth(room[j], t))
      /\ ~Pending(c) => ((\A k \in 1..Len(feed[c]) : Silent(feed[c][k].queue, t)) =>
                              \/ Shown(view[c], t) = Truth(room[j], t)
                              \/ t.about = "lock" /\ Shown(view[c], t) = UserOf[c])
  BY <1>1, <1>4 DEF Converge, Converging
<1> QED
  BY <1>1, <1>2, <1>4, <1>5

\* No task begins or ends waiting to send a snapshot.
TaskQuiet == \A c \in Conn : /\ Pending(c)' <=> Pending(c)
                             /\ Pending(c) => task'[c].reply = task[c].reply

LEMMA QuietTask ==
  ASSUME Sorts, NEW t \in Task, NEW s, task' = [task EXCEPT ![t] = s],
         task[t].pc # "reply" \/ task[t].op # "join", s.pc # "reply" \/ s.op # "join"
  PROVE  TaskQuiet
<1>1. task'[t] = s /\ \A r \in Task : r # t => task'[r] = task[r]
  BY DEF Sorts, Types
<1>2. Conn \subseteq Task
  BY DEF Task
<1> QED
  BY <1>1, <1>2 DEF TaskQuiet, Pending

LEMMA QuietBorrow ==
  ASSUME Sorts, NEW t \in Task, NEW op, NEW u, NEW e, NEW b, Borrow(t, op, u, e, b),
         task[t].pc = "ready"
  PROVE  TaskQuiet /\ UNCHANGED <<room, feed, view>>
<1>1. PICK r : task' = [task EXCEPT ![t] = [task[t] EXCEPT !.pc = "held", !.op = op, !.user = u,
                                             !.entity = e, !.arc = r, !.closing = b]]
  BY ZenonT(60) DEF Borrow
<1> DEFINE s == [task[t] EXCEPT !.pc = "held", !.op = op, !.user = u,
                                !.entity = e, !.arc = r, !.closing = b]
<1>2. s.pc = "held"
  BY DEF Sorts, Types, TaskState
<1>3. task' = [task EXCEPT ![t] = s]
  BY <1>1
<1> HIDE DEF s
<1>4. TaskQuiet
  BY <1>2, <1>3, QuietTask
<1> QED
  BY <1>4 DEF Borrow

\* Steps that tell a room what happened and leave the tabs' stores alone.
Tame == (Spreads \/ UNCHANGED <<room, feed>>) /\ view' = view /\ TaskQuiet

LEMMA TameKeeps ==
  ASSUME Sorts, LocksHeldByMembers, Converge, Sorts', Tame
  PROVE  LocksHeldByMembers' /\ Converge'
<1>1. CASE Spreads
  <2>1. PICK i \in 1..MaxRooms, F \in Seq(Broadcast) :
          Announced(i, F) /\ (feed' = Published(i, F) \/ (F = <<>> /\ feed' = feed))
    BY <1>1 DEF Spreads
  <2>2. ASSUME NEW c \in Conn, NEW j \in 1..MaxRooms, NEW t \in Topic
        PROVE  Converging(c, j, t)'
    <3>1. feed'[c] = Published(i, F)[c] \/ (F = <<>> /\ feed'[c] = feed[c])
      BY <2>1
    <3>2. view'[c] = view[c] /\ (Pending(c)' <=> Pending(c)) /\ (Pending(c) => task'[c].reply = task[c].reply)
      BY DEF Tame, TaskQuiet
    <3> QED
      BY <2>1, <3>1, <3>2, ToldConverges
  <2> QED
    BY <1>1, <2>2, SpreadsLocks DEF Converge
<1>2. CASE UNCHANGED <<room, feed>>
  <2>1. ASSUME NEW c \in Conn, NEW j \in 1..MaxRooms, NEW t \in Topic
        PROVE  Converging(c, j, t)'
    <3>1. Announced(j, <<>>)
      BY <1>2, AnnouncedByNone DEF Sorts, Types
    <3>2. view'[c] = view[c] /\ (Pending(c)' <=> Pending(c)) /\ (Pending(c) => task'[c].reply = task[c].reply)
      BY DEF Tame, TaskQuiet
    <3>3. feed'[c] = feed[c]
      BY <1>2
    <3> QED
      BY <3>1, <3>2, <3>3, ToldConverges
  <2> QED
    BY <1>2, <2>1 DEF Converge, LocksHeldByMembers
<1> QED
  BY <1>1, <1>2 DEF Tame

LEMMA ClientTame ==
  ASSUME Sorts, NEW c \in Conn, ClientStep(c), ~Disconnect(c)
  PROVE  Tame
<1>0. c \in Task /\ task[c] \in TaskState
  BY DEF Task, Sorts, Types
<1>1. CASE Connect(c)
  <2>1. AtRest("ready", UserOf[c]).pc = "ready"
    BY DEF AtRest
  <2>2. TaskQuiet
    BY <1>0, <1>1, <2>1, QuietTask DEF Connect
  <2> QED
    BY <1>1, <2>2 DEF Connect, Tame
<1>2. CASE ReceiveJoin(c)
  BY <1>0, <1>2, QuietBorrow DEF ReceiveJoin, Tame
<1>3. CASE LeaveNothing(c)
  <2> DEFINE s == [task[c] EXCEPT !.joined = FALSE]
  <2>1. task' = [task EXCEPT ![c] = s] /\ s.pc = "ready"
    BY <1>0, <1>3 DEF LeaveNothing, TaskState
  <2> HIDE DEF s
  <2>2. TaskQuiet
    BY <1>0, <1>3, <2>1, QuietTask DEF LeaveNothing
  <2> QED
    BY <1>3, <2>2 DEF LeaveNothing, Tame
<1>4. CASE \E op \in {"leave", "cursor"} : ReceiveFrame(c, op)
  BY <1>0, <1>4, QuietBorrow DEF ReceiveFrame, Tame
<1>5. CASE \E op \in {"acquire", "release"}, e \in Entity : ReceiveLockFrame(c, op, e)
  BY <1>0, <1>5, QuietBorrow DEF ReceiveLockFrame, Tame
<1> QED
  BY <1>1, <1>2, <1>3, <1>4, <1>5 DEF ClientStep

-----------------------------------------------------------------------------
LEMMA TameSorts ==
  ASSUME Sorts, Spreads \/ UNCHANGED <<room, feed>>,
         registry' \in 0..MaxRooms, created' = created, sessions' \in [User -> 0..MaxSessions],
         task' \in [Task -> TaskState], TasksPlaced', victims' \subseteq User, view' = view
  PROVE  Sorts'
<1>1. room' \in [1..MaxRooms -> Room] /\ feed' \in [Conn -> Seq(Subscription)] /\ QueuesBounded'
  <2>1. CASE Spreads
    BY <2>1, SpreadsSorts
  <2>2. CASE UNCHANGED <<room, feed>>
    BY <2>2 DEF Sorts, Types, QueuesBounded
  <2> QED
    BY <2>1, <2>2
<1> QED
  BY <1>1 DEF Sorts, Types

\* A task that leaves its operation without an answer to send.
LEMMA RestingTask ==
  ASSUME Sorts, NEW t \in Task, task[t].pc # "reply",
         NEW s \in TaskState, task' = [task EXCEPT ![t] = s], s.user = task[t].user,
         s.pc \notin {"held", "reply"}
  PROVE  task' \in [Task -> TaskState] /\ TasksPlaced' /\ TaskQuiet
<1>1. Placed(t, s)
  BY DEF Placed, Sorts, TasksPlaced
<1>2. task' \in [Task -> TaskState] /\ TasksPlaced'
  BY <1>1, TaskMovesKeeps DEF TaskMoves, Sorts
<1> QED
  BY <1>2, QuietTask

LEMMA LeaveTame ==
  ASSUME Sorts, LocksHeldByMembers, NEW t \in Conn \cup {Reaper}, Leave(t)
  PROVE  Sorts' /\ Tame
<1>0. t \in Task /\ task[t].pc = "held" /\ task[t] \in TaskState
  BY DEF Task, Leave, Holds, Sorts, Types
<1>1. Spreads
  BY LeaveSpreads
<1>2. PICK s \in TaskState : /\ task' = [task EXCEPT ![t] = s] /\ s.user = task[t].user
                             /\ s.pc \notin {"held", "reply"}
  <2>1. CASE room[task[t].arc].members \ {task[t].user} = {}
    <3> DEFINE s == [task[t] EXCEPT !.pc = "emptied", !.arc = 0, !.joined = FALSE]
    <3>1. task' = [task EXCEPT ![t] = s]
      BY <2>1 DEF Leave
    <3>2. s \in TaskState /\ s.user = task[t].user /\ s.pc = "emptied"
      <4>1. 0 \in 0..MaxRooms
        BY LimitsAssumption
      <4> QED
        BY <1>0, <4>1 DEF TaskState
    <3> QED
      BY <3>1, <3>2
  <2>2. CASE room[task[t].arc].members \ {task[t].user} # {}
    <3> DEFINE s == [Finished(t) EXCEPT !.joined = FALSE]
    <3>1. task' = [task EXCEPT ![t] = s]
      BY <2>2 DEF Leave
    <3>2. s \in TaskState /\ s.user = task[t].user /\ s.pc \notin {"held", "reply"}
      BY <1>0, TaskFields DEF Sorts
    <3> QED
      BY <3>1, <3>2
  <2> QED
    BY <2>1, <2>2
<1>3. task' \in [Task -> TaskState] /\ TasksPlaced' /\ TaskQuiet
  BY <1>0, <1>2, RestingTask
<1>4. UNCHANGED <<registry, created, sessions, victims, view>>
  BY DEF Leave
<1>5. Sorts'
  BY <1>1, <1>3, <1>4, TameSorts DEF Sorts, Types
<1> QED
  BY <1>1, <1>3, <1>4, <1>5 DEF Tame

LEMMA FinishedRests ==
  ASSUME Sorts, NEW t \in Task, task[t].pc # "reply", task' = [task EXCEPT ![t] = Finished(t)]
  PROVE  task' \in [Task -> TaskState] /\ TasksPlaced' /\ TaskQuiet
<1>1. /\ Finished(t) \in TaskState /\ Finished(t).user = task[t].user
      /\ Finished(t).pc \notin {"held", "reply"}
  BY TaskFields DEF Sorts
<1> QED
  BY <1>1, RestingTask

LEMMA CollectRoomTame ==
  ASSUME Sorts, NEW t \in Conn \cup {Reaper}, CollectRoom(t)
  PROVE  Sorts' /\ Tame
<1>1. task' \in [Task -> TaskState] /\ TasksPlaced' /\ TaskQuiet
  BY FinishedRests DEF CollectRoom, Task
<1>2. registry' \in 0..MaxRooms
  BY LimitsAssumption DEF CollectRoom, Sorts, Types
<1>3. UNCHANGED <<created, room, sessions, victims, feed, view>>
  BY DEF CollectRoom
<1>4. Sorts'
  BY SMTT(60), <1>1, <1>2, <1>3, TameSorts DEF Sorts, Types
<1> QED
  BY <1>1, <1>3, <1>4 DEF Tame

LEMMA RoomOpsTame ==
  ASSUME Sorts, LocksHeldByMembers, NEW c \in Conn,
         MoveCursor(c) \/ AcquireLock(c) \/ ReleaseLock(c)
  PROVE  Sorts' /\ Tame
<1>0. c \in Task /\ task[c].pc = "held" /\ task[c] \in TaskState
      /\ UNCHANGED <<registry, created, sessions, victims, view>>
  BY DEF Task, MoveCursor, AcquireLock, ReleaseLock, Holds, Sorts, Types
<1>1. Spreads \/ UNCHANGED <<room, feed>>
  BY MoveCursorSpreads, AcquireLockSpreads, ReleaseLockSpreads
<1>2. task' \in [Task -> TaskState] /\ TasksPlaced' /\ TaskQuiet
  <2>1. CASE task' = [task EXCEPT ![c] = Finished(c)]
    BY <1>0, <2>1, FinishedRests
  <2>2. ASSUME NEW m \in Broadcast, task' = [task EXCEPT ![c] = Replying(c, m)],
               m.kind \in {"lock_granted", "lock_denied", "error"},
               m.kind = "lock_granted" => m.user = UserOf[c], task[c].op \in {"acquire", "release"}
        PROVE  task' \in [Task -> TaskState] /\ TasksPlaced' /\ TaskQuiet
    <3>1. /\ Replying(c, m) \in TaskState /\ Replying(c, m).pc = "reply"
          /\ Replying(c, m).user = task[c].user /\ Replying(c, m).op = task[c].op
          /\ Replying(c, m).reply = m
      BY <1>0, TaskFields DEF Sorts, Broadcast
    <3>2. Placed(c, Replying(c, m))
      BY <2>2, <3>1, TasksAreDistinct DEF Placed, Sorts, TasksPlaced
    <3>3. task' \in [Task -> TaskState] /\ TasksPlaced'
      BY <1>0, <2>2, <3>1, <3>2, TaskMovesKeeps DEF TaskMoves, Sorts
    <3>4. TaskQuiet
      BY ZenonT(60), <1>0, <2>2, <3>1, QuietTask
    <3> QED
      BY <3>3, <3>4
  <2>3. CASE MoveCursor(c)
    BY <2>1, <2>3 DEF MoveCursor
  <2>4. CASE AcquireLock(c)
    <3>1. task[c].op = "acquire"
      BY ZenonT(60), <2>4 DEF AcquireLock, Holds
    <3> QED
      BY SMTT(60), <2>2, <2>4, <3>1, AcquireLockSpreads
  <2>5. CASE ReleaseLock(c)
    <3>1. task[c].op = "release" /\ NotJoined \in Broadcast /\ NotJoined.kind = "error"
      BY <2>5 DEF ReleaseLock, Holds, NotJoined, Broadcast, Frame
    <3> QED
      BY SMTT(60), <2>1, <2>2, <2>5, <3>1, ReleaseLockSpreads
  <2> QED
    BY <2>3, <2>4, <2>5
<1>3. Sorts'
  BY <1>0, <1>1, <1>2, TameSorts DEF Sorts, Types
<1> QED
  BY SMTT(60), <1>0, <1>1, <1>2, <1>3 DEF Tame

LEMMA ReleaseSessionTame ==
  ASSUME Sorts, NEW c \in Conn, ReleaseSession(c)
  PROVE  Sorts' /\ Tame
<1> DEFINE s == [task[c] EXCEPT !.pc = "closed"]
<1>1. c \in Task /\ task[c] \in TaskState /\ task[c].pc = "releasing" /\ task' = [task EXCEPT ![c] = s]
  BY DEF Task, ReleaseSession, Sorts, Types
<1>2. s \in TaskState /\ s.pc = "closed" /\ s.user = task[c].user
  BY <1>1 DEF TaskState
<1> HIDE DEF s
<1>3. task' \in [Task -> TaskState] /\ TasksPlaced' /\ TaskQuiet
  BY <1>1, <1>2, RestingTask
<1>4. sessions' \in [User -> 0..MaxSessions]
  <2>1. UserOf[c] \in User /\ sessions[UserOf[c]] \in 0..MaxSessions /\ MaxSessions \in Nat
    BY UserOfAssumption, LimitsAssumption DEF Sorts, Types
  <2>2. (IF sessions[UserOf[c]] > 0 THEN sessions[UserOf[c]] - 1 ELSE 0) \in 0..MaxSessions
    BY <2>1
  <2> QED
    BY <2>1, <2>2 DEF ReleaseSession, Sorts, Types
<1>5. UNCHANGED <<registry, created, room, victims, feed, view>>
  BY DEF ReleaseSession
<1>6. Sorts'
  BY <1>3, <1>4, <1>5, TameSorts DEF Sorts, Types
<1> QED
  BY <1>3, <1>5, <1>6 DEF Tame

LEMMA ReaperTame ==
  ASSUME Sorts, LocksHeldByMembers, ReaperStep
  PROVE  Sorts' /\ Tame
<1>0. Reaper \in Task /\ Reaper \notin Conn
  BY TasksAreDistinct DEF Task
<1>1. CASE SweepIdle
  <2>1. TaskQuiet
    BY <1>1 DEF SweepIdle, TaskQuiet, Pending
  <2>2. victims' \subseteq User
    <3>1. registry \in 1..MaxRooms
      BY <1>1 DEF SweepIdle, Sorts, Types
    <3> QED
      BY <1>1, <3>1, RoomShape DEF SweepIdle, Sorts
  <2> QED
    BY <1>1, <2>1, <2>2 DEF SweepIdle, Tame, Sorts, Types, QueuesBounded, TasksPlaced
<1>2. ASSUME NEW u \in User, ReapNext(u) PROVE Sorts' /\ Tame
  <2>1. victims' \subseteq User /\ task[Reaper].pc = "ready"
    BY <1>2 DEF ReapNext, Sorts, Types
  <2>2. CASE Borrow(Reaper, "leave", u, None, FALSE)
    <3>1. registry' \in 0..MaxRooms /\ created' \in 0..MaxRooms /\ task' \in [Task -> TaskState] /\ TasksPlaced'
      BY <1>0, <2>2, BorrowKeeps DEF Sorts, Operations
    <3>2. TaskQuiet /\ UNCHANGED <<room, feed, view>>
      BY <1>0, <2>1, <2>2, QuietBorrow
    <3> QED
      BY <2>1, <2>2, <3>1, <3>2 DEF Borrow, Tame, Sorts, Types, QueuesBounded
  <2>3. CASE UNCHANGED <<registry, created, room, sessions, task, feed, view>>
    <3>1. TaskQuiet
      BY <2>3 DEF TaskQuiet, Pending
    <3> QED
      BY <2>1, <2>3, <3>1 DEF Tame, Sorts, Types, QueuesBounded, TasksPlaced
  <2> QED
    BY <1>2, <2>2, <2>3 DEF ReapNext
<1> QED
  BY <1>1, <1>2, LeaveTame, CollectRoomTame DEF ReaperStep

LEMMA AuthorTame ==
  ASSUME Sorts, LocksHeldByMembers, AuthorStep
  PROVE  Sorts' /\ Tame
<1>0. Author \in Task /\ Author \notin Conn /\ Author # Reaper
  BY TasksAreDistinct DEF Task
<1>1. CASE AuthorSaves
  <2>1. Borrow(Author, "update", None, None, FALSE) /\ task[Author].pc = "ready" /\ victims' = victims
    BY <1>1 DEF AuthorSaves
  <2>2. registry' \in 0..MaxRooms /\ created' \in 0..MaxRooms /\ task' \in [Task -> TaskState] /\ TasksPlaced'
    BY <1>0, <2>1, BorrowKeeps DEF Sorts, Operations
  <2>3. TaskQuiet /\ UNCHANGED <<room, feed, view>>
    BY <1>0, <2>1, QuietBorrow
  <2> QED
    BY <2>1, <2>2, <2>3 DEF Borrow, Tame, Sorts, Types, QueuesBounded
<1>2. CASE BroadcastEntityUpdated
  <2>1. Spreads
    BY <1>2, BroadcastSpreads
  <2>2. task' \in [Task -> TaskState] /\ TasksPlaced' /\ TaskQuiet
    BY <1>0, <1>2, FinishedRests DEF BroadcastEntityUpdated, Holds
  <2>3. UNCHANGED <<registry, created, sessions, victims, view>>
    BY <1>2 DEF BroadcastEntityUpdated
  <2>4. Sorts'
    BY <2>1, <2>2, <2>3, TameSorts DEF Sorts, Types
  <2> QED
    BY <2>1, <2>2, <2>3, <2>4 DEF Tame
<1> QED
  BY <1>1, <1>2 DEF AuthorStep

LEMMA ClockTame ==
  ASSUME Sorts, LocksHeldByMembers, Clock
  PROVE  Sorts' /\ Tame
<1>1. UNCHANGED <<registry, created, sessions, task, victims, feed, view>>
  BY DEF Clock, Expire, GoIdle
<1>2. Spreads
  BY ClockSpreads
<1>3. TaskQuiet /\ TasksPlaced'
  BY <1>1 DEF TaskQuiet, Pending, Sorts, TasksPlaced
<1>4. Sorts'
  BY <1>1, <1>2, <1>3, TameSorts DEF Sorts, Types
<1> QED
  BY <1>1, <1>2, <1>3, <1>4 DEF Tame

-----------------------------------------------------------------------------
(* The four steps that are not tame: a tab is closed, joins, is sent an     *)
(* answer, or is delivered a frame.                                         *)

LEMMA OthersConverge ==
  ASSUME Sorts, Converge, Sorts', NEW c \in Conn, NEW i, NEW F, Announced(i, F),
         \A d \in Conn : d # c => /\ feed'[d] = Published(i, F)[d] \/ (F = <<>> /\ feed'[d] = feed[d])
                               /\ view'[d] = view[d] /\ task'[d] = task[d],
         \A j \in 1..MaxRooms, t \in Topic : Converging(c, j, t)'
  PROVE  Converge'
<1>1. ASSUME NEW d \in Conn, NEW j \in 1..MaxRooms, NEW t \in Topic PROVE Converging(d, j, t)'
  <2>1. CASE d = c
    BY <2>1
  <2>2. CASE d # c
    <3>1. feed'[d] = Published(i, F)[d] \/ (F = <<>> /\ feed'[d] = feed[d])
      BY <2>2
    <3>2. view'[d] = view[d] /\ (Pending(d)' <=> Pending(d)) /\ (Pending(d) => task'[d].reply = task[d].reply)
      BY <2>2 DEF Pending
    <3> QED
      BY <3>1, <3>2, ToldConverges
  <2> QED
    BY <2>1, <2>2
<1> QED
  BY <1>1 DEF Converge

\* The same when the rooms are left alone.
LEMMA OthersStay ==
  ASSUME Sorts, LocksHeldByMembers, Converge, Sorts', NEW c \in Conn, room' = room,
         \A d \in Conn : d # c => feed'[d] = feed[d] /\ view'[d] = view[d] /\ task'[d] = task[d],
         \A j \in 1..MaxRooms, t \in Topic : Converging(c, j, t)'
  PROVE  LocksHeldByMembers' /\ Converge'
<1>1. LocksHeldByMembers'
  BY DEF LocksHeldByMembers
<1>2. CASE 1..MaxRooms = {}
  BY <1>1, <1>2 DEF Converge
<1>3. CASE 1..MaxRooms # {}
  <2>1. PICK i \in 1..MaxRooms : TRUE
    BY <1>3
  <2>2. Announced(i, <<>>)
    BY AnnouncedByNone DEF Sorts, Types
  <2>3. Converge'
    BY <2>2, OthersConverge
  <2> QED
    BY <1>1, <2>3
<1> QED
  BY <1>2, <1>3

LEMMA DisconnectKeeps ==
  ASSUME Sorts, LocksHeldByMembers, Converge, NEW c \in Conn, Disconnect(c)
  PROVE  Sorts' /\ LocksHeldByMembers' /\ Converge'
<1>1. Sorts'
  BY ClientSorts DEF ClientStep
<1>2. /\ room' = room /\ feed'[c] = <<>>
      /\ \A d \in Conn : d # c => feed'[d] = feed[d] /\ view'[d] = view[d] /\ task'[d] = task[d]
  <2>1. \A d \in Conn : d \in Task
    BY DEF Task
  <2> QED
    BY <2>1 DEF Disconnect, Sorts, Types
<1>3. \A j \in 1..MaxRooms, t \in Topic : Converging(c, j, t)'
  BY <1>2 DEF Converging, Tuned
<1> QED
  BY <1>1, <1>2, <1>3, OthersStay

LEMMA JoinKeeps ==
  ASSUME Sorts, LocksHeldByMembers, Converge, NEW c \in Conn, Join(c)
  PROVE  Sorts' /\ LocksHeldByMembers' /\ Converge'
<1>0. /\ c \in Task /\ task[c] \in TaskState /\ Types /\ task[c].pc = "held" /\ task[c].op = "join"
      /\ task[c].arc \in 1..MaxRooms /\ task[c].user \in User /\ task[c].user = UserOf[c]
  BY Working DEF Task, Join, Holds, Sorts, Types
<1>1. PICK i \in 1..MaxRooms, u \in User : i = task[c].arc /\ u = task[c].user
  BY <1>0
<1> DEFINE F == <<Joined(u)>>
           r == [room[i] EXCEPT !.members = @ \cup {u}, !.idle = @ \ {u}]
           m == [kind |-> "presence", users |-> r.members, locks |-> r.locks]
           sub == [room |-> i, queue |-> F, missed |-> FALSE]
           s == [Replying(c, m) EXCEPT !.joined = TRUE]
           N == Len(feed[c])
           P == Published(i, F)[c]
<1>2. Announced(i, F) /\ Joined(u) \in Broadcast
  BY <1>1, JoinAnnounces
<1>3. F \in Seq(Broadcast) /\ Len(F) = 1
  BY <1>2, OneFrame
<1>4. /\ room' = [room EXCEPT ![i] = r]
      /\ feed' = [Published(i, F) EXCEPT ![c] = Append(P, sub)]
      /\ task' = [task EXCEPT ![c] = s]
      /\ UNCHANGED <<registry, created, sessions, victims, view>>
  BY <1>1, Zenon DEF Join
<1>5. room'[i] = r /\ r \in Room
  <2>1. r \in Room
    BY ZenonT(60), <1>0, RoomShape DEF Room, Locks
  <2> QED
    BY <1>0, <1>4, <2>1 DEF Types
<1> HIDE DEF F, r
<1>6. m \in Frame \ Broadcast /\ m.users = room'[i].members /\ m.locks = room'[i].locks
  BY <1>5 DEF Frame, Broadcast, Room
<1> HIDE DEF m
<1>7. /\ s \in TaskState /\ s.pc = "reply" /\ s.op = "join" /\ s.user = UserOf[c] /\ s.reply = m
  <2>1. /\ Replying(c, m) \in TaskState /\ Replying(c, m).pc = "reply"
        /\ Replying(c, m).user = task[c].user /\ Replying(c, m).op = task[c].op
        /\ Replying(c, m).reply = m
    BY <1>0, <1>6, TaskFields DEF Sorts
  <2> QED
    BY <1>0, <2>1 DEF TaskState
<1> HIDE DEF s
<1>8. task' \in [Task -> TaskState] /\ TasksPlaced' /\ task'[c] = s /\ \A d \in Task : d # c => task'[d] = task[d]
  <2>1. Placed(c, s)
    BY <1>6, <1>7, TasksAreDistinct DEF Placed
  <2>2. TaskMoves(c, s)
    BY <1>4, <1>7 DEF TaskMoves
  <2>3. task' \in [Task -> TaskState] /\ TasksPlaced'
    BY <1>0, <2>1, <2>2, TaskMovesKeeps DEF Sorts
  <2> QED
    BY <1>0, <1>4, <2>3 DEF Types
<1>9. sub \in Subscription /\ sub.room = i /\ sub.queue = F /\ Len(sub.queue) <= Buffer
  <2>1. Len(F) <= Buffer
    BY <1>3, LimitsAssumption
  <2>2. sub.room = i /\ sub.queue = F /\ sub \in Subscription
    BY <1>3 DEF Subscription
  <2> QED
    BY <2>1, <2>2
<1> HIDE DEF sub
<1>10. /\ P \in Seq(Subscription) /\ Len(P) = N /\ N \in Nat
       /\ \A k \in 1..N : Len(P[k].queue) <= Buffer
  BY SMTT(60), <1>3, PublishedFields, LenProperties DEF Sorts
<1>11. /\ feed'[c] = Append(P, sub)
       /\ \A d \in Conn : d # c => feed'[d] = Published(i, F)[d]
       /\ DOMAIN feed' = Conn /\ feed' = [d \in Conn |-> feed'[d]]
  BY <1>4 DEF Published
<1> HIDE DEF P, N
<1>12. /\ feed'[c] \in Seq(Subscription) /\ Len(feed'[c]) = N + 1 /\ DOMAIN feed'[c] = 1..(N + 1)
       /\ \A k \in 1..N : feed'[c][k] = P[k]
       /\ feed'[c][N + 1] = sub
  BY <1>9, <1>10, <1>11, AppendProperties
<1>13. feed' \in [Conn -> Seq(Subscription)] /\ QueuesBounded'
  <2>1. ASSUME NEW d \in Conn
        PROVE  feed'[d] \in Seq(Subscription) /\ \A k \in DOMAIN feed'[d] : Len(feed'[d][k].queue) <= Buffer
    <3>1. CASE d = c
      <4>1. \A k \in 1..(N + 1) : k \in 1..N \/ k = N + 1
        BY <1>10
      <4> QED
        BY <1>9, <1>10, <1>12, <3>1, <4>1
    <3>2. CASE d # c
      <4>1. /\ feed'[d] \in Seq(Subscription) /\ Len(feed'[d]) = Len(feed[d])
            /\ \A k \in 1..Len(feed[d]) : Len(feed'[d][k].queue) <= Buffer
        BY <1>3, <1>11, <3>2, PublishedFields DEF Sorts
      <4>2. DOMAIN feed'[d] = 1..Len(feed[d])
        BY <4>1
      <4> QED
        BY <4>1, <4>2
    <3> QED
      BY <3>1, <3>2
  <2>2. \A d \in Conn : feed'[d] \in Seq(Subscription)
    BY <2>1
  <2>3. feed' \in [Conn -> Seq(Subscription)]
    BY <1>11, <2>2, Zenon
  <2> QED
    BY <2>1, <2>3 DEF QueuesBounded
<1>14. Sorts'
  BY <1>2, <1>4, <1>8, <1>13 DEF Announced, Sorts, Types
<1>15. ASSUME NEW j \in 1..MaxRooms, NEW t \in Topic, Tuned(c, j)'
       PROVE  /\ \A k \in DOMAIN feed'[c] : LastSays(feed'[c][k].queue, t, Truth(room'[j], t))
              /\ Shown(task'[c].reply, t) = Truth(room'[j], t)
  <2>1. j = i
    BY <1>9, <1>10, <1>12, <1>15 DEF Tuned
  <2>2. LastSays(sub.queue, t, Truth(room'[j], t))
    BY <1>2, <1>9, <2>1 DEF Announced, LastSays
  <2>3. ASSUME NEW k \in 1..N
        PROVE  LastSays(P[k].queue, t, Truth(room'[j], t))
    <3>1. feed[c] # <<>>
      BY <2>3 DEF N
    <3>2. \A l \in 1..N : P[l].room = j /\ ~P[l].missed
      <4>1. \A l \in 1..N : l \in 1..(N + 1)
        BY <1>10
      <4> QED
        BY <1>12, <1>15, <4>1 DEF Tuned
    <3>3. P = Published(i, F)[c]
      BY DEF P
    <3> QED
      BY <1>2, <2>3, <3>1, <3>2, <3>3, QueuesTold DEF N
  <2>4. \A k \in 1..(N + 1) : k \in 1..N \/ k = N + 1
    BY <1>10
  <2>5. Shown(task'[c].reply, t) = Truth(room'[j], t)
    BY <1>6, <1>7, <1>8, <2>1 DEF Shown, Truth
  <2> QED
    BY <1>12, <2>2, <2>3, <2>4, <2>5
<1>16. \A j \in 1..MaxRooms, t \in Topic : Converging(c, j, t)'
  <2>1. Pending(c)'
    BY <1>7, <1>8 DEF Pending
  <2> QED
    BY <1>15, <2>1 DEF Converging
<1>17. LocksHeldByMembers'
  BY <1>2 DEF Announced, LocksHeldByMembers
<1>18. Converge'
  <2>1. \A d \in Conn : d \in Task
    BY DEF Task
  <2> QED
    BY <1>2, <1>4, <1>8, <1>11, <1>14, <1>16, <2>1, OthersConverge
<1> QED
  BY <1>14, <1>17, <1>18

LEMMA SendReplyKeeps ==
  ASSUME Sorts, LocksHeldByMembers, Converge, NEW c \in Conn, SendReply(c)
  PROVE  Sorts' /\ LocksHeldByMembers' /\ Converge'
<1> DEFINE m == task[c].reply
<1>0. /\ c \in Task /\ task[c] \in TaskState /\ task[c].pc = "reply" /\ view[c] \in View
      /\ UNCHANGED <<registry, created, room, sessions, victims, feed>>
      /\ task' = [task EXCEPT ![c] = Finished(c)] /\ view' = [view EXCEPT ![c] = Apply(view[c], m)]
  BY DEF Task, SendReply, Sorts, Types
<1>1. IF task[c].op = "join" THEN m \in Frame \ Broadcast
      ELSE /\ m \in Broadcast /\ m.kind \in {"lock_granted", "lock_denied", "error"}
           /\ m.kind = "lock_granted" => m.user = UserOf[c]
  BY <1>0 DEF Sorts, TasksPlaced
<1> HIDE DEF m
<1>2. m \in Frame /\ (m \notin Broadcast => m.kind = "presence")
  BY <1>1 DEF Broadcast
<1>3. task' \in [Task -> TaskState] /\ TasksPlaced' /\ task'[c].pc # "reply"
      /\ \A d \in Task : d # c => task'[d] = task[d]
  <2>1. /\ Finished(c) \in TaskState /\ Finished(c).user = task[c].user
        /\ Finished(c).pc \notin {"held", "reply"}
    BY <1>0, TaskFields DEF Sorts
  <2>2. Placed(c, Finished(c))
    BY <2>1 DEF Placed, Sorts, TasksPlaced
  <2>3. task' \in [Task -> TaskState] /\ TasksPlaced'
    BY <1>0, <2>1, <2>2, TaskMovesKeeps DEF TaskMoves, Sorts
  <2> QED
    BY <1>0, <2>1, <2>3 DEF Sorts, Types
<1>4. Apply(view[c], m) \in View
  BY <1>0, <1>2, ApplyType
<1>5. Sorts'
  BY <1>0, <1>3, <1>4 DEF Sorts, Types, QueuesBounded
<1>6. ASSUME NEW j \in 1..MaxRooms, NEW t \in Topic PROVE Converging(c, j, t)'
  <2>1. SUFFICES ASSUME Tuned(c, j)
                 PROVE  /\ \A k \in DOMAIN feed[c] : LastSays(feed[c][k].queue, t, Truth(room[j], t))
                        /\ (\A k \in DOMAIN feed[c] : Silent(feed[c][k].queue, t)) =>
                             \/ Shown(Apply(view[c], m), t) = Truth(room[j], t)
                             \/ t.about = "lock" /\ Shown(Apply(view[c], m), t) = UserOf[c]
    BY <1>0, <1>3 DEF Converging, Tuned, Pending, Sorts, Types
  <2>2. Converging(c, j, t)
    BY DEF Converge
  <2>3. Len(feed[c]) \in DOMAIN feed[c]
    <3>1. feed[c] \in Seq(Subscription) /\ feed[c] # <<>>
      BY <2>1 DEF Tuned, Sorts, Types
    <3> QED
      BY <3>1, EmptySeq
  <2>4. SUFFICES ASSUME \A k \in DOMAIN feed[c] : Silent(feed[c][k].queue, t)
                 PROVE  \/ Shown(Apply(view[c], m), t) = Truth(room[j], t)
                        \/ t.about = "lock" /\ Shown(Apply(view[c], m), t) = UserOf[c]
    BY <2>1, <2>2 DEF Converging
  <2>5. CASE task[c].op = "join"
    <3>1. Shown(m, t) = Truth(room[j], t)
      BY <1>0, <2>1, <2>2, <2>3, <2>4, <2>5 DEF Converging, Pending, m
    <3>2. m.kind = "presence"
      BY <1>1, <1>2, <2>5
    <3> QED
      BY <1>0, <1>2, <3>1, <3>2, ApplyShown
  <2>6. CASE task[c].op # "join"
    <3>1. \/ Shown(view[c], t) = Truth(room[j], t)
          \/ t.about = "lock" /\ Shown(view[c], t) = UserOf[c]
      BY <2>1, <2>2, <2>4, <2>6 DEF Converging, Pending
    <3>2. CASE About(m, t)
      <4>1. t.about = "lock" /\ m.kind = "lock_granted" /\ Says(m, t) = UserOf[c]
        BY <1>1, <2>6, <3>2, TopicCases DEF About, Says
      <4> QED
        BY <1>0, <1>2, <3>2, <4>1, ApplyShown
    <3>3. CASE ~About(m, t)
      <4>1. m.kind # "presence"
        BY <1>1, <2>6
      <4> QED
        BY <1>0, <1>2, <3>1, <3>3, <4>1, ApplyShown
    <3> QED
      BY <3>2, <3>3
  <2> QED
    BY <2>5, <2>6
<1>7. \A d \in Conn : d # c => feed'[d] = feed[d] /\ view'[d] = view[d] /\ task'[d] = task[d]
  <2>1. \A d \in Conn : d \in Task
    BY DEF Task
  <2> QED
    BY <1>0, <1>3, <2>1 DEF Sorts, Types
<1> QED
  BY <1>0, <1>5, <1>6, <1>7, OthersStay

LEMMA DeliverKeeps ==
  ASSUME Sorts, LocksHeldByMembers, Converge, NEW c \in Conn, NEW k \in DOMAIN feed[c], Deliver(c, k)
  PROVE  Sorts' /\ LocksHeldByMembers' /\ Converge'
<1> DEFINE q == feed[c][k].queue
           sub == [feed[c][k] EXCEPT !.queue = Tail(q)]
<1>0. /\ feed[c] \in Seq(Subscription) /\ DOMAIN feed[c] = 1..Len(feed[c]) /\ Len(feed[c]) \in Nat
      /\ view[c] \in View /\ q # <<>> /\ Started(c, k)
      /\ UNCHANGED <<registry, created, room, sessions, task, victims>>
      /\ view' = [view EXCEPT ![c] = Apply(view[c], Head(q))]
      /\ feed' = [feed EXCEPT ![c] = [feed[c] EXCEPT ![k] = sub]]
  BY LenProperties DEF Deliver, Sorts, Types
<1>1. feed[c][k] \in Subscription /\ q \in Seq(Broadcast)
  <2>1. feed[c][k] \in Subscription
    BY <1>0, ElementOfSeq
  <2> QED
    BY <2>1 DEF Subscription
<1>2. Head(q) \in Broadcast /\ Tail(q) \in Seq(Broadcast) /\ Len(Tail(q)) <= Buffer
  <2>1. /\ Head(q) \in Broadcast /\ Tail(q) \in Seq(Broadcast) /\ Len(Tail(q)) = Len(q) - 1
        /\ Len(q) \in Nat
    BY <1>0, <1>1, HeadTailProperties, LenProperties
  <2>2. Len(q) <= Buffer /\ Buffer \in Nat
    BY LimitsAssumption DEF Sorts, QueuesBounded
  <2> HIDE DEF q
  <2> QED
    BY <2>1, <2>2
<1>3. sub \in Subscription /\ sub.room = feed[c][k].room /\ sub.missed = feed[c][k].missed /\ sub.queue = Tail(q)
  <2>1. Tail(q) \in Seq(Broadcast) /\ feed[c][k] \in Subscription
    BY <1>1, <1>2
  <2> HIDE DEF q
  <2> QED
    BY <2>1 DEF Subscription
<1> HIDE DEF sub
<1>4. /\ feed'[c] \in Seq(Subscription) /\ Len(feed'[c]) = Len(feed[c]) /\ DOMAIN feed'[c] = DOMAIN feed[c]
      /\ feed'[c][k] = sub
      /\ \A l \in DOMAIN feed[c] : l # k => feed'[c][l] = feed[c][l]
      /\ \A d \in Conn : d # c => feed'[d] = feed[d] /\ view'[d] = view[d]
      /\ view'[c] = Apply(view[c], Head(q))
  <2>1. [feed[c] EXCEPT ![k] = sub] \in Seq(Subscription)
    BY <1>0, <1>3, ExceptSeq
  <2>2. feed'[c] = [feed[c] EXCEPT ![k] = sub]
    BY <1>0 DEF Sorts, Types
  <2>3. /\ DOMAIN feed'[c] = DOMAIN feed[c] /\ feed'[c][k] = sub
        /\ \A l \in DOMAIN feed[c] : l # k => feed'[c][l] = feed[c][l]
    BY <2>2
  <2>4. Len(feed'[c]) = Len(feed[c])
    BY <1>0, <2>1, <2>2, <2>3
  <2>5. /\ \A d \in Conn : d # c => feed'[d] = feed[d] /\ view'[d] = view[d]
        /\ view'[c] = Apply(view[c], Head(q))
    BY <1>0 DEF Sorts, Types
  <2> QED
    BY <2>1, <2>2, <2>3, <2>4, <2>5
<1>5. Sorts'
  <2>1. Head(q) \in Frame
    BY <1>2 DEF Broadcast
  <2>2. Apply(view[c], Head(q)) \in View
    BY <1>0, <2>1, ApplyType
  <2>3. view' \in [Conn -> View]
    BY <1>0, <2>2 DEF Sorts, Types
  <2>4. feed' \in [Conn -> Seq(Subscription)]
    BY <1>0, <1>4 DEF Sorts, Types
  <2>5. QueuesBounded'
    <3>1. ASSUME NEW d \in Conn, NEW l \in DOMAIN feed'[d] PROVE Len(feed'[d][l].queue) <= Buffer
      BY <1>2, <1>3, <1>4, <3>1 DEF Sorts, QueuesBounded
    <3> QED
      BY <3>1 DEF QueuesBounded
  <2>6. TasksPlaced'
    BY <1>0 DEF Sorts, TasksPlaced
  <2> QED
    BY <1>0, <2>3, <2>4, <2>5, <2>6 DEF Sorts, Types
<1>6. ASSUME NEW j \in 1..MaxRooms, NEW t \in Topic, Tuned(c, j)' PROVE Converging(c, j, t)'
  <2> DEFINE x == Truth(room[j], t)
  <2>1. Tuned(c, j)
    <3>1. \A l \in DOMAIN feed[c] : feed[c][l].room = feed'[c][l].room /\ feed[c][l].missed = feed'[c][l].missed
      BY <1>3, <1>4
    <3>2. feed[c] # <<>>
      BY <1>0
    <3> QED
      BY <1>4, <1>6, <3>1, <3>2 DEF Tuned
  <2>2. Converging(c, j, t)
    BY DEF Converge
  <2>3. PICK p \in Seq(Broadcast) : p = q
    BY <1>1
  <2> HIDE DEF q, x
  <2>4. /\ LastSays(Tail(p), t, x)
        /\ Silent(Tail(p), t) /\ ~About(Head(p), t) => Silent(p, t)
        /\ Silent(Tail(p), t) /\ About(Head(p), t) => Says(Head(p), t) = x
    <3>1. LastSays(p, t, x) /\ p # <<>>
      BY <1>0, <2>1, <2>2, <2>3 DEF Converging, q, x
    <3> QED
      BY <3>1, QueueShrinks
  <2>5. \A l \in DOMAIN feed'[c] : LastSays(feed'[c][l].queue, t, x)
    BY <1>3, <1>4, <2>1, <2>2, <2>3, <2>4 DEF Converging, x
  <2>6. CASE Pending(c)
    <3>1. k # Len(feed[c])
      BY <1>0, <2>6 DEF Pending, Started
    <3>2. Len(feed[c]) \in DOMAIN feed[c]
      BY <1>0
    <3>3. feed'[c][Len(feed'[c])] = feed[c][Len(feed[c])]
      BY <1>4, <3>1, <3>2
    <3>4. Silent(feed[c][Len(feed[c])].queue, t) => Shown(task[c].reply, t) = x
      BY <2>1, <2>2, <2>6 DEF Converging, x
    <3> QED
      BY <1>0, <2>5, <2>6, <3>3, <3>4 DEF Converging, Pending, x
  <2>7. CASE ~Pending(c)
    <3>1. ASSUME \A l \in DOMAIN feed'[c] : Silent(feed'[c][l].queue, t)
          PROVE  \/ Shown(view'[c], t) = x
                 \/ t.about = "lock" /\ Shown(view'[c], t) = UserOf[c]
      <4>1. Silent(Tail(p), t)
        BY <1>3, <1>4, <2>3, <3>1
      <4>2. Head(p) \in Frame /\ Head(p).kind # "presence"
        BY <1>2, <2>3 DEF Broadcast
      <4>3. CASE About(Head(p), t)
        <5>1. Shown(view'[c], t) = Says(Head(p), t)
          BY <1>0, <1>4, <2>3, <4>2, <4>3, ApplyShown
        <5> QED
          BY <2>4, <4>1, <4>3, <5>1
      <4>4. CASE ~About(Head(p), t)
        <5>1. Shown(view'[c], t) = Shown(view[c], t)
          BY <1>0, <1>4, <2>3, <4>2, <4>4, ApplyShown
        <5>2. \A l \in DOMAIN feed[c] : Silent(feed[c][l].queue, t)
          BY <1>4, <2>3, <2>4, <3>1, <4>1, <4>4 DEF q
        <5>3. \/ Shown(view[c], t) = x
              \/ t.about = "lock" /\ Shown(view[c], t) = UserOf[c]
          BY <2>1, <2>2, <2>7, <5>2 DEF Converging, x
        <5> QED
          BY <5>1, <5>3
      <4> QED
        BY <4>3, <4>4
    <3> QED
      BY <1>0, <2>5, <2>7, <3>1 DEF Converging, Pending, x
  <2> QED
    BY <2>6, <2>7
<1>7. \A j \in 1..MaxRooms, t \in Topic : Converging(c, j, t)'
  BY <1>6 DEF Converging
<1> QED
  BY <1>0, <1>4, <1>5, <1>7, OthersStay

-----------------------------------------------------------------------------
LEMMA InvInit == Init => IInv
<1> SUFFICES ASSUME Init PROVE IInv
  OBVIOUS
<1>1. LocksHeldByMembers
  BY DEF Init, LocksHeldByMembers, EmptyRoom, NoLocks
<1>2. Converge
  BY DEF Init, Converge, Converging, Tuned
<1> QED
  BY <1>1, <1>2, SortsInit DEF IInv

LEMMA InvStep == IInv /\ [Next]_vars => IInv'
<1> SUFFICES ASSUME IInv, [Next]_vars PROVE IInv'
  OBVIOUS
<1>0. Sorts /\ LocksHeldByMembers /\ Converge
  BY DEF IInv
<1>1. ASSUME NEW c \in Conn, ClientStep(c) PROVE IInv'
  <2>1. CASE Disconnect(c)
    BY <1>0, <2>1, DisconnectKeeps DEF IInv
  <2>2. CASE ~Disconnect(c)
    BY <1>0, <1>1, <2>2, ClientSorts, ClientTame, TameKeeps DEF IInv
  <2> QED
    BY <2>1, <2>2
<1>2. ASSUME NEW c \in Conn, ServerStep(c) PROVE IInv'
  <2>1. CASE Join(c)
    BY <1>0, <2>1, JoinKeeps DEF IInv
  <2>2. CASE SendReply(c)
    BY <1>0, <2>2, SendReplyKeeps DEF IInv
  <2>3. CASE \E k \in DOMAIN feed[c] : Deliver(c, k)
    BY <1>0, <2>3, DeliverKeeps DEF IInv
  <2>4. CASE Leave(c) \/ CollectRoom(c) \/ ReleaseSession(c)
    BY <1>0, <2>4, LeaveTame, CollectRoomTame, ReleaseSessionTame, TameKeeps DEF IInv
  <2>5. CASE MoveCursor(c) \/ AcquireLock(c) \/ ReleaseLock(c)
    BY <1>0, <2>5, RoomOpsTame, TameKeeps DEF IInv
  <2> QED
    BY <1>2, <2>1, <2>2, <2>3, <2>4, <2>5 DEF ServerStep
<1>3. CASE ReaperStep
  BY <1>0, <1>3, ReaperTame, TameKeeps DEF IInv
<1>4. CASE AuthorStep
  BY <1>0, <1>4, AuthorTame, TameKeeps DEF IInv
<1>5. CASE Clock
  BY <1>0, <1>5, ClockTame, TameKeeps DEF IInv
<1>6. CASE UNCHANGED vars
  <2>1. Sorts'
    BY <1>0, <1>6 DEF vars, Sorts, Types, QueuesBounded, TasksPlaced
  <2>2. Tame
    BY <1>6 DEF vars, Tame, TaskQuiet, Pending
  <2> QED
    BY <1>0, <2>1, <2>2, TameKeeps DEF IInv
<1> QED
  BY <1>1, <1>2, <1>3, <1>4, <1>5, <1>6 DEF Next

LEMMA InvAlways == Spec => []IInv
BY InvInit, InvStep, PTL DEF Spec

\* Every reachable state has values of the declared shapes, and no subscription
\* ever holds more frames than HubLimits.broadcast_buffer (collaboration.rs).
THEOREM TypeCorrect == Spec => []TypeOK
<1>1. IInv => TypeOK
  <2> SUFFICES ASSUME IInv PROVE TypeOK
    OBVIOUS
  <2>1. Types /\ QueuesBounded
    BY DEF IInv, Sorts
  <2>2. ASSUME NEW c \in Conn, NEW k \in DOMAIN feed[c]
        PROVE  /\ feed[c][k] \in [room : 1..MaxRooms, queue : Seq(Frame), missed : BOOLEAN]
               /\ Len(feed[c][k].queue) <= Buffer
    <3>1. feed[c] \in Seq(Subscription) /\ DOMAIN feed[c] = 1..Len(feed[c])
      BY <2>1 DEF Types
    <3>2. feed[c][k] \in Subscription
      BY <3>1, ElementOfSeq
    <3>3. feed[c][k].queue \in Seq(Frame)
      <4>1. feed[c][k].queue \in Seq(Broadcast) /\ Broadcast \subseteq Frame
        BY <3>2 DEF Subscription, Broadcast
      <4> QED
        BY <4>1, SeqMonotonic
    <3> QED
      BY <2>1, <3>2, <3>3 DEF Subscription, QueuesBounded
  <2> QED
    BY <2>1, <2>2 DEF Types, TypeOK
<1> QED
  BY <1>1, InvAlways, PTL

\* No lock survives its holder: leave, a disconnect or the idle reaper takes the
\* locks with the member, and acquire_lock gives them to members only.
THEOREM LocksStayWithMembers == Spec => []LocksHeldByMembers
<1>1. IInv => LocksHeldByMembers
  BY DEF IInv
<1> QED
  BY <1>1, InvAlways, PTL

\* A tab that has been delivered everything shows the room as it is, except that
\* it may believe it holds a lock itself: snapshots, broadcasts and answers reach
\* the reducer (applyServerMessage) on separate paths and still agree at the end.
THEOREM TabsConverge == Spec => []ViewConverges
<1>1. IInv => ViewConverges
  <2> SUFFICES ASSUME IInv, NEW c \in Conn, NEW i \in 1..MaxRooms, CaughtUp(c, i)
               PROVE  /\ view[c].users = room[i].members
                      /\ \A e \in Entity : view[c].locks[e] \in {room[i].locks[e], UserOf[c]}
    BY DEF ViewConverges
  <2>1. Types /\ Converge
    BY DEF IInv, Sorts
  <2>2. Tuned(c, i) /\ ~Pending(c)
    BY DEF CaughtUp, Tuned, Pending
  <2>3. ASSUME NEW t \in Topic
        PROVE  \/ Shown(view[c], t) = Truth(room[i], t)
               \/ t.about = "lock" /\ Shown(view[c], t) = UserOf[c]
    <3>1. Converging(c, i, t)
      BY <2>1 DEF Converge
    <3>2. \A k \in DOMAIN feed[c] : Silent(feed[c][k].queue, t)
      BY NoFrame DEF CaughtUp
    <3> QED
      BY <2>2, <3>1, <3>2 DEF Converging
  <2>4. ASSUME NEW u \in User PROVE u \in view[c].users <=> u \in room[i].members
    <3> DEFINE t == [about |-> "user", id |-> u]
    <3>1. t \in Topic /\ t.about = "user" /\ t.id = u
      BY DEF Topic
    <3> HIDE DEF t
    <3>2. {u} \cap view[c].users = {u} \cap room[i].members
      BY <2>3, <3>1 DEF Shown, Truth
    <3> QED
      BY <3>2
  <2>5. ASSUME NEW e \in Entity PROVE view[c].locks[e] \in {room[i].locks[e], UserOf[c]}
    <3> DEFINE t == [about |-> "lock", id |-> e]
    <3>1. t \in Topic /\ t.about = "lock" /\ t.id = e
      BY DEF Topic
    <3> HIDE DEF t
    <3> QED
      BY <2>3, <3>1 DEF Shown, Truth
  <2>6. view[c].users \subseteq User /\ room[i].members \subseteq User
    BY <2>1, RoomShape DEF Types, View
  <2> QED
    BY <2>4, <2>5, <2>6
<1> QED
  BY <1>1, InvAlways, PTL
============================================================================
