----------------------- MODULE AdapterResolverProofs -----------------------
(***************************************************************************)
(* The resolver's mirror of the store, for any number of requests,         *)
(* sources and threads.                                                    *)
(***************************************************************************)
EXTENDS AdapterResolver, FiniteSetTheorems, TLAPS

SlotState == [warm : BOOLEAN, hydrator : Request \cup {None}, writer : Request \cup {None},
              adapters : [Source -> Config \cup {None}], skipped : SUBSET Source]

\* Where a request stands, by what it does and what it has.
Idles     == [pc : {"idle"}, op : {None}, source : {None}, slot : {0}]
Registers == [pc : {"slot"}, op : {"register"}, source : Source, slot : {0}]
             \cup [pc : {"hydrate", "fill", "lock", "upsert", "register"}, op : {"register"},
                   source : Source, slot : Slot]
Reads     == [pc : {"slot"}, op : {"query", "refresh"}, source : {None}, slot : {0}]
             \cup [pc : {"drop"}, op : {"refresh"}, source : {None}, slot : {0}]
             \cup [pc : {"hydrate", "fill", "clone"}, op : {"query", "refresh"},
                   source : {None}, slot : Slot]
Deletes   == [pc : {"erase", "peek"}, op : {"delete"}, source : Source, slot : {0}]
             \cup [pc : {"use"}, op : {"delete"}, source : Source, slot : Slot]
Healths   == [pc : {"peek"}, op : {"health"}, source : {None}, slot : {0}]
             \cup [pc : {"use"}, op : {"health"}, source : {None}, slot : Slot]
ReqState == Idles \cup Registers \cup Reads \cup Deletes \cup Healths

Types == /\ store \in [Source -> Config \cup {None}]
         /\ entry \in Slot \cup {0}
         /\ slots \in [Slot -> SlotState]
         /\ req \in [Request -> ReqState]
         /\ raced \in BOOLEAN

\* A slot without an Arc in the map or in a request has been given up.
FreeSlotsAreCold ==
    \A i \in Slot : i # entry /\ (\A p \in Request : req[p].slot # i) => slots[i] = Cold

\* Who writes holds the slot's write lock.
WritersLock ==
    \A p \in Request : req[p].pc \in {"upsert", "register"} => slots[req[p].slot].writer = p

\* Who hydrates is the slot's one initialiser.
FillersHydrate ==
    \A p \in Request : req[p].pc = "fill" => slots[req[p].slot].hydrator = p

\* Unless something raced, what could race is not there together.
KeptApart ==
    ~raced => /\ ~(Active("refresh") /\ (Active("register") \/ Active("delete")))
              /\ ~(Active("delete") /\ (Active("register") \/ Hydrating))

\* ... writers are at the slot of the map, and their row is written.
WritersAtEntry ==
    ~raced => \A p \in Request :
                 req[p].op \in {"register", "delete"} => req[p].slot \in {0, entry}

RowsWritten ==
    ~raced => \A p \in Request :
                 /\ req[p].pc = "register" => store[req[p].source] = Brings[p]
                 /\ req[p].op = "delete" /\ req[p].pc \in {"peek", "use"}
                        => store[req[p].source] = None

Writing(s) == \E p \in Request : /\ req[p].source = s
                                 /\ req[p].pc = "register" \/ req[p].op = "delete"

\* ... and the mirror holds from the hydration on, but for rows whose change
\* is under way.
Mirrors ==
    ~raced /\ entry # 0 /\ (slots[entry].warm \/ slots[entry].hydrator # None) =>
        \A s \in Source :
            \/ Writing(s)
            \/ s \in slots[entry].skipped
            \/ slots[entry].adapters[s] = store[s]

IInv == /\ Types /\ FreeSlotsAreCold /\ WritersLock /\ FillersHydrate
        /\ KeptApart /\ WritersAtEntry /\ RowsWritten /\ Mirrors
-----------------------------------------------------------------------------
LEMMA SlotsAreNaturals == 0 \notin Slot /\ IsFiniteSet(Slot)
                          /\ Cardinality(Slot) = Cardinality(Request) + 1
<1>1. Cardinality(Request) \in Nat
  BY RequestsAreFinite, FS_CardinalityType
<1> QED
  BY <1>1, FS_Interval DEF Slot

\* There are more slots than requests, so that one is always free.
LEMMA SomeSlotIsFree ==
  ASSUME Types
  PROVE  \E j \in Slot : \A q \in Request : req[q].slot # j
<1> DEFINE used == {req[q].slot : q \in Request}
           f == [q \in Request |-> req[q].slot]
<1>1. f \in Surjection(Request, used)
  BY DEF Surjection
<1>2. IsFiniteSet(used) /\ Cardinality(used) <= Cardinality(Request)
  BY <1>1, RequestsAreFinite, FS_Surjection
<1>3. ASSUME Slot \subseteq used PROVE FALSE
  <2>1. Cardinality(Slot) <= Cardinality(used)
    BY <1>2, <1>3, FS_Subset
  <2>2. Cardinality(Request) \in Nat /\ Cardinality(used) \in Nat
    BY <1>2, RequestsAreFinite, FS_CardinalityType
  <2> QED
    BY <1>2, <2>1, <2>2, SlotsAreNaturals
<1> QED
  BY <1>3

LEMMA Shape ==
  ASSUME NEW r \in ReqState
  PROVE  /\ r = [pc |-> r.pc, op |-> r.op, source |-> r.source, slot |-> r.slot]
         /\ r.pc = "idle" <=> r = Idle
         /\ r.op = "register" <=> r \in Registers
         /\ r.op = "delete" <=> r \in Deletes
         /\ r.op = "health" <=> r \in Healths
         /\ r.op \in {"query", "refresh"} <=> r \in Reads
         /\ r.slot \in Slot \cup {0}
         /\ r.slot = 0 <=> r.pc \in {"idle", "slot", "drop", "erase", "peek"}
  BY SlotsAreNaturals, NoneIsNothing
     DEF ReqState, Idles, Registers, Reads, Deletes, Healths, Idle, Op

\* Every move of a request leads to a state that is one.
LEMMA Moves ==
  ASSUME NEW r \in ReqState
  PROVE  /\ Idle \in ReqState
         /\ \A i \in Slot : r.pc = "slot" => [r EXCEPT !.pc = "hydrate", !.slot = i] \in ReqState
         /\ r.pc \in {"hydrate", "fill"} =>
               [r EXCEPT !.pc = IF r.op = "register" THEN "lock" ELSE "clone"] \in ReqState
         /\ r.pc = "hydrate" => [r EXCEPT !.pc = "fill"] \in ReqState
         /\ r.pc = "lock" => [r EXCEPT !.pc = "upsert"] \in ReqState
         /\ r.pc = "upsert" => [r EXCEPT !.pc = "register"] \in ReqState
         /\ r.pc = "erase" => [r EXCEPT !.pc = "peek"] \in ReqState
         /\ r.pc = "drop" => [r EXCEPT !.pc = "slot"] \in ReqState
         /\ \A i \in Slot : r.pc = "peek" => [r EXCEPT !.pc = "use", !.slot = i] \in ReqState
<1>1. Idle \in ReqState
  BY DEF ReqState, Idles, Idle
<1>2. \A i \in Slot : r.pc = "slot" => [r EXCEPT !.pc = "hydrate", !.slot = i] \in ReqState
  BY DEF ReqState, Idles, Registers, Reads, Deletes, Healths
<1>3. r.pc \in {"hydrate", "fill"} =>
               [r EXCEPT !.pc = IF r.op = "register" THEN "lock" ELSE "clone"] \in ReqState
  BY DEF ReqState, Idles, Registers, Reads, Deletes, Healths
<1>4. r.pc = "hydrate" => [r EXCEPT !.pc = "fill"] \in ReqState
  BY DEF ReqState, Idles, Registers, Reads, Deletes, Healths
<1>5. r.pc = "lock" => [r EXCEPT !.pc = "upsert"] \in ReqState
  BY DEF ReqState, Idles, Registers, Reads, Deletes, Healths
<1>6. r.pc = "upsert" => [r EXCEPT !.pc = "register"] \in ReqState
  BY DEF ReqState, Idles, Registers, Reads, Deletes, Healths
<1>7. r.pc = "erase" => [r EXCEPT !.pc = "peek"] \in ReqState
  BY DEF ReqState, Idles, Registers, Reads, Deletes, Healths
<1>8. r.pc = "drop" => [r EXCEPT !.pc = "slot"] \in ReqState
  BY DEF ReqState, Idles, Registers, Reads, Deletes, Healths
<1>9. \A i \in Slot : r.pc = "peek" => [r EXCEPT !.pc = "use", !.slot = i] \in ReqState
  BY DEF ReqState, Idles, Registers, Reads, Deletes, Healths
<1> QED
  BY <1>1, <1>2, <1>3, <1>4, <1>5, <1>6, <1>7, <1>8, <1>9

LEMMA StartsInState ==
  ASSUME NEW op \in Op, NEW s \in Source
  PROVE  [pc |-> FirstStep(op), op |-> op, slot |-> 0,
          source |-> IF op \in {"register", "delete"} THEN s ELSE None] \in ReqState
<1>1. /\ op \in {"register", "query"} => FirstStep(op) = "slot"
      /\ op = "refresh" => FirstStep(op) = "drop"
      /\ op = "delete" => FirstStep(op) = "erase"
      /\ op = "health" => FirstStep(op) = "peek"
  BY DEF FirstStep
<1> QED
  BY <1>1 DEF ReqState, Idles, Registers, Reads, Deletes, Healths, Op

\* ... and so does every change of a slot.
LEMMA SlotMoves ==
  ASSUME NEW x \in SlotState
  PROVE  /\ Cold \in SlotState
         /\ \A p \in Request : [x EXCEPT !.writer = p] \in SlotState
         /\ \A s \in Source, g \in Config \cup {None} : [x EXCEPT !.adapters[s] = g] \in SlotState
         /\ \A s \in Source, g \in Config :
               [x EXCEPT !.adapters[s] = g, !.skipped = @ \ {s}, !.writer = None] \in SlotState
         /\ \A p \in Request, k \in SUBSET Source, f \in [Source -> Config \cup {None}] :
               [x EXCEPT !.hydrator = p, !.skipped = k, !.adapters = f] \in SlotState
         /\ [x EXCEPT !.warm = TRUE, !.hydrator = None] \in SlotState
         /\ \A p \in Request :
               [x EXCEPT !.writer = IF @ = p THEN None ELSE @,
                         !.hydrator = IF @ = p THEN None ELSE @] \in SlotState
  BY DEF SlotState, Cold

\* What a request has, where it changes something.
LEMMA Holding ==
  ASSUME Types, NEW p \in Request
  PROVE  /\ req[p].pc \in {"hydrate", "fill", "clone", "lock", "upsert", "register", "use"}
               => req[p].slot \in Slot
         /\ req[p].pc \in {"upsert", "register", "erase"} => req[p].source \in Source
         /\ req[p].op = "delete" => req[p].source \in Source
         /\ Brings[p] \in Config
<1>1. req[p] \in ReqState
  BY DEF Types
<1> QED
  BY <1>1, RequestsAssumption, NoneIsNothing
     DEF ReqState, Idles, Registers, Reads, Deletes, Healths, Op

LEMMA LiveType ==
  ASSUME NEW changed \in [Slot -> SlotState]
  PROVE  Live(changed) \in [Slot -> SlotState]
  BY DEF Live, Cold, SlotState

LEMMA TypesStep ==
  ASSUME Types, NEW p \in Request, Start(p) \/ Block(p) \/ Step(p) \/ Abandon(p)
  PROVE  Types'
<1>0. req[p] \in ReqState
  BY DEF Types
<1>1. CASE Start(p)
  <2>1. PICK op \in Serves[p], s \in Source :
          req' = [req EXCEPT ![p] = [pc |-> FirstStep(op), op |-> op, slot |-> 0,
                 source |-> IF op \in {"register", "delete"} THEN s ELSE None]]
    BY ZenonT(60), <1>1 DEF Start
  <2>2. op \in Op
    BY RequestsAssumption
  <2> QED
    BY <1>0, <1>1, <2>1, <2>2, StartsInState DEF Start, Types, Overlaps
<1>2. CASE Block(p)
  <2>1. req' \in [Request -> ReqState]
    BY ZenonT(60), <1>0, <1>2, Moves DEF Block, Types, At, Goto, Done, AfterHydration
  <2>2. slots' \in [Slot -> SlotState]
    BY <1>0, <1>2, Holding, SlotMoves, LiveType DEF Block, Types, At, MySlot
  <2> QED
    BY <2>1, <2>2, <1>0, <1>2 DEF Block, Types, At
<1>3. CASE TakeSlot(p)
  <2>1. PICK i \in Slot : entry' = i /\ req' = [req EXCEPT ![p].pc = "hydrate", ![p].slot = i]
    BY <1>3 DEF TakeSlot
  <2>2. [req[p] EXCEPT !.pc = "hydrate", !.slot = i] \in ReqState
    BY <1>0, <1>3, Moves DEF TakeSlot, At
  <2> QED
    BY <2>1, <2>2, <1>3 DEF TakeSlot, Types
<1>4. CASE FindWarm(p)
  <2>1. req' \in [Request -> ReqState]
    BY ZenonT(60), <1>0, <1>4, Moves DEF FindWarm, Types, At, Goto, Done, AfterHydration
  <2>2. slots' \in [Slot -> SlotState]
    BY ZenonT(60), <1>0, <1>4, Holding, SlotMoves, LiveType DEF FindWarm, Types, At, MySlot
  <2> QED
    BY <2>1, <2>2, <1>0, <1>4 DEF FindWarm, Types, At
<1>5. CASE ReadRows(p)
  <2>0. At(p, "hydrate") /\ req[p].slot \in Slot
    BY <1>5, Holding DEF ReadRows, At
  <2>1. req' \in [Request -> ReqState]
    BY ZenonT(60), <1>0, <1>5, Moves DEF ReadRows, Types, At, Goto, Done
  <2>2. slots' \in [Slot -> SlotState]
    <3>1. CASE slots' = Live(slots)
      BY SMTT(60), <3>1, LiveType DEF Types
    <3>2. CASE slots' # Live(slots)
      <4>1. PICK skip \in SUBSET Source :
               slots' = [slots EXCEPT ![req[p].slot] = [@ EXCEPT
                    !.hydrator = p, !.skipped = skip,
                    !.adapters = [s \in Source |-> IF s \in skip THEN None ELSE store[s]]]]
        BY <1>5, <3>2 DEF ReadRows
      <4>2. [s \in Source |-> IF s \in skip THEN None ELSE store[s]]
                \in [Source -> Config \cup {None}]
        BY DEF Types
      <4> QED
        BY <4>1, <4>2, <2>0, SlotMoves DEF Types
    <3> QED
      BY SMTT(60), <3>1, <3>2
  <2> QED
    BY ZenonT(60), <2>1, <2>2, <1>5 DEF ReadRows, Types
<1>6. CASE Fill(p)
  <2>1. req' \in [Request -> ReqState]
    BY ZenonT(60), <1>0, <1>6, Moves DEF Fill, Types, At, Goto, Done, AfterHydration
  <2>2. slots' \in [Slot -> SlotState]
    BY ZenonT(60), <1>0, <1>6, Holding, SlotMoves, LiveType DEF Fill, Types, At, MySlot
  <2> QED
    BY SMTT(60), <2>1, <2>2, <1>0, <1>6 DEF Fill, Types, At
<1>7. CASE Clone(p)
  <2>1. req' \in [Request -> ReqState]
    BY ZenonT(60), <1>0, <1>7, Moves DEF Clone, Types, At, Goto, Done, AfterHydration
  <2>2. slots' \in [Slot -> SlotState]
    BY ZenonT(60), <1>0, <1>7, Holding, SlotMoves, LiveType DEF Clone, Types, At, MySlot
  <2> QED
    BY SMTT(60), <2>1, <2>2, <1>0, <1>7 DEF Clone, Types, At
<1>8. CASE Lock(p)
  <2>1. req' \in [Request -> ReqState]
    BY ZenonT(60), <1>0, <1>8, Moves DEF Lock, Types, At, Goto, Done, AfterHydration
  <2>2. slots' \in [Slot -> SlotState]
    BY ZenonT(60), <1>0, <1>8, Holding, SlotMoves, LiveType DEF Lock, Types, At, MySlot
  <2> QED
    BY SMTT(60), <2>1, <2>2, <1>0, <1>8 DEF Lock, Types, At
<1>9. CASE Upsert(p)
  <2>1. req' \in [Request -> ReqState]
    BY ZenonT(60), <1>0, <1>9, Moves DEF Upsert, Types, At, Goto, Done, AfterHydration
  <2>2. slots' \in [Slot -> SlotState]
    BY <1>0, <1>9, Holding, SlotMoves, LiveType DEF Upsert, Types, At, MySlot
  <2> QED
    BY SMTT(60), <2>1, <2>2, <1>0, <1>9, Holding DEF Upsert, Types, At
<1>10. CASE Register(p)
  <2>0. /\ req[p].slot \in Slot /\ req[p].source \in Source /\ Brings[p] \in Config
        /\ slots[req[p].slot] \in SlotState
    BY SMTT(60), <1>10, Holding DEF Register, At, Types
  <2>1. req' \in [Request -> ReqState]
    BY ZenonT(60), <1>0, <1>10, Moves DEF Register, Types, At, Done
  <2>2. [slots[req[p].slot] EXCEPT !.adapters[req[p].source] = Brings[p],
             !.skipped = @ \ {req[p].source}, !.writer = None] \in SlotState
    BY <2>0, SlotMoves
  <2>3. slots' \in [Slot -> SlotState]
    <3> DEFINE changed == [slots EXCEPT ![req[p].slot] = [MySlot(p) EXCEPT
           !.adapters[req[p].source] = Brings[p],
           !.skipped = @ \ {req[p].source},
           !.writer = None]]
    <3>1. changed \in [Slot -> SlotState]
      BY <2>0, <2>2 DEF Types, MySlot
    <3>2. slots' = Live(changed)
      BY SMTT(60), <1>10 DEF Register
    <3> QED
      BY ZenonT(60), <3>1, <3>2, LiveType
  <2> QED
    BY ZenonT(60), <2>1, <2>3, <1>10 DEF Register, Types
<1>11. CASE Erase(p)
  <2>1. req' \in [Request -> ReqState]
    BY ZenonT(60), <1>0, <1>11, Moves DEF Erase, Types, At, Goto, Done, AfterHydration
  <2>2. slots' \in [Slot -> SlotState]
    BY <1>0, <1>11, Holding, SlotMoves, LiveType DEF Erase, Types, At, MySlot
  <2> QED
    BY SMTT(60), <2>1, <2>2, <1>0, <1>11, Holding DEF Erase, Types, At
<1>12. CASE Peek(p)
  <2>1. EntryWarm => entry \in Slot
    BY SMTT(60) DEF EntryWarm, Types
  <2>2. entry \in Slot => [req[p] EXCEPT !.pc = "use", !.slot = entry] \in ReqState
    BY ZenonT(60), <1>0, <1>12, Moves DEF Peek, At
  <2>3. req' \in [Request -> ReqState]
    BY ZenonT(60), <1>0, <1>12, <2>1, <2>2, Moves DEF Peek, Types, At, Done
  <2>4. entry \in Slot => Used(p, entry) \in [Slot -> SlotState]
    BY Holding, SlotMoves DEF Used, Types
  <2>5. slots' \in [Slot -> SlotState]
    BY <1>12, <2>1, <2>4 DEF Peek, Types
  <2> QED
    BY <2>3, <2>5, <1>12 DEF Peek, Types
<1>13. CASE Use(p)
  <2>1. req' \in [Request -> ReqState]
    BY ZenonT(60), <1>0, <1>13, Moves DEF Use, Types, At, Goto, Done, AfterHydration
  <2>2. slots' \in [Slot -> SlotState]
    BY ZenonT(60), <1>0, <1>13, Holding, SlotMoves, LiveType
       DEF Use, Types, At, MySlot, Used
  <2> QED
    BY <2>1, <2>2, <1>0, <1>13 DEF Use, Types, At
<1>14. CASE Drop(p)
  <2>1. req' \in [Request -> ReqState]
    BY ZenonT(60), <1>0, <1>14, Moves DEF Drop, Types, At, Goto, Done, AfterHydration
  <2>2. slots' \in [Slot -> SlotState]
    BY <1>0, <1>14, Holding, SlotMoves, LiveType DEF Drop, Types, At, MySlot
  <2> QED
    BY SMTT(60), <2>1, <2>2, <1>0, <1>14 DEF Drop, Types, At
<1>15. CASE Abandon(p)
  <2>1. req' \in [Request -> ReqState]
    BY ZenonT(60), <1>0, <1>15, Moves DEF Abandon, Types, At, Goto, Done, AfterHydration
  <2>2. slots' \in [Slot -> SlotState]
    BY ZenonT(60), <1>0, <1>15, Holding, SlotMoves, LiveType
       DEF Abandon, Types, At, MySlot, Released
  <2> QED
    BY <2>1, <2>2, <1>0, <1>15 DEF Abandon, Types, At
<1> QED
  BY <1>1, <1>2, <1>3, <1>4, <1>5, <1>6, <1>7, <1>8, <1>9, <1>10, <1>11, <1>12, <1>13, <1>14, <1>15 DEF Step

-----------------------------------------------------------------------------
LEMMA LiveKeeps ==
  ASSUME NEW changed, NEW i \in Slot, i = entry' \/ \E q \in Request : req'[q].slot = i
  PROVE  Live(changed)[i] = changed[i]
  BY SMTT(60) DEF Live

LEMMA ReadRowsCases ==
  ASSUME Types, NEW p \in Request, ReadRows(p)
  PROVE  /\ req[p].pc = "hydrate" /\ req[p].slot \in Slot
         /\ ~MySlot(p).warm /\ MySlot(p).hydrator = None
         /\ entry' = entry /\ store' = store
         /\ \/ slots' = Live(slots) /\ req' = [req EXCEPT ![p] = Idle] /\ raced' = raced
            \/ \E skip \in SUBSET Source :
                  /\ slots' = [slots EXCEPT ![req[p].slot] = [@ EXCEPT
                         !.hydrator = p, !.skipped = skip,
                         !.adapters = [s \in Source |-> IF s \in skip THEN None ELSE store[s]]]]
                  /\ req' = [req EXCEPT ![p].pc = "fill"]
                  /\ raced' = (raced \/ Active("delete"))
  BY Holding DEF ReadRows, At, Goto, Done

\* A deletion touches the adapters, a release what the request held.
LEMMA UsedFields ==
  ASSUME Types, NEW p \in Request, NEW i \in Slot
  PROVE  /\ Used(p, i) \in [Slot -> SlotState]
         /\ \A j \in Slot : /\ Used(p, i)[j].writer = slots[j].writer
                            /\ Used(p, i)[j].hydrator = slots[j].hydrator
                            /\ Used(p, i)[j].warm = slots[j].warm
                            /\ Used(p, i)[j].skipped = slots[j].skipped
                            /\ j # i \/ req[p].op # "delete" => Used(p, i)[j] = slots[j]
         /\ req[p].op = "delete" => Used(p, i)[i].adapters =
                                       [slots[i].adapters EXCEPT ![req[p].source] = None]
<1>1. req[p].op = "delete" => req[p].source \in Source
  BY Holding
<1>2. slots \in [Slot -> SlotState]
  BY DEF Types
<1>3. CASE req[p].op # "delete"
  BY <1>2, <1>3 DEF Used
<1>4. CASE req[p].op = "delete"
  BY SMTT(60), <1>1, <1>2, <1>4 DEF Used, SlotState
<1> QED
  BY <1>3, <1>4

LEMMA ReleasedFields ==
  ASSUME Types, NEW p \in Request
  PROVE  \A j \in Slot : /\ Released(p)[j].warm = slots[j].warm
                         /\ Released(p)[j].adapters = slots[j].adapters
                         /\ Released(p)[j].skipped = slots[j].skipped
                         /\ slots[j].writer # p => Released(p)[j].writer = slots[j].writer
                         /\ Released(p)[j].hydrator =
                               IF slots[j].hydrator = p THEN None ELSE slots[j].hydrator
  BY ZenonT(60) DEF Types, SlotState, Released

LEMMA RegisterFields ==
  ASSUME Types, NEW p \in Request, Register(p)
  PROVE  \E f \in [Slot -> SlotState] :
            /\ slots' = Live(f)
            /\ req[p].slot \in Slot /\ req[p].source \in Source /\ req' = [req EXCEPT ![p] = Idle]
            /\ \A j \in Slot : j # req[p].slot => f[j] = slots[j]
            /\ f[req[p].slot].warm = MySlot(p).warm
            /\ f[req[p].slot].hydrator = MySlot(p).hydrator
            /\ f[req[p].slot].writer = None
            /\ f[req[p].slot].skipped = MySlot(p).skipped \ {req[p].source}
            /\ f[req[p].slot].adapters = [MySlot(p).adapters EXCEPT ![req[p].source] = Brings[p]]
<1> DEFINE f == [slots EXCEPT ![req[p].slot] = [MySlot(p) EXCEPT
           !.adapters[req[p].source] = Brings[p],
           !.skipped = @ \ {req[p].source},
           !.writer = None]]
<1>1. /\ req[p].slot \in Slot /\ req[p].source \in Source /\ Brings[p] \in Config
      /\ MySlot(p) \in SlotState
  BY SMTT(60), Holding DEF Register, At, Types, MySlot
<1>2. f \in [Slot -> SlotState]
  BY <1>1, SlotMoves DEF Types
<1>3. slots' = Live(f) /\ req' = [req EXCEPT ![p] = Idle]
  BY DEF Register, Done
<1> QED
  BY <1>1, <1>2, <1>3 DEF Types, SlotState

\* A step is of one request.
LEMMA Others ==
  ASSUME Types, Types', NEW p \in Request, Start(p) \/ Block(p) \/ Step(p) \/ Abandon(p)
  PROVE  \A q \in Request \ {p} : req'[q] = req[q]
  BY DEF Types, Start, Block, Step, TakeSlot, FindWarm, ReadRows, Fill, Clone, Lock, Upsert,
         Register, Erase, Peek, Use, Drop, Abandon, Goto, Done

-----------------------------------------------------------------------------
LEMMA FreeSlotsStep ==
  ASSUME IInv, Types', NEW p \in Request, Start(p) \/ Block(p) \/ Step(p) \/ Abandon(p)
  PROVE  FreeSlotsAreCold'
<1> USE DEF IInv
<1>0. req[p] \in ReqState /\ req' = [req EXCEPT ![p] = req'[p]]
  BY DEF Types, Start, Block, Step, TakeSlot, FindWarm, ReadRows, Fill, Clone, Lock, Upsert,
         Register, Erase, Peek, Use, Drop, Abandon, Goto, Done, Idle
<1>1. CASE \E f : slots' = Live(f)
  BY <1>1 DEF FreeSlotsAreCold, Live
<1>2. CASE slots' = slots /\ entry' = entry /\ req'[p].slot = req[p].slot
  BY <1>0, <1>2 DEF FreeSlotsAreCold, Types
<1>3. CASE /\ \A i \in Slot : i # req[p].slot => slots'[i] = slots[i]
           /\ entry' = entry /\ req'[p].slot = req[p].slot
  BY <1>0, <1>3 DEF FreeSlotsAreCold, Types
<1>4. CASE TakeSlot(p)
  BY <1>0, <1>4, Shape DEF FreeSlotsAreCold, Types, TakeSlot, At, Registers, Reads, ReqState
<1>5. CASE Peek(p)
  BY SMTT(60), <1>0, <1>5, Shape
     DEF FreeSlotsAreCold, Types, Peek, At, Used, Done, EntryWarm, Idle
<1>6. CASE Clone(p) \/ Register(p) \/ Use(p) \/ Drop(p) \/ Abandon(p)
  BY <1>1, <1>6 DEF Clone, Register, Use, Drop, Abandon
<1>7. CASE Start(p) \/ Block(p) \/ FindWarm(p) \/ Upsert(p) \/ Erase(p)
  BY <1>0, <1>2, <1>7, Shape DEF Start, Block, FindWarm, Upsert, Erase, Goto, Types, At
<1>8. CASE Fill(p) \/ Lock(p)
  BY <1>0, <1>3, <1>8, Shape DEF Fill, Lock, Goto, Types
<1>9. CASE ReadRows(p)
  <2>1. CASE slots' = Live(slots)
    BY <2>1, <1>1
  <2>2. CASE slots' # Live(slots)
    <3>1. \A i \in Slot : i # req[p].slot => slots'[i] = slots[i]
      BY <1>9, <2>2 DEF ReadRows, Types
    <3>2. entry' = entry /\ req'[p].slot = req[p].slot
      <4>1. entry' = entry /\ req' = [req EXCEPT ![p].pc = "fill"]
        BY <1>9, <2>2, ReadRowsCases
      <4>2. req'[p] = [req[p] EXCEPT !.pc = "fill"]
        BY <4>1 DEF Types
      <4> QED
        BY <4>1, <4>2, <1>0, Shape
    <3> QED
      BY <1>3, <3>1, <3>2
  <2> QED
    BY <2>1, <2>2
<1> QED
  BY <1>4, <1>5, <1>6, <1>7, <1>8, <1>9 DEF Step
-----------------------------------------------------------------------------
LEMMA WritersLockStep ==
  ASSUME IInv, Types', NEW p \in Request, Start(p) \/ Block(p) \/ Step(p) \/ Abandon(p)
  PROVE  WritersLock'
<1> USE DEF IInv
<1> SUFFICES ASSUME NEW q \in Request, req'[q].pc \in {"upsert", "register"}
             PROVE  slots'[req'[q].slot].writer = q
  BY DEF WritersLock
<1>0. /\ req[p] \in ReqState /\ req[q] \in ReqState /\ req'[q] \in ReqState
      /\ p # q => req'[q] = req[q]
      /\ req'[q].slot \in Slot
  BY Others, Shape DEF Types
<1>a. p # q => slots[req[q].slot].writer = q /\ req[q].slot \in Slot
  BY <1>0 DEF WritersLock
<1>1. CASE Start(p)
  <2>1. req'[p].slot = 0
    BY <1>1, <1>0, Shape DEF Start, Types
  <2> QED
    BY <2>1, <1>0, <1>1, <1>a, SlotsAreNaturals DEF Start
<1>2. CASE Block(p)
  BY <1>0, <1>a, <1>2, Shape, LiveKeeps, NoneIsNothing DEF Block, Types, SlotState, At, Goto, Done, Idle, MySlot, WritersLock
<1>3. CASE TakeSlot(p)
  BY <1>0, <1>a, <1>3, Shape, LiveKeeps, NoneIsNothing DEF TakeSlot, Types, SlotState, At, Goto, Done, Idle, MySlot, WritersLock
<1>4. CASE FindWarm(p)
  BY SMTT(60), <1>0, <1>a, <1>4, Shape, LiveKeeps, NoneIsNothing
     DEF FindWarm, Types, SlotState, At, Goto, Done, Idle, MySlot, WritersLock,
         AfterHydration
<1>5. CASE ReadRows(p)
  <2>1. CASE slots' = Live(slots) /\ req' = [req EXCEPT ![p] = Idle]
    BY <2>1, <1>0, <1>a, LiveKeeps, SlotsAreNaturals DEF Idle, Types
  <2>2. ASSUME NEW skip \in SUBSET Source,
               /\ slots' = [slots EXCEPT ![req[p].slot] = [@ EXCEPT
                         !.hydrator = p, !.skipped = skip,
                         !.adapters = [s \in Source |-> IF s \in skip THEN None ELSE store[s]]]]
               /\ req' = [req EXCEPT ![p].pc = "fill"]
        PROVE  slots'[req'[q].slot].writer = q
    <3>1. p # q
      BY <2>2, <1>0, Shape DEF Types
    <3> QED
      BY ZenonT(60), <2>2, <3>1, <1>0, <1>a DEF Types, SlotState
  <2> QED
    BY <2>1, <2>2, <1>5, ReadRowsCases
<1>6. CASE Fill(p)
  BY <1>0, <1>a, <1>6, Shape, LiveKeeps, NoneIsNothing DEF Fill, Types, SlotState, At, Goto, Done, Idle, MySlot, WritersLock, AfterHydration
<1>7. CASE Clone(p)
  BY <1>0, <1>a, <1>7, Shape, LiveKeeps, NoneIsNothing DEF Clone, Types, SlotState, At, Goto, Done, Idle, MySlot, WritersLock
<1>8. CASE Lock(p)
  BY <1>0, <1>a, <1>8, Shape, LiveKeeps, NoneIsNothing DEF Lock, Types, SlotState, At, Goto, Done, Idle, MySlot, WritersLock, LockFree
<1>9. CASE Upsert(p)
  BY <1>0, <1>a, <1>9, Shape, LiveKeeps, NoneIsNothing DEF Upsert, Types, SlotState, At, Goto, Done, Idle, MySlot, WritersLock
<1>10. CASE Register(p)
  <2>1. PICK f \in [Slot -> SlotState] :
            /\ slots' = Live(f)
            /\ req' = [req EXCEPT ![p] = Idle]
            /\ \A j \in Slot : j # req[p].slot => f[j] = slots[j]
    BY <1>10, RegisterFields
  <2>2. p # q /\ slots[req[p].slot].writer = p
    BY <2>1, <1>0, <1>10, SlotsAreNaturals DEF Idle, Types, WritersLock, Register, At
  <2> QED
    BY <2>1, <2>2, <1>0, <1>a, LiveKeeps
<1>11. CASE Erase(p)
  BY <1>0, <1>a, <1>11, Shape, LiveKeeps, NoneIsNothing DEF Erase, Types, SlotState, At, Goto, Done, Idle, MySlot, WritersLock
<1>12. CASE Peek(p)
  BY <1>0, <1>a, <1>12, Shape, LiveKeeps, NoneIsNothing DEF Peek, Types, SlotState, At, Goto, Done, Idle, MySlot, WritersLock, Used
<1>13. CASE Use(p)
  <2>1. req'[p].slot = 0 /\ slots' = Live(Used(p, req[p].slot)) /\ req[p].slot \in Slot
    BY <1>13, Holding DEF Use, Done, Idle, Types, At
  <2>2. p # q /\ slots'[req[q].slot] = Used(p, req[p].slot)[req[q].slot]
    BY <2>1, <1>0, LiveKeeps, SlotsAreNaturals
  <2>3. /\ req[p].slot \in Slot /\ req[q].slot \in Slot /\ req'[q] = req[q]
        /\ slots[req[q].slot].writer = q
    BY <2>1, <2>2, <1>0, <1>a
  <2>4. \A j \in Slot : Used(p, req[p].slot)[j].writer = slots[j].writer
    BY ZenonT(60), <2>3, UsedFields
  <2> QED
    BY <2>2, <2>3, <2>4
<1>14. CASE Drop(p)
  BY SMTT(60), <1>0, <1>a, <1>14, Shape, LiveKeeps, NoneIsNothing
     DEF Drop, Types, SlotState, At, Goto, Done, Idle, MySlot, WritersLock
<1>15. CASE Abandon(p)
  <2>1. req'[p].slot = 0 /\ slots' = Live(Released(p))
    BY <1>15 DEF Abandon, Done, Idle, Types
  <2> QED
    BY <2>1, <1>0, <1>a, LiveKeeps, ReleasedFields, SlotsAreNaturals
<1> QED
  BY <1>1, <1>2, <1>3, <1>4, <1>5, <1>6, <1>7, <1>8, <1>9, <1>10, <1>11, <1>12, <1>13, <1>14, <1>15 DEF Step
-----------------------------------------------------------------------------
\* Only a start makes an operation active.
LEMMA OpsStep ==
  ASSUME Types, Types', NEW p \in Request, Block(p) \/ Step(p) \/ Abandon(p)
  PROVE  /\ \A q \in Request : req'[q].op \in {req[q].op, None}
         /\ \A op \in Op : Active(op)' => Active(op)
<1>0. req[p] \in ReqState /\ \A q \in Request \ {p} : req'[q] = req[q]
  BY Others DEF Types
<1>1. req'[p].op \in {req[p].op, None}
  <2>1. req[p] = [pc |-> req[p].pc, op |-> req[p].op, source |-> req[p].source, slot |-> req[p].slot]
    BY <1>0, Shape
  <2>2. CASE TakeSlot(p) \/ Peek(p)
    BY <2>1, <2>2 DEF Types, TakeSlot, Peek, Done, Idle
  <2>3. CASE Block(p) \/ FindWarm(p) \/ Fill(p) \/ Lock(p) \/ Upsert(p) \/ Erase(p) \/ Drop(p)
    BY <2>1, <2>3 DEF Types, Block, FindWarm, Fill, Lock, Upsert, Erase, Drop, Goto
  <2>4. CASE Clone(p) \/ Register(p) \/ Use(p) \/ Abandon(p)
    BY <2>4 DEF Types, Clone, Register, Use, Abandon, Done, Idle
  <2>5. CASE ReadRows(p)
    <3>1. req' = [req EXCEPT ![p] = Idle] \/ req' = [req EXCEPT ![p].pc = "fill"]
      BY <2>5, ReadRowsCases
    <3> QED
      BY <2>1, <3>1 DEF Types, Idle
  <2> QED
    BY <2>2, <2>3, <2>4, <2>5 DEF Step
<1>2. \A q \in Request : req'[q].op \in {req[q].op, None}
  BY <1>0, <1>1
<1> QED
  BY <1>2, NoneIsNothing DEF Active

\* Only ReadRows begins a hydration.
LEMMA HydratingStep ==
  ASSUME Types, Types', NEW p \in Request, Start(p) \/ Block(p) \/ Step(p) \/ Abandon(p)
  PROVE  Hydrating' => Hydrating \/ raced' = (raced \/ Active("delete"))
<1> SUFFICES ASSUME NEW i \in Slot, slots'[i].hydrator # None, ~Hydrating
             PROVE  raced' = (raced \/ Active("delete"))
  BY DEF Hydrating
<1>0. /\ slots[i].hydrator = None /\ slots[i] \in SlotState
      /\ \A q \in Request : req[q].slot \in Slot => slots[req[q].slot].hydrator = None
      /\ \A f : Live(f)[i].hydrator # None => f[i].hydrator # None
  BY DEF Hydrating, Types, Live, Cold
<1>1. CASE ReadRows(p)
  BY <1>0, <1>1, ReadRowsCases DEF Types
<1>2. CASE Register(p)
  <2>1. PICK f \in [Slot -> SlotState] :
            /\ slots' = Live(f)
            /\ \A j \in Slot : j # req[p].slot => f[j] = slots[j]
            /\ f[req[p].slot].hydrator = MySlot(p).hydrator
    BY <1>2, RegisterFields
  <2> QED
    BY <2>1, <1>0 DEF MySlot
<1>3. CASE Peek(p) \/ Use(p)
  <2>1. PICK k \in Slot : slots' \in {slots, Used(p, k), Live(Used(p, k))}
    BY <1>3, Holding DEF Peek, Use, EntryWarm, Types, At
  <2>2. Used(p, k)[i].hydrator = slots[i].hydrator
    BY ZenonT(60), UsedFields
  <2> QED
    BY <2>1, <2>2, <1>0
<1>4. CASE Abandon(p)
  BY <1>0, <1>4, ReleasedFields DEF Abandon
<1>5. CASE Lock(p) \/ Fill(p)
  <2>1. slots' = [slots EXCEPT ![req[p].slot].writer = p]
        \/ slots' = [slots EXCEPT ![req[p].slot] = [@ EXCEPT !.warm = TRUE, !.hydrator = None]]
    BY <1>5 DEF Lock, Fill
  <2>2. CASE slots' = [slots EXCEPT ![req[p].slot].writer = p]
    BY <1>0, <2>2 DEF Types, SlotState
  <2>3. CASE slots' = [slots EXCEPT ![req[p].slot] = [@ EXCEPT !.warm = TRUE, !.hydrator = None]]
    BY <1>0, <2>3 DEF Types, SlotState
  <2> QED
    BY <2>1, <2>2, <2>3
<1>6. CASE Clone(p) \/ Drop(p)
  BY <1>0, <1>6 DEF Clone, Drop
<1> QED
  BY <1>0, <1>1, <1>2, <1>3, <1>4, <1>5, <1>6
     DEF Start, Block, Step, TakeSlot, FindWarm, Upsert, Erase

LEMMA KeptApartStep ==
  ASSUME IInv, Types', NEW p \in Request, Start(p) \/ Block(p) \/ Step(p) \/ Abandon(p)
  PROVE  KeptApart'
<1> USE DEF IInv
<1> SUFFICES ASSUME ~raced'
             PROVE  /\ ~(Active("refresh")' /\ (Active("register")' \/ Active("delete")'))
                    /\ ~(Active("delete")' /\ (Active("register")' \/ Hydrating'))
  BY DEF KeptApart
<1>1. CASE Start(p)
  <2>1. PICK op \in Serves[p], s \in Source :
          /\ req' = [req EXCEPT ![p] = [pc |-> FirstStep(op), op |-> op, slot |-> 0,
                 source |-> IF op \in {"register", "delete"} THEN s ELSE None]]
          /\ raced' = (raced \/ Overlaps(op))
    BY <1>1 DEF Start
  <2>2. \A x : Active(x)' => Active(x) \/ x = op
    BY <2>1, Others DEF Active, Types
  <2>3. ~raced /\ ~Overlaps(op) /\ Hydrating' = Hydrating
    BY <1>1, <2>1 DEF Start, Hydrating
  <2> QED
    BY <2>2, <2>3 DEF KeptApart, Overlaps
<1>2. CASE ~Start(p)
  <2>1. \A op \in {"refresh", "register", "delete"} : Active(op)' => Active(op)
    BY <1>2, OpsStep DEF Op
  <2>2. CASE Drop(p)
    <3>1. ~raced \/ ~(Active("register") \/ Active("delete"))
      BY <2>2 DEF Drop
    <3>2. Hydrating' => Hydrating \/ ~Active("delete")
      BY HydratingStep, <2>2 DEF Drop
    <3> QED
      BY <2>1, <3>1, <3>2 DEF KeptApart
  <2>3. CASE ~Drop(p)
    <3>1. ~raced
      BY <1>2, <2>3, ReadRowsCases
         DEF Types, Block, Step, TakeSlot, FindWarm, Fill, Clone, Lock, Upsert, Register,
             Erase, Peek, Use, Abandon
    <3> QED
      BY <2>1, <3>1, HydratingStep DEF KeptApart
  <2> QED
    BY <2>2, <2>3
<1> QED
  BY <1>1, <1>2
-----------------------------------------------------------------------------
LEMMA FillersHydrateStep ==
  ASSUME IInv, Types', NEW p \in Request, Start(p) \/ Block(p) \/ Step(p) \/ Abandon(p)
  PROVE  FillersHydrate'
<1> USE DEF IInv
<1> SUFFICES ASSUME NEW q \in Request, req'[q].pc = "fill"
             PROVE  slots'[req'[q].slot].hydrator = q
  BY DEF FillersHydrate
<1>0. /\ req[p] \in ReqState /\ req[q] \in ReqState /\ req'[q] \in ReqState
      /\ p # q => req'[q] = req[q]
      /\ req'[q].slot \in Slot
  BY Others, Shape DEF Types
<1>a. p # q => slots[req[q].slot].hydrator = q /\ req[q].slot \in Slot
  BY <1>0 DEF FillersHydrate
<1>1. CASE slots' = slots /\ req'[p].pc # "fill"
  BY <1>0, <1>1, <1>a
<1>2. ASSUME NEW f, slots' = Live(f), p # q, f[req[q].slot].hydrator = slots[req[q].slot].hydrator
      PROVE  slots'[req'[q].slot].hydrator = q
  BY <1>0, <1>2, <1>a, LiveKeeps
<1>3. CASE Start(p) \/ Drop(p)
  <2>1. req'[p].slot = 0 \/ req'[p].pc = "slot"
    BY SMTT(60), <1>3, <1>0, Shape DEF Start, Drop, Goto, At, Types
  <2> QED
    <3>1. p # q
      BY <2>1, <1>0, SlotsAreNaturals
    <3> QED
      BY <3>1, <1>a, <1>0, <1>2, <1>3 DEF Start, Drop
<1>4. CASE Block(p) \/ TakeSlot(p) \/ FindWarm(p) \/ Upsert(p) \/ Erase(p)
  BY SMTT(60), <1>0, <1>a, <1>4, Shape
     DEF Block, TakeSlot, FindWarm, AfterHydration, Upsert, Erase, Goto, At, Types
<1>5. CASE ReadRows(p)
  <2>1. CASE slots' = Live(slots) /\ req' = [req EXCEPT ![p] = Idle]
    BY <2>1, <1>0, <1>2, SlotsAreNaturals DEF Idle, Types
  <2>2. ASSUME NEW skip \in SUBSET Source,
               /\ slots' = [slots EXCEPT ![req[p].slot] = [@ EXCEPT
                         !.hydrator = p, !.skipped = skip,
                         !.adapters = [s \in Source |-> IF s \in skip THEN None ELSE store[s]]]]
               /\ req' = [req EXCEPT ![p].pc = "fill"]
        PROVE  slots'[req'[q].slot].hydrator = q
    <3>1. CASE p = q
      <4>1. req'[p].slot = req[p].slot
        BY <2>2, <1>0, Shape DEF Types
      <4> QED
        BY <2>2, <3>1, <4>1, <1>0 DEF Types, SlotState
    <3>2. CASE p # q
      <4>1. req[p].slot # req[q].slot
        BY ZenonT(60), <3>2, <1>5, <1>a, ReadRowsCases, NoneIsNothing DEF MySlot
      <4> QED
        BY <2>2, <3>2, <4>1, <1>0, <1>a DEF Types
    <3> QED
      BY <3>1, <3>2
  <2> QED
    BY <2>1, <2>2, <1>5, ReadRowsCases
<1>6. CASE Fill(p)
  <2>1. p # q
    BY <1>6, <1>0 DEF Fill, AfterHydration, Goto, Types
  <2>2. req[p].slot # req[q].slot
    BY <2>1, <1>6, <1>a DEF Fill, At, FillersHydrate
  <2> QED
    BY <2>1, <2>2, <1>6, <1>0, <1>a DEF Fill, Types
<1>7. CASE Lock(p)
  <2>1. p # q
    BY <1>7, <1>0 DEF Lock, Goto, Types
  <2> QED
    BY <2>1, <1>7, <1>0, <1>a DEF Lock, Types, SlotState
<1>8. CASE Register(p)
  <2>1. PICK f \in [Slot -> SlotState] :
            /\ slots' = Live(f)
            /\ req' = [req EXCEPT ![p] = Idle]
            /\ \A j \in Slot : j # req[p].slot => f[j] = slots[j]
            /\ f[req[p].slot].hydrator = MySlot(p).hydrator
    BY <1>8, RegisterFields
  <2>2. p # q
    BY <2>1, <1>0, SlotsAreNaturals DEF Idle, Types
  <2> QED
    BY <2>1, <2>2, <1>2, <1>a DEF MySlot
<1>9. CASE Clone(p)
  <2>1. p # q
    BY <1>9, <1>0, SlotsAreNaturals DEF Clone, Done, Idle, Types
  <2> QED
    BY <2>1, <1>9, <1>2 DEF Clone
<1>10. CASE Peek(p) \/ Use(p)
  <2>1. slots' = slots \/ \E k \in Slot : slots' \in {Used(p, k), Live(Used(p, k))}
    BY <1>10, Holding DEF Peek, Use, EntryWarm, Types, At
  <2>2. p # q
    <3>1. req'[p].pc \in {"idle", "use"}
      BY <1>10, <1>0, Shape DEF Peek, Use, Done, Idle, Types
    <3> QED
      BY <3>1
  <2>3. \A k \in Slot : Used(p, k)[req[q].slot].hydrator = slots[req[q].slot].hydrator
    BY ZenonT(60), <2>2, <1>a, UsedFields
  <2> QED
    BY <2>1, <2>2, <2>3, <1>0, <1>2, <1>a
<1>11. CASE Abandon(p)
  <2>1. p # q
    BY <1>11, <1>0, SlotsAreNaturals DEF Abandon, Done, Idle, Types
  <2>2. Released(p)[req[q].slot].hydrator = slots[req[q].slot].hydrator
    BY <2>1, <1>a, ReleasedFields
  <2> QED
    BY <2>1, <2>2, <1>11, <1>2 DEF Abandon
<1> QED
  BY <1>3, <1>4, <1>5, <1>6, <1>7, <1>8, <1>9, <1>10, <1>11 DEF Step
-----------------------------------------------------------------------------
\* Only a refresh can end a race.
LEMMA RacedStep ==
  ASSUME Types, Types', NEW p \in Request, Start(p) \/ Block(p) \/ Step(p) \/ Abandon(p), ~raced'
  PROVE  \/ ~raced
         \/ Drop(p) /\ ~Active("register") /\ ~Active("delete")
  BY ReadRowsCases
     DEF Types, Start, Block, Step, TakeSlot, FindWarm, Fill, Clone, Lock, Upsert, Register,
         Erase, Peek, Use, Drop, Abandon

LEMMA WritersAtEntryStep ==
  ASSUME IInv, Types', NEW p \in Request, Start(p) \/ Block(p) \/ Step(p) \/ Abandon(p)
  PROVE  WritersAtEntry'
<1> USE DEF IInv
<1> SUFFICES ASSUME ~raced', NEW q \in Request, req'[q].op \in {"register", "delete"}
             PROVE  req'[q].slot \in {0, entry'}
  BY DEF WritersAtEntry
<1>0. /\ req[p] \in ReqState /\ req'[p] \in ReqState
      /\ p # q => req'[q] = req[q]
  BY Others DEF Types
<1>1. CASE Drop(p)
  <2>1. req[q].op \in {"register", "delete"}
    BY <1>1, OpsStep, NoneIsNothing DEF Step, Op
  <2>2. Active("register") \/ Active("delete")
    BY <2>1 DEF Active
  <2>3. Active("refresh")
    <3>1. req[p].pc = "drop" => req[p].op = "refresh"
      BY <1>0 DEF ReqState, Idles, Registers, Reads, Deletes, Healths
    <3> QED
      BY <1>1, <3>1 DEF Active, Drop, At
  <2> QED
    BY <2>2, <2>3, RacedStep DEF KeptApart
<1>2. CASE ~Drop(p)
  <2>0. ~raced
    BY <1>2, RacedStep
  <2>1. CASE TakeSlot(p)
    BY <2>0, <2>1, <1>0, Shape DEF TakeSlot, WritersAtEntry, Types
  <2>2. CASE Peek(p)
    BY <2>0, <2>2, <1>0, Shape DEF Peek, Done, Idle, WritersAtEntry, Types
  <2>3. CASE Start(p)
    BY <2>0, <2>3, <1>0 DEF Start, WritersAtEntry, Types
  <2>4. CASE Block(p) \/ FindWarm(p) \/ Fill(p) \/ Lock(p) \/ Upsert(p) \/ Erase(p)
    <3>1. req'[q].slot = req[q].slot /\ req'[q].op = req[q].op /\ entry' = entry
      BY <2>4, <1>0, Shape DEF Block, FindWarm, Fill, Lock, Upsert, Erase, Goto, Types
    <3> QED
      BY <2>0, <3>1 DEF WritersAtEntry
  <2>5. CASE Clone(p) \/ Register(p) \/ Use(p) \/ Abandon(p)
    <3>1. req' = [req EXCEPT ![p] = Idle] /\ entry' = entry
      BY <2>5 DEF Clone, Register, Use, Abandon, Done
    <3> QED
      BY <2>0, <3>1, <1>0 DEF WritersAtEntry, Idle, Types
  <2>6. CASE ReadRows(p)
    <3>1. (req' = [req EXCEPT ![p] = Idle] \/ req' = [req EXCEPT ![p].pc = "fill"]) /\ entry' = entry
      BY <2>6, ReadRowsCases
    <3>2. req'[q].slot \in {0, req[q].slot} /\ req'[q].op \in {None, req[q].op}
      BY <3>1, <1>0, Shape DEF Idle, Types
    <3> QED
      BY <2>0, <3>1, <3>2, NoneIsNothing DEF WritersAtEntry, Op
  <2> QED
    BY <2>1, <2>2, <2>3, <2>4, <2>5, <2>6, <1>2 DEF Step
<1> QED
  BY <1>1, <1>2

LEMMA RowsWrittenStep ==
  ASSUME IInv, Types', NEW p \in Request, Start(p) \/ Block(p) \/ Step(p) \/ Abandon(p)
  PROVE  RowsWritten'
<1> USE DEF IInv
<1> SUFFICES ASSUME ~raced', NEW q \in Request
             PROVE  /\ req'[q].pc = "register" => store'[req'[q].source] = Brings[q]
                    /\ req'[q].op = "delete" /\ req'[q].pc \in {"peek", "use"}
                           => store'[req'[q].source] = None
  BY DEF RowsWritten
<1>0. /\ req[p] \in ReqState /\ req'[p] \in ReqState /\ req[q] \in ReqState
      /\ p # q => req'[q] = req[q]
  BY Others DEF Types
<1>a. /\ \A r \in Request : req[r].pc = "register" => req[r].op = "register"
      /\ req[p].pc = "upsert" => req[p].op = "register" /\ req[p].source \in Source
      /\ req[p].pc = "erase" => req[p].op = "delete" /\ req[p].source \in Source
  BY DEF Types, ReqState, Idles, Registers, Reads, Deletes, Healths
<1>1. CASE Upsert(p)
  <2>1. ~raced /\ Active("register") /\ ~Active("delete")
    BY <1>1, <1>a DEF Upsert, At, Active, KeptApart
  <2>2. req[q].pc = "register" => p = q
    <3>1. ASSUME req[q].pc = "register"
          PROVE  req[p].slot = entry /\ req[q].slot = entry
      <4>1. req[p].op = "register" /\ req[q].op = "register"
        BY <3>1, <1>1, <1>a DEF Upsert, At
      <4>2. req[p].slot # 0 /\ req[q].slot # 0
        BY <3>1, <1>0, <1>1, Shape DEF Upsert, At
      <4> QED
        BY <4>1, <4>2, <2>1 DEF WritersAtEntry
    <3> QED
      BY <3>1, <1>1 DEF Upsert, At, WritersLock
  <2>3. /\ store' = [store EXCEPT ![req[p].source] = Brings[p]]
        /\ req[p].source \in Source
        /\ req'[p].source = req[p].source /\ req'[p].op = "register"
    BY <1>0, <1>1, <1>a, Shape DEF Upsert, Goto, At, Types
  <2> QED
    BY <2>1, <2>2, <2>3, <1>0 DEF Active, Types, RowsWritten
<1>2. CASE Erase(p)
  <2>1. ~raced /\ Active("delete") /\ ~Active("register")
    BY <1>2, <1>a DEF Erase, At, Active, KeptApart
  <2>2. /\ store' = [store EXCEPT ![req[p].source] = None]
        /\ req[p].source \in Source
        /\ req'[p].source = req[p].source /\ req'[p].pc = "peek"
    BY <1>0, <1>2, <1>a, Shape DEF Erase, Goto, At, Types
  <2> QED
    BY <2>1, <2>2, <1>0, <1>a DEF Active, Types, RowsWritten
<1>3. CASE Drop(p)
  <2>1. /\ ~raced \/ (~Active("register") /\ ~Active("delete"))
        /\ store' = store /\ req'[p].pc = "slot"
    BY SMTT(60), <1>0, <1>3, RacedStep, Shape DEF Drop, Goto, Types
  <2> QED
    BY <2>1, <1>0, <1>a DEF RowsWritten, Active
<1>4. CASE ~Upsert(p) /\ ~Erase(p) /\ ~Drop(p)
  <2>1. ~raced
    BY SMTT(60), <1>4, RacedStep
  <2>2. store' = store
    BY <1>4, ReadRowsCases DEF Start, Block, Step, TakeSlot, FindWarm, Fill, Clone, Lock,
         Register, Peek, Use, Abandon
  <2>3. \/ req'[p] = req[p] \/ req'[p] = Idle
        \/ req'[p].pc \in {"drop", "erase", "slot", "hydrate", "fill", "lock", "clone", "upsert"}
        \/ req'[p].op = "health"
        \/ req[p].pc = "peek" /\ req'[p].pc = "use" /\ req'[p].op = req[p].op
           /\ req'[p].source = req[p].source
    <3>1. CASE Start(p)
      <4>1. PICK op \in Serves[p] : req'[p].pc = FirstStep(op) /\ req'[p].op = op
        BY <3>1 DEF Start, Types
      <4>2. op \in Op
        BY RequestsAssumption
      <4>3. op = "health" \/ FirstStep(op) \in {"slot", "drop", "erase"}
        BY <4>2 DEF FirstStep, Op
      <4> QED
        BY <4>1, <4>3
    <3>2. CASE Clone(p) \/ Register(p) \/ Use(p) \/ Abandon(p)
      BY <3>2 DEF Clone, Register, Use, Abandon, Done, Types
    <3>3. CASE Block(p)
      BY <3>3 DEF Block
    <3>4. CASE TakeSlot(p) \/ FindWarm(p) \/ Fill(p) \/ Lock(p)
      BY <1>0, <3>4, Shape DEF TakeSlot, FindWarm, Fill, Lock, Goto, AfterHydration, Types
    <3>5. CASE ReadRows(p)
      <4>1. req' = [req EXCEPT ![p] = Idle] \/ req' = [req EXCEPT ![p].pc = "fill"]
        BY <3>5, ReadRowsCases
      <4> QED
        BY <4>1, <1>0, Shape DEF Types
    <3>6. CASE Peek(p)
      BY <1>0, <3>6, Shape DEF Peek, Done, At, Types
    <3> QED
      BY <3>1, <3>2, <3>3, <3>4, <3>5, <3>6, <1>4 DEF Step
  <2>4. CASE req'[p] = req[p]
    BY <1>0, <2>1, <2>2, <2>4 DEF RowsWritten
  <2>5. CASE req'[p] # req[p]
    <3>1. req'[p].pc # "register"
      BY <2>3, <2>5, <1>0, NoneIsNothing DEF ReqState, Idles, Registers, Reads, Deletes, Healths, Idle
    <3>2. req'[p].op = "delete" /\ req'[p].pc \in {"peek", "use"} =>
             req[p].op = "delete" /\ req[p].pc = "peek" /\ req'[p].source = req[p].source
      BY <2>3, <2>5 DEF Idle
    <3> QED
      BY <1>0, <2>1, <2>2, <3>1, <3>2 DEF RowsWritten
  <2> QED
    BY SMTT(60), <2>4, <2>5
<1> QED
  BY <1>1, <1>2, <1>3, <1>4
-----------------------------------------------------------------------------
LEMMA WritingKept ==
  ASSUME Types, Types', NEW p \in Request, Start(p) \/ Block(p) \/ Step(p) \/ Abandon(p),
         NEW s, Writing(s), req[p].source = s => req[p].pc # "register" /\ req[p].op # "delete"
  PROVE  Writing(s)'
  BY Others DEF Writing

\* A step leaves the mirror as it is ...
SameMirror == /\ store' = store /\ entry' = entry
              /\ (slots'[entry].warm \/ slots'[entry].hydrator # None)
                    => slots[entry].warm \/ slots[entry].hydrator # None
              /\ slots'[entry].skipped = slots[entry].skipped
              /\ slots'[entry].adapters = slots[entry].adapters

LEMMA MirrorsStep ==
  ASSUME IInv, Types', NEW p \in Request, Start(p) \/ Block(p) \/ Step(p) \/ Abandon(p)
  PROVE  Mirrors'
<1> USE DEF IInv
<1> SUFFICES ASSUME ~raced', entry' # 0,
                    slots'[entry'].warm \/ slots'[entry'].hydrator # None,
                    NEW s \in Source
             PROVE  \/ Writing(s)'
                    \/ s \in slots'[entry'].skipped
                    \/ slots'[entry'].adapters[s] = store'[s]
  BY DEF Mirrors
<1>0. /\ req[p] \in ReqState /\ req'[p] \in ReqState
      /\ entry \in Slot \cup {0} /\ entry' \in Slot
      /\ slots \in [Slot -> SlotState]
      /\ ~Drop(p) /\ ~raced
  BY RacedStep DEF Drop, Types
<1>a. /\ req[p].pc = "register" => req[p].op = "register"
      /\ req[p].pc = "upsert" => req[p].op = "register" /\ req[p].source \in Source
      /\ req[p].pc = "erase" => req[p].op = "delete" /\ req[p].source \in Source
      /\ req[p].pc \in {"hydrate", "fill", "clone", "lock", "upsert", "register"} => req[p].op # "delete"
      /\ req[p].pc \in {"idle", "slot", "drop"} => req[p].op # "delete"
  BY NoneIsNothing DEF Types, ReqState, Idles, Registers, Reads, Deletes, Healths, Op
\* ... which is enough if the request was not writing.
<1>b. ASSUME SameMirror, req[p].source = s => req[p].pc # "register" /\ req[p].op # "delete"
      PROVE  \/ Writing(s)'
             \/ s \in slots'[entry'].skipped
             \/ slots'[entry'].adapters[s] = store'[s]
  <2>1. \/ Writing(s)
        \/ s \in slots[entry].skipped
        \/ slots[entry].adapters[s] = store[s]
    BY <1>0, <1>b DEF SameMirror, Mirrors
  <2> QED
    BY <2>1, <1>b, WritingKept DEF SameMirror
<1>1. CASE Start(p) \/ Block(p) \/ FindWarm(p)
  <2>1. SameMirror
    BY <1>1 DEF Start, Block, FindWarm, SameMirror
  <2> QED
    BY <1>1, <2>1, <1>a, <1>b DEF Start, Block, FindWarm, At
<1>2. CASE TakeSlot(p)
  <2>1. CASE entry # 0
    BY <1>2, <2>1, <1>a, <1>b DEF TakeSlot, At, SameMirror
  <2>2. CASE entry = 0
    <3>1. entry' = CHOOSE j \in Slot : \A q \in Request : req[q].slot # j
      BY SMTT(60), <1>2, <2>2 DEF TakeSlot
    <3>2. entry' \in Slot /\ \A q \in Request : req[q].slot # entry'
      BY SMTT(60), <3>1, SomeSlotIsFree
    <3>3. slots[entry'] = Cold
      BY SMTT(60), <2>2, <3>2, SlotsAreNaturals DEF FreeSlotsAreCold
    <3> QED
      BY <1>2, <3>3 DEF TakeSlot, Cold
  <2> QED
    BY <2>1, <2>2
<1>3. CASE ReadRows(p)
  <2>1. CASE slots' = Live(slots)
    <3>1. entry' = entry /\ store' = store
      BY <1>3, ReadRowsCases
    <3>2. slots'[entry] = slots[entry]
      BY <1>0, <2>1, <3>1, LiveKeeps
    <3>3. SameMirror
      BY <3>1, <3>2 DEF SameMirror
    <3> QED
      BY <1>3, <3>3, <1>a, <1>b, ReadRowsCases
  <2>2. ASSUME NEW skip \in SUBSET Source,
               slots' = [slots EXCEPT ![req[p].slot] = [@ EXCEPT
                         !.hydrator = p, !.skipped = skip,
                         !.adapters = [x \in Source |-> IF x \in skip THEN None ELSE store[x]]]]
        PROVE  \/ Writing(s)'
               \/ s \in slots'[entry'].skipped
               \/ slots'[entry'].adapters[s] = store'[s]
    <3>1. CASE req[p].slot = entry
      <4>1. entry' = entry /\ store' = store /\ slots[entry] \in SlotState
        BY ZenonT(60), <1>0, <1>3, ReadRowsCases
      <4>2. /\ slots'[entry].skipped = skip
            /\ slots'[entry].adapters = [x \in Source |-> IF x \in skip THEN None ELSE store[x]]
        BY SMTT(60), <1>0, <2>2, <3>1, <4>1 DEF SlotState
      <4> QED
        BY <4>1, <4>2
    <3>2. CASE req[p].slot # entry
      <4>1. SameMirror
        BY <1>0, <1>3, <2>2, <3>2, ReadRowsCases DEF SameMirror
      <4> QED
        BY ZenonT(60), <1>3, <4>1, <1>a, <1>b, ReadRowsCases
    <3> QED
      BY <3>1, <3>2
  <2> QED
    BY ZenonT(60), <1>3, <2>1, <2>2, ReadRowsCases
<1>4. CASE Fill(p)
  <2>1. slots[req[p].slot].hydrator # None
    BY <1>4, NoneIsNothing DEF Fill, At, FillersHydrate
  <2>2. slots' = [slots EXCEPT ![req[p].slot] = [@ EXCEPT !.warm = TRUE, !.hydrator = None]]
        /\ store' = store /\ entry' = entry
    BY <1>4 DEF Fill
  <2>3. SameMirror
    BY <1>0, <2>1, <2>2 DEF SameMirror, SlotState
  <2> QED
    BY <1>4, <2>3, <1>a, <1>b DEF Fill, At
<1>5. CASE Clone(p)
  <2>1. SameMirror
    BY <1>0, <1>5, LiveKeeps DEF Clone, SameMirror
  <2> QED
    BY <1>5, <2>1, <1>a, <1>b DEF Clone, At
<1>6. CASE Lock(p)
  <2>1. SameMirror
    BY <1>0, <1>6 DEF Lock, SameMirror, SlotState
  <2> QED
    BY <1>6, <2>1, <1>a, <1>b DEF Lock, At
<1>7. CASE Upsert(p)
  <2>1. CASE s = req[p].source
    <3>1. req'[p].pc = "register" /\ req'[p].source = s
      BY <1>0, <1>7, <2>1, Shape DEF Upsert, Goto, Types
    <3> QED
      BY <3>1 DEF Writing
  <2>2. CASE s # req[p].source
    <3>1. store'[s] = store[s] /\ slots' = slots /\ entry' = entry
      BY <1>7, <2>2 DEF Upsert, Types
    <3>2. \/ Writing(s)
          \/ s \in slots[entry].skipped
          \/ slots[entry].adapters[s] = store[s]
      BY <1>0, <3>1 DEF Mirrors
    <3> QED
      BY <2>2, <3>1, <3>2, WritingKept
  <2> QED
    BY <2>1, <2>2
<1>8. CASE Erase(p)
  <2>1. CASE s = req[p].source
    <3>1. req'[p].op = "delete" /\ req'[p].source = s
      BY <1>0, <1>8, <1>a, <2>1, Shape DEF Erase, At, Goto, Types
    <3> QED
      BY <3>1 DEF Writing
  <2>2. CASE s # req[p].source
    <3>1. store'[s] = store[s] /\ slots' = slots /\ entry' = entry
      BY <1>8, <2>2 DEF Erase, Types
    <3>2. \/ Writing(s)
          \/ s \in slots[entry].skipped
          \/ slots[entry].adapters[s] = store[s]
      BY <1>0, <3>1 DEF Mirrors
    <3> QED
      BY <2>2, <3>1, <3>2, WritingKept
  <2> QED
    BY <2>1, <2>2
\* A registration ends: memory gets what the row has.
<1>9. CASE Register(p)
  <2>1. /\ req[p].pc = "register" /\ req[p].op = "register"
        /\ store' = store /\ entry' = entry
    BY <1>9, <1>a DEF Register, At
  <2>2. req[p].slot = entry /\ store[req[p].source] = Brings[p]
    <3>1. req[p].slot # 0
      BY <2>1, <1>0, Shape
    <3> QED
      BY <2>1, <3>1, <1>0 DEF WritersAtEntry, RowsWritten
  <2>3. PICK f \in [Slot -> SlotState] :
            /\ slots' = Live(f) /\ req[p].source \in Source
            /\ f[req[p].slot].warm = MySlot(p).warm
            /\ f[req[p].slot].hydrator = MySlot(p).hydrator
            /\ f[req[p].slot].skipped = MySlot(p).skipped \ {req[p].source}
            /\ f[req[p].slot].adapters = [MySlot(p).adapters EXCEPT ![req[p].source] = Brings[p]]
    BY <1>9, RegisterFields
  <2>4. slots'[entry] = f[entry]
    BY <1>0, <2>1, <2>3, LiveKeeps
  <2>5. slots[entry].adapters \in [Source -> Config \cup {None}]
    BY <1>0, <2>1 DEF SlotState
  <2>6. CASE s = req[p].source
    BY <2>1, <2>2, <2>3, <2>4, <2>5, <2>6 DEF MySlot
  <2>7. CASE s # req[p].source
    <3>1. \/ Writing(s)
          \/ s \in slots[entry].skipped
          \/ slots[entry].adapters[s] = store[s]
      BY <1>0, <2>1, <2>2, <2>3, <2>4 DEF Mirrors, MySlot
    <3> QED
      BY <2>1, <2>2, <2>3, <2>4, <2>5, <2>7, <3>1, WritingKept DEF MySlot
  <2> QED
    BY <2>6, <2>7
\* A deletion ends: memory forgets what the rows have not.
<1>10. ASSUME NEW k \in Slot, slots'[entry] \in {slots[entry], Used(p, k)[entry]},
              req[p].op = "delete" => k = entry /\ slots'[entry] = Used(p, k)[entry],
              entry' = entry, store' = store, req[p].pc \in {"peek", "use"}
       PROVE  \/ Writing(s)'
              \/ s \in slots'[entry'].skipped
              \/ slots'[entry'].adapters[s] = store'[s]
  <2>1. CASE req[p].op # "delete"
    <3>1. SameMirror
      BY ZenonT(60), <1>0, <1>10, <2>1, UsedFields DEF SameMirror
    <3> QED
      BY <1>10, <2>1, <3>1, <1>b
  <2>2. CASE req[p].op = "delete"
    <3>1. req[p].source \in Source /\ store[req[p].source] = None
      BY <1>0, <1>10, <2>2, Holding DEF RowsWritten
    <3>2. /\ slots'[entry].adapters = [slots[entry].adapters EXCEPT ![req[p].source] = None]
          /\ slots'[entry].skipped = slots[entry].skipped
          /\ slots'[entry].warm = slots[entry].warm
          /\ slots'[entry].hydrator = slots[entry].hydrator
      BY <1>10, <2>2, UsedFields
    <3>3. slots[entry].adapters \in [Source -> Config \cup {None}]
      BY <1>0, <1>10 DEF SlotState
    <3>4. CASE s = req[p].source
      BY <1>10, <3>1, <3>2, <3>3, <3>4
    <3>5. CASE s # req[p].source
      <4>1. \/ Writing(s)
            \/ s \in slots[entry].skipped
            \/ slots[entry].adapters[s] = store[s]
        BY <1>0, <1>10, <3>2 DEF Mirrors
      <4> QED
        BY <1>10, <3>2, <3>3, <3>5, <4>1, WritingKept
    <3> QED
      BY <3>4, <3>5
  <2> QED
    BY <2>1, <2>2
<1>11. CASE Peek(p)
  <2>1. store' = store /\ entry' = entry /\ req[p].pc = "peek"
    BY <1>11 DEF Peek, At
  <2>2. CASE EntryWarm /\ slots[entry].writer = None
    <3>1. slots' = Used(p, entry)
      BY <1>11, <2>2 DEF Peek
    <3> QED
      BY <1>0, <1>10, <2>1, <3>1
  <2>3. CASE EntryWarm /\ slots[entry].writer # None
    <3>1. /\ slots' = slots /\ req'[p].op = req[p].op /\ req'[p].source = req[p].source
      BY <1>0, <1>11, <2>3, Shape DEF Peek, Types
    <3>2. SameMirror
      BY <2>1, <3>1 DEF SameMirror
    <3>3. CASE req[p].op = "delete" /\ req[p].source = s
      BY <3>1, <3>3 DEF Writing
    <3> QED
      BY <2>1, <3>2, <3>3, <1>b
  <2>4. CASE ~EntryWarm
    <3>1. slots' = slots
      BY <1>11, <2>4 DEF Peek
    <3>2. Hydrating
      BY <1>0, <2>1, <2>4, <3>1 DEF EntryWarm, Hydrating
    <3>3. req[p].op # "delete"
      BY <1>0, <3>2 DEF KeptApart, Active
    <3>4. SameMirror
      BY <2>1, <3>1 DEF SameMirror
    <3> QED
      BY <2>1, <3>3, <3>4, <1>b
  <2> QED
    BY <2>2, <2>3, <2>4
<1>12. CASE Use(p)
  <2>1. /\ store' = store /\ entry' = entry /\ req[p].pc = "use"
        /\ req[p].slot \in Slot /\ slots' = Live(Used(p, req[p].slot))
    BY <1>12, Holding DEF Use, At
  <2>2. req[p].op = "delete" => req[p].slot = entry
    BY <1>0, <2>1, SlotsAreNaturals DEF WritersAtEntry
  <2>3. slots'[entry] = Used(p, req[p].slot)[entry]
    BY <1>0, <2>1, LiveKeeps
  <2>4. slots'[entry] \in {slots[entry], Used(p, req[p].slot)[entry]}
    BY <2>3
  <2> QED
    BY <1>10, <2>1, <2>2, <2>3, <2>4
<1>13. CASE Abandon(p)
  <2>1. /\ req[p].pc # "register" /\ req[p].op # "delete"
        /\ slots' = Live(Released(p)) /\ store' = store /\ entry' = entry
    BY <1>13 DEF Abandon
  <2>2. slots'[entry] = Released(p)[entry]
    BY <1>0, <2>1, LiveKeeps
  <2>3. SameMirror
    BY <1>0, <2>1, <2>2, ReleasedFields DEF SameMirror
  <2> QED
    BY <2>1, <2>3, <1>b
<1> QED
  BY <1>0, <1>1, <1>2, <1>3, <1>4, <1>5, <1>6, <1>7, <1>8, <1>9, <1>11, <1>12, <1>13 DEF Step
-----------------------------------------------------------------------------
LEMMA InvInit ==
  ASSUME Init
  PROVE  IInv
<1>1. \A p \in Request : req[p] = Idle
  BY DEF Init
<1>2. Types
  BY RequestsAreFinite, SlotsAreNaturals
     DEF Init, Types, ReqState, Idles, Idle, SlotState, Cold
<1>3. FreeSlotsAreCold /\ WritersLock /\ FillersHydrate
  BY <1>1 DEF Init, FreeSlotsAreCold, WritersLock, FillersHydrate, Idle
<1>4. KeptApart /\ WritersAtEntry /\ RowsWritten /\ Mirrors
  BY <1>1, NoneIsNothing
     DEF Init, KeptApart, WritersAtEntry, RowsWritten, Mirrors, Active, Idle, Op
<1> QED
  BY <1>2, <1>3, <1>4 DEF IInv

LEMMA InvStep ==
  ASSUME IInv, [Next]_vars
  PROVE  IInv'
<1>1. ASSUME NEW p \in Request, Start(p) \/ Block(p) \/ Step(p) \/ Abandon(p)
      PROVE  IInv'
  <2>1. Types'
    BY <1>1, TypesStep DEF IInv
  <2> QED
    BY <1>1, <2>1, FreeSlotsStep, WritersLockStep, FillersHydrateStep, KeptApartStep,
       WritersAtEntryStep, RowsWrittenStep, MirrorsStep DEF IInv
<1>2. CASE UNCHANGED vars
  BY <1>2 DEF vars, IInv, Types, FreeSlotsAreCold, WritersLock, FillersHydrate, KeptApart,
              WritersAtEntry, RowsWritten, Mirrors, Active, Hydrating, Writing
<1> QED
  BY <1>1, <1>2 DEF Next

\* Memory mirrors the store, however many requests register, delete, refresh,
\* query, fail and are dropped: once its slot is filled, a source nobody is
\* writing has the adapter of its row, unless that adapter could not be built
\* or something raced that nothing keeps apart (upsert_workspace_adapter).
THEOREM MemoryMirrorsStore == Spec => []MirrorsUnlessRaced
<1>1. IInv => MirrorsUnlessRaced
  BY DEF IInv, Mirrors, MirrorsUnlessRaced, EntryWarm, Writing
<1> QED
  BY <1>1, InvInit, InvStep, PTL DEF Spec
=============================================================================
