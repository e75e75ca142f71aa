------------------------- MODULE IdempotencyProofs -------------------------
(***************************************************************************)
(* Proofs about Idempotency for any set of keys and of attempts in flight, *)
(* and any number of writes and faults.                                    *)
(***************************************************************************)
EXTENDS Idempotency, TLAPS

(* Every guarded write moved the revision past the one it was made for.    *)
RevisionCounts == /\ revision <= Len(done) + 1
                  /\ Len(done) <= MaxDone
                  /\ \A i \in DOMAIN done : done[i].key \in Guarded => done[i].body < revision

(* What an attempt, a row or an answer says was written, was.              *)
Reports(n, k, b) == n \in DOMAIN done /\ done[n] = [key |-> k, body |-> b]

CallsReport ==
  \A c \in Call : /\ call[c].pc = "finished" => Reports(call[c].answer, call[c].key, call[c].body)
                  /\ call[c].pc = "recorded" =>
                       call[c].answer = 0 \/ Reports(call[c].answer, call[c].key, call[c].body)

RowsReport ==
  \A k \in Key : record[k] # None => Reports(record[k].answer, k, record[k].body)

AnswersReport ==
  \A a \in answered : a.answer # 0 => Reports(a.answer, a.key, a.body)

(* A replay reports what the row still says: rows never change.            *)
ReplaysShowRow ==
  \A a \in answered : a.replay => /\ a.key \in Key
                                  /\ record[a.key] # None
                                  /\ record[a.key].answer = a.answer

RecordedHasRow ==
  \A c \in Call : call[c].pc = "recorded" =>
    /\ call[c].key \in Key
    /\ call[c].key \in unsaved \/ record[call[c].key] # None

IInv == /\ TypeOK
        /\ RevisionCounts
        /\ CallsReport
        /\ RowsReport
        /\ AnswersReport
        /\ ReplaysShowRow
        /\ RecordedHasRow
        /\ RetriesWriteOnce
        /\ AnsweredIsRecorded

---------------------------------------------------------------------------
LEMMA InitIInv == Init => IInv
<1> SUFFICES ASSUME Init PROVE IInv
  OBVIOUS
<1> USE DEF Init
<1>1. 1 \in Body /\ 0 \in 0..MaxFaults
  BY MaxDoneAssumption, MaxFaultsAssumption DEF Body
<1>2. TypeOK
  BY <1>1 DEF TypeOK, CallState
<1>3. RevisionCounts /\ RetriesWriteOnce
  BY MaxDoneAssumption DEF RevisionCounts, RetriesWriteOnce
<1>4. CallsReport /\ RecordedHasRow
  BY DEF CallsReport, RecordedHasRow, Idle
<1>5. RowsReport /\ AnswersReport /\ ReplaysShowRow /\ AnsweredIsRecorded
  BY DEF RowsReport, AnswersReport, ReplaysShowRow, AnsweredIsRecorded
<1>6. QED
  BY <1>2, <1>3, <1>4, <1>5 DEF IInv

(* The type of an attempt that is not idle.                                *)
LEMMA BusyCall ==
  ASSUME TypeOK, NEW c \in Call, call[c] # Idle
  PROVE  /\ call[c] \in [pc : {"received", "running", "finished", "recorded"},
                         key : Key \cup {None}, body : Body, answer : 0..MaxDone]
         /\ call[c].pc # "idle"
<1>1. call[c] \in CallState
  BY DEF TypeOK
<1>2. QED
  BY <1>1 DEF CallState

LEMMA SeqElement ==
  ASSUME NEW S, NEW s \in Seq(S), NEW i \in 1..Len(s)
  PROVE  s[i] \in S
OBVIOUS

LEMMA IdlePc == Idle.pc = "idle"
BY DEF Idle

(* A step that writes nothing and moves one attempt.                       *)
LEMMA QuietStep ==
  ASSUME IInv, NEW c \in Call, NEW s \in CallState,
         call' = [call EXCEPT ![c] = s],
         record' = record, revision' = revision, done' = done, answered' = answered,
         unsaved' = unsaved, faults' \in 0..MaxFaults,
         s.pc \in {"idle", "received", "running"}
  PROVE  IInv'
<1>1. call \in [Call -> CallState]
  BY DEF IInv, TypeOK
<1>2. TypeOK'
  BY <1>1 DEF IInv, TypeOK
<1>3. \A d \in Call : call'[d] = IF d = c THEN s ELSE call[d]
  BY <1>1
<1>4. CallsReport'
  BY <1>3 DEF IInv, CallsReport, Reports
<1>5. RecordedHasRow'
  BY <1>3 DEF IInv, RecordedHasRow
<1>6. RevisionCounts' /\ RetriesWriteOnce'
  BY DEF IInv, RevisionCounts, RetriesWriteOnce
<1>7. RowsReport' /\ AnswersReport' /\ ReplaysShowRow' /\ AnsweredIsRecorded'
  BY DEF IInv, RowsReport, AnswersReport, ReplaysShowRow, AnsweredIsRecorded, Reports
<1>8. QED
  BY <1>2, <1>4, <1>5, <1>6, <1>7 DEF IInv

LEMMA QuietSteps ==
  ASSUME IInv, NEW c \in Call,
         \/ \E k \in Key \cup {None}, b \in Body : Send(c, k, b)
         \/ Bypass(c) \/ RefuseReuse(c) \/ Fail(c) \/ Die(c)
  PROVE  IInv'
<1>0. TypeOK /\ faults \in 0..MaxFaults /\ MaxFaults \in Nat /\ MaxDone \in Nat
  BY MaxFaultsAssumption, MaxDoneAssumption DEF IInv, TypeOK
<1>1. ASSUME NEW k \in Key \cup {None}, NEW b \in Body, Send(c, k, b) PROVE IInv'
  <2> DEFINE s == [pc |-> "received", key |-> k, body |-> b, answer |-> 0]
  <2>1. s \in CallState /\ s.pc = "received"
    BY <1>0 DEF CallState
  <2>2. QED
    BY <1>0, <1>1, <2>1, QuietStep DEF Send
<1>2. CASE Bypass(c)
  <2> DEFINE s == [call[c] EXCEPT !.pc = "running"]
  <2>1. call[c] # Idle
    BY <1>2 DEF Bypass, Idle
  <2>2. s \in CallState /\ s.pc = "running"
    BY <1>0, <2>1, BusyCall DEF CallState
  <2> HIDE DEF s
  <2>3. call' = [call EXCEPT ![c] = s]
    BY <1>2 DEF Bypass, s
  <2>4. QED
    BY <1>0, <1>2, <2>2, <2>3, QuietStep DEF Bypass
<1>3. CASE RefuseReuse(c) \/ Fail(c) \/ Die(c)
  <2>1. Idle \in CallState /\ Idle.pc = "idle"
    BY DEF CallState, Idle
  <2>2. faults' \in 0..MaxFaults
    BY <1>0, <1>3 DEF RefuseReuse, Fail, Die
  <2>3. QED
    BY <1>3, <2>1, <2>2, QuietStep DEF RefuseReuse, Fail, Die
<1>4. QED
  BY <1>1, <1>2, <1>3

---------------------------------------------------------------------------
(* An answer goes out.                                                     *)
LEMMA AnswerStep ==
  ASSUME IInv, NEW c \in Call, Replay(c) \/ Answer(c)
  PROVE  IInv'
<1>0. TypeOK /\ call \in [Call -> CallState] /\ record \in [Key -> Row \cup {None}]
  BY DEF IInv, TypeOK
<1>1. call[c] # Idle /\ call' = [call EXCEPT ![c] = Idle]
  BY DEF Replay, Answer, Idle
<1>2. call[c].key \in Key \cup {None} /\ call[c].body \in Body /\ call[c].answer \in 0..MaxDone
  BY <1>0, <1>1, BusyCall
<1>3. /\ UNCHANGED <<record, revision, done, unsaved, faults>>
      /\ \A d \in Call : call'[d] = IF d = c THEN Idle ELSE call[d]
  BY <1>0, <1>1 DEF Replay, Answer
<1>4. PICK a : /\ answered' = answered \cup {a}
               /\ a \in [key : Key \cup {None}, body : Body, answer : 0..MaxDone, replay : BOOLEAN]
               /\ a.answer # 0 => Reports(a.answer, a.key, a.body)
               /\ a.replay => a.key \in Key /\ record[a.key] # None /\ record[a.key].answer = a.answer
               /\ a.key \in Key \ unsaved => record[a.key] # None
  <2>1. CASE Replay(c)
    <3> DEFINE k == call[c].key
               a == [key |-> k, body |-> call[c].body, answer |-> record[k].answer, replay |-> TRUE]
    <3>1. k \in Key /\ record[k] # None /\ record[k].body = call[c].body
      BY <1>2, <2>1 DEF Replay, Fresh
    <3>2. record[k] \in Row
      BY <1>0, <3>1
    <3>3. record[k].answer \in 0..MaxDone
      BY <3>2, MaxDoneAssumption DEF Row
    <3>4. Reports(record[k].answer, k, record[k].body)
      BY <3>1 DEF IInv, RowsReport
    <3>5. answered' = answered \cup {a}
      BY <2>1 DEF Replay
    <3>6. a \in [key : Key \cup {None}, body : Body, answer : 0..MaxDone, replay : BOOLEAN]
      BY <1>2, <3>3
    <3>7. Reports(a.answer, a.key, a.body)
      BY <3>1, <3>4
    <3>8. a.key \in Key /\ record[a.key] # None /\ record[a.key].answer = a.answer
      BY <3>1
    <3> HIDE DEF a
    <3>9. QED
      BY <3>5, <3>6, <3>7, <3>8
  <2>2. CASE Answer(c)
    <3> DEFINE a == [key |-> call[c].key, body |-> call[c].body, answer |-> call[c].answer,
                     replay |-> FALSE]
    <3>1. answered' = answered \cup {a}
      BY <2>2 DEF Answer
    <3>2. a \in [key : Key \cup {None}, body : Body, answer : 0..MaxDone, replay : BOOLEAN]
      BY <1>2
    <3>3. a.answer # 0 => Reports(a.answer, a.key, a.body)
      BY <2>2 DEF Answer, IInv, CallsReport
    <3>4. a.key \in Key \ unsaved => record[a.key] # None
      BY <2>2, NoneAssumption DEF Answer, IInv, RecordedHasRow
    <3>5. ~a.replay
      OBVIOUS
    <3> HIDE DEF a
    <3>6. QED
      BY <3>1, <3>2, <3>3, <3>4, <3>5
  <2>3. QED
    BY <2>1, <2>2
<1>5. TypeOK'
  <2>1. Idle \in CallState
    BY DEF CallState
  <2>2. call' \in [Call -> CallState]
    BY <1>0, <1>1, <2>1
  <2>3. QED
    BY <1>0, <1>3, <1>4, <2>2 DEF TypeOK
<1>6. CallsReport' /\ RecordedHasRow'
  BY <1>3, IdlePc DEF IInv, CallsReport, RecordedHasRow, Reports
<1>7. RevisionCounts' /\ RetriesWriteOnce' /\ RowsReport'
  BY <1>3 DEF IInv, RevisionCounts, RetriesWriteOnce, RowsReport, Reports
<1>8. AnswersReport' /\ ReplaysShowRow' /\ AnsweredIsRecorded'
  BY <1>3, <1>4 DEF IInv, AnswersReport, ReplaysShowRow, AnsweredIsRecorded, Reports
<1>9. QED
  BY <1>5, <1>6, <1>7, <1>8 DEF IInv

---------------------------------------------------------------------------
(* The handler writes: the only step that adds to done.                    *)
LEMMA ExecuteStep ==
  ASSUME IInv, NEW c \in Call, Execute(c)
  PROVE  IInv'
<1>0. /\ TypeOK /\ call \in [Call -> CallState] /\ record \in [Key -> Row \cup {None}]
      /\ done \in Seq([key : Key \cup {None}, body : Body]) /\ revision \in Body
      /\ MaxDone \in Nat
  BY MaxDoneAssumption DEF IInv, TypeOK
<1> DEFINE n == Len(done)
           w == [key |-> call[c].key, body |-> call[c].body]
<1>1. call[c] # Idle /\ call[c].pc = "running" /\ n < MaxDone
  BY DEF Execute, Idle
<1>2. /\ call[c] \in [pc : {"received", "running", "finished", "recorded"},
                      key : Key \cup {None}, body : Body, answer : 0..MaxDone]
      /\ w \in [key : Key \cup {None}, body : Body]
  BY <1>0, <1>1, BusyCall
<1>3. /\ done' = Append(done, w)
      /\ UNCHANGED <<record, answered, unsaved, faults>>
  BY DEF Execute
<1> HIDE DEF w
<1>4. /\ n \in Nat /\ Len(done') = n + 1 /\ DOMAIN done = 1..n /\ DOMAIN done' = 1..(n + 1)
      /\ done' \in Seq([key : Key \cup {None}, body : Body])
      /\ \A i \in 1..n : done'[i] = done[i]
      /\ done'[n + 1] = w
  BY <1>0, <1>2, <1>3
<1>5. \A i \in 1..n : done[i] \in [key : Key \cup {None}, body : Body]
  BY <1>0, SeqElement
<1>6. /\ call' = [call EXCEPT ![c] = [call[c] EXCEPT !.pc = "finished", !.answer = n + 1]]
      /\ revision' = IF w.key \in Guarded THEN revision + 1 ELSE revision
  BY <1>4 DEF Execute, w
<1>7. revision <= n + 1 /\ revision \in Nat
  BY <1>0 DEF IInv, RevisionCounts, Body
<1>8. TypeOK'
  <2>1. n + 1 \in 0..MaxDone /\ n + 1 \in 1..MaxDone
    BY <1>0, <1>1, <1>4
  <2>2. [call[c] EXCEPT !.pc = "finished", !.answer = n + 1] \in CallState
    BY <1>2, <2>1 DEF CallState
  <2>3. call' \in [Call -> CallState]
    BY <1>0, <1>6, <2>2
  <2>4. revision' \in Body
    BY <1>0, <1>1, <1>4, <1>6, <1>7 DEF Body
  <2>5. QED
    BY <1>0, <1>3, <1>4, <2>3, <2>4 DEF TypeOK
<1>9. w.key \in Guarded => w.body = revision
  BY DEF Execute, RevisionMatches, w
<1>10. RevisionCounts'
  <2>1. revision' <= Len(done') + 1 /\ Len(done') <= MaxDone
    BY <1>0, <1>1, <1>4, <1>6, <1>7
  <2>2. ASSUME NEW i \in 1..(n + 1), done'[i].key \in Guarded PROVE done'[i].body < revision'
    <3>1. CASE i = n + 1
      BY <1>4, <1>6, <1>7, <1>9, <2>2, <3>1
    <3>2. CASE i \in 1..n
      <4>1. done[i] \in [key : Key \cup {None}, body : Body] /\ done[i].key \in Guarded
        <5>1. done'[i] = done[i] /\ i \in DOMAIN done
          BY <1>4, <3>2
        <5>2. done[i].key \in Guarded
          BY <2>2, <5>1
        <5>3. done[i] \in [key : Key \cup {None}, body : Body]
          BY <1>5, <3>2
        <5>4. QED
          BY <5>2, <5>3
      <4>2. done[i].body \in Nat /\ done[i].body < revision
        BY SMTT(60), <1>4, <3>2, <4>1 DEF IInv, RevisionCounts, Body
      <4>3. revision' \in Nat /\ revision <= revision'
        BY <1>6, <1>7
      <4>4. QED
        BY <1>4, <1>7, <3>2, <4>2, <4>3
    <3>3. QED
      BY <1>4, <3>1, <3>2
  <2>3. QED
    BY <1>4, <2>1, <2>2 DEF RevisionCounts
<1>11. RetriesWriteOnce'
  <2>1. ASSUME NEW i \in 1..n, done[i].key \in Guarded, w.key \in Guarded PROVE done[i].body # w.body
    BY <1>4, <1>7, <1>9, <2>1 DEF IInv, RevisionCounts
  <2>2. QED
    BY <1>4, <2>1 DEF IInv, RetriesWriteOnce
<1>12. \A d \in Call : d # c => call'[d] = call[d]
  BY <1>0, <1>6
<1>13. call'[c].pc = "finished" /\ call'[c].answer = n + 1
       /\ call'[c].key = w.key /\ call'[c].body = w.body
  BY <1>0, <1>2, <1>6 DEF w
<1>14. CallsReport'
  <2>1. ASSUME NEW d \in Call
        PROVE  /\ call'[d].pc = "finished" => Reports(call[d].answer, call[d].key, call[d].body)'
               /\ call'[d].pc = "recorded" =>
                    call'[d].answer = 0 \/ Reports(call[d].answer, call[d].key, call[d].body)'
    <3>1. CASE d = c
      BY <1>4, <1>13, <3>1 DEF Reports, w
    <3>2. CASE d # c
      BY <1>4, <1>12, <3>2 DEF IInv, CallsReport, Reports
    <3>3. QED
      BY <3>1, <3>2
  <2>2. QED
    BY <2>1 DEF CallsReport
<1>15. RecordedHasRow'
  BY <1>3, <1>12, <1>13 DEF IInv, RecordedHasRow
<1>16. RowsReport' /\ AnswersReport'
  BY <1>3, <1>4 DEF IInv, RowsReport, AnswersReport, Reports
<1>17. ReplaysShowRow' /\ AnsweredIsRecorded'
  BY <1>3 DEF IInv, ReplaysShowRow, AnsweredIsRecorded
<1>18. QED
  BY <1>8, <1>10, <1>11, <1>14, <1>15, <1>16, <1>17 DEF IInv

---------------------------------------------------------------------------
(* Rows.  A row that is there keeps its body and its answer.               *)
RowsKept == \A k \in Key : record[k] # None => /\ record'[k] # None
                                               /\ record'[k].body = record[k].body
                                               /\ record'[k].answer = record[k].answer

LEMMA KeptRows ==
  ASSUME IInv, RowsKept, UNCHANGED <<revision, done, answered>>, unsaved \subseteq unsaved'
  PROVE  RevisionCounts' /\ RetriesWriteOnce' /\ AnswersReport' /\ ReplaysShowRow'
         /\ AnsweredIsRecorded'
<1>1. RevisionCounts' /\ RetriesWriteOnce' /\ AnswersReport'
  BY DEF IInv, RevisionCounts, RetriesWriteOnce, AnswersReport, Reports
<1>2. ReplaysShowRow' /\ AnsweredIsRecorded'
  BY DEF IInv, RowsKept, ReplaysShowRow, AnsweredIsRecorded
<1>3. QED
  BY <1>1, <1>2

LEMMA RecordStep ==
  ASSUME IInv, NEW c \in Call, Record(c) \/ RecordFails(c) \/ Oversized(c)
  PROVE  IInv'
<1>0. /\ TypeOK /\ call \in [Call -> CallState] /\ record \in [Key -> Row \cup {None}]
      /\ unsaved \in SUBSET Key /\ faults \in 0..MaxFaults /\ MaxFaults \in Nat /\ MaxDone \in Nat
  BY MaxFaultsAssumption, MaxDoneAssumption DEF IInv, TypeOK
<1> DEFINE k == call[c].key
           row == [body |-> call[c].body, answer |-> call[c].answer, expired |-> FALSE]
<1>1. call[c] # Idle /\ call[c].pc = "finished" /\ k # None
  BY DEF Record, RecordFails, Oversized, Idle
<1>2. /\ call[c] \in [pc : {"received", "running", "finished", "recorded"},
                      key : Key \cup {None}, body : Body, answer : 0..MaxDone]
      /\ k \in Key
  BY <1>0, <1>1, BusyCall
<1>3. Reports(call[c].answer, k, call[c].body)
  BY <1>1 DEF IInv, CallsReport
<1>4. call[c].answer \in 1..MaxDone
  BY <1>0, <1>2, <1>3 DEF Reports, TypeOK
<1>5. row \in Row /\ row # None
  <2>1. row \in Row
    BY <1>2, <1>4 DEF Row
  <2> HIDE DEF row
  <2>2. QED
    BY <2>1, NoneAssumption
<1> DEFINE kept == /\ UNCHANGED <<revision, done, answered>>
                   /\ \A d \in Call : d # c => call'[d] = call[d]
                   /\ \A d \in Key : d # k => record'[d] = record[d]
<1>6. kept
  BY <1>0, <1>2 DEF Record, RecordFails, Oversized, InsertRecord
<1>7. CASE Record(c)
  <2>1. /\ record' = IF record[k] = None THEN [record EXCEPT ![k] = row] ELSE record
        /\ call' = [call EXCEPT ![c] = [call[c] EXCEPT !.pc = "recorded"]]
        /\ UNCHANGED <<unsaved, faults>>
    BY <1>7 DEF Record, InsertRecord
  <2> HIDE DEF row
  <2>2. record'[k] # None
    BY <1>0, <1>2, <1>5, <2>1
  <2>3. [call[c] EXCEPT !.pc = "recorded"] \in CallState
    BY <1>2 DEF CallState
  <2>4. TypeOK'
    BY <1>0, <1>2, <1>5, <1>6, <2>1, <2>3 DEF TypeOK
  <2>5. RowsKept
    BY <1>0, <1>2, <1>6, <2>1 DEF RowsKept
  <2>6. call'[c] = [call[c] EXCEPT !.pc = "recorded"]
    BY <1>0, <2>1
  <2>7. CallsReport'
    <3>1. Reports(call'[c].answer, call'[c].key, call'[c].body)
      BY <1>2, <1>3, <2>6
    <3>2. QED
      BY <1>6, <3>1 DEF IInv, CallsReport, Reports
  <2>8. RecordedHasRow'
    BY <1>2, <1>6, <2>1, <2>2, <2>5, <2>6 DEF IInv, RecordedHasRow, RowsKept
  <2>9. RowsReport'
    <3>1. record'[k] = row \/ record'[k] = record[k]
      BY <1>0, <1>2, <2>1
    <3>2. Reports(row.answer, k, row.body)
      BY <1>3 DEF row
    <3>3. QED
      BY <1>6, <3>1, <3>2 DEF IInv, RowsReport, Reports
  <2>10. QED
    BY <1>6, <2>1, <2>4, <2>5, <2>7, <2>8, <2>9, KeptRows DEF IInv
<1>8. CASE RecordFails(c) \/ Oversized(c)
  <2>1. record' = record /\ unsaved' = unsaved \cup {k} /\ faults' \in 0..MaxFaults
    BY <1>0, <1>8 DEF RecordFails, Oversized
  <2>2. PICK n \in {0, call[c].answer} :
          call' = [call EXCEPT ![c] = [call[c] EXCEPT !.pc = "recorded", !.answer = n]]
    <3>1. CASE RecordFails(c)
      <4>1. [call[c] EXCEPT !.pc = "recorded", !.answer = call[c].answer]
              = [call[c] EXCEPT !.pc = "recorded"]
        BY <1>2
      <4>2. QED
        BY <3>1, <4>1 DEF RecordFails
    <3>2. CASE Oversized(c)
      BY <3>2 DEF Oversized
    <3>3. QED
      BY <1>8, <3>1, <3>2
  <2>3. [call[c] EXCEPT !.pc = "recorded", !.answer = n] \in CallState
    <3>1. n \in 0..MaxDone
      BY <1>0, <1>2
    <3>2. QED
      BY <1>2, <3>1 DEF CallState
  <2>4. TypeOK'
    BY <1>0, <1>2, <1>6, <2>1, <2>2, <2>3 DEF TypeOK
  <2>5. RowsKept
    BY <2>1 DEF RowsKept
  <2>6. call'[c] = [call[c] EXCEPT !.pc = "recorded", !.answer = n]
    BY <1>0, <2>2
  <2>7. CallsReport'
    <3>1. call'[c].answer = 0 \/ Reports(call'[c].answer, call'[c].key, call'[c].body)
      BY <1>2, <1>3, <2>6
    <3>2. call'[c].pc = "recorded"
      BY <1>2, <2>6
    <3>3. QED
      BY <1>6, <3>1, <3>2 DEF IInv, CallsReport, Reports
  <2>8. RecordedHasRow'
    BY ZenonT(60), <1>2, <1>6, <2>1, <2>6 DEF IInv, RecordedHasRow
  <2>9. RowsReport'
    BY <1>6, <2>1 DEF IInv, RowsReport, Reports
  <2>10. QED
    BY <1>6, <2>1, <2>4, <2>5, <2>7, <2>8, <2>9, KeptRows DEF IInv
<1>9. QED
  BY <1>7, <1>8

LEMMA ExpireStep ==
  ASSUME IInv, NEW k \in Key, Expire(k)
  PROVE  IInv'
<1>0. TypeOK /\ record \in [Key -> Row \cup {None}]
  BY DEF IInv, TypeOK
<1>1. record[k] \in Row
  BY <1>0 DEF Expire, Fresh, TypeOK
<1> DEFINE r == [record[k] EXCEPT !.expired = TRUE]
<1>2. r \in Row /\ r # None /\ r.body = record[k].body /\ r.answer = record[k].answer
  BY <1>1, NoneAssumption DEF Row
<1>3. /\ record' = [record EXCEPT ![k] = r]
      /\ UNCHANGED <<revision, call, done, answered, unsaved, faults>>
  BY DEF Expire
<1> HIDE DEF r
<1>4. TypeOK'
  BY <1>0, <1>2, <1>3 DEF TypeOK
<1>5. RowsKept
  BY <1>0, <1>2, <1>3 DEF RowsKept
<1>6. CallsReport' /\ RecordedHasRow'
  BY <1>3, <1>5 DEF IInv, CallsReport, RecordedHasRow, Reports, RowsKept
<1>7. RowsReport'
  <2>1. \A j \in Key : record'[j] # None =>
          record[j] # None /\ record'[j].body = record[j].body /\ record'[j].answer = record[j].answer
    BY <1>0, <1>1, <1>2, <1>3, NoneAssumption
  <2>2. QED
    BY <1>3, <2>1 DEF IInv, RowsReport, Reports
<1>8. QED
  BY <1>3, <1>4, <1>5, <1>6, <1>7, KeptRows DEF IInv

---------------------------------------------------------------------------
LEMMA StepIInv == IInv /\ [Next]_vars => IInv'
<1> SUFFICES ASSUME IInv, [Next]_vars PROVE IInv'
  OBVIOUS
<1>1. ASSUME NEW c \in Call, Step(c) PROVE IInv'
  BY <1>1, QuietSteps, AnswerStep, ExecuteStep, RecordStep DEF Step
<1>2. ASSUME NEW k \in Key, Expire(k) PROVE IInv'
  BY <1>2, ExpireStep
<1>3. CASE UNCHANGED vars
  BY <1>3 DEF vars, IInv, TypeOK, RevisionCounts, CallsReport, RowsReport, AnswersReport,
     ReplaysShowRow, RecordedHasRow, RetriesWriteOnce, AnsweredIsRecorded, Reports
<1>4. QED
  BY <1>1, <1>2, <1>3 DEF Next

LEMMA Invariance == Spec => []IInv
BY InitIInv, StepIInv, PTL DEF Spec

(* idempotency_layer: whichever of several attempts with a key answered,   *)
(* the answer is of the client's own key and body.                         *)
THEOREM AnswersReportOwnWrite == Spec => []AnswersAreTheirs
<1>1. IInv => AnswersAreTheirs
  BY DEF IInv, AnswersReport, Reports, AnswersAreTheirs
<1>2. QED
  BY <1>1, Invariance, PTL

(* ON CONFLICT DO NOTHING: all replays of a key report one write.          *)
THEOREM FirstWriterWins == Spec => []ReplaysAgree
<1>1. IInv => ReplaysAgree
  BY DEF IInv, ReplaysShowRow, ReplaysAgree
<1>2. QED
  BY <1>1, Invariance, PTL

(* The layer and the draft's compare-and-set together: no revision is      *)
(* replaced twice, however often a request is sent.                        *)
THEOREM RetriesAreSafe == Spec => []RetriesWriteOnce
BY Invariance, PTL DEF IInv

(* The record is written before the answer goes out.                       *)
THEOREM AnswersAreRecorded == Spec => []AnsweredIsRecorded
BY Invariance, PTL DEF IInv

(* Every reachable state is well typed; in particular no row holds the     *)
(* empty body of an oversized answer.                                      *)
THEOREM TypeCorrect == Spec => []TypeOK
BY Invariance, PTL DEF IInv

===========================================================================
