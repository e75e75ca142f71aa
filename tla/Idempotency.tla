---------------------------- MODULE Idempotency ----------------------------
(***************************************************************************)
(* The Idempotency-Key layer in front of every workspace route, the table  *)
(* `idempotency_records`, and the handlers behind it: those that guard     *)
(* their write with the draft revision in the request body, and those that *)
(* guard it with nothing.                                                  *)
(*                                                                         *)
(* A client may send a request again at any time, also while the first     *)
(* attempt still runs; an attempt may die at any point with its connection *)
(* or its process, and what it wrote stays.  A Key stands for the whole    *)
(* primary key (workspace, user, method, path, header), so it also         *)
(* determines the endpoint.                                                *)
(***************************************************************************)
EXTENDS Naturals, Sequences

CONSTANTS Key,
          Guarded,    \* the keys sent to endpoints that compare a revision
          Call,       \* attempts in flight
          None,
          MaxDone,    \* bound on the writes of the handlers
          MaxFaults   \* bound on lost attempts and failed INSERTs

ASSUME GuardedAssumption == Guarded \subseteq Key
ASSUME MaxDoneAssumption == MaxDone \in Nat
ASSUME MaxFaultsAssumption == MaxFaults \in Nat

VARIABLES record,    \* [Key -> Row \cup {None}]: idempotency_records
          revision,  \* the draft row's revision
          call,      \* [Call -> CallState]
          done,      \* history: the writes of the handlers, in their order
          answered,  \* history: the successes that clients received
          unsaved,   \* history: keys of answers that were not to be recorded
          faults

vars == <<record, revision, call, done, answered, unsaved, faults>>

(* A request body is told apart by the revision it was written for.  An    *)
(* answer names the write it reports by its position in done; 0 is the     *)
(* empty body sent in place of an oversized one.                           *)
Body == 1..(MaxDone + 1)
Row == [body : Body, answer : 1..MaxDone, expired : BOOLEAN]

ASSUME NoneAssumption == None \notin Key /\ None \notin Row

Idle == [pc |-> "idle"]
CallState == {Idle} \cup [pc : {"received", "running", "finished", "recorded"},
                          key : Key \cup {None}, body : Body, answer : 0..MaxDone]

TypeOK == /\ record \in [Key -> Row \cup {None}]
          /\ revision \in Body
          /\ call \in [Call -> CallState]
          /\ done \in Seq([key : Key \cup {None}, body : Body])
          /\ answered \in SUBSET [key : Key \cup {None}, body : Body, answer : 0..MaxDone,
                                  replay : BOOLEAN]
          /\ unsaved \in SUBSET Key
          /\ faults \in 0..MaxFaults

Init == /\ record = [k \in Key |-> None]
        /\ revision = 1
        /\ call = [c \in Call |-> Idle]
        /\ done = << >>
        /\ answered = {}
        /\ unsaved = {}
        /\ faults = 0

---------------------------------------------------------------------------
(* A client sends a request, for the first time or again.  Its body names  *)
(* a revision the client has read.  Key None: no header, an empty or       *)
(* overlong one (extract_key), or an API-key principal.                    *)
Send(c, k, b) ==
  /\ call[c] = Idle
  /\ b <= revision
  /\ call' = [call EXCEPT ![c] = [pc |-> "received", key |-> k, body |-> b, answer |-> 0]]
  /\ UNCHANGED <<record, revision, done, answered, unsaved, faults>>

(* find_idempotency_record: expires_at > now().                            *)
Fresh(k) == IF k = None THEN FALSE ELSE record[k] # None /\ ~record[k].expired

(* The layer lets the request through to its handler.                      *)
Bypass(c) ==
  /\ call[c].pc = "received"
  /\ ~Fresh(call[c].key)
  /\ call' = [call EXCEPT ![c].pc = "running"]
  /\ UNCHANGED <<record, revision, done, answered, unsaved, faults>>

(* idempotency_key_reused: a recorded key with another body.               *)
RefuseReuse(c) ==
  /\ call[c].pc = "received"
  /\ Fresh(call[c].key) /\ record[call[c].key].body # call[c].body
  /\ call' = [call EXCEPT ![c] = Idle]
  /\ UNCHANGED <<record, revision, done, answered, unsaved, faults>>

(* Mutant: the request hash is not compared.                               *)
ReplayAnyBody(c) ==
  /\ call[c].pc = "received"
  /\ Fresh(call[c].key)
  /\ answered' = answered \cup {[key |-> call[c].key, body |-> call[c].body,
                                 answer |-> record[call[c].key].answer, replay |-> TRUE]}
  /\ call' = [call EXCEPT ![c] = Idle]
  /\ UNCHANGED <<record, revision, done, unsaved, faults>>

(* replay.                                                                 *)
Replay(c) ==
  /\ call[c].pc = "received"
  /\ Fresh(call[c].key) /\ record[call[c].key].body = call[c].body
  /\ answered' = answered \cup {[key |-> call[c].key, body |-> call[c].body,
                                 answer |-> record[call[c].key].answer, replay |-> TRUE]}
  /\ call' = [call EXCEPT ![c] = Idle]
  /\ UNCHANGED <<record, revision, done, unsaved, faults>>

(* Mutant: the WHERE clause forgets the revision.                          *)
RevisionIgnored(c) == call[c].pc = "running"

(* The handler's UPDATE matches no row when the revision moved on.         *)
RevisionMatches(c) == call[c].key \in Guarded => call[c].body = revision

(* The handler writes, and a guarded write moves the revision.             *)
Execute(c) ==
  /\ call[c].pc = "running"
  /\ RevisionMatches(c)
  /\ Len(done) < MaxDone
  /\ done' = Append(done, [key |-> call[c].key, body |-> call[c].body])
  /\ revision' = IF call[c].key \in Guarded THEN revision + 1 ELSE revision
  /\ call' = [call EXCEPT ![c].pc = "finished", ![c].answer = Len(done')]
  /\ UNCHANGED <<record, answered, unsaved, faults>>

(* A 4xx or 5xx answer is not recorded, "caller may retry".                *)
Fail(c) ==
  /\ call[c].pc = "running"
  /\ ~RevisionMatches(c)
  /\ call' = [call EXCEPT ![c] = Idle]
  /\ UNCHANGED <<record, revision, done, answered, unsaved, faults>>

(* Mutant: the INSERT replaces what is there.                              *)
InsertUpserts(k, row) == [record EXCEPT ![k] = row]

(* create_idempotency_record: ON CONFLICT DO NOTHING.  The conflicting row *)
(* may be an expired one.                                                  *)
InsertRecord(k, row) ==
  IF record[k] = None THEN [record EXCEPT ![k] = row] ELSE record

(* The response is recorded before it is sent on.                          *)
Record(c) ==
  /\ call[c].pc = "finished" /\ call[c].key # None
  /\ record' = InsertRecord(call[c].key, [body |-> call[c].body, answer |-> call[c].answer,
                                          expired |-> FALSE])
  /\ call' = [call EXCEPT ![c].pc = "recorded"]
  /\ UNCHANGED <<revision, done, answered, unsaved, faults>>

(* A failed INSERT is only logged.                                         *)
RecordFails(c) ==
  /\ call[c].pc = "finished" /\ call[c].key # None
  /\ faults < MaxFaults
  /\ faults' = faults + 1
  /\ unsaved' = unsaved \cup {call[c].key}
  /\ call' = [call EXCEPT ![c].pc = "recorded"]
  /\ UNCHANGED <<record, revision, done, answered>>

(* Mutant: an oversized response is recorded with its empty body.          *)
OversizedRecorded(c) ==
  /\ call[c].pc = "finished" /\ call[c].key # None
  /\ call' = [call EXCEPT ![c].answer = 0]
  /\ UNCHANGED <<record, revision, done, answered, unsaved, faults>>

(* A response over MAX_BUFFERED_RESPONSE_BYTES: its status goes out with   *)
(* an empty body, and nothing is recorded.                                 *)
Oversized(c) ==
  /\ call[c].pc = "finished" /\ call[c].key # None
  /\ unsaved' = unsaved \cup {call[c].key}
  /\ call' = [call EXCEPT ![c].pc = "recorded", ![c].answer = 0]
  /\ UNCHANGED <<record, revision, done, answered, faults>>

(* Mutant: the response goes out before it is recorded.                    *)
AnswerEarly(c) ==
  /\ call[c].pc \in {"finished", "recorded"}
  /\ answered' = answered \cup {[key |-> call[c].key, body |-> call[c].body,
                                 answer |-> call[c].answer, replay |-> FALSE]}
  /\ call' = [call EXCEPT ![c] = Idle]
  /\ UNCHANGED <<record, revision, done, unsaved, faults>>

Answer(c) ==
  /\ call[c].pc \in {"finished", "recorded"}
  /\ call[c].pc = "finished" => call[c].key = None
  /\ answered' = answered \cup {[key |-> call[c].key, body |-> call[c].body,
                                 answer |-> call[c].answer, replay |-> FALSE]}
  /\ call' = [call EXCEPT ![c] = Idle]
  /\ UNCHANGED <<record, revision, done, unsaved, faults>>

(* The connection or the process dies, and the handler's future with it;   *)
(* or a statement fails and the answer is an error.                        *)
Die(c) ==
  /\ call[c] # Idle
  /\ faults < MaxFaults
  /\ faults' = faults + 1
  /\ call' = [call EXCEPT ![c] = Idle]
  /\ UNCHANGED <<record, revision, done, answered, unsaved>>

(* REPLAY_TTL passes.  No task calls delete_expired_idempotency_records:   *)
(* the row stays.                                                          *)
Expire(k) ==
  /\ Fresh(k)
  /\ record' = [record EXCEPT ![k].expired = TRUE]
  /\ UNCHANGED <<revision, call, done, answered, unsaved, faults>>

Step(c) == \/ \E k \in Key \cup {None}, b \in Body : Send(c, k, b)
           \/ Bypass(c) \/ RefuseReuse(c) \/ Replay(c)
           \/ Execute(c) \/ Fail(c)
           \/ Record(c) \/ RecordFails(c) \/ Oversized(c) \/ Answer(c) \/ Die(c)

Next == (\E c \in Call : Step(c)) \/ (\E k \in Key : Expire(k))

Spec == Init /\ [][Next]_vars

---------------------------------------------------------------------------
(* A success a client receives, live or replayed, reports a write made for *)
(* its own key and body, whichever of several attempts made it.            *)
AnswersAreTheirs ==
  \A a \in answered : a.answer # 0 => done[a.answer] = [key |-> a.key, body |-> a.body]

(* First writer wins: however many attempts raced, all replays of a key    *)
(* report one and the same write, before and after the record expires.     *)
ReplaysAgree ==
  \A a, b \in answered : (a.replay /\ b.replay /\ a.key = b.key) => a.answer = b.answer

(* "caller may retry an errored request", lose the answer, or let the      *)
(* record expire: no revision of a draft is replaced by two writes.  The   *)
(* layer alone does not give this (two attempts can both find no record);  *)
(* together with the handler's compare-and-set it holds.                   *)
RetriesWriteOnce ==
  \A i, j \in DOMAIN done :
    (done[i].key \in Guarded /\ done[j].key \in Guarded /\ done[i].body = done[j].body) => i = j

(* A client that has its answer finds the record when it sends again:      *)
(* recording comes first, unless it failed or the answer was oversized.    *)
AnsweredIsRecorded ==
  \A a \in answered : a.key \in Key \ unsaved => record[a.key] # None

===========================================================================
