---------------------------- MODULE Idempotency -----------------------------
(***************************************************************************)
(* The Idempotency middleware and its table idempotency_keys.  A request   *)
(* claims its key by inserting a pending record, runs the handler, and     *)
(* stores the captured response; a later request with the key is answered  *)
(* from the record.  Each SQL statement is one action.  Handlers may       *)
(* commit and lose the answer, statements may fail with or without effect, *)
(* and the server may stop between any two statements.                     *)
(*                                                                         *)
(* A key stands for the table's primary key (key, user_id, method, path),  *)
(* a body for the hash of a request body.  Times are ticks of one clock.   *)
(***************************************************************************)
EXTENDS Integers, Sequences

CONSTANTS
    Proc,         \* requests in flight at the same time
    Key,          \* keys
    Body,         \* request bodies
    Lease,        \* how long a pending record answers "in progress" (30 seconds)
    Retention,    \* how long a completed record is kept (24 hours)
    NoRecord,     \* the value of a key without a row
    MaxTime,      \* bound: the last tick of the clock
    MaxRequests   \* bound: how many requests arrive in a behaviour

ASSUME TimesAssumption ==
    /\ Lease \in Nat /\ Retention \in Nat
    /\ MaxTime \in Nat /\ MaxRequests \in Nat

\* Classes of status codes of a handler: 2xx, 4xx, 499 (request_canceled) and 5xx.
Outcome == {"created", "refused", "canceled", "failed"}

Record ==
    [id : Nat, body : Body, status : {"pending", "completed"}, response : Outcome \union {"none"},
     lockedUntil : Nat, expiresAt : Nat]

Effect == [key : Key, body : Body, id : Nat, at : Nat, expiresAt : Nat]

Request == [id : Nat, key : Key, body : Body, at : Nat, outcome : Outcome \union {"none"}]

ASSUME NoRecordAssumption == NoRecord \notin Record \union Request

ReplyKind == {"none", "lost", "check_failed", "key_conflict", "key_reused", "outcome_unknown",
              "in_progress", "replayed", "answered", "completion_unknown", "completion_failed"}

VARIABLES
    records,    \* table idempotency_keys
    effects,    \* mutations that handlers committed, in commit order
    completed,  \* ids of the records whose response was stored
    pc,         \* the stage of a request
    req,        \* the request: record id, key, body, time of arrival, the handler's response
    reply,      \* the last answer: its kind, the status class and the execution it comes from
    clock,
    arrived     \* requests so far

vars == <<records, effects, completed, pc, req, reply, clock, arrived>>
stored == <<records, effects, completed, clock, arrived>>

-----------------------------------------------------------------------------
NoReply == [kind |-> "none", response |-> "none", of |-> 0, body |-> NoRecord]

\* The answer p gets: its kind, the class of a handler's status code, and whose response it is.
Return(p, kind, response, of) ==
    /\ pc' = [pc EXCEPT ![p] = "idle"]
    /\ req' = [req EXCEPT ![p] = NoRecord]
    /\ reply' = [reply EXCEPT ![p] = [kind |-> kind, response |-> response, of |-> of,
                                      body |-> req[p].body]]

Goto(p, stage) == pc' = [pc EXCEPT ![p] = stage] /\ UNCHANGED <<req, reply>>

Pending(r) == r.status = "pending"

Expired(r) == clock >= r.expiresAt

-----------------------------------------------------------------------------
\* The middleware reads the body and builds the record it will try to insert.
Arrive(p, k, b) ==
    /\ pc[p] = "idle" /\ arrived < MaxRequests
    /\ req' = [req EXCEPT ![p] = [id |-> arrived + 1, key |-> k, body |-> b, at |-> clock,
                                  outcome |-> "none"]]
    /\ arrived' = arrived + 1
    /\ pc' = [pc EXCEPT ![p] = "purge"]
    /\ reply' = [reply EXCEPT ![p] = NoReply]
    /\ UNCHANGED <<records, effects, completed, clock>>

\* Mutant: pending rows are cleaned up too.
PurgeableAny(r) == r # NoRecord /\ Expired(r)

\* Rows the DELETE of CreatePending removes.
Purgeable(r) == r # NoRecord /\ ~Pending(r) /\ Expired(r)

\* DELETE FROM idempotency_keys WHERE status = 'completed' AND expires_at <= now().
Purge(p) ==
    /\ pc[p] = "purge"
    /\ records' = [k \in Key |-> IF Purgeable(records[k]) THEN NoRecord ELSE records[k]]
    /\ Goto(p, "insert")
    /\ UNCHANGED <<effects, completed, clock, arrived>>

NewRecord(p) ==
    [id |-> req[p].id, body |-> req[p].body, status |-> "pending", response |-> "none",
     lockedUntil |-> req[p].at + Lease, expiresAt |-> req[p].at + Retention]

\* Mutant: a pending record whose lease elapsed is taken over.
InsertTakesOver(p) ==
    /\ pc[p] = "insert"
    /\ \/ records[req[p].key] = NoRecord
       \/ /\ records[req[p].key] # NoRecord /\ Pending(records[req[p].key])
          /\ clock >= records[req[p].key].lockedUntil
    /\ records' = [records EXCEPT ![req[p].key] = NewRecord(p)]
    /\ Goto(p, "run")
    /\ UNCHANGED <<effects, completed, clock, arrived>>

\* INSERT ... ON CONFLICT DO NOTHING: one row affected means the key is ours.
InsertPending(p) ==
    /\ pc[p] = "insert"
    /\ records[req[p].key] = NoRecord
    /\ records' = [records EXCEPT ![req[p].key] = NewRecord(p)]
    /\ Goto(p, "run")
    /\ UNCHANGED <<effects, completed, clock, arrived>>

\* Mutant: the request waits for the key to become free.
InsertWaits(p) ==
    /\ pc[p] = "insert"
    /\ records[req[p].key] # NoRecord
    /\ Goto(p, "purge")
    /\ UNCHANGED stored

InsertConflicts(p) ==
    /\ pc[p] = "insert"
    /\ records[req[p].key] # NoRecord
    /\ Goto(p, "lookup")
    /\ UNCHANGED stored

\* CreatePending or Get returns an error; an INSERT that reports one may have taken effect.
CheckFails(p) ==
    /\ pc[p] \in {"purge", "insert", "lookup"}
    /\ \/ UNCHANGED records
       \/ /\ pc[p] = "insert" /\ records[req[p].key] = NoRecord
          /\ records' = [records EXCEPT ![req[p].key] = NewRecord(p)]
    /\ Return(p, "check_failed", "none", 0)
    /\ UNCHANGED <<effects, completed, clock, arrived>>

\* What Get finds: it skips expired rows.
Found(p) == records[req[p].key] # NoRecord /\ ~Expired(records[req[p].key])

LookupMissing(p) ==
    /\ pc[p] = "lookup" /\ ~Found(p)
    /\ Return(p, "key_conflict", "none", 0)
    /\ UNCHANGED stored

\* Mutant: the request hash is not compared.
SameBodyAssumed(p) == TRUE

\* existing.RequestHash = requestHash
SameBody(p) == records[req[p].key].body = req[p].body

LookupReused(p) ==
    /\ pc[p] = "lookup" /\ Found(p) /\ ~SameBody(p)
    /\ Return(p, "key_reused", "none", 0)
    /\ UNCHANGED stored

\* A pending record: its lease tells a running execution from one of unknown outcome.
LookupPending(p) ==
    LET r == records[req[p].key]
    IN /\ pc[p] = "lookup" /\ Found(p) /\ SameBody(p) /\ Pending(r)
       /\ Return(p, IF clock >= r.lockedUntil THEN "outcome_unknown" ELSE "in_progress",
                 "none", r.id)
       /\ UNCHANGED stored

Replay(p) ==
    LET r == records[req[p].key]
    IN /\ pc[p] = "lookup" /\ Found(p) /\ SameBody(p) /\ ~Pending(r)
       /\ Return(p, "replayed", r.response, r.id)
       /\ UNCHANGED stored

\* The handler commits its mutation; it does so only when it succeeds, or when the answer to
\* its COMMIT is lost, by a cancelled request (499) or any other error (5xx).
Commit(p, o) ==
    /\ pc[p] = "run" /\ o \in {"created", "canceled", "failed"}
    /\ effects' = Append(effects, [key |-> req[p].key, body |-> req[p].body, id |-> req[p].id,
                                   at |-> clock, expiresAt |-> req[p].at + Retention])
    /\ req' = [req EXCEPT ![p].outcome = o]
    /\ pc' = [pc EXCEPT ![p] = "complete"]
    /\ UNCHANGED <<records, completed, reply, clock, arrived>>

\* The handler returns an error and has written nothing.
Decline(p, o) ==
    /\ pc[p] = "run" /\ o \in {"refused", "canceled", "failed"}
    /\ req' = [req EXCEPT ![p].outcome = o]
    /\ pc' = [pc EXCEPT ![p] = "complete"]
    /\ UNCHANGED <<records, effects, completed, reply, clock, arrived>>

\* A response of 500 or above is passed on and the record stays pending.
PassFailure(p) ==
    /\ pc[p] = "complete" /\ req[p].outcome = "failed"
    /\ Return(p, "answered", "failed", req[p].id)
    /\ UNCHANGED stored

\* The row Complete's UPDATE matches.
Claimed(p) ==
    /\ records[req[p].key] # NoRecord
    /\ records[req[p].key].id = req[p].id
    /\ Pending(records[req[p].key])

StoreResponse(p) ==
    /\ records' = [records EXCEPT ![req[p].key].status = "completed",
                                  ![req[p].key].response = req[p].outcome]
    /\ completed' = completed \union {req[p].id}

Complete(p) ==
    /\ pc[p] = "complete" /\ req[p].outcome # "failed"
    /\ Claimed(p)
    /\ StoreResponse(p)
    /\ Return(p, "answered", req[p].outcome, req[p].id)
    /\ UNCHANGED <<effects, clock, arrived>>

\* Complete reports an error: no matching row, a timeout, or a lost connection.
CompleteFails(p) ==
    /\ pc[p] = "complete" /\ req[p].outcome # "failed"
    /\ \/ UNCHANGED <<records, completed>>
       \/ Claimed(p) /\ StoreResponse(p)
    /\ Return(p, IF req[p].outcome = "created" THEN "completion_unknown" ELSE "completion_failed",
              "none", req[p].id)
    /\ UNCHANGED <<effects, clock, arrived>>

-----------------------------------------------------------------------------
\* The server stops, or the handler panics: nothing more is written for this request.
Crash(p) ==
    /\ pc[p] # "idle"
    /\ Return(p, "lost", "none", 0)
    /\ UNCHANGED stored

Tick ==
    /\ clock < MaxTime
    /\ clock' = clock + 1
    /\ UNCHANGED <<records, effects, completed, pc, req, reply, arrived>>

Init ==
    /\ records = [k \in Key |-> NoRecord]
    /\ effects = <<>>
    /\ completed = {}
    /\ pc = [p \in Proc |-> "idle"]
    /\ req = [p \in Proc |-> NoRecord]
    /\ reply = [p \in Proc |-> NoReply]
    /\ clock = 0
    /\ arrived = 0

Step(p) ==
    \/ Purge(p)
    \/ InsertPending(p)
    \/ InsertConflicts(p)
    \/ LookupMissing(p)
    \/ LookupReused(p)
    \/ LookupPending(p)
    \/ Replay(p)
    \/ CheckFails(p)
    \/ \E o \in Outcome : Commit(p, o) \/ Decline(p, o)
    \/ PassFailure(p)
    \/ Complete(p)
    \/ CompleteFails(p)

Next ==
    \/ \E p \in Proc :
         \/ \E k \in Key, b \in Body : Arrive(p, k, b)
         \/ Step(p)
         \/ Crash(p)
    \/ Tick

Spec == Init /\ [][Next]_vars

\* Handlers and statements run to their end: every statement has a result or an error.
FairSpec == Spec /\ \A p \in Proc : WF_vars(Step(p))

-----------------------------------------------------------------------------
\* The table, the committed mutations and the requests have their columns' types.
TypeOK ==
    /\ records \in [Key -> Record \union {NoRecord}]
    /\ effects \in Seq(Effect)
    /\ completed \subseteq Nat
    /\ pc \in [Proc -> {"idle", "purge", "insert", "lookup", "run", "complete"}]
    /\ req \in [Proc -> Request \union {NoRecord}]
    /\ \A p \in Proc : pc[p] # "idle" => req[p] # NoRecord
    /\ reply \in [Proc -> [kind : ReplyKind, response : Outcome \union {"none"}, of : Nat,
                         body : Body \union {NoRecord}]]
    /\ clock \in Nat /\ arrived \in Nat

\* A mutation is repeated only after its first execution stored a response and that
\* response's retention ran out: no interleaving of retries, no lost answer and no crash
\* lets a key that is claimed or uncertain run again.
AtMostOnce ==
    \A i, j \in DOMAIN effects :
        (i < j /\ effects[i].key = effects[j].key) =>
            /\ effects[i].id # effects[j].id
            /\ effects[i].id \in completed
            /\ effects[j].at >= effects[i].expiresAt

Committed(i, b) == \E n \in DOMAIN effects : effects[n].id = i /\ effects[n].body = b

\* Every answer that says the operation succeeded, fresh or replayed, is about a mutation
\* that was committed for the body the caller sent; one that says it was refused is about an
\* execution that changed nothing; and a replay repeats what the first caller was told.
RepliesAreTrue ==
    \A p \in Proc :
        /\ (reply[p].response = "created" \/ reply[p].kind = "completion_unknown") =>
              Committed(reply[p].of, reply[p].body)
        /\ reply[p].response = "refused" =>
              \A n \in DOMAIN effects : effects[n].id # reply[p].of
        /\ \A q \in Proc :
              (reply[p].kind = "answered" /\ reply[q].kind = "replayed"
                 /\ reply[p].of = reply[q].of) => reply[p].response = reply[q].response

\* An execution that has claimed its key and not finished keeps its claim: nobody purges,
\* takes over or answers for its record, however long the handler runs.
ClaimIsKept ==
    \A p \in Proc :
        pc[p] \in {"run", "complete"} =>
            /\ Claimed(p)
            /\ \A q \in Proc \ {p} :
                 pc[q] \in {"run", "complete"} => req[q].key # req[p].key

\* Every request that is not lost in a crash is answered.
RequestsAnswered == \A p \in Proc : pc[p] # "idle" ~> pc[p] = "idle"

-----------------------------------------------------------------------------
(* The inductive invariant behind the theorems of IdempotencyProofs. *)

\* Ids are fresh: every request in flight has its own, and only an execution uses its id.
IdsOK ==
    /\ \A p \in Proc : pc[p] # "idle" => req[p].id <= arrived
    /\ \A p, q \in Proc :
         (p # q /\ pc[p] # "idle" /\ pc[q] # "idle") => req[p].id # req[q].id
    /\ \A k \in Key : records[k] # NoRecord => records[k].id <= arrived
    /\ \A n \in DOMAIN effects : effects[n].id <= arrived
    /\ \A p \in Proc :
         pc[p] \in {"purge", "insert", "lookup"} =>
            \A k \in Key : records[k] # NoRecord => records[k].id # req[p].id
    /\ \A p \in Proc :
         pc[p] \in {"purge", "insert", "lookup", "run"} =>
            \A n \in DOMAIN effects : effects[n].id # req[p].id

\* An execution owns the pending record of its key.
ClaimsOK ==
    \A p \in Proc :
        pc[p] \in {"run", "complete"} =>
            Claimed(p) /\ records[req[p].key].expiresAt = req[p].at + Retention

\* A committed mutation is protected by its own record, or that record was completed, kept
\* for its retention and purged.
EffectsOK ==
    \A n \in DOMAIN effects :
        LET e == effects[n]
        IN \/ /\ records[e.key] # NoRecord
              /\ records[e.key].id = e.id /\ records[e.key].expiresAt = e.expiresAt
              /\ ~Pending(records[e.key]) => e.id \in completed
           \/ e.id \in completed /\ clock >= e.expiresAt

IdempotencyInv == TypeOK /\ IdsOK /\ ClaimsOK /\ EffectsOK /\ AtMostOnce

\* The execution with this id is over.
Ended(i) == i <= arrived /\ \A q \in Proc : pc[q] # "idle" => req[q].id # i

\* The response is true of execution i for a caller who sent body b.
TrueOf(response, i, b) ==
    /\ response = "created" => Committed(i, b)
    /\ response = "refused" => \A n \in DOMAIN effects : effects[n].id # i

Completed(k) == records[k] # NoRecord /\ ~Pending(records[k])

\* What an execution will answer is true, and it holds a record of its own body.
OutcomesOK ==
    \A p \in Proc :
        /\ pc[p] \in {"run", "complete"} => records[req[p].key].body = req[p].body
        /\ pc[p] = "complete" => TrueOf(req[p].outcome, req[p].id, req[p].body)

\* A stored response is true of an execution that is over.
ResponsesOK ==
    \A k \in Key : Completed(k) =>
        /\ Ended(records[k].id)
        /\ TrueOf(records[k].response, records[k].id, records[k].body)

\* So is an answer, and the record of an answered execution holds the answer.
AnswersOK ==
    \A p \in Proc :
        /\ TrueOf(reply[p].response, reply[p].of, reply[p].body)
        /\ reply[p].kind = "completion_unknown" => Committed(reply[p].of, reply[p].body)
        /\ reply[p].kind \in {"answered", "replayed"} => Ended(reply[p].of)
        /\ reply[p].kind \notin {"answered", "replayed"} => reply[p].response = "none"
        /\ reply[p].kind = "answered" =>
             \A k \in Key : Completed(k) /\ records[k].id = reply[p].of =>
                records[k].response = reply[p].response

RepliesInv == OutcomesOK /\ ResponsesOK /\ AnswersOK /\ RepliesAreTrue

-----------------------------------------------------------------------------
(* What the documentation says and the code does not do; see the README. *)

\* docs/architecture/idempotency.md: "Pending records are retained until an operator
\* reconciles the uncertain operation": an operation whose mutation was committed while its
\* handler reported an error is never filed as completed.
UncertainStaysPending ==
    \A k \in Key :
        LET r == records[k]
        IN (r # NoRecord /\ r.status = "completed" /\ r.response # "created") =>
              \A n \in DOMAIN effects : effects[n].id # r.id
=============================================================================
