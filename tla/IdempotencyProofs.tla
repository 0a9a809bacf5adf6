------------------------- MODULE IdempotencyProofs --------------------------
(***************************************************************************)
(* IdempotencyInv is an inductive invariant of Idempotency, for any number *)
(* of requests, keys and bodies and any lease and retention; AtMostOnce    *)
(* and ClaimIsKept follow from it. RepliesInv adds what the stored answers *)
(* and the answers on their way say, and RepliesAreTrue follows from it.   *)
(***************************************************************************)
EXTENDS Idempotency, TLAPS

\* A request past its arrival has a record of its own.
LEMMA RequestType ==
    ASSUME TypeOK, NEW p \in Proc, pc[p] # "idle"
    PROVE  req[p] \in Request
BY DEF TypeOK

\* The rows of the table are records, whatever their key.
LEMMA RowType ==
    ASSUME TypeOK, NEW k \in Key, records[k] # NoRecord
    PROVE  records[k] \in Record
BY DEF TypeOK

\* A committed mutation is recorded with its key, its execution and its retention.
LEMMA EffectType ==
    ASSUME TypeOK, NEW n \in DOMAIN effects
    PROVE  /\ effects[n] \in Effect /\ effects[n].key \in Key
           /\ effects[n].id \in Nat /\ effects[n].expiresAt \in Nat
<1>1. effects[n] \in Effect
  BY DEF TypeOK
<1>2. QED
  BY <1>1 DEF Effect

\* An empty table, no requests: the invariant holds initially.
LEMMA InitKeeps ==
    ASSUME Init
    PROVE  IdempotencyInv
<1>1. TypeOK
  BY DEF Init, TypeOK, NoReply, ReplyKind
<1>2. QED
  BY <1>1 DEF Init, IdempotencyInv, IdsOK, ClaimsOK, EffectsOK, AtMostOnce

\* An answer that leaves the stored state alone ends one request and disturbs no other.
LEMMA ReturnKeeps ==
    ASSUME IdempotencyInv, NEW p \in Proc, pc[p] # "idle",
           NEW kind \in ReplyKind, NEW response \in Outcome \union {"none"}, NEW of \in Nat,
           Return(p, kind, response, of), UNCHANGED stored
    PROVE  IdempotencyInv'
<1> USE DEF IdempotencyInv, stored
<1>1. req[p] \in Request
  BY RequestType
<1>2. TypeOK'
  BY <1>1 DEF TypeOK, Return, Request
<1>3. /\ pc'[p] = "idle"
      /\ \A q \in Proc \ {p} : pc'[q] = pc[q] /\ req'[q] = req[q]
  BY DEF TypeOK, Return
<1>4. IdsOK'
  BY <1>3 DEF IdsOK
<1>5. ClaimsOK'
  BY <1>3 DEF ClaimsOK, Claimed, Pending
<1>6. EffectsOK' /\ AtMostOnce'
  BY DEF EffectsOK, AtMostOnce, Pending
<1>7. QED
  BY <1>2, <1>4, <1>5, <1>6

\* A request arrives under an id that no record and no mutation carries.
LEMMA ArriveKeeps ==
    ASSUME IdempotencyInv, NEW p \in Proc, NEW k \in Key, NEW b \in Body, Arrive(p, k, b)
    PROVE  IdempotencyInv'
<1> USE DEF IdempotencyInv, Arrive
<1>1. TypeOK'
  <2>1. [id |-> arrived + 1, key |-> k, body |-> b, at |-> clock, outcome |-> "none"] \in Request
    BY DEF TypeOK, Request
  <2>2. NoReply \in [kind : ReplyKind, response : Outcome \union {"none"}, of : Nat,
                     body : Body \union {NoRecord}]
    BY DEF NoReply, ReplyKind
  <2>3. [id |-> arrived + 1, key |-> k, body |-> b, at |-> clock, outcome |-> "none"] # NoRecord
    BY <2>1, NoRecordAssumption
  <2>4. QED
    BY <2>1, <2>2, <2>3 DEF TypeOK
<1>2. /\ pc'[p] = "purge" /\ req'[p].id = arrived + 1
      /\ \A q \in Proc \ {p} : pc'[q] = pc[q] /\ req'[q] = req[q]
  BY DEF TypeOK
<1>3. arrived \in Nat /\ arrived' = arrived + 1
  BY DEF TypeOK
<1>4. IdsOK'
  <2>1. \A q \in Proc : pc[q] # "idle" => req[q].id \in Nat
    BY RequestType DEF Request
  <2>2. \A x \in Key : records[x] # NoRecord => records[x].id \in Nat
    BY RowType DEF Record
  <2>3. \A n \in DOMAIN effects : effects[n].id \in Nat
    BY EffectType
  <2>4. QED
    BY <1>2, <1>3, <2>1, <2>2, <2>3 DEF IdsOK
<1>5. ClaimsOK'
  BY <1>2 DEF ClaimsOK, Claimed, Pending
<1>6. EffectsOK' /\ AtMostOnce'
  BY DEF EffectsOK, AtMostOnce, Pending
<1>7. QED
  BY <1>1, <1>4, <1>5, <1>6

\* The purge removes completed, expired records only: no claim and no uncertain mutation.
LEMMA PurgeKeeps ==
    ASSUME IdempotencyInv, NEW p \in Proc, Purge(p)
    PROVE  IdempotencyInv'
<1> USE DEF IdempotencyInv, Purge, Goto
<1>1. TypeOK'
  BY DEF TypeOK
<1>2. /\ pc[p] = "purge" /\ pc'[p] = "insert"
      /\ \A q \in Proc \ {p} : pc'[q] = pc[q]
      /\ req' = req
  BY DEF TypeOK
<1>3. \A k \in Key : \/ records'[k] = records[k]
                     \/ /\ records'[k] = NoRecord /\ records[k] # NoRecord
                        /\ ~Pending(records[k]) /\ clock >= records[k].expiresAt
  BY DEF Purgeable, Expired
<1>4. IdsOK'
  BY <1>2, <1>3 DEF IdsOK
<1>5. ClaimsOK'
  <2> SUFFICES ASSUME NEW q \in Proc, pc'[q] \in {"run", "complete"}
               PROVE  Claimed(q)' /\ records'[req'[q].key].expiresAt = req'[q].at + Retention
    BY DEF ClaimsOK
  <2>1. pc[q] \in {"run", "complete"} /\ req[q].key \in Key
    BY <1>2, RequestType DEF Request
  <2>2. records'[req[q].key] = records[req[q].key]
    BY <1>3, <2>1 DEF ClaimsOK, Claimed
  <2>3. QED
    BY <1>2, <2>1, <2>2 DEF ClaimsOK, Claimed, Pending
<1>6. EffectsOK'
  <2> SUFFICES ASSUME NEW n \in DOMAIN effects
               PROVE  LET e == effects[n]
                      IN \/ /\ records'[e.key] # NoRecord
                            /\ records'[e.key].id = e.id /\ records'[e.key].expiresAt = e.expiresAt
                            /\ ~Pending(records'[e.key]) => e.id \in completed
                         \/ e.id \in completed /\ clock >= e.expiresAt
    BY DEF EffectsOK, Pending
  <2>1. effects[n].key \in Key
    BY EffectType
  <2>2. QED
    BY <1>3, <2>1 DEF EffectsOK
<1>7. AtMostOnce'
  BY DEF AtMostOnce
<1>8. QED
  BY <1>1, <1>4, <1>5, <1>6, <1>7

\* A claim is inserted only for a free key, so it displaces no record that an execution or a
\* committed mutation relies on.  The claimant runs next or, on a lost answer, gives up.
LEMMA ClaimKeeps ==
    ASSUME IdempotencyInv, NEW p \in Proc, pc[p] = "insert", records[req[p].key] = NoRecord,
           records' = [records EXCEPT ![req[p].key] = NewRecord(p)],
           pc'[p] \in {"run", "idle"}, pc'[p] = "run" => req' = req,
           \A q \in Proc \ {p} : pc'[q] = pc[q] /\ req'[q] = req[q],
           UNCHANGED <<effects, completed, clock, arrived>>
    PROVE  IdsOK' /\ ClaimsOK' /\ EffectsOK' /\ AtMostOnce'
<1> USE DEF IdempotencyInv
<1> DEFINE k == req[p].key
<1>1. req[p] \in Request /\ k \in Key
  BY RequestType DEF Request
<1>2. /\ records'[k] = NewRecord(p)
      /\ \A x \in Key \ {k} : records'[x] = records[x]
  BY <1>1 DEF TypeOK
<1>3. NewRecord(p) \in Record /\ NewRecord(p) # NoRecord
  BY <1>1, TimesAssumption, NoRecordAssumption DEF NewRecord, Record, Request
<1>4. /\ NewRecord(p).id = req[p].id
      /\ Pending(NewRecord(p)) /\ NewRecord(p).expiresAt = req[p].at + Retention
  BY DEF NewRecord, Pending
<1> HIDE DEF k
<1>5. IdsOK'
  BY <1>1, <1>2, <1>3, <1>4 DEF IdsOK
<1>6. ClaimsOK'
  <2> SUFFICES ASSUME NEW q \in Proc, pc'[q] \in {"run", "complete"}
               PROVE  /\ records'[req'[q].key] # NoRecord
                      /\ records'[req'[q].key].id = req'[q].id
                      /\ Pending(records'[req'[q].key])
                      /\ records'[req'[q].key].expiresAt = req'[q].at + Retention
    BY DEF ClaimsOK, Claimed, Pending
  <2>1. CASE q = p
    BY <1>2, <1>3, <1>4, <2>1 DEF k
  <2>2. CASE q # p
    <3>1. pc[q] \in {"run", "complete"} /\ req'[q] = req[q] /\ req[q].key \in Key
      BY <2>2, RequestType DEF Request
    <3>2. req[q].key # k
      BY <3>1 DEF ClaimsOK, Claimed, k
    <3>3. QED
      BY <1>2, <3>1, <3>2 DEF ClaimsOK, Claimed
  <2>3. QED
    BY <2>1, <2>2
<1>7. EffectsOK'
  <2> SUFFICES ASSUME NEW n \in DOMAIN effects
               PROVE  LET e == effects[n]
                      IN \/ /\ records'[e.key] # NoRecord
                            /\ records'[e.key].id = e.id /\ records'[e.key].expiresAt = e.expiresAt
                            /\ ~Pending(records'[e.key]) => e.id \in completed
                         \/ e.id \in completed /\ clock >= e.expiresAt
    BY DEF EffectsOK, Pending
  <2>1. effects[n].key \in Key
    BY EffectType
  <2>2. QED
    BY <1>2, <2>1 DEF EffectsOK, k
<1>8. AtMostOnce'
  BY DEF AtMostOnce
<1>9. QED
  BY <1>5, <1>6, <1>7, <1>8

\* The pending record of a request is a row of the table.
LEMMA NewRecordType ==
    ASSUME TypeOK, NEW p \in Proc, pc[p] # "idle"
    PROVE  /\ req[p].key \in Key
           /\ [records EXCEPT ![req[p].key] = NewRecord(p)] \in [Key -> Record \union {NoRecord}]
<1>1. req[p] \in Request
  BY RequestType
<1>2. NewRecord(p) \in Record
  BY <1>1, TimesAssumption DEF NewRecord, Record, Request
<1>3. QED
  BY <1>1, <1>2 DEF TypeOK, Request

\* A successful INSERT makes the request the owner of its key.
LEMMA InsertPendingKeeps ==
    ASSUME IdempotencyInv, NEW p \in Proc, InsertPending(p)
    PROVE  IdempotencyInv'
<1> USE DEF IdempotencyInv, InsertPending, Goto
<1>1. TypeOK'
  BY NewRecordType DEF TypeOK
<1>2. /\ pc'[p] = "run" /\ req' = req
      /\ \A q \in Proc \ {p} : pc'[q] = pc[q] /\ req'[q] = req[q]
  BY DEF TypeOK
<1>3. QED
  BY <1>1, <1>2, ClaimKeeps

\* An INSERT that conflicts changes nothing and leads to the lookup.
LEMMA InsertConflictsKeeps ==
    ASSUME IdempotencyInv, NEW p \in Proc, InsertConflicts(p)
    PROVE  IdempotencyInv'
<1> USE DEF IdempotencyInv, InsertConflicts, Goto, stored
<1>1. TypeOK'
  BY DEF TypeOK
<1>2. /\ pc[p] = "insert" /\ pc'[p] = "lookup" /\ req' = req
      /\ \A q \in Proc \ {p} : pc'[q] = pc[q]
  BY DEF TypeOK
<1>3. IdsOK'
  BY <1>2 DEF IdsOK
<1>4. ClaimsOK'
  BY <1>2 DEF ClaimsOK, Claimed, Pending
<1>5. EffectsOK' /\ AtMostOnce'
  BY DEF EffectsOK, AtMostOnce, Pending
<1>6. QED
  BY <1>1, <1>3, <1>4, <1>5

\* A failed check leaves the table alone or, if its INSERT took effect, a claim nobody runs.
LEMMA CheckFailsKeeps ==
    ASSUME IdempotencyInv, NEW p \in Proc, CheckFails(p)
    PROVE  IdempotencyInv'
<1>1. CASE UNCHANGED records
  BY <1>1, ReturnKeeps DEF CheckFails, stored, ReplyKind
<1>2. CASE /\ pc[p] = "insert" /\ records[req[p].key] = NoRecord
           /\ records' = [records EXCEPT ![req[p].key] = NewRecord(p)]
  <2>1. req[p] \in Request
    BY <1>2, RequestType DEF IdempotencyInv
  <2>2. TypeOK'
    BY <1>2, <2>1, NewRecordType DEF IdempotencyInv, TypeOK, CheckFails, Return, ReplyKind, Request
  <2>3. /\ pc'[p] = "idle"
        /\ \A q \in Proc \ {p} : pc'[q] = pc[q] /\ req'[q] = req[q]
    BY DEF IdempotencyInv, TypeOK, CheckFails, Return
  <2>4. IdsOK' /\ ClaimsOK' /\ EffectsOK' /\ AtMostOnce'
    BY <1>2, <2>3, ClaimKeeps DEF CheckFails
  <2>5. QED
    BY <2>2, <2>4 DEF IdempotencyInv
<1>3. QED
  BY <1>1, <1>2 DEF CheckFails

\* The mutation of a claimed key: an earlier one of the same key is either protected by the
\* record that the claim has replaced, which is impossible, or completed and expired.
LEMMA CommitKeeps ==
    ASSUME IdempotencyInv, NEW p \in Proc, NEW o \in Outcome, Commit(p, o)
    PROVE  IdempotencyInv'
<1> USE DEF IdempotencyInv
<1> DEFINE e == [key |-> req[p].key, body |-> req[p].body, id |-> req[p].id,
                 at |-> clock, expiresAt |-> req[p].at + Retention]
           r == records[req[p].key]
<1>1. pc[p] = "run" /\ req[p] \in Request /\ req[p].key \in Key
  BY RequestType DEF Commit, Request
<1>2. e \in Effect
  BY <1>1, TimesAssumption DEF Effect, Request, TypeOK
<1>3. /\ e.key = req[p].key /\ e.id = req[p].id /\ e.at = clock
      /\ e.expiresAt = req[p].at + Retention
  OBVIOUS
<1>4. effects' = Append(effects, e) /\ effects \in Seq(Effect)
  BY DEF Commit, TypeOK
<1> HIDE DEF e
<1>5. /\ effects' \in Seq(Effect)
      /\ DOMAIN effects' = DOMAIN effects \union {Len(effects) + 1}
      /\ effects'[Len(effects) + 1] = e
      /\ \A n \in DOMAIN effects : effects'[n] = effects[n] /\ n < Len(effects) + 1 /\ n \in Int
  BY <1>2, <1>4
<1>6. [req EXCEPT ![p].outcome = o][p] \in Request
  BY <1>1 DEF TypeOK, Request
<1>7. /\ req'[p] \in Request /\ req'[p].id = req[p].id /\ req'[p].key = req[p].key
      /\ req'[p].at = req[p].at
      /\ pc'[p] = "complete"
      /\ \A q \in Proc \ {p} : pc'[q] = pc[q] /\ req'[q] = req[q]
      /\ records' = records /\ completed' = completed /\ clock' = clock /\ arrived' = arrived
  BY <1>1, <1>6 DEF Commit, TypeOK, Request
<1>8. TypeOK'
  <2>1. req' \in [Proc -> Request \union {NoRecord}]
    BY <1>6 DEF Commit, TypeOK
  <2>2. req'[p] # NoRecord
    BY <1>7, NoRecordAssumption
  <2>3. QED
    BY <1>5, <1>7, <2>1, <2>2 DEF Commit, TypeOK
<1>9. IdsOK'
  <2>1. \A q \in Proc : pc[q] # "idle" => req[q].id \in Nat
    BY RequestType DEF Request
  <2>2. \A n \in DOMAIN effects' : effects'[n].id <= arrived
    BY <1>1, <1>3, <1>5 DEF IdsOK
  <2>3. \A q \in Proc : pc'[q] \in {"purge", "insert", "lookup", "run"} =>
                           \A n \in DOMAIN effects' : effects'[n].id # req'[q].id
    BY <1>1, <1>3, <1>5, <1>7 DEF IdsOK
  <2>4. QED
    BY <1>1, <1>7, <2>2, <2>3 DEF IdsOK
<1>10. ClaimsOK'
  BY <1>1, <1>7 DEF ClaimsOK, Claimed, Pending
<1>11. /\ r # NoRecord /\ r.id = req[p].id /\ Pending(r) /\ r.expiresAt = req[p].at + Retention
  BY <1>1 DEF ClaimsOK, Claimed
<1> HIDE DEF r
<1>12. EffectsOK'
  <2> SUFFICES ASSUME NEW n \in DOMAIN effects'
               PROVE  LET f == effects'[n]
                      IN \/ /\ records[f.key] # NoRecord
                            /\ records[f.key].id = f.id /\ records[f.key].expiresAt = f.expiresAt
                            /\ ~Pending(records[f.key]) => f.id \in completed
                         \/ f.id \in completed /\ clock >= f.expiresAt
    BY <1>7 DEF EffectsOK, Pending
  <2>1. CASE n \in DOMAIN effects
    BY <1>5, <2>1 DEF EffectsOK
  <2>2. CASE n = Len(effects) + 1
    BY <1>3, <1>5, <1>11, <2>2 DEF r
  <2>3. QED
    BY <1>5, <2>1, <2>2
<1>13. \A i \in DOMAIN effects : effects[i].key = e.key =>
          effects[i].id # e.id /\ effects[i].id \in completed /\ clock >= effects[i].expiresAt
  <2> TAKE i \in DOMAIN effects
  <2>1. effects[i].id # req[p].id
    BY <1>1 DEF IdsOK
  <2>2. QED
    BY <1>3, <1>11, <2>1 DEF EffectsOK, r
<1>14. AtMostOnce'
  BY <1>3, <1>5, <1>7, <1>13 DEF AtMostOnce
<1>15. QED
  BY <1>8, <1>9, <1>10, <1>12, <1>14

\* A handler that refuses has written nothing and still owns its record.
LEMMA DeclineKeeps ==
    ASSUME IdempotencyInv, NEW p \in Proc, NEW o \in Outcome, Decline(p, o)
    PROVE  IdempotencyInv'
<1> USE DEF IdempotencyInv
<1>1. pc[p] = "run" /\ req[p] \in Request
  BY RequestType DEF Decline, Request
<1>2. [req EXCEPT ![p].outcome = o][p] \in Request
  BY <1>1 DEF TypeOK, Request
<1>3. /\ req'[p] \in Request /\ req'[p].id = req[p].id /\ req'[p].key = req[p].key
      /\ req'[p].at = req[p].at
      /\ pc'[p] = "complete"
      /\ \A q \in Proc \ {p} : pc'[q] = pc[q] /\ req'[q] = req[q]
      /\ records' = records /\ completed' = completed /\ clock' = clock /\ arrived' = arrived
      /\ effects' = effects
  BY <1>1, <1>2 DEF Decline, TypeOK, Request
<1>4. TypeOK'
  <2>1. req' \in [Proc -> Request \union {NoRecord}]
    BY <1>2 DEF Decline, TypeOK
  <2>2. req'[p] # NoRecord
    BY <1>3, NoRecordAssumption
  <2>3. QED
    BY <1>3, <2>1, <2>2 DEF Decline, TypeOK
<1>5. IdsOK'
  BY <1>1, <1>3 DEF IdsOK
<1>6. ClaimsOK'
  BY <1>1, <1>3 DEF ClaimsOK, Claimed, Pending
<1>7. EffectsOK' /\ AtMostOnce'
  BY <1>3 DEF EffectsOK, AtMostOnce, Pending
<1>8. QED
  BY <1>4, <1>5, <1>6, <1>7

\* Storing the response completes one's own record; the claims of others are on other keys.
LEMMA StoreKeeps ==
    ASSUME IdempotencyInv, NEW p \in Proc, pc[p] = "complete", Claimed(p), StoreResponse(p),
           NEW kind \in ReplyKind, NEW response \in Outcome \union {"none"}, NEW of \in Nat,
           Return(p, kind, response, of), UNCHANGED <<effects, clock, arrived>>
    PROVE  IdempotencyInv'
<1> USE DEF IdempotencyInv
<1> DEFINE k == req[p].key
<1>1. req[p] \in Request /\ k \in Key /\ records[k] \in Record /\ records[k].id = req[p].id
  BY RequestType, RowType DEF Request, Claimed
<1>2. /\ records'[k] \in Record /\ records'[k] # NoRecord
      /\ records'[k].id = records[k].id /\ records'[k].expiresAt = records[k].expiresAt
      /\ \A x \in Key \ {k} : records'[x] = records[x]
      /\ records' \in [Key -> Record \union {NoRecord}]
  <2>1. /\ records'[k] = [records[k] EXCEPT !.status = "completed", !.response = req[p].outcome]
        /\ \A x \in Key \ {k} : records'[x] = records[x]
        /\ records' = [records EXCEPT ![k] = records'[k]]
    BY <1>1 DEF StoreResponse, TypeOK
  <2>2. /\ records'[k] \in Record
        /\ records'[k].id = records[k].id /\ records'[k].expiresAt = records[k].expiresAt
    BY <1>1, <2>1 DEF Record, Request
  <2>3. QED
    BY <1>1, <2>1, <2>2, NoRecordAssumption DEF TypeOK
<1> HIDE DEF k
<1>3. TypeOK'
  BY <1>1, <1>2 DEF TypeOK, StoreResponse, Return, Request
<1>4. /\ pc'[p] = "idle" /\ completed' = completed \union {req[p].id}
      /\ \A q \in Proc \ {p} : pc'[q] = pc[q] /\ req'[q] = req[q]
  BY DEF TypeOK, Return, StoreResponse
<1>5. IdsOK'
  BY <1>1, <1>2, <1>4 DEF IdsOK
<1>6. ClaimsOK'
  <2> SUFFICES ASSUME NEW q \in Proc, pc'[q] \in {"run", "complete"}
               PROVE  /\ records'[req'[q].key] # NoRecord
                      /\ records'[req'[q].key].id = req'[q].id
                      /\ Pending(records'[req'[q].key])
                      /\ records'[req'[q].key].expiresAt = req'[q].at + Retention
    BY DEF ClaimsOK, Claimed, Pending
  <2>1. /\ q # p /\ pc[q] \in {"run", "complete"} /\ req'[q] = req[q] /\ req[q].key \in Key
        /\ records[req[q].key].id = req[q].id
    BY <1>4, RequestType DEF Request, ClaimsOK, Claimed
  <2>2. req[q].key # k
    BY <1>1, <2>1 DEF IdsOK
  <2>3. QED
    BY <1>2, <2>1, <2>2 DEF ClaimsOK, Claimed
<1>7. EffectsOK'
  <2> SUFFICES ASSUME NEW n \in DOMAIN effects
               PROVE  LET e == effects[n]
                      IN \/ /\ records'[e.key] # NoRecord
                            /\ records'[e.key].id = e.id /\ records'[e.key].expiresAt = e.expiresAt
                            /\ ~Pending(records'[e.key]) => e.id \in completed'
                         \/ e.id \in completed' /\ clock >= e.expiresAt
    BY DEF EffectsOK, Pending
  <2>1. effects[n].key \in Key
    BY EffectType
  <2>2. CASE effects[n].key = k
    BY <1>1, <1>2, <1>4, <2>2 DEF EffectsOK
  <2>3. CASE effects[n].key # k
    BY <1>2, <1>4, <2>1, <2>3 DEF EffectsOK
  <2>4. QED
    BY <2>2, <2>3
<1>8. AtMostOnce'
  BY <1>4 DEF AtMostOnce
<1>9. QED
  BY <1>3, <1>5, <1>6, <1>7, <1>8

\* Time only passes: what was expired stays expired.
LEMMA TickKeeps ==
    ASSUME IdempotencyInv, Tick
    PROVE  IdempotencyInv'
<1> USE DEF IdempotencyInv, Tick
<1>1. TypeOK'
  BY DEF TypeOK
<1>2. IdsOK' /\ AtMostOnce'
  BY DEF IdsOK, AtMostOnce
<1>3. ClaimsOK'
  BY DEF ClaimsOK, Claimed, Pending
<1>4. EffectsOK'
  <2> SUFFICES ASSUME NEW n \in DOMAIN effects
               PROVE  LET e == effects[n]
                      IN \/ /\ records[e.key] # NoRecord
                            /\ records[e.key].id = e.id /\ records[e.key].expiresAt = e.expiresAt
                            /\ ~Pending(records[e.key]) => e.id \in completed
                         \/ e.id \in completed /\ clock' >= e.expiresAt
    BY DEF EffectsOK, Pending
  <2>1. clock \in Nat /\ effects[n].expiresAt \in Nat
    BY EffectType DEF TypeOK
  <2>2. QED
    BY <2>1 DEF EffectsOK
<1>5. QED
  BY <1>1, <1>2, <1>3, <1>4

\* Every step of a request keeps the invariant.
LEMMA StepKeeps ==
    ASSUME IdempotencyInv, NEW p \in Proc, Step(p)
    PROVE  IdempotencyInv'
<1>1. CASE Purge(p)
  BY <1>1, PurgeKeeps
<1>2. CASE InsertPending(p)
  BY <1>2, InsertPendingKeeps
<1>3. CASE InsertConflicts(p)
  BY <1>3, InsertConflictsKeeps
<1>4. CASE LookupMissing(p)
  BY <1>4, ReturnKeeps DEF LookupMissing, ReplyKind
<1>5. CASE LookupReused(p)
  BY <1>5, ReturnKeeps DEF LookupReused, ReplyKind
<1>6. CASE LookupPending(p) \/ Replay(p)
  <2> DEFINE r == records[req[p].key]
  <2>1. pc[p] = "lookup" /\ r # NoRecord /\ UNCHANGED stored
    BY <1>6 DEF LookupPending, Replay, Found
  <2>2. r.id \in Nat /\ r.response \in Outcome \union {"none"}
    BY <2>1, RequestType, RowType DEF Request, Record, IdempotencyInv
  <2>3. CASE LookupPending(p)
    BY <2>1, <2>2, <2>3, ReturnKeeps DEF LookupPending, ReplyKind
  <2>4. CASE Replay(p)
    BY <2>1, <2>2, <2>4, ReturnKeeps DEF Replay, ReplyKind
  <2>5. QED
    BY <1>6, <2>3, <2>4
<1>7. CASE CheckFails(p)
  BY <1>7, CheckFailsKeeps
<1>8. CASE \E o \in Outcome : Commit(p, o) \/ Decline(p, o)
  BY <1>8, CommitKeeps, DeclineKeeps
<1>9. CASE PassFailure(p) \/ Complete(p) \/ CompleteFails(p)
  <2>1. pc[p] = "complete" /\ UNCHANGED <<effects, clock, arrived>>
    BY <1>9 DEF PassFailure, Complete, CompleteFails, stored
  <2>2. req[p].id \in Nat /\ req[p].outcome \in Outcome \union {"none"}
    BY <2>1, RequestType DEF Request, IdempotencyInv
  <2>3. CASE PassFailure(p)
    BY <2>1, <2>2, <2>3, ReturnKeeps DEF PassFailure, ReplyKind, Outcome
  <2>4. CASE Complete(p)
    BY <2>1, <2>2, <2>4, StoreKeeps DEF Complete, ReplyKind
  <2>5. CASE CompleteFails(p)
    <3> DEFINE kind == IF req[p].outcome = "created" THEN "completion_unknown"
                                                     ELSE "completion_failed"
    <3>1. kind \in ReplyKind /\ Return(p, kind, "none", req[p].id)
      BY <2>5 DEF CompleteFails, ReplyKind
    <3> HIDE DEF kind
    <3>2. CASE UNCHANGED <<records, completed>>
      BY <2>1, <2>2, <3>1, <3>2, ReturnKeeps DEF stored
    <3>3. CASE Claimed(p) /\ StoreResponse(p)
      BY <2>1, <2>2, <3>1, <3>3, StoreKeeps
    <3>4. QED
      BY <2>5, <3>2, <3>3 DEF CompleteFails
  <2>6. QED
    BY <1>9, <2>3, <2>4, <2>5
<1>10. QED
  BY <1>1, <1>2, <1>3, <1>4, <1>5, <1>6, <1>7, <1>8, <1>9 DEF Step

\* Every step of every request, every crash and every tick keeps the invariant.
LEMMA NextKeeps ==
    ASSUME IdempotencyInv, [Next]_vars
    PROVE  IdempotencyInv'
<1>1. ASSUME NEW p \in Proc, NEW k \in Key, NEW b \in Body, Arrive(p, k, b)
      PROVE  IdempotencyInv'
  BY <1>1, ArriveKeeps
<1>2. ASSUME NEW p \in Proc, Step(p)
      PROVE  IdempotencyInv'
  BY <1>2, StepKeeps
<1>3. ASSUME NEW p \in Proc, Crash(p)
      PROVE  IdempotencyInv'
  BY <1>3, ReturnKeeps DEF Crash, ReplyKind
<1>4. CASE Tick
  BY <1>4, TickKeeps
<1>5. CASE UNCHANGED vars
  BY <1>5 DEF vars, IdempotencyInv, TypeOK, IdsOK, ClaimsOK, Claimed, Pending, EffectsOK, AtMostOnce
<1>6. QED
  BY <1>1, <1>2, <1>3, <1>4, <1>5 DEF Next

\* Ids, claims and committed mutations fit together in every reachable state of the
\* middleware, whatever the lease, the retention and the number of requests.
THEOREM InvariantHolds == Spec => []IdempotencyInv
<1>1. Init => IdempotencyInv
  BY InitKeeps
<1>2. IdempotencyInv /\ [Next]_vars => IdempotencyInv'
  BY NextKeeps
<1>3. QED
  BY <1>1, <1>2, PTL DEF Spec

\* A key's mutation runs again only after the first one's response was stored and expired:
\* no lost answer, late completion or crash of the middleware makes it run twice.
THEOREM MutationsRunOnce == Spec => []AtMostOnce
<1>1. IdempotencyInv => AtMostOnce
  BY DEF IdempotencyInv
<1>2. QED
  BY <1>1, InvariantHolds, PTL

\* The execution of a key holds the key's pending record until it completes it, and no other
\* execution of that key runs beside it.
THEOREM ClaimsHold == Spec => []ClaimIsKept
<1>1. ASSUME IdempotencyInv
      PROVE  ClaimIsKept
  <2> SUFFICES ASSUME NEW p \in Proc, pc[p] \in {"run", "complete"}
               PROVE  /\ Claimed(p)
                      /\ \A q \in Proc \ {p} :
                           pc[q] \in {"run", "complete"} => req[q].key # req[p].key
    BY DEF ClaimIsKept
  <2>1. Claimed(p) /\ \A q \in Proc : pc[q] \in {"run", "complete"} => Claimed(q)
    BY <1>1 DEF IdempotencyInv, ClaimsOK
  <2>2. \A q \in Proc \ {p} : pc[q] \in {"run", "complete"} => req[q].id # req[p].id
    BY <1>1 DEF IdempotencyInv, IdsOK
  <2>3. QED
    BY <2>1, <2>2 DEF Claimed
<1>2. QED
  BY <1>1, InvariantHolds, PTL

-----------------------------------------------------------------------------
(* The answers: RepliesInv is inductive relative to IdempotencyInv. *)

\* A step of p: the others stay where they are, ids stay fresh, a record keeps its body and is
\* completed only by its own execution.
Acts(p) ==
    /\ \A q \in Proc \ {p} : pc'[q] = pc[q] /\ req'[q] = req[q] /\ reply'[q] = reply[q]
    /\ arrived <= arrived'
    /\ pc'[p] # "idle" => (pc[p] # "idle" /\ req'[p].id = req[p].id) \/ arrived < req'[p].id
    /\ \A k \in Key : records[k] # NoRecord /\ records'[k] # NoRecord =>
         records'[k].body = records[k].body
    /\ \A k \in Key : Completed(k)' =>
         \/ records'[k] = records[k]
         \/ records'[k].id = req[p].id /\ pc[p] # "idle"

\* Mutations stay, and a new one is of the execution that runs.
Mutates(p) ==
    /\ \A i, b : Committed(i, b) => Committed(i, b)'
    /\ \A i : (pc[p] # "run" \/ i # req[p].id) /\ (\A n \in DOMAIN effects : effects[n].id # i)
         => \A n \in DOMAIN effects' : effects'[n].id # i

\* The execution of p keeps its part of the invariant.
OwnOutcome(p) ==
    /\ pc'[p] \in {"run", "complete"} => records'[req'[p].key].body = req'[p].body
    /\ pc'[p] = "complete" => TrueOf(req[p].outcome, req[p].id, req[p].body)'

\* A response stored by the step is true.
Stores ==
    \A k \in Key : Completed(k)' /\ records'[k] # records[k] =>
        Ended(records[k].id)' /\ TrueOf(records[k].response, records[k].id, records[k].body)'

\* An answer given by the step is true and agrees with the table.
Answers(p) ==
    /\ TrueOf(reply[p].response, reply[p].of, reply[p].body)'
    /\ reply'[p].kind = "completion_unknown" => Committed(reply[p].of, reply[p].body)'
    /\ reply'[p].kind \in {"answered", "replayed"} => Ended(reply[p].of)'
    /\ reply'[p].kind \notin {"answered", "replayed"} => reply'[p].response = "none"
    /\ reply'[p].kind = "answered" =>
         /\ pc[p] # "idle" /\ reply'[p].of = req[p].id
         /\ \A k \in Key : Completed(k)' /\ records'[k].id = reply'[p].of =>
              records'[k].response = reply'[p].response
    /\ reply'[p].kind = "replayed" =>
         \E k \in Key : /\ Completed(k) /\ records[k].id = reply'[p].of
                        /\ records[k].response = reply'[p].response

\* An execution that is over stays over.
LEMMA EndedStays ==
    ASSUME IdempotencyInv, IdempotencyInv', NEW p \in Proc, Acts(p), NEW i \in Nat, Ended(i)
    PROVE  Ended(i)'
<1>1. arrived \in Nat /\ arrived' \in Nat /\ i <= arrived'
  BY DEF IdempotencyInv, TypeOK, Acts, Ended
<1>2. \A q \in Proc \ {p} : pc'[q] # "idle" => req'[q].id # i
  BY DEF Acts, Ended
<1>3. pc'[p] # "idle" => req'[p].id # i
  <2>1. i <= arrived /\ (pc[p] # "idle" => req[p].id # i)
    BY DEF Ended
  <2>2. CASE pc[p] # "idle" /\ req'[p].id = req[p].id
    BY <2>1, <2>2
  <2>3. CASE arrived < req'[p].id
    BY <1>1, <2>1, <2>3
  <2>4. QED
    BY <2>2, <2>3 DEF Acts
<1>4. QED
  BY <1>1, <1>2, <1>3 DEF Ended

\* What is true of an execution stays true unless it is the one that runs.
LEMMA TruthStays ==
    ASSUME NEW p \in Proc, Mutates(p), NEW x, NEW i, NEW b, TrueOf(x, i, b),
           pc[p] # "run" \/ i # req[p].id
    PROVE  TrueOf(x, i, b)'
<1>1. x = "created" => Committed(i, b)'
  BY DEF TrueOf, Mutates
<1>2. x = "refused" => \A n \in DOMAIN effects' : effects'[n].id # i
  BY DEF TrueOf, Mutates
<1>3. QED
  BY <1>1, <1>2 DEF TrueOf

\* An answer that was given stays true.
LEMMA AnswerStays ==
    ASSUME IdempotencyInv, IdempotencyInv', RepliesInv, NEW p \in Proc, Acts(p), Mutates(p),
           NEW q \in Proc, reply'[q] = reply[q]
    PROVE  /\ TrueOf(reply[q].response, reply[q].of, reply[q].body)'
           /\ reply'[q].kind = "completion_unknown" => Committed(reply[q].of, reply[q].body)'
           /\ reply'[q].kind \in {"answered", "replayed"} => Ended(reply[q].of)'
           /\ reply'[q].kind \notin {"answered", "replayed"} => reply'[q].response = "none"
           /\ reply'[q].kind = "answered" =>
                \A k \in Key : Completed(k)' /\ records'[k].id = reply'[q].of =>
                    records'[k].response = reply'[q].response
<1> DEFINE a == reply[q]
<1>0. a.of \in Nat
  BY DEF IdempotencyInv, TypeOK
<1>1. /\ TrueOf(a.response, a.of, a.body)
      /\ a.kind = "completion_unknown" => Committed(a.of, a.body)
      /\ a.kind \in {"answered", "replayed"} => Ended(a.of)
      /\ a.kind \notin {"answered", "replayed"} => a.response = "none"
      /\ a.kind = "answered" =>
           \A k \in Key : Completed(k) /\ records[k].id = a.of => records[k].response = a.response
  BY DEF RepliesInv, AnswersOK
<1>7. PICK y : y = a
  OBVIOUS
<1> HIDE DEF a
<1>2. TrueOf(y.response, y.of, y.body)'
  <2>1. CASE y.kind \in {"answered", "replayed"}
    <3>1. pc[p] # "run" \/ y.of # req[p].id
      BY <1>1, <1>7, <2>1 DEF Ended
    <3>2. QED
      BY <1>1, <1>7, <3>1, TruthStays
  <2>2. CASE y.kind \notin {"answered", "replayed"}
    BY <1>1, <1>7, <2>2 DEF TrueOf
  <2>3. QED
    BY <2>1, <2>2
<1>3. y.kind = "completion_unknown" => Committed(y.of, y.body)'
  BY <1>1, <1>7 DEF Mutates
<1>4. y.kind \in {"answered", "replayed"} => Ended(y.of)'
  BY <1>0, <1>1, <1>7, EndedStays
<1>5. ASSUME y.kind = "answered", NEW k \in Key, Completed(k)', records'[k].id = y.of
      PROVE  records'[k].response = y.response
  <2>1. pc[p] # "idle" => req[p].id # y.of
    BY <1>1, <1>5, <1>7 DEF Ended
  <2>2. records'[k] = records[k]
    BY <1>5, <2>1 DEF Acts
  <2>3. Completed(k)
    BY <1>5, <2>2 DEF Completed, Pending
  <2>4. QED
    BY <1>1, <1>5, <1>7, <2>2, <2>3
<1>6. reply'[q] = y
  BY <1>7 DEF a
<1>8. y.kind \notin {"answered", "replayed"} => y.response = "none"
  BY <1>1, <1>7
<1>9. QED
  BY <1>2, <1>3, <1>4, <1>5, <1>6, <1>8

\* A step keeps RepliesInv when what it stores and answers itself is true.
LEMMA RepliesKeep ==
    ASSUME IdempotencyInv, IdempotencyInv', RepliesInv, NEW p \in Proc, Acts(p), Mutates(p),
           OwnOutcome(p), Stores, reply'[p] = reply[p] \/ Answers(p)
    PROVE  RepliesInv'
<1>0. \A q \in Proc : pc[q] # "idle" => req[q] \in Request /\ req[q].id \in Nat /\ req[q].key \in Key
  BY RequestType DEF IdempotencyInv, Request
<1>1. OutcomesOK'
  <2> SUFFICES ASSUME NEW q \in Proc \ {p}
               PROVE  /\ pc'[q] \in {"run", "complete"} => records'[req'[q].key].body = req'[q].body
                      /\ pc'[q] = "complete" => TrueOf(req[q].outcome, req[q].id, req[q].body)'
    BY DEF OutcomesOK, OwnOutcome
  <2>1. pc'[q] = pc[q] /\ req'[q] = req[q]
    BY DEF Acts
  <2>2. pc[q] \in {"run", "complete"} => records'[req[q].key].body = req[q].body
    <3> SUFFICES ASSUME pc[q] \in {"run", "complete"} PROVE records'[req[q].key].body = req[q].body
      OBVIOUS
    <3>1. Claimed(q) /\ Claimed(q)' /\ req[q].key \in Key
      BY <1>0, <2>1 DEF IdempotencyInv, ClaimsOK
    <3>2. records[req[q].key] # NoRecord /\ records'[req[q].key] # NoRecord
      BY <2>1, <3>1 DEF Claimed
    <3>3. records[req[q].key].body = req[q].body
      BY DEF RepliesInv, OutcomesOK
    <3>4. QED
      BY <3>1, <3>2, <3>3 DEF Acts
  <2>3. PICK y : y = req[q]
    OBVIOUS
  <2>4. pc[q] = "complete" => TrueOf(y.outcome, y.id, y.body)'
    <3> SUFFICES ASSUME pc[q] = "complete" PROVE TrueOf(y.outcome, y.id, y.body)'
      OBVIOUS
    <3>1. TrueOf(y.outcome, y.id, y.body)
      BY <2>3 DEF RepliesInv, OutcomesOK
    <3>2. pc[p] # "run" \/ y.id # req[p].id
      BY <2>3 DEF IdempotencyInv, IdsOK
    <3>3. QED
      BY <3>1, <3>2, TruthStays
  <2>5. QED
    BY <2>1, <2>2, <2>3, <2>4
<1>2. ResponsesOK'
  <2> SUFFICES ASSUME NEW k \in Key, Completed(k)'
               PROVE  Ended(records[k].id)' /\ TrueOf(records[k].response, records[k].id, records[k].body)'
    BY DEF ResponsesOK
  <2>1. CASE records'[k] # records[k]
    BY <2>1 DEF Stores
  <2>2. CASE records'[k] = records[k]
    <3>1. PICK y : y = records[k]
      OBVIOUS
    <3>2. Completed(k)
      BY <2>2 DEF Completed, Pending
    <3>3. Ended(y.id) /\ TrueOf(y.response, y.id, y.body)
      BY <3>1, <3>2 DEF RepliesInv, ResponsesOK
    <3>4. y.id \in Nat
      BY <3>1, <3>2, RowType DEF Completed, Record, IdempotencyInv
    <3>5. pc[p] # "run" \/ y.id # req[p].id
      BY <3>3 DEF Ended
    <3>6. Ended(y.id)' /\ TrueOf(y.response, y.id, y.body)'
      BY <3>3, <3>4, <3>5, EndedStays, TruthStays
    <3>7. QED
      BY <2>2, <3>1, <3>6
  <2>3. QED
    BY <2>1, <2>2
<1>3. ASSUME NEW q \in Proc
      PROVE  /\ TrueOf(reply[q].response, reply[q].of, reply[q].body)'
             /\ reply'[q].kind = "completion_unknown" => Committed(reply[q].of, reply[q].body)'
             /\ reply'[q].kind \in {"answered", "replayed"} => Ended(reply[q].of)'
             /\ reply'[q].kind \notin {"answered", "replayed"} => reply'[q].response = "none"
             /\ reply'[q].kind = "answered" =>
                  \A k \in Key : Completed(k)' /\ records'[k].id = reply'[q].of =>
                      records'[k].response = reply'[q].response
  <2>1. CASE reply'[q] = reply[q]
    BY <2>1, AnswerStays
  <2>2. CASE reply'[q] # reply[q]
    <3>1. q = p /\ Answers(p)
      BY <2>2 DEF Acts
    <3>2. QED
      BY <3>1 DEF Answers
  <2>3. QED
    BY <2>1, <2>2
<1>4. AnswersOK'
  BY <1>3 DEF AnswersOK
<1>5. ASSUME NEW q \in Proc, NEW r \in Proc, reply'[q].kind = "answered", reply'[r].kind = "replayed",
             reply'[q].of = reply'[r].of
      PROVE  reply'[q].response = reply'[r].response
  <2>1. CASE reply'[q] = reply[q] /\ reply'[r] = reply[r]
    BY <1>5, <2>1 DEF RepliesInv, RepliesAreTrue
  <2>2. CASE reply'[q] # reply[q]
    <3>1. q = p /\ Answers(p)
      BY <2>2 DEF Acts
    <3>2. r # p /\ reply'[r] = reply[r]
      BY <1>5, <3>1 DEF Acts
    <3>3. pc[p] # "idle" /\ reply[r].of = req[p].id
      BY <1>5, <3>1, <3>2 DEF Answers
    <3>4. Ended(reply[r].of)
      BY <1>5, <3>2 DEF RepliesInv, AnswersOK
    <3>5. QED
      BY <3>3, <3>4 DEF Ended
  <2>3. CASE reply'[q] = reply[q] /\ reply'[r] # reply[r]
    <3>1. r = p /\ Answers(p)
      BY <2>3 DEF Acts
    <3>2. PICK k \in Key : /\ Completed(k) /\ records[k].id = reply'[p].of
                           /\ records[k].response = reply'[p].response
      BY <1>5, <3>1 DEF Answers
    <3>3. QED
      BY <1>5, <2>3, <3>1, <3>2 DEF RepliesInv, AnswersOK
  <2>4. QED
    BY <2>1, <2>2, <2>3
<1>6. RepliesAreTrue'
  <2>1. ASSUME NEW q \in Proc
        PROVE  /\ (reply'[q].response = "created" \/ reply'[q].kind = "completion_unknown") =>
                     Committed(reply[q].of, reply[q].body)'
               /\ reply'[q].response = "refused" =>
                     \A n \in DOMAIN effects' : effects'[n].id # reply'[q].of
    BY <1>3 DEF TrueOf
  <2>2. QED
    BY <1>5, <2>1 DEF RepliesAreTrue
<1>7. QED
  BY <1>1, <1>2, <1>4, <1>6 DEF RepliesInv

-----------------------------------------------------------------------------
(* The actions and their answers. *)

\* Steps that commit no mutation.
LEMMA NoMutation ==
    ASSUME NEW p \in Proc, UNCHANGED effects
    PROVE  Mutates(p)
BY DEF Mutates, Committed

\* An answer without a response of a handler.
LEMMA PlainReturn ==
    ASSUME IdempotencyInv, IdempotencyInv', RepliesInv, NEW p \in Proc, pc[p] # "idle",
           NEW kind \in ReplyKind \ {"answered", "replayed", "completion_unknown"}, NEW of,
           Return(p, kind, "none", of), UNCHANGED <<effects, arrived>>,
           \A k \in Key : \/ records'[k] = records[k]
                          \/ records[k] = NoRecord /\ ~Completed(k)'
    PROVE  RepliesInv'
<1>1. /\ pc'[p] = "idle" /\ reply'[p].kind = kind /\ reply'[p].response = "none"
      /\ \A q \in Proc \ {p} : pc'[q] = pc[q] /\ req'[q] = req[q] /\ reply'[q] = reply[q]
  BY DEF Return, IdempotencyInv, TypeOK
<1>2. arrived \in Nat /\ arrived' = arrived
  BY DEF IdempotencyInv, TypeOK
<1>3. Acts(p)
  BY <1>1, <1>2 DEF Acts
<1>4. OwnOutcome(p) /\ Stores
  BY <1>1 DEF OwnOutcome, Stores
<1>5. Answers(p)
  BY <1>1 DEF Answers, TrueOf
<1>6. QED
  BY <1>3, <1>4, <1>5, NoMutation, RepliesKeep

\* A request that goes on without an answer.
LEMMA Continues ==
    ASSUME IdempotencyInv, IdempotencyInv', RepliesInv, NEW p \in Proc, pc[p] # "idle",
           UNCHANGED <<arrived, reply>>, Mutates(p), req'[p].id = req[p].id,
           \A q \in Proc \ {p} : pc'[q] = pc[q] /\ req'[q] = req[q],
           \A k \in Key : \/ records'[k] = records[k]
                          \/ records'[k] = NoRecord
                          \/ records[k] = NoRecord /\ ~Completed(k)',
           OwnOutcome(p)
    PROVE  RepliesInv'
<1>1. arrived \in Nat /\ arrived' = arrived
  BY DEF IdempotencyInv, TypeOK
<1>2. Acts(p)
  BY <1>1 DEF Acts, Completed
<1>3. Stores
  BY DEF Stores, Completed
<1>4. QED
  BY <1>2, <1>3, RepliesKeep

\* A request arrives and forgets its last answer.
LEMMA ArriveAnswers ==
    ASSUME IdempotencyInv, IdempotencyInv', RepliesInv, NEW p \in Proc, NEW k \in Key, NEW b \in Body,
           Arrive(p, k, b)
    PROVE  RepliesInv'
<1>1. /\ pc'[p] = "purge" /\ req'[p].id = arrived + 1 /\ reply'[p] = NoReply
      /\ \A q \in Proc \ {p} : pc'[q] = pc[q] /\ req'[q] = req[q] /\ reply'[q] = reply[q]
      /\ arrived \in Nat /\ arrived' = arrived + 1 /\ UNCHANGED <<records, effects>>
  BY DEF Arrive, IdempotencyInv, TypeOK
<1>2. Acts(p)
  BY <1>1 DEF Acts
<1>3. OwnOutcome(p) /\ Stores
  BY <1>1 DEF OwnOutcome, Stores
<1>4. Answers(p)
  BY <1>1 DEF Answers, TrueOf, NoReply
<1>5. QED
  BY <1>1, <1>2, <1>3, <1>4, NoMutation, RepliesKeep

\* The statements before the handler.
LEMMA ClaimAnswers ==
    ASSUME IdempotencyInv, IdempotencyInv', RepliesInv, NEW p \in Proc,
           Purge(p) \/ InsertPending(p) \/ InsertConflicts(p)
    PROVE  RepliesInv'
<1>1. /\ pc[p] \in {"purge", "insert"} /\ UNCHANGED <<arrived, reply, req, effects>>
      /\ \A q \in Proc \ {p} : pc'[q] = pc[q]
  BY DEF Purge, InsertPending, InsertConflicts, Goto, stored, IdempotencyInv, TypeOK
<1>2. Mutates(p) /\ req[p].key \in Key
  BY <1>1, NoMutation, RequestType DEF Request, IdempotencyInv
<1>3. CASE Purge(p)
  <2>1. pc'[p] = "insert" /\ \A k \in Key : records'[k] = records[k] \/ records'[k] = NoRecord
    BY <1>3 DEF Purge, Goto, IdempotencyInv, TypeOK
  <2>2. OwnOutcome(p)
    BY <2>1 DEF OwnOutcome
  <2>3. QED
    BY <1>1, <1>2, <2>1, <2>2, Continues
<1>4. CASE InsertPending(p)
  <2>1. /\ pc'[p] = "run" /\ records[req[p].key] = NoRecord /\ records'[req[p].key] = NewRecord(p)
        /\ \A k \in Key : k # req[p].key => records'[k] = records[k]
    BY <1>2, <1>4 DEF InsertPending, Goto, IdempotencyInv, TypeOK
  <2>2. NewRecord(p).body = req[p].body /\ NewRecord(p).status = "pending"
    BY DEF NewRecord
  <2>3. OwnOutcome(p)
    BY <1>1, <2>1, <2>2 DEF OwnOutcome
  <2>4. \A k \in Key : \/ records'[k] = records[k]
                       \/ records[k] = NoRecord /\ ~Completed(k)'
    BY <2>1, <2>2 DEF Completed, Pending
  <2>5. QED
    BY <1>1, <1>2, <2>3, <2>4, Continues
<1>5. CASE InsertConflicts(p)
  <2>1. pc'[p] = "lookup" /\ records' = records
    BY <1>5 DEF InsertConflicts, Goto, IdempotencyInv, TypeOK, stored
  <2>2. OwnOutcome(p)
    BY <2>1 DEF OwnOutcome
  <2>3. QED
    BY <1>1, <1>2, <2>1, <2>2, Continues
<1>6. QED
  BY <1>3, <1>4, <1>5

\* A handler that commits, or declines, reports what it did.
LEMMA HandlerAnswers ==
    ASSUME IdempotencyInv, IdempotencyInv', RepliesInv, NEW p \in Proc, NEW o \in Outcome,
           Commit(p, o) \/ Decline(p, o)
    PROVE  RepliesInv'
<1>1. /\ pc[p] = "run" /\ pc'[p] = "complete" /\ UNCHANGED <<arrived, reply, records>>
      /\ \A q \in Proc \ {p} : pc'[q] = pc[q] /\ req'[q] = req[q]
      /\ req'[p] = [req[p] EXCEPT !.outcome = o]
  BY DEF Commit, Decline, IdempotencyInv, TypeOK
<1>2. req[p] \in Request
  BY <1>1, RequestType DEF IdempotencyInv
<1>3. /\ req'[p].id = req[p].id /\ req'[p].key = req[p].key /\ req'[p].body = req[p].body
      /\ req'[p].outcome = o
  BY <1>1, <1>2 DEF Request
<1>4. /\ records[req[p].key].body = req[p].body
      /\ \A n \in DOMAIN effects : effects[n].id # req[p].id
  BY <1>1 DEF RepliesInv, OutcomesOK, IdempotencyInv, IdsOK
<1>5. CASE Decline(p, o)
  <2>1. UNCHANGED effects /\ o # "created"
    BY <1>5 DEF Decline
  <2>2. TrueOf(req[p].outcome, req[p].id, req[p].body)'
    BY <1>3, <1>4, <2>1 DEF TrueOf
  <2>3. OwnOutcome(p)
    BY <1>1, <1>3, <1>4, <2>2 DEF OwnOutcome
  <2>4. QED
    BY <1>1, <1>3, <2>1, <2>3, NoMutation, Continues
<1>6. CASE Commit(p, o)
  <2> DEFINE e == [key |-> req[p].key, body |-> req[p].body, id |-> req[p].id,
                   at |-> clock, expiresAt |-> req[p].at + Retention]
  <2>1. effects' = Append(effects, e) /\ o # "refused"
    BY <1>6 DEF Commit
  <2>2. e.id = req[p].id /\ e.body = req[p].body
    OBVIOUS
  <2>3. effects \in Seq(Effect)
    BY DEF IdempotencyInv, TypeOK
  <2> HIDE DEF e
  <2>4. /\ DOMAIN effects' = DOMAIN effects \union {Len(effects) + 1}
        /\ effects'[Len(effects) + 1] = e
        /\ \A n \in DOMAIN effects : effects'[n] = effects[n]
    BY <2>1, <2>3
  <2>5. Mutates(p)
    <3>1. \A i, b : Committed(i, b) => Committed(i, b)'
      BY <2>4 DEF Committed
    <3>2. ASSUME NEW i, i # req[p].id, \A n \in DOMAIN effects : effects[n].id # i
          PROVE  \A n \in DOMAIN effects' : effects'[n].id # i
      BY <2>2, <2>4, <3>2
    <3>3. QED
      BY <1>1, <3>1, <3>2 DEF Mutates
  <2>6. TrueOf(req[p].outcome, req[p].id, req[p].body)'
    BY <1>3, <2>1, <2>2, <2>4 DEF TrueOf, Committed
  <2>7. OwnOutcome(p)
    BY <1>1, <1>3, <1>4, <2>6 DEF OwnOutcome
  <2>8. QED
    BY <1>1, <1>3, <2>5, <2>7, Continues
<1>7. QED
  BY <1>5, <1>6

\* What Get finds is answered from the record: a replay repeats a stored response for the same body.
LEMMA ReplayAnswers ==
    ASSUME IdempotencyInv, IdempotencyInv', RepliesInv, NEW p \in Proc, Replay(p)
    PROVE  RepliesInv'
<1> DEFINE k == req[p].key
<1>1. /\ pc[p] = "lookup" /\ k \in Key /\ Completed(k) /\ records[k].body = req[p].body
      /\ UNCHANGED <<records, effects, arrived>>
  BY RequestType DEF Replay, Found, SameBody, Completed, stored, IdempotencyInv, Request
<1>2. /\ pc'[p] = "idle"
      /\ reply'[p] = [kind |-> "replayed", response |-> records[k].response, of |-> records[k].id,
                      body |-> req[p].body]
      /\ \A q \in Proc \ {p} : pc'[q] = pc[q] /\ req'[q] = req[q] /\ reply'[q] = reply[q]
  BY DEF Replay, Return, IdempotencyInv, TypeOK
<1>3. arrived \in Nat /\ records[k] \in Record
  BY <1>1, RowType DEF IdempotencyInv, TypeOK, Completed
<1>4. PICK r \in Record : r = records[k]
  BY <1>3
<1>5. Ended(r.id) /\ TrueOf(r.response, r.id, r.body) /\ r.id \in Nat
  BY <1>1, <1>4 DEF RepliesInv, ResponsesOK, Record
<1>6. Acts(p)
  BY <1>1, <1>2, <1>3 DEF Acts
<1>7. Ended(r.id)'
  BY <1>5, <1>6, EndedStays
<1>8. TrueOf(r.response, r.id, r.body)'
  BY <1>1, <1>5 DEF TrueOf, Committed
<1>9. /\ reply'[p].kind = "replayed" /\ reply'[p].response = r.response /\ reply'[p].of = r.id
      /\ reply'[p].body = r.body
  BY <1>1, <1>2, <1>4
<1>10. Answers(p)
  <2>1. TrueOf(reply[p].response, reply[p].of, reply[p].body)'
    BY <1>8, <1>9
  <2>2. Ended(reply[p].of)'
    BY <1>7, <1>9
  <2>3. \E x \in Key : Completed(x) /\ records[x].id = reply'[p].of /\ records[x].response = reply'[p].response
    BY <1>1, <1>4, <1>9
  <2>4. QED
    BY <1>9, <2>1, <2>2, <2>3 DEF Answers
<1>11. OwnOutcome(p) /\ Stores
  BY <1>1, <1>2 DEF OwnOutcome, Stores
<1>12. QED
  BY <1>1, <1>6, <1>10, <1>11, NoMutation, RepliesKeep

\* An execution ends with its answer: the ids of the others differ.
LEMMA OwnIdEnds ==
    ASSUME IdempotencyInv, NEW p \in Proc, pc[p] # "idle", pc'[p] = "idle", UNCHANGED arrived,
           \A q \in Proc \ {p} : pc'[q] = pc[q] /\ req'[q] = req[q], NEW i, i = req[p].id
    PROVE  Ended(i)'
<1>1. i <= arrived
  BY DEF IdempotencyInv, IdsOK
<1>2. \A q \in Proc : pc'[q] # "idle" => req'[q].id # i
  BY DEF IdempotencyInv, IdsOK
<1>3. QED
  BY <1>1, <1>2 DEF Ended

\* A failure is passed on; the record stays pending.
LEMMA FailureAnswers ==
    ASSUME IdempotencyInv, IdempotencyInv', RepliesInv, NEW p \in Proc, PassFailure(p)
    PROVE  RepliesInv'
<1>1. /\ pc[p] = "complete" /\ UNCHANGED <<records, effects, arrived>> /\ pc'[p] = "idle"
      /\ reply'[p] = [kind |-> "answered", response |-> "failed", of |-> req[p].id, body |-> req[p].body]
      /\ \A q \in Proc \ {p} : pc'[q] = pc[q] /\ req'[q] = req[q] /\ reply'[q] = reply[q]
      /\ arrived \in Nat
  BY DEF PassFailure, Return, stored, IdempotencyInv, TypeOK
<1>2. Acts(p)
  BY <1>1 DEF Acts
<1>3. PICK i : i = req[p].id
  OBVIOUS
<1>4. Ended(i)'
  BY <1>1, <1>3, OwnIdEnds
<1>5. \A k \in Key : Completed(k) => records[k].id # i
  BY <1>1, <1>3 DEF RepliesInv, ResponsesOK, Ended
<1>6. reply'[p].kind = "answered" /\ reply'[p].response = "failed" /\ reply'[p].of = i
  BY <1>1, <1>3
<1>7. Answers(p)
  <2>1. Ended(reply[p].of)'
    BY <1>4, <1>6
  <2>2. TrueOf(reply[p].response, reply[p].of, reply[p].body)'
    BY <1>6 DEF TrueOf
  <2>3. \A k \in Key : Completed(k)' => records'[k].id # i
    BY <1>1, <1>5 DEF Completed, Pending
  <2>4. QED
    BY <1>1, <1>3, <1>6, <2>1, <2>2, <2>3 DEF Answers
<1>8. OwnOutcome(p) /\ Stores
  BY <1>1 DEF OwnOutcome, Stores
<1>9. QED
  BY <1>1, <1>2, <1>7, <1>8, NoMutation, RepliesKeep

\* The response is stored in the execution's own record, and the answer says the same.
LEMMA StoreAnswers ==
    ASSUME IdempotencyInv, IdempotencyInv', RepliesInv, NEW p \in Proc, pc[p] = "complete",
           Claimed(p), StoreResponse(p), UNCHANGED <<effects, arrived>>,
           NEW kind, NEW response, Return(p, kind, response, req[p].id),
           \/ kind = "answered" /\ response = req[p].outcome
           \/ /\ kind \notin {"answered", "replayed"} /\ response = "none"
              /\ kind = "completion_unknown" => req[p].outcome = "created"
    PROVE  RepliesInv'
<1>1. PICK q \in Request : q = req[p]
  BY RequestType DEF IdempotencyInv
<1>2. /\ q.key \in Key /\ records[q.key] \in Record /\ records[q.key] # NoRecord
      /\ records[q.key].id = q.id /\ records[q.key].body = q.body
      /\ TrueOf(q.outcome, q.id, q.body)
  BY <1>1, RowType DEF IdempotencyInv, Request, Claimed, RepliesInv, OutcomesOK
<1>3. /\ pc'[p] = "idle" /\ arrived \in Nat /\ arrived' = arrived
      /\ reply'[p] = [kind |-> kind, response |-> response, of |-> q.id, body |-> q.body]
      /\ \A x \in Proc \ {p} : pc'[x] = pc[x] /\ req'[x] = req[x] /\ reply'[x] = reply[x]
  BY <1>1 DEF Return, IdempotencyInv, TypeOK
<1>4. /\ records'[q.key] = [records[q.key] EXCEPT !.status = "completed", !.response = q.outcome]
      /\ \A k \in Key : k # q.key => records'[k] = records[k]
  BY <1>1, <1>2 DEF StoreResponse, IdempotencyInv, TypeOK
<1>5. /\ records'[q.key].id = q.id /\ records'[q.key].body = q.body
      /\ records'[q.key].response = q.outcome
  BY <1>2, <1>4 DEF Record
<1>6. Acts(p)
  <2>1. \A k \in Key : records'[k] # records[k] => k = q.key
    BY <1>4
  <2>2. \A k \in Key : records[k] # NoRecord /\ records'[k] # NoRecord =>
          records'[k].body = records[k].body
    BY <1>2, <1>5, <2>1
  <2>3. \A k \in Key : Completed(k)' =>
          \/ records'[k] = records[k]
          \/ records'[k].id = req[p].id /\ pc[p] # "idle"
    BY <1>1, <1>5, <2>1
  <2>4. QED
    BY <1>3, <2>2, <2>3 DEF Acts
<1>7. Ended(q.id)'
  BY <1>1, <1>3, OwnIdEnds
<1>8. TrueOf(q.outcome, q.id, q.body)'
  BY <1>2 DEF TrueOf, Committed
<1>9. Stores
  <2>1. ASSUME NEW k \in Key, records'[k] # records[k]
        PROVE  Ended(records[k].id)' /\ TrueOf(records[k].response, records[k].id, records[k].body)'
    <3>1. k = q.key
      BY <1>4, <2>1
    <3>2. QED
      BY <1>5, <1>7, <1>8, <3>1
  <2>2. QED
    BY <2>1 DEF Stores
<1>10. \A k \in Key : Completed(k)' /\ records'[k].id = q.id => records'[k].response = q.outcome
  <2> SUFFICES ASSUME NEW k \in Key, Completed(k)', records'[k].id = q.id, k # q.key
               PROVE  FALSE
    BY <1>5
  <2>1. records'[k] = records[k]
    BY <1>4
  <2>2. Completed(k) /\ records[k].id = q.id
    BY <2>1 DEF Completed, Pending
  <2>3. Ended(q.id)
    BY <2>2 DEF RepliesInv, ResponsesOK
  <2>4. QED
    BY <1>1, <2>3 DEF Ended
<1>11. /\ reply'[p].kind = kind /\ reply'[p].response = response /\ reply'[p].of = q.id
       /\ reply'[p].body = q.body
  BY <1>3
<1>12. Answers(p)
  <2>1. CASE kind = "answered" /\ response = q.outcome
    <3>1. TrueOf(reply[p].response, reply[p].of, reply[p].body)' /\ Ended(reply[p].of)'
      BY <1>7, <1>8, <1>11, <2>1
    <3>2. QED
      BY <1>1, <1>10, <1>11, <2>1, <3>1 DEF Answers
  <2>2. CASE /\ kind \notin {"answered", "replayed"} /\ response = "none"
             /\ kind = "completion_unknown" => q.outcome = "created"
    <3>1. kind = "completion_unknown" => Committed(reply[p].of, reply[p].body)'
      BY <1>8, <1>11, <2>2 DEF TrueOf
    <3>2. TrueOf(reply[p].response, reply[p].of, reply[p].body)'
      BY <1>11, <2>2 DEF TrueOf
    <3>3. QED
      BY <1>11, <2>2, <3>1, <3>2 DEF Answers
  <2>3. QED
    BY <1>1, <2>1, <2>2
<1>13. OwnOutcome(p)
  BY <1>3 DEF OwnOutcome
<1>14. QED
  BY <1>6, <1>9, <1>12, <1>13, NoMutation, RepliesKeep

\* The store fails: the record stays pending and the answer says what is known.
LEMMA UnstoredAnswers ==
    ASSUME IdempotencyInv, IdempotencyInv', RepliesInv, NEW p \in Proc, pc[p] = "complete",
           UNCHANGED <<records, effects, arrived>>,
           NEW kind \in {"completion_unknown", "completion_failed"},
           kind = "completion_unknown" => req[p].outcome = "created",
           Return(p, kind, "none", req[p].id)
    PROVE  RepliesInv'
<1>1. PICK q : q = req[p]
  OBVIOUS
<1>2. TrueOf(q.outcome, q.id, q.body)
  BY <1>1 DEF RepliesInv, OutcomesOK
<1>3. /\ pc'[p] = "idle" /\ arrived \in Nat /\ arrived' = arrived
      /\ reply'[p] = [kind |-> kind, response |-> "none", of |-> q.id, body |-> q.body]
      /\ \A x \in Proc \ {p} : pc'[x] = pc[x] /\ req'[x] = req[x] /\ reply'[x] = reply[x]
  BY <1>1 DEF Return, IdempotencyInv, TypeOK
<1>4. Acts(p)
  BY <1>3 DEF Acts
<1>5. /\ reply'[p].kind = kind /\ reply'[p].response = "none" /\ reply'[p].of = q.id
      /\ reply'[p].body = q.body
  BY <1>3
<1>6. Answers(p)
  <2>1. kind = "completion_unknown" => Committed(q.id, q.body)'
    BY <1>1, <1>2 DEF TrueOf, Committed
  <2>2. kind = "completion_unknown" => Committed(reply[p].of, reply[p].body)'
    BY <1>5, <2>1
  <2>3. TrueOf(reply[p].response, reply[p].of, reply[p].body)'
    BY <1>5 DEF TrueOf
  <2>4. QED
    BY <1>5, <2>2, <2>3 DEF Answers
<1>7. OwnOutcome(p) /\ Stores
  BY <1>3 DEF OwnOutcome, Stores
<1>8. QED
  BY <1>4, <1>6, <1>7, NoMutation, RepliesKeep

\* Answers of the statements before the handler, and of a crash, carry no response.
LEMMA PlainAnswers ==
    ASSUME IdempotencyInv, IdempotencyInv', RepliesInv, NEW p \in Proc,
           LookupMissing(p) \/ LookupReused(p) \/ LookupPending(p) \/ CheckFails(p) \/ Crash(p)
    PROVE  RepliesInv'
<1>1. pc[p] # "idle" /\ UNCHANGED <<effects, arrived>>
  BY DEF LookupMissing, LookupReused, LookupPending, CheckFails, Crash, stored
<1>2. CASE CheckFails(p)
  <2>1. Return(p, "check_failed", "none", 0)
    BY <1>2 DEF CheckFails
  <2>2. req[p].key \in Key
    BY <1>1, RequestType DEF IdempotencyInv, Request
  <2>3. \A k \in Key : \/ records'[k] = records[k]
                       \/ records[k] = NoRecord /\ ~Completed(k)'
    <3>1. CASE UNCHANGED records
      BY <3>1
    <3>2. CASE records[req[p].key] = NoRecord /\ records' = [records EXCEPT ![req[p].key] = NewRecord(p)]
      <4>1. /\ records'[req[p].key] = NewRecord(p)
            /\ \A k \in Key : k # req[p].key => records'[k] = records[k]
        BY <2>2, <3>2 DEF IdempotencyInv, TypeOK
      <4>2. NewRecord(p).status = "pending"
        BY DEF NewRecord
      <4>3. QED
        BY <3>2, <4>1, <4>2 DEF Completed, Pending
    <3>3. QED
      BY <1>2, <3>1, <3>2 DEF CheckFails
  <2>4. "check_failed" \in ReplyKind \ {"answered", "replayed", "completion_unknown"}
    BY DEF ReplyKind
  <2>5. QED
    BY <1>1, <2>1, <2>3, <2>4, PlainReturn
<1>3. CASE LookupMissing(p) \/ LookupReused(p) \/ LookupPending(p) \/ Crash(p)
  <2>1. \A k \in Key : records'[k] = records[k]
    BY <1>3 DEF LookupMissing, LookupReused, LookupPending, Crash, stored
  <2>2. \E kind \in {"key_conflict", "key_reused", "outcome_unknown", "in_progress", "lost"} :
          \E of : Return(p, kind, "none", of)
    BY <1>3 DEF LookupMissing, LookupReused, LookupPending, Crash
  <2>3. {"key_conflict", "key_reused", "outcome_unknown", "in_progress", "lost"}
          \subseteq ReplyKind \ {"answered", "replayed", "completion_unknown"}
    BY DEF ReplyKind
  <2>4. QED
    BY <1>1, <2>1, <2>2, <2>3, PlainReturn
<1>4. QED
  BY <1>2, <1>3

\* Where nobody acts, answers and records stay.
LEMMA QuietAnswers ==
    ASSUME RepliesInv, UNCHANGED <<records, effects, pc, req, reply, arrived>>
    PROVE  RepliesInv'
BY DEF RepliesInv, OutcomesOK, ResponsesOK, AnswersOK, RepliesAreTrue, Committed, TrueOf, Ended,
       Completed, Pending

\* Every step keeps the answers true.
LEMMA NextAnswers ==
    ASSUME IdempotencyInv, IdempotencyInv', RepliesInv, [Next]_vars
    PROVE  RepliesInv'
<1>1. ASSUME NEW p \in Proc, Complete(p) PROVE RepliesInv'
  BY <1>1, StoreAnswers DEF Complete
<1>2. ASSUME NEW p \in Proc, CompleteFails(p) PROVE RepliesInv'
  <2> DEFINE kind == IF req[p].outcome = "created" THEN "completion_unknown" ELSE "completion_failed"
  <2>1. /\ pc[p] = "complete" /\ UNCHANGED <<effects, arrived>> /\ Return(p, kind, "none", req[p].id)
    BY <1>2 DEF CompleteFails
  <2>2. /\ kind \in {"completion_unknown", "completion_failed"}
        /\ kind = "completion_unknown" => req[p].outcome = "created"
    OBVIOUS
  <2> HIDE DEF kind
  <2>3. CASE UNCHANGED <<records, completed>>
    BY <2>1, <2>2, <2>3, UnstoredAnswers
  <2>4. CASE Claimed(p) /\ StoreResponse(p)
    BY <2>1, <2>2, <2>4, StoreAnswers
  <2>5. QED
    BY <1>2, <2>3, <2>4 DEF CompleteFails
<1>3. ASSUME NEW p \in Proc, Step(p) \/ Crash(p) PROVE RepliesInv'
  BY <1>1, <1>2, <1>3, ClaimAnswers, PlainAnswers, ReplayAnswers, HandlerAnswers, FailureAnswers DEF Step
<1>4. CASE Tick \/ UNCHANGED vars
  BY <1>4, QuietAnswers DEF Tick, vars
<1>5. QED
  BY <1>3, <1>4, ArriveAnswers DEF Next

\* Every answer of the middleware is true: success means a committed mutation of the caller's
\* body, refusal that nothing was committed, and a replay repeats what the first caller was told.
THEOREM AnswersAreTrue == Spec => []RepliesAreTrue
<1>1. Init => RepliesInv
  BY DEF Init, RepliesInv, OutcomesOK, ResponsesOK, AnswersOK, RepliesAreTrue, NoReply, TrueOf, Completed
<1>2. IdempotencyInv /\ IdempotencyInv' /\ RepliesInv /\ [Next]_vars => RepliesInv'
  BY NextAnswers
<1>3. RepliesInv => RepliesAreTrue
  BY DEF RepliesInv
<1>4. QED
  BY <1>1, <1>2, <1>3, InvariantHolds, PTL DEF Spec
=============================================================================
