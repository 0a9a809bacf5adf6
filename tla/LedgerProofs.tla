---------------------------- MODULE LedgerProofs ----------------------------
(***************************************************************************)
(* Proofs about Ledger and Dashboard, for every set of requests, accounts  *)
(* and processes.  LedgerInv is shown inductive; it carries the lock       *)
(* discipline (a row a request has locked is changed by nobody else) from  *)
(* which the other theorems follow.                                        *)
(***************************************************************************)
EXTENDS Dashboard, SequenceTheorems, FiniteSetTheorems, NaturalsInduction, WellFoundedInduction,
        TLAPS

\* What a step of p may do to the tables while the others look on: rows that p has not
\* locked keep their values, and a posted transaction keeps everything but its status.
TableStep(p) ==
    /\ accounts' \in [AccountId -> AccountRow \union {NoAccount}]
    /\ \A a \in AccountId : Exists(a) => accounts'[a] # NoAccount
    /\ \A a \in AccountId : Exists(a) /\ a \notin held[p] => accounts'[a] = accounts[a]
    /\ transactions' \in Seq(TransactionRow)
    /\ transfers' \in Seq(TransferRow)
    /\ accountAudit' \in [AccountId -> AuditLog(AccountRow)]
    /\ transactionAudit' \in Seq(AuditLog(TransactionRow))
    /\ transferAudit' \in Seq(AuditLog(TransferRow))
    /\ Len(transactionAudit') = Len(transactions')
    /\ Len(transferAudit') = Len(transfers')
    /\ \A n \in DOMAIN transactions :
         /\ n \in DOMAIN transactions'
         /\ transactions'[n].account = transactions[n].account
         /\ transactions'[n].type = transactions[n].type
         /\ transactions'[n].amount = transactions[n].amount
         /\ transactions'[n].source = transactions[n].source
         /\ transactions'[n].transfer = transactions[n].transfer
         /\ n # row[p] => transactions'[n].status = transactions[n].status

\* A step of p leaves the state of every other request alone.
LocalStep(p) ==
    \A q \in Proc \ {p} :
        /\ pc'[q] = pc[q] /\ req'[q] = req[q] /\ draft'[q] = draft[q]
        /\ held'[q] = held[q] /\ shared'[q] = shared[q] /\ row'[q] = row[q]

\* The part of TypeOK that is about the requests in flight.
LocalTypeOK ==
    /\ pc \in [Proc -> {"idle", "lock", "locked", "write"}]
    /\ req \in [Proc -> Offered \union {NoAccount}]
    /\ draft \in [Proc -> Draft]
    /\ held \in [Proc -> SUBSET AccountId]
    /\ shared \in [Proc -> SUBSET AccountId]
    /\ row \in [Proc -> Nat]
    /\ started \in Nat

\* p shares no row lock with another request.
Apart(p) ==
    \A q \in Proc \ {p} :
        /\ held[p] \intersect held[q] = {}
        /\ row[p] = row[q] => row[p] = None

-----------------------------------------------------------------------------
(* Requests and their lock sets. *)

\* The kind of a request decides its shape.
LEMMA RequestShape ==
    ASSUME NEW r \in Request
    PROVE  /\ r.kind = "create" => r \in CreateRequest
           /\ r.kind = "transfer" => r \in TransferRequest
           /\ IsLifecycle(r) => r \in LifecycleRequest
           /\ r.kind = "update" => r \in UpdateRequest
           /\ r.kind = "archive" => r \in ArchiveRequest
           /\ r.kind = "open" => r \in OpenRequest
           /\ r.kind \in {"create", "transfer", "update", "archive", "open",
                          "cancel", "soft_delete", "reverse"}
    BY DEF Request, CreateRequest, TransferRequest, LifecycleRequest, UpdateRequest,
           ArchiveRequest, OpenRequest, IsLifecycle

\* Every request locks accounts; all but lifecycle and open requests lock at least one.
LEMMA LockSetShape ==
    ASSUME NEW r \in Request
    PROVE  /\ LockSet(r) \subseteq AccountId
           /\ r.kind \in {"create", "transfer", "update", "archive"} => LockSet(r) # {}
           /\ IsLifecycle(r) => LockSet(r) = {}
           /\ \A S \in SUBSET LockSet(r) : S # {} => \E a \in S : \A b \in S : a <= b
    <1> USE RequestShape, ConstantsAssumption
    <1>1. CASE r.kind = "create"
        BY <1>1 DEF LockSet, CreateRequest, None, IsLifecycle
    <1>2. CASE r.kind = "transfer"
        BY <1>2 DEF LockSet, TransferRequest, IsLifecycle
    <1>3. CASE r.kind \in {"update", "archive"}
        BY <1>3 DEF LockSet, UpdateRequest, ArchiveRequest, IsLifecycle
    <1>4. CASE IsLifecycle(r)
        BY <1>4 DEF LockSet, IsLifecycle
    <1>5. CASE r.kind = "open"
        BY <1>5 DEF LockSet, OpenRequest, IsLifecycle
    <1> QED BY <1>1, <1>2, <1>3, <1>4, <1>5 DEF IsLifecycle

\* NextLock is a row the request still has to lock.
LEMMA NextLockShape ==
    ASSUME LedgerInv, NEW p \in Proc, pc[p] = "lock", ~IsLifecycle(req[p])
    PROVE  NextLock(p) \in LockSet(req[p]) \ held[p]
    <1>1. req[p] \in Request
        BY ConstantsAssumption DEF LedgerInv, DraftOK
    <1>2. LockSet(req[p]) \ held[p] # {}
        BY DEF LedgerInv, LocksOK
    <1>3. \E a \in LockSet(req[p]) \ held[p] : \A b \in LockSet(req[p]) \ held[p] : a <= b
        BY <1>1, <1>2, LockSetShape
    <1> QED BY <1>3 DEF NextLock

-----------------------------------------------------------------------------
(* Audit logs. *)

\* Appending an event to an audit log gives an audit log.
LEMMA AuditLogGrows ==
    ASSUME NEW Row, NEW log \in AuditLog(Row), NEW before \in Row \union {NoAccount},
           NEW after \in Row, NEW type \in EventType
    PROVE  Append(log, Event(type, before, after)) \in AuditLog(Row)
    <1>1. Event(type, before, after)
            \in [type : EventType, before : Row \union {NoAccount}, after : Row]
        BY DEF Event
    <1> QED BY <1>1 DEF AuditLog

\* The log of a row that was just inserted.
LEMMA AuditLogStarts ==
    ASSUME NEW Row, NEW after \in Row, NEW type \in EventType
    PROVE  <<Event(type, NoAccount, after)>> \in AuditLog(Row)
    <1>1. Event(type, NoAccount, after)
            \in [type : EventType, before : Row \union {NoAccount}, after : Row]
        BY DEF Event
    <1> QED BY <1>1 DEF AuditLog

-----------------------------------------------------------------------------
(* The other requests. *)

\* A step of p that respects the locks keeps what every other request relies on.
LEMMA OthersKeep ==
    ASSUME LedgerInv, NEW p \in Proc, TableStep(p), LocalStep(p), NEW q \in Proc \ {p}
    PROVE  /\ pc'[q] # "idle" => DraftOK(q)'
           /\ LocksOK(q)'
    <1> DEFINE r == req[q]
    <1>0. /\ pc'[q] = pc[q] /\ req'[q] = r /\ draft'[q] = draft[q]
          /\ held'[q] = held[q] /\ shared'[q] = shared[q] /\ row'[q] = row[q]
        BY DEF LocalStep
    <1>1. LocksOK(q) /\ (pc[q] # "idle" => DraftOK(q))
        BY DEF LedgerInv
    <1>2. held[q] \subseteq AccountId /\ held[p] \intersect held[q] = {}
        BY DEF LedgerInv, TypeOK, Exclusive
    <1>3. ASSUME pc[q] # "idle" PROVE DraftOK(q)'
        <2>1. DraftOK(q) /\ r \in Request
            BY <1>1, <1>3, ConstantsAssumption DEF DraftOK
        <2>2. IsLifecycle(r) => /\ r.tx \in DOMAIN transactions'
                                /\ transactions'[r.tx].account = transactions[r.tx].account
                                /\ Delta(transactions'[r.tx]) = Delta(transactions[r.tx])
            BY <2>1 DEF DraftOK, TableStep, Delta
        <2>3. \A a \in LockSet(r) : accounts'[a] # NoAccount
            BY <2>1, LockSetShape DEF DraftOK, TableStep, Exists
        <2> QED BY <1>0, <2>1, <2>2, <2>3 DEF DraftOK, Exists, IsLifecycle
    <1>4. LocksOK(q)'
        <2>1. \A a \in held[q] : Exists(a) => accounts'[a] = accounts[a]
            BY <1>2 DEF TableStep
        <2>2. pc[q] = "write" => (TransferAccountsAccept(q))'
            <3> HAVE pc[q] = "write"
            <3>1. DraftOK(q) /\ r.kind = "transfer" /\ held[q] = LockSet(r) /\ r \in Request
                BY <1>1, ConstantsAssumption DEF LocksOK, DraftOK
            <3>2. /\ \A a \in held[q] : accounts'[a] = accounts[a]
                  /\ {draft[q].from, draft[q].to} = held[q]
                BY <2>1, <3>1 DEF DraftOK, LockSet
            <3>3. TransferAccountsAccept(q)
                BY <1>1 DEF LocksOK
            <3> QED BY <1>0, <3>2, <3>3 DEF TransferAccountsAccept
        <2>3. (pc[q] = "locked" /\ IsLifecycle(r)) => LifecycleAccepts(r.tx)'
            <3> HAVE pc[q] = "locked" /\ IsLifecycle(r)
            <3>1. row[q] = r.tx /\ LifecycleAccepts(r.tx) /\ r.tx \in DOMAIN transactions
                BY <1>1 DEF LocksOK, DraftOK
            <3>2. r.tx # row[p]
                BY <3>1 DEF LedgerInv, TypeOK, Exclusive, None
            <3> QED BY <1>0, <3>1, <3>2 DEF TableStep, LifecycleAccepts, IsManualLifecycle
        <2> QED BY <1>0, <1>1, <2>2, <2>3 DEF LocksOK
    <1> QED BY <1>0, <1>3, <1>4

-----------------------------------------------------------------------------
(* Steps that keep the invariant. *)

\* The invariant after a step of p, from what the step does to the tables, to the other
\* requests and to p itself.
LEMMA StepKeeps ==
    ASSUME LedgerInv, NEW p \in Proc, TableStep(p), LocalStep(p),
           LocalTypeOK',
           pc'[p] # "idle" => DraftOK(p)',
           LocksOK(p)',
           Apart(p)'
    PROVE  LedgerInv'
    <1>1. TypeOK'
        BY DEF TypeOK, TableStep, LocalTypeOK
    <1>2. \A q \in Proc : (pc'[q] # "idle" => DraftOK(q)') /\ LocksOK(q)'
        BY OthersKeep
    <1>3. Exclusive'
        <2> SUFFICES ASSUME NEW q \in Proc, NEW u \in Proc, q # u
                     PROVE  /\ held'[q] \intersect held'[u] = {}
                            /\ row'[q] = row'[u] => row'[q] = None
            BY DEF Exclusive
        <2>1. \A v \in Proc \ {p} : held'[v] = held[v] /\ row'[v] = row[v]
            BY DEF LocalStep
        <2>2. CASE q = p
            BY <2>1, <2>2 DEF Apart
        <2>3. CASE u = p
            BY <2>1, <2>3 DEF Apart
        <2>4. CASE q # p /\ u # p
            BY <2>1, <2>4 DEF LedgerInv, Exclusive
        <2> QED BY <2>2, <2>3, <2>4
    <1> QED BY <1>1, <1>2, <1>3 DEF LedgerInv

\* A step that writes nothing.
LEMMA UnchangedTables ==
    ASSUME LedgerInv, NEW p \in Proc, UNCHANGED tables
    PROVE  TableStep(p)
    BY DEF LedgerInv, TypeOK, TableStep, tables, Exists

\* The end of a request, committed or rolled back, keeps the invariant.
LEMMA FinishKeeps ==
    ASSUME LedgerInv, NEW p \in Proc, Finish(p), TableStep(p)
    PROVE  LedgerInv'
    <1>1. LocalTypeOK'
        BY DEF LocalTypeOK, Finish, LedgerInv, TypeOK, Draft, None
    <1>2. pc'[p] = "idle" /\ held'[p] = {} /\ row'[p] = None
        BY DEF Finish, LedgerInv, TypeOK
    <1>3. LocksOK(p)'
        BY <1>2 DEF LocksOK, IsLifecycle
    <1> HIDE DEF Finish
    <1>4. LocalStep(p)
        BY DEF LocalStep, Finish, LedgerInv, TypeOK
    <1>5. Apart(p)'
        BY <1>2 DEF Apart
    <1> QED BY <1>1, <1>2, <1>3, <1>4, <1>5, StepKeeps

\* The start of a request: nothing is locked yet.
LEMMA StartKeeps ==
    ASSUME LedgerInv, NEW p \in Proc, NEW r \in Offered, NEW d \in Draft,
           pc[p] = "idle", Start(p, r, d), DraftOK(p)', r.kind # "open"
    PROVE  LedgerInv'
    <1>1. TableStep(p)
        BY UnchangedTables DEF Start
    <1>2. LocalStep(p)
        BY DEF LocalStep, Start, LedgerInv, TypeOK
    <1>3. LocalTypeOK'
        BY DEF LocalTypeOK, Start, LedgerInv, TypeOK
    <1>4. /\ pc'[p] = "lock" /\ req'[p] = r
          /\ held'[p] = {} /\ row'[p] = None
        <2>1. held[p] = {} /\ row[p] = None
            BY DEF LedgerInv, LocksOK
        <2> QED BY <2>1 DEF Start, LedgerInv, TypeOK
    <1>5. LocksOK(p)'
        <2>1. ~IsLifecycle(r) => LockSet(r) # {}
            BY ConstantsAssumption, RequestShape, LockSetShape DEF IsLifecycle
        <2> QED BY <1>4, <2>1 DEF LocksOK
    <1>6. Apart(p)'
        BY <1>4 DEF Apart
    <1> QED BY <1>1, <1>2, <1>3, <1>4, <1>5, <1>6, StepKeeps

\* A create request has only validated its input: no row is locked or written yet.
LEMMA SubmitCreateKeeps ==
    ASSUME LedgerInv, NEW p \in Proc, NEW r \in Offered, SubmitCreate(p, r)
    PROVE  LedgerInv'
    <1> DEFINE d == [account |-> r.account, related |-> r.related, type |-> r.type,
                     amount |-> r.amount, status |-> "confirmed", source |-> "manual",
                     ref |-> 0, transfer |-> 0, date |-> r.date]
    <1>1. r \in CreateRequest /\ r.kind = "create"
        BY ConstantsAssumption, RequestShape DEF SubmitCreate
    <1>2. d \in TransactionRow
        BY <1>1 DEF CreateRequest, TransactionRow, TransactionStatus, TransactionSource
    <1>3. pc[p] = "idle" /\ Start(p, r, d)
        BY DEF SubmitCreate, Idle, buildTransaction
    <1>4. req'[p] = r /\ draft'[p] = d /\ accounts' = accounts /\ transactions' = transactions
        BY <1>3 DEF Start, LedgerInv, TypeOK, tables
    <1>5. \A a \in LockSet(r) : Exists(a)
        BY <1>1 DEF SubmitCreate, Resolves, LockSet
    <1>6. /\ ~IsTransferType(d.type) /\ d.amount # 0
          /\ d.type # "adjustment" => d.amount > 0
          /\ d.date <= Today
        BY DEF SubmitCreate, ValidateCreate
    <1>7. DraftOK(p)'
        <2> HIDE DEF d
        <2>1. /\ d.account = r.account /\ d.related = r.related /\ d.status = "confirmed"
              /\ d.source = "manual" /\ d.transfer = 0
            BY DEF d
        <2> QED BY <1>1, <1>2, <1>4, <1>5, <1>6, <2>1 DEF DraftOK, IsLifecycle, Exists
    <1> QED BY <1>1, <1>2, <1>3, <1>7, StartKeeps DEF Draft

\* Asking to cancel or delete a transaction locks and writes nothing yet.
LEMMA SubmitStatusChangeKeeps ==
    ASSUME LedgerInv, NEW p \in Proc, NEW r \in Offered, SubmitStatusChange(p, r)
    PROVE  LedgerInv'
    <1>1. r \in Request /\ IsLifecycle(r) /\ r.kind \in {"cancel", "soft_delete"}
        BY ConstantsAssumption DEF SubmitStatusChange, IsLifecycle
    <1>2. pc[p] = "idle" /\ Start(p, r, NoAccount)
        BY DEF SubmitStatusChange, Idle
    <1>3. req'[p] = r /\ transactions' = transactions
        BY <1>2 DEF Start, LedgerInv, TypeOK, tables
    <1>4. LockSet(r) = {}
        BY <1>1, LockSetShape
    <1>5. DraftOK(p)'
        BY <1>1, <1>3, <1>4 DEF DraftOK, SubmitStatusChange
    <1> QED BY <1>1, <1>2, <1>5, StartKeeps DEF Draft

\* Asking to reverse a transaction locks and writes nothing yet.
LEMMA SubmitReverseKeeps ==
    ASSUME LedgerInv, NEW p \in Proc, NEW r \in Offered, SubmitReverse(p, r)
    PROVE  LedgerInv'
    <1> DEFINE t == transactions[r.tx]
               d == [account |-> t.account, related |-> t.related,
                     type |-> "adjustment", amount |-> -Delta(t),
                     status |-> "confirmed", source |-> "reconciliation_adjustment",
                     ref |-> r.tx, transfer |-> 0, date |-> Today]
    <1>1. r \in LifecycleRequest /\ IsLifecycle(r) /\ r.kind = "reverse" /\ r \in Request
        BY ConstantsAssumption, RequestShape DEF SubmitReverse, IsLifecycle
    <1>2. t \in TransactionRow /\ r.tx \in Nat /\ r.tx \in DOMAIN transactions
        BY <1>1 DEF SubmitReverse, LedgerInv, TypeOK, LifecycleRequest
    <1>3. Delta(t) \in Int
        BY <1>2 DEF Delta, TransactionRow
    <1>4. d \in TransactionRow
        BY <1>2, <1>3, ConstantsAssumption
        DEF TransactionRow, TransactionStatus, TransactionSource, TransactionType
    <1>5. pc[p] = "idle" /\ Start(p, r, d)
        BY DEF SubmitReverse, Idle, Reversal
    <1>6. req'[p] = r /\ draft'[p] = d /\ transactions' = transactions
        BY <1>5 DEF Start, LedgerInv, TypeOK, tables
    <1>7. LockSet(r) = {}
        BY <1>1, LockSetShape
    <1>8. DraftOK(p)'
        BY <1>1, <1>2, <1>4, <1>6, <1>7 DEF DraftOK
    <1> QED BY <1>1, <1>4, <1>5, <1>8, StartKeeps DEF Draft

\* Rounding gives an integer amount.
LEMMA RoundIsInt ==
    ASSUME NEW n \in Nat, NEW d \in Nat \ {0}, NEW c \in Currency
    PROVE  RoundForCurrency(n, d, c) \in Int
    <1> DEFINE u == Unit[c]
    <1>1. u \in Nat \ {0}
        BY ConstantsAssumption
    <1> HIDE DEF u
    <1>2. d * u \in Nat \ {0}
        BY <1>1
    <1>3. 2 * d * u \in Nat /\ 2 * d * u > 0 /\ 2 * n + d * u \in Nat
        <2>1. 2 * d * u = 2 * (d * u)
            BY <1>1
        <2> QED BY <1>2, <2>1
    <1> DEFINE x == 2 * n + d * u
               y == 2 * d * u
    <1> HIDE DEF x, y
    <1>4. x \div y \in Int
        BY <1>3 DEF x, y
    <1>5. (x \div y) * u \in Int
        BY <1>1, <1>4
    <1> QED BY <1>5 DEF x, y, u, RoundForCurrency

\* A transfer request has only validated its input: no row is locked or written yet.
LEMMA SubmitTransferKeeps ==
    ASSUME LedgerInv, NEW p \in Proc, NEW r \in Offered, SubmitTransfer(p, r)
    PROVE  LedgerInv'
    <1> DEFINE fromC == accounts[r.from].currency
               toC == accounts[r.to].currency
               toAmount(rate) == IF fromC = toC THEN r.amount
                                 ELSE RoundForCurrency(r.amount * rate[1], rate[2], toC)
               d(rate) == [from |-> r.from, to |-> r.to, fromAmount |-> r.amount,
                           toAmount |-> toAmount(rate), fromCurrency |-> fromC,
                           toCurrency |-> toC, fee |-> r.fee, key |-> r.key,
                           fromTx |-> 0, toTx |-> 0, feeTx |-> 0]
    <1>1. r \in TransferRequest /\ r.kind = "transfer" /\ r \in Request
        BY ConstantsAssumption, RequestShape DEF SubmitTransfer
    <1>2. /\ pc[p] = "idle" /\ Exists(r.from) /\ Exists(r.to) /\ r.from # r.to
          /\ r.amount > 0 /\ r.fee >= 0
        BY DEF SubmitTransfer, ValidTransfer, Idle
    <1>3. PICK rate \in Rate : toAmount(rate) > 0 /\ Start(p, r, d(rate))
        BY DEF SubmitTransfer, ConvertedAmount
    <1>4. fromC \in Currency /\ toC \in Currency
        BY <1>1, <1>2 DEF LedgerInv, TypeOK, TransferRequest, AccountRow, Exists
    <1>5. rate[1] \in Nat \ {0} /\ rate[2] \in Nat \ {0}
        BY <1>3, ConstantsAssumption
    <1>6. toAmount(rate) \in Int
        <2>1. r.amount \in Nat
            BY <1>1, <1>2 DEF TransferRequest
        <2>2. r.amount * rate[1] \in Nat
            BY <2>1, <1>5
        <2>3. RoundForCurrency(r.amount * rate[1], rate[2], toC) \in Int
            BY <1>4, <1>5, <2>2, RoundIsInt
        <2> QED BY <2>1, <2>3
    <1> DEFINE dr == d(rate)
               ta == toAmount(rate)
    <1> HIDE DEF ta
    <1>7. dr = [from |-> r.from, to |-> r.to, fromAmount |-> r.amount,
                toAmount |-> ta, fromCurrency |-> fromC,
                toCurrency |-> toC, fee |-> r.fee, key |-> r.key,
                fromTx |-> 0, toTx |-> 0, feeTx |-> 0]
        BY DEF ta
    <1> HIDE DEF fromC, toC, toAmount, d, dr
    <1>8. ta \in Int /\ ta > 0
        BY <1>3, <1>6 DEF ta
    <1>9. dr \in TransferRow
        BY <1>1, <1>4, <1>7, <1>8 DEF TransferRow, TransferRequest
    <1>10. Start(p, r, dr)
        BY <1>3 DEF dr
    <1>11. req'[p] = r /\ draft'[p] = dr /\ accounts' = accounts
        BY <1>10 DEF Start, LedgerInv, TypeOK, tables
    <1>12. \A a \in LockSet(r) : Exists(a)
        BY <1>1, <1>2 DEF LockSet
    <1>13. /\ dr.from = r.from /\ dr.to = r.to /\ dr.fromAmount > 0
           /\ dr.toAmount > 0 /\ dr.fee >= 0
        BY <1>2, <1>7, <1>8
    <1>14. DraftOK(p)'
        BY <1>1, <1>2, <1>9, <1>11, <1>12, <1>13 DEF DraftOK, IsLifecycle, Exists
    <1> QED BY <1>1, <1>2, <1>9, <1>10, <1>14, StartKeeps DEF Draft

\* An account update takes its snapshot and locks nothing yet.
LEMMA SubmitUpdateKeeps ==
    ASSUME LedgerInv, NEW p \in Proc, NEW r \in Offered, SubmitUpdate(p, r)
    PROVE  LedgerInv'
    <1> DEFINE d == Patch(accounts[r.account], r.set, r.row)
    <1>1. r \in UpdateRequest /\ r.kind = "update"
        BY ConstantsAssumption, RequestShape DEF SubmitUpdate
    <1>2. accounts[r.account] \in AccountRow
        BY <1>1 DEF SubmitUpdate, Exists, LedgerInv, TypeOK, UpdateRequest
    <1>3. d \in AccountRow
        BY <1>1, <1>2 DEF Patch, AccountRow, UpdateRequest
    <1>4. pc[p] = "idle" /\ Start(p, r, d)
        BY DEF SubmitUpdate, Idle
    <1> HIDE DEF d
    <1>5. req'[p] = r /\ draft'[p] = d /\ accounts' = accounts
        BY <1>4 DEF Start, LedgerInv, TypeOK, tables
    <1>6. \A a \in LockSet(r) : Exists(a)
        BY <1>1 DEF LockSet, SubmitUpdate
    <1>7. DraftOK(p)'
        BY <1>1, <1>3, <1>5, <1>6 DEF DraftOK, IsLifecycle, Exists
    <1> QED BY <1>1, <1>3, <1>4, <1>7, StartKeeps DEF Draft

\* Asking to archive an account locks and writes nothing yet.
LEMMA SubmitArchiveKeeps ==
    ASSUME LedgerInv, NEW p \in Proc, NEW r \in Offered, SubmitArchive(p, r)
    PROVE  LedgerInv'
    <1>1. r.kind = "archive"
        BY DEF SubmitArchive
    <1>2. pc[p] = "idle" /\ Start(p, r, NoAccount)
        BY DEF SubmitArchive, Idle
    <1>3. req'[p] = r /\ accounts' = accounts
        BY <1>2 DEF Start, LedgerInv, TypeOK, tables
    <1>4. \A a \in LockSet(r) : Exists(a)
        BY <1>1 DEF LockSet, SubmitArchive
    <1>5. DraftOK(p)'
        BY <1>1, <1>3, <1>4 DEF DraftOK, IsLifecycle, Exists
    <1> QED BY <1>1, <1>2, <1>5, StartKeeps DEF Draft

\* A new account has no transactions, so no posted row changes its account.
LEMMA OpenAccountKeeps ==
    ASSUME LedgerInv, NEW p \in Proc, NEW r \in Offered, OpenAccount(p, r)
    PROVE  LedgerInv'
    <1> DEFINE new == [r.row EXCEPT !.active = TRUE]
    <1>1. r \in OpenRequest
        BY ConstantsAssumption, RequestShape DEF OpenAccount
    <1>2. new \in AccountRow
        BY <1>1 DEF OpenRequest, AccountRow
    <1>9. accountAudit' \in [AccountId -> AuditLog(AccountRow)]
        <2>1. accountAudit[r.account] \in AuditLog(AccountRow)
            BY <1>1 DEF LedgerInv, TypeOK, OpenRequest
        <2>2. "account.created" \in EventType
            BY DEF EventType
        <2> HIDE DEF new
        <2>3. Append(accountAudit[r.account], Event("account.created", NoAccount, new))
                \in AuditLog(AccountRow)
            BY <1>2, <2>1, <2>2, AuditLogGrows
        <2> QED BY <1>1, <2>3 DEF new, OpenAccount, LedgerInv, TypeOK, OpenRequest
    <1>3. /\ ~Exists(r.account) /\ accounts' = [accounts EXCEPT ![r.account] = new]
          /\ UNCHANGED <<transactions, transfers, transactionAudit, transferAudit>>
          /\ UNCHANGED local /\ started' = started + 1 /\ pc[p] = "idle"
        BY DEF OpenAccount, Idle
    <1> HIDE DEF new
    <1>4. TableStep(p)
        BY <1>1, <1>2, <1>3, <1>9, ConstantsAssumption
        DEF TableStep, LedgerInv, TypeOK, Exists, OpenRequest
    <1>5. LocalStep(p)
        BY <1>3 DEF LocalStep, local
    <1>6. LocksOK(p)'
        BY <1>3 DEF LocksOK, LedgerInv, local
    <1>7. LocalTypeOK'
        BY <1>3 DEF LocalTypeOK, LedgerInv, TypeOK, local
    <1>8. /\ pc'[p] = "idle"
          /\ Apart(p)'
        BY <1>3 DEF Apart, LedgerInv, local, Exclusive
    <1> QED BY <1>4, <1>5, <1>6, <1>7, <1>8, StepKeeps

\* A row lock is granted only when no other request holds the row.
LEMMA LockAccountKeeps ==
    ASSUME LedgerInv, NEW p \in Proc, LockAccount(p)
    PROVE  LedgerInv'
    <1> DEFINE a == NextLock(p)
    <1>1. a \in LockSet(req[p]) \ held[p] /\ req[p] \in Request /\ DraftOK(p)
        <2>1. DraftOK(p) /\ req[p] \in Request
            BY ConstantsAssumption DEF LockAccount, LedgerInv, DraftOK
        <2> QED BY <2>1, NextLockShape DEF LockAccount
    <1>2. \A q \in Proc \ {p} : a \notin held[q]
        BY DEF LockAccount, BlockedBy
    <1> HIDE DEF a
    <1>3. /\ pc[p] = "lock" /\ ~IsLifecycle(req[p])
          /\ held' = [held EXCEPT ![p] = @ \union {a}]
          /\ pc' = [pc EXCEPT ![p] = IF LockSet(req[p]) \subseteq held'[p] THEN "locked" ELSE "lock"]
          /\ UNCHANGED <<req, draft, shared, row, started>>
          /\ UNCHANGED tables
        BY DEF LockAccount, a
    <1>4. TableStep(p)
        BY <1>3, UnchangedTables
    <1>5. a \in AccountId
        BY <1>1, LockSetShape
    <1>6. LocalTypeOK'
        BY <1>3, <1>5 DEF LocalTypeOK, LedgerInv, TypeOK
    <1>7. held'[p] = held[p] \union {a} /\ row'[p] = row[p]
        BY <1>3 DEF LedgerInv, TypeOK
    <1>8. LocalStep(p)
        BY <1>3 DEF LocalStep, LedgerInv, TypeOK
    <1>9. DraftOK(p)'
        BY <1>1, <1>3 DEF DraftOK, Exists, tables
    <1>10. LocksOK(p)'
        <2>1. held[p] \subseteq LockSet(req[p]) /\ row[p] = None
            BY <1>3 DEF LedgerInv, LocksOK
        <2>2. pc'[p] = IF LockSet(req[p]) \subseteq held'[p] THEN "locked" ELSE "lock"
            BY <1>3 DEF LedgerInv, TypeOK
        <2>3. req'[p] = req[p]
            BY <1>3
        <2> QED BY <1>1, <1>3, <1>7, <2>1, <2>2, <2>3 DEF LocksOK, None
    <1>11. Apart(p)'
        BY <1>2, <1>7, <1>8 DEF Apart, LocalStep, LedgerInv, Exclusive
    <1> QED BY <1>4, <1>6, <1>8, <1>9, <1>10, <1>11, StepKeeps

\* A transaction lock is granted only when no other request holds the row.
LEMMA LockTransactionKeeps ==
    ASSUME LedgerInv, NEW p \in Proc, LockTransaction(p)
    PROVE  LedgerInv'
    <1> DEFINE t == req[p].tx
    <1>1. /\ pc[p] = "lock" /\ IsLifecycle(req[p]) /\ LifecycleAccepts(t)
          /\ row' = [row EXCEPT ![p] = t]
          /\ pc' = [pc EXCEPT ![p] = "locked"]
          /\ UNCHANGED <<req, draft, held, shared, started>>
          /\ UNCHANGED tables
        BY DEF LockTransaction
    <1>2. DraftOK(p) /\ req[p] \in Request /\ t \in Nat
        <2>1. DraftOK(p) /\ req[p] \in Request
            BY <1>1, ConstantsAssumption DEF LedgerInv, DraftOK
        <2> QED BY <1>1, <2>1, RequestShape DEF LifecycleRequest
    <1>3. \A q \in Proc \ {p} : row[q] # t
        BY <1>1 DEF LockTransaction, BlockedBy
    <1>4. TableStep(p)
        BY <1>1, UnchangedTables
    <1>5. LocalStep(p)
        BY <1>1 DEF LocalStep, LedgerInv, TypeOK
    <1>6. LocalTypeOK'
        BY <1>1, <1>2 DEF LocalTypeOK, LedgerInv, TypeOK
    <1>7. pc'[p] = "locked" /\ row'[p] = t /\ req'[p] = req[p] /\ held'[p] = held[p]
        BY <1>1 DEF LedgerInv, TypeOK
    <1>8. DraftOK(p)'
        BY <1>1, <1>2 DEF DraftOK, Exists, tables
    <1>9. LocksOK(p)'
        <2>1. held[p] \subseteq LockSet(req[p]) /\ LockSet(req[p]) = {}
            BY <1>1, <1>2, LockSetShape DEF LedgerInv, LocksOK
        <2>2. LifecycleAccepts(row[p])'
            BY <1>1, <1>7 DEF LifecycleAccepts, tables
        <2> QED BY <1>1, <1>7, <2>1, <2>2 DEF LocksOK
    <1>10. Apart(p)'
        BY <1>3, <1>5, <1>7 DEF Apart, LocalStep, LedgerInv, Exclusive
    <1> QED BY <1>4, <1>5, <1>6, <1>8, <1>9, <1>10, StepKeeps

\* A foreign-key lock adds an account to the ones a reversal refers to.
LEMMA ReferenceAccountKeeps ==
    ASSUME LedgerInv, NEW p \in Proc, ReferenceAccount(p)
    PROVE  LedgerInv'
    <1> DEFINE a == NextReference(p)
    <1>1. /\ pc[p] = "locked" /\ req[p].kind = "reverse" /\ ~ReferencesHeld(p)
          /\ shared' = [shared EXCEPT ![p] = @ \union {a}]
          /\ UNCHANGED <<pc, req, draft, held, row, started>>
          /\ UNCHANGED tables
        BY DEF ReferenceAccount
    <1>2. draft[p] \in TransactionRow /\ DraftOK(p)
        BY <1>1 DEF LedgerInv, DraftOK
    <1>3. a \in AccountId
        BY <1>1, <1>2 DEF NextReference, ReferencesHeld, TransactionRow
    <1> HIDE DEF a
    <1>4. TableStep(p)
        BY <1>1, UnchangedTables
    <1>5. LocalStep(p)
        BY <1>1 DEF LocalStep, LedgerInv, TypeOK
    <1>6. LocalTypeOK'
        BY <1>1, <1>3 DEF LocalTypeOK, LedgerInv, TypeOK
    <1>7. DraftOK(p)'
        BY <1>1, <1>2 DEF DraftOK, Exists, tables
    <1>8. LocksOK(p)'
        BY <1>1 DEF LedgerInv, LocksOK, TransferAccountsAccept, LifecycleAccepts, tables
    <1>9. Apart(p)'
        BY <1>1 DEF Apart, LedgerInv, Exclusive
    <1> QED BY <1>4, <1>5, <1>6, <1>7, <1>8, <1>9, StepKeeps

\* The balance check of a transfer only moves it to its insert.
LEMMA CheckTransferKeeps ==
    ASSUME LedgerInv, NEW p \in Proc, CheckTransfer(p)
    PROVE  LedgerInv'
    <1>1. /\ pc[p] = "locked" /\ req[p].kind = "transfer" /\ TransferAccountsAccept(p)
          /\ pc' = [pc EXCEPT ![p] = "write"]
          /\ UNCHANGED <<req, draft, held, shared, row, started>>
          /\ UNCHANGED tables
        BY DEF CheckTransfer, Advance
    <1>2. TableStep(p)
        BY <1>1, UnchangedTables
    <1>3. LocalStep(p)
        BY <1>1 DEF LocalStep, LedgerInv, TypeOK
    <1>4. LocalTypeOK'
        BY <1>1 DEF LocalTypeOK, LedgerInv, TypeOK
    <1>5. DraftOK(p)'
        BY <1>1 DEF LedgerInv, DraftOK, Exists, tables
    <1>6. pc'[p] = "write"
        BY <1>1 DEF LedgerInv, TypeOK
    <1>7. LocksOK(p)'
        <2>1. TransferAccountsAccept(p)'
            BY <1>1 DEF TransferAccountsAccept, tables
        <2>2. held[p] = LockSet(req[p]) /\ row[p] = None
            BY <1>1 DEF LedgerInv, LocksOK, IsLifecycle
        <2> QED BY <1>1, <1>6, <2>1, <2>2 DEF LocksOK, IsLifecycle
    <1>8. Apart(p)'
        BY <1>1 DEF Apart, LedgerInv, Exclusive
    <1> QED BY <1>2, <1>3, <1>4, <1>5, <1>7, <1>8, StepKeeps

-----------------------------------------------------------------------------
(* Commits. *)

\* A created transaction extends the table by one row.
LEMMA CommitCreateKeeps ==
    ASSUME LedgerInv, NEW p \in Proc, CommitCreate(p)
    PROVE  LedgerInv'
    <1>1. draft[p] \in TransactionRow
        BY DEF CommitCreate, LedgerInv, DraftOK
    <1>2. <<Event("transaction.created", NoAccount, draft[p])>> \in AuditLog(TransactionRow)
        <2>1. "transaction.created" \in EventType
            BY DEF EventType
        <2> QED BY <1>1, <2>1, AuditLogStarts
    <1>3. TableStep(p)
        <2>1. /\ transactions \in Seq(TransactionRow)
              /\ transactionAudit \in Seq(AuditLog(TransactionRow))
              /\ Len(transactionAudit) = Len(transactions)
              /\ transactions' = Append(transactions, draft[p])
              /\ transactionAudit' = Append(transactionAudit,
                                  <<Event("transaction.created", NoAccount, draft[p])>>)
            BY DEF CommitCreate, LedgerInv, TypeOK
        <2>2. /\ transactions' \in Seq(TransactionRow)
              /\ transactionAudit' \in Seq(AuditLog(TransactionRow))
              /\ Len(transactionAudit') = Len(transactions')
              /\ \A n \in DOMAIN transactions : /\ n \in DOMAIN transactions'
                                                /\ transactions'[n] = transactions[n]
            BY <1>1, <1>2, <2>1
        <2> QED BY <2>2 DEF CommitCreate, LedgerInv, TypeOK, TableStep, Exists
    <1> QED BY <1>3, FinishKeeps DEF CommitCreate

\* Setting the status of a transaction leaves its other columns alone.
LEMMA StatusColumn ==
    ASSUME NEW t \in TransactionRow, NEW s \in TransactionStatus
    PROVE  LET u == [t EXCEPT !.status = s]
           IN /\ u \in TransactionRow /\ u.status = s
              /\ t = [t EXCEPT !.status = t.status]
    BY DEF TransactionRow

\* Two rows that differ in their status only.
LEMMA SameEntry ==
    ASSUME NEW t \in TransactionRow, NEW u \in TransactionRow, u = [t EXCEPT !.status = u.status]
    PROVE  /\ u.account = t.account /\ u.related = t.related /\ u.type = t.type
           /\ u.amount = t.amount /\ u.source = t.source /\ u.ref = t.ref
           /\ u.transfer = t.transfer /\ u.date = t.date
    BY DEF TransactionRow

\* Cancelling or soft-deleting changes the status of the locked row only.
LEMMA StatusRow ==
    ASSUME LedgerInv, NEW t \in DOMAIN transactions, NEW status \in TransactionStatus
    PROVE  LET txs == SetStatus(transactions, t, status)
           IN /\ txs \in Seq(TransactionRow) /\ Len(txs) = Len(transactions)
              /\ \A n \in DOMAIN transactions :
                   /\ n \in DOMAIN txs
                   /\ n # t => txs[n] = transactions[n]
                   /\ txs[n] = [transactions[n] EXCEPT !.status = txs[n].status]
    <1> DEFINE new == [transactions[t] EXCEPT !.status = status]
               txs == SetStatus(transactions, t, status)
    <1>1. transactions \in Seq(TransactionRow)
        BY DEF LedgerInv, TypeOK
    <1>2. transactions[t] \in TransactionRow
        BY <1>1
    <1>3. new \in TransactionRow /\ new.status = status
        BY <1>2 DEF TransactionRow
    <1>4. txs = [transactions EXCEPT ![t] = new]
        BY DEF SetStatus
    <1>5. \A n \in DOMAIN transactions :
            transactions[n] = [transactions[n] EXCEPT !.status = transactions[n].status]
        <2> TAKE n \in DOMAIN transactions
        <2>1. transactions[n] \in TransactionRow
            BY <1>1
        <2>2. transactions[n].status \in TransactionStatus
            BY <2>1 DEF TransactionRow
        <2> QED BY <2>1, <2>2, StatusColumn
    <1>7. new = [transactions[t] EXCEPT !.status = new.status]
        BY <1>3
    <1> HIDE DEF new, txs
    <1>6. /\ txs \in Seq(TransactionRow) /\ Len(txs) = Len(transactions)
          /\ txs[t] = new
          /\ \A n \in DOMAIN transactions : n \in DOMAIN txs /\ (n # t => txs[n] = transactions[n])
        BY <1>1, <1>3, <1>4
    <1> QED BY <1>5, <1>6, <1>7 DEF txs

\* The audit table after a status change keeps its shape.
LEMMA StatusAudit ==
    ASSUME LedgerInv, NEW t \in DOMAIN transactions, NEW status \in TransactionStatus
    PROVE  /\ AuditStatus(t, status) \in Seq(AuditLog(TransactionRow))
           /\ Len(AuditStatus(t, status)) = Len(transactions)
    <1> DEFINE new == [transactions[t] EXCEPT !.status = status]
               log == Append(transactionAudit[t], Event(StatusEvent(status), transactions[t], new))
    <1>1. /\ transactions \in Seq(TransactionRow)
          /\ transactionAudit \in Seq(AuditLog(TransactionRow))
          /\ Len(transactionAudit) = Len(transactions)
        BY DEF LedgerInv, TypeOK
    <1>2. transactions[t] \in TransactionRow /\ transactionAudit[t] \in AuditLog(TransactionRow)
        BY <1>1
    <1>3. new \in TransactionRow
        BY <1>2 DEF TransactionRow
    <1>4. StatusEvent(status) \in EventType
        BY DEF StatusEvent, EventType
    <1>5. AuditStatus(t, status) = [transactionAudit EXCEPT ![t] = log]
        BY DEF AuditStatus
    <1>6. log \in AuditLog(TransactionRow)
        <2> HIDE DEF new
        <2> QED BY <1>2, <1>3, <1>4, AuditLogGrows
    <1> HIDE DEF log
    <1> QED BY <1>1, <1>5, <1>6

\* A lifecycle request that holds its row holds a confirmed manual transaction.
LEMMA LockedRow ==
    ASSUME LedgerInv, NEW p \in Proc, pc[p] = "locked", IsLifecycle(req[p])
    PROVE  /\ row[p] \in DOMAIN transactions /\ row[p] = req[p].tx
           /\ LifecycleAccepts(row[p]) /\ held[p] = {} /\ DraftOK(p)
    <1>1. LocksOK(p) /\ DraftOK(p) /\ req[p] \in Request
        BY ConstantsAssumption DEF LedgerInv, DraftOK
    <1>2. LockSet(req[p]) = {}
        BY <1>1, LockSetShape
    <1> QED BY <1>1, <1>2 DEF LocksOK, DraftOK

\* What a status change does to the tables.
LEMMA CommitStatusChangeKeeps ==
    ASSUME LedgerInv, NEW p \in Proc, CommitStatusChange(p)
    PROVE  LedgerInv'
    <1> DEFINE status == IF req[p].kind = "cancel" THEN "cancelled" ELSE "soft_deleted"
    <1>1. row[p] \in DOMAIN transactions
        BY LockedRow DEF CommitStatusChange, IsLifecycle
    <1>2. status \in TransactionStatus
        BY DEF TransactionStatus
    <1>3. /\ transactions' = SetStatus(transactions, row[p], status)
          /\ transactionAudit' = AuditStatus(row[p], status)
          /\ Finish(p)
          /\ UNCHANGED <<accounts, transfers, accountAudit, transferAudit>>
        BY DEF CommitStatusChange
    <1> HIDE DEF status
    <1>4. /\ transactions' \in Seq(TransactionRow) /\ Len(transactions') = Len(transactions)
          /\ \A n \in DOMAIN transactions :
               /\ n \in DOMAIN transactions'
               /\ n # row[p] => transactions'[n] = transactions[n]
               /\ transactions'[n] = [transactions[n] EXCEPT !.status = transactions'[n].status]
        BY <1>1, <1>2, <1>3, StatusRow
    <1>5. /\ transactionAudit' \in Seq(AuditLog(TransactionRow))
          /\ Len(transactionAudit') = Len(transactions)
        BY <1>1, <1>2, <1>3, StatusAudit
    <1>6. TableStep(p)
        <2>1. \A n \in DOMAIN transactions :
               /\ n \in DOMAIN transactions'
               /\ transactions'[n].account = transactions[n].account
               /\ transactions'[n].type = transactions[n].type
               /\ transactions'[n].amount = transactions[n].amount
               /\ transactions'[n].source = transactions[n].source
               /\ transactions'[n].transfer = transactions[n].transfer
               /\ n # row[p] => transactions'[n].status = transactions[n].status
            <3> TAKE n \in DOMAIN transactions
            <3>1. transactions[n] \in TransactionRow /\ transactions'[n] \in TransactionRow
                BY <1>4 DEF LedgerInv, TypeOK
            <3> QED BY <1>4, <3>1, SameEntry
        <2> QED BY <1>3, <1>4, <1>5, <2>1 DEF LedgerInv, TypeOK, TableStep, Exists
    <1> QED BY <1>3, <1>6, FinishKeeps

\* A reversal changes the status of the locked row and adds the row that undoes it.
LEMMA CommitReverseKeeps ==
    ASSUME LedgerInv, NEW p \in Proc, CommitReverse(p)
    PROVE  LedgerInv'
    <1> DEFINE txs == SetStatus(transactions, row[p], "reversed")
               aud == AuditStatus(row[p], "reversed")
               first == <<Event("transaction.created", NoAccount, draft[p])>>
    <1>1. row[p] \in DOMAIN transactions /\ draft[p] \in TransactionRow
        BY LockedRow DEF CommitReverse, IsLifecycle, DraftOK
    <1>2. "reversed" \in TransactionStatus /\ "transaction.created" \in EventType
        BY DEF TransactionStatus, EventType
    <1>3. /\ transactions' = Append(txs, draft[p])
          /\ transactionAudit' = Append(aud, first)
          /\ Finish(p)
          /\ UNCHANGED <<accounts, transfers, accountAudit, transferAudit>>
        BY DEF CommitReverse
    <1>4. first \in AuditLog(TransactionRow)
        BY <1>1, <1>2, AuditLogStarts
    <1>5. /\ txs \in Seq(TransactionRow) /\ Len(txs) = Len(transactions)
          /\ \A n \in DOMAIN transactions :
               /\ n \in DOMAIN txs
               /\ n # row[p] => txs[n] = transactions[n]
               /\ txs[n] = [transactions[n] EXCEPT !.status = txs[n].status]
        BY <1>1, <1>2, StatusRow
    <1>6. aud \in Seq(AuditLog(TransactionRow)) /\ Len(aud) = Len(transactions)
        BY <1>1, <1>2, StatusAudit
    <1> HIDE DEF txs, aud, first
    <1>7. /\ transactions' \in Seq(TransactionRow)
          /\ Len(transactions') = Len(transactions) + 1
          /\ \A n \in DOMAIN transactions : n \in DOMAIN transactions' /\ transactions'[n] = txs[n]
        BY <1>1, <1>3, <1>5
    <1>8. /\ transactionAudit' \in Seq(AuditLog(TransactionRow))
          /\ Len(transactionAudit') = Len(transactions')
        BY <1>3, <1>4, <1>6, <1>7
    <1>9. TableStep(p)
        <2>1. \A n \in DOMAIN transactions :
               /\ n \in DOMAIN transactions'
               /\ transactions'[n].account = transactions[n].account
               /\ transactions'[n].type = transactions[n].type
               /\ transactions'[n].amount = transactions[n].amount
               /\ transactions'[n].source = transactions[n].source
               /\ transactions'[n].transfer = transactions[n].transfer
               /\ n # row[p] => transactions'[n].status = transactions[n].status
            <3> TAKE n \in DOMAIN transactions
            <3>1. transactions[n] \in TransactionRow /\ txs[n] \in TransactionRow
                BY <1>5 DEF LedgerInv, TypeOK
            <3>2. txs[n] = [transactions[n] EXCEPT !.status = txs[n].status]
                BY <1>5
            <3>3. /\ txs[n].account = transactions[n].account
                  /\ txs[n].type = transactions[n].type
                  /\ txs[n].amount = transactions[n].amount
                  /\ txs[n].source = transactions[n].source
                  /\ txs[n].transfer = transactions[n].transfer
                BY <3>1, <3>2, SameEntry
            <3> QED BY <1>5, <1>7, <3>3
        <2> QED BY <1>3, <1>7, <1>8, <2>1 DEF LedgerInv, TypeOK, TableStep, Exists
    <1> QED BY <1>3, <1>9, FinishKeeps

\* The rows a transfer writes are transactions.
LEMMA TransferRowsShape ==
    ASSUME NEW d \in TransferRow, NEW tid \in Nat
    PROVE  /\ TransferRows(d, tid) \in Seq(TransactionRow)
           /\ Len(TransferRows(d, tid)) = IF d.fee > 0 THEN 3 ELSE 2
    <1>1. /\ TransferLeg(d, tid, "transfer_out") \in TransactionRow
          /\ TransferLeg(d, tid, "transfer_in") \in TransactionRow
        BY ConstantsAssumption DEF TransferLeg, TransferRow, TransactionRow, TransactionType,
           TransactionStatus, TransactionSource
    <1>2. FeeRow(d, tid) \in TransactionRow
        BY ConstantsAssumption DEF FeeRow, TransferRow, TransactionRow, TransactionType,
           TransactionStatus, TransactionSource
    <1> QED BY <1>1, <1>2 DEF TransferRows

\* A transfer gets the ids of its rows when it is written.
LEMMA TransferIds ==
    ASSUME NEW d \in TransferRow, NEW i \in Nat, NEW j \in Nat, NEW k \in Nat
    PROVE  [d EXCEPT !.fromTx = i, !.toTx = j, !.feeTx = k] \in TransferRow
    <1>1. [d EXCEPT !.fromTx = i] \in TransferRow
        BY DEF TransferRow
    <1>2. [[d EXCEPT !.fromTx = i] EXCEPT !.toTx = j] \in TransferRow
        BY <1>1 DEF TransferRow
    <1>3. [[[d EXCEPT !.fromTx = i] EXCEPT !.toTx = j] EXCEPT !.feeTx = k] \in TransferRow
        BY <1>2 DEF TransferRow
    <1> QED BY <1>3

\* Appending a sequence of rows keeps the rows that are there.
LEMMA ConcatKeeps ==
    ASSUME NEW S, NEW s \in Seq(S), NEW t \in Seq(S)
    PROVE  /\ s \o t \in Seq(S) /\ Len(s \o t) = Len(s) + Len(t)
           /\ \A k \in DOMAIN s : k \in DOMAIN (s \o t) /\ (s \o t)[k] = s[k]
           /\ \A k \in DOMAIN t : (s \o t)[Len(s) + k] = t[k]
    BY ConcatProperties

\* A committed transfer adds its rows and leaves the others alone.
LEMMA CommitTransferKeeps ==
    ASSUME LedgerInv, NEW p \in Proc, CommitTransfer(p)
    PROVE  LedgerInv'
    <1> DEFINE n == Len(transactions)
               tid == Len(transfers) + 1
               d == draft[p]
               tr == [d EXCEPT !.fromTx = n + 1, !.toTx = n + 2,
                               !.feeTx = IF d.fee > 0 THEN n + 3 ELSE 0]
               rows == TransferRows(d, tid)
               logs == IF d.fee > 0 THEN << <<>>, <<>>, <<>> >> ELSE << <<>>, <<>> >>
               first == <<Event("transfer.created", NoAccount, tr)>>
    <1>1. /\ transfers' = Append(transfers, tr) /\ transactions' = transactions \o rows
          /\ transactionAudit' = transactionAudit \o logs
          /\ transferAudit' = Append(transferAudit, first)
          /\ Finish(p) /\ UNCHANGED <<accounts, accountAudit>>
        BY DEF CommitTransfer
    <1>2. d \in TransferRow
        BY DEF CommitTransfer, LedgerInv, DraftOK
    <1>3. /\ transactions \in Seq(TransactionRow) /\ transfers \in Seq(TransferRow)
          /\ transactionAudit \in Seq(AuditLog(TransactionRow))
          /\ transferAudit \in Seq(AuditLog(TransferRow))
          /\ Len(transactionAudit) = Len(transactions) /\ Len(transferAudit) = Len(transfers)
        BY DEF LedgerInv, TypeOK
    <1>4. n \in Nat /\ tid \in Nat
        BY <1>3
    <1>5. tr \in TransferRow
        <2> DEFINE k == IF d.fee > 0 THEN n + 3 ELSE 0
        <2>1. n + 1 \in Nat /\ n + 2 \in Nat /\ k \in Nat
            BY <1>4
        <2> HIDE DEF k, n, d
        <2>2. [d EXCEPT !.fromTx = n + 1, !.toTx = n + 2, !.feeTx = k] \in TransferRow
            BY <1>2, <2>1, TransferIds
        <2> QED BY <2>2 DEF k
    <1>6. rows \in Seq(TransactionRow) /\ Len(rows) = IF d.fee > 0 THEN 3 ELSE 2
        BY <1>2, <1>4, TransferRowsShape
    <1>7. logs \in Seq(AuditLog(TransactionRow)) /\ Len(logs) = IF d.fee > 0 THEN 3 ELSE 2
        <2>1. <<>> \in AuditLog(TransactionRow)
            BY DEF AuditLog
        <2> QED BY <2>1
    <1>8. first \in AuditLog(TransferRow)
        <2>1. "transfer.created" \in EventType
            BY DEF EventType
        <2> HIDE DEF tr
        <2> QED BY <1>5, <2>1, AuditLogStarts
    <1> HIDE DEF n, tid, d, tr, rows, logs, first
    <1>9. /\ transactions' \in Seq(TransactionRow)
          /\ Len(transactions') = Len(transactions) + Len(rows)
          /\ \A k \in DOMAIN transactions : /\ k \in DOMAIN transactions'
                                            /\ transactions'[k] = transactions[k]
        <2>0. transactions \in Seq(TransactionRow) /\ rows \in Seq(TransactionRow)
            BY <1>3, <1>6
        <2>1. /\ transactions \o rows \in Seq(TransactionRow)
              /\ Len(transactions \o rows) = Len(transactions) + Len(rows)
              /\ \A k \in DOMAIN transactions : /\ k \in DOMAIN (transactions \o rows)
                                                /\ (transactions \o rows)[k] = transactions[k]
            BY <2>0, ConcatKeeps, Zenon
        <2> QED BY <1>1, <2>1
    <1>10. /\ transactionAudit' \in Seq(AuditLog(TransactionRow))
           /\ Len(transactionAudit') = Len(transactions')
        BY <1>1, <1>3, <1>6, <1>7, <1>9, ConcatKeeps
    <1>11. /\ transfers' \in Seq(TransferRow) /\ transferAudit' \in Seq(AuditLog(TransferRow))
           /\ Len(transferAudit') = Len(transfers')
        BY <1>1, <1>3, <1>5, <1>8
    <1>12. TableStep(p)
        BY <1>1, <1>9, <1>10, <1>11 DEF LedgerInv, TypeOK, TableStep, Exists
    <1> QED BY <1>1, <1>12, FinishKeeps

\* An account write touches one locked row.
LEMMA WriteAccountKeeps ==
    ASSUME LedgerInv, NEW p \in Proc, NEW a \in held[p], NEW new \in AccountRow,
           NEW type \in EventType, Exists(a), WriteAccount(a, type, new), Finish(p)
    PROVE  LedgerInv'
    <1>1. a \in AccountId /\ accounts[a] \in AccountRow /\ accountAudit[a] \in AuditLog(AccountRow)
        BY DEF LedgerInv, TypeOK, Exists
    <1>2. Append(accountAudit[a], Event(type, accounts[a], new)) \in AuditLog(AccountRow)
        BY <1>1, AuditLogGrows
    <1>3. accountAudit' \in [AccountId -> AuditLog(AccountRow)]
        BY <1>1, <1>2 DEF WriteAccount, LedgerInv, TypeOK
    <1>4. TableStep(p)
        BY <1>1, <1>3, ConstantsAssumption DEF WriteAccount, LedgerInv, TypeOK, TableStep, Exists
    <1> QED BY <1>4, FinishKeeps

\* The row that an account request has locked.
LEMMA LockedAccount ==
    ASSUME LedgerInv, NEW p \in Proc, pc[p] = "locked", req[p].kind \in {"update", "archive"}
    PROVE  /\ held[p] = {req[p].account} /\ Exists(req[p].account) /\ DraftOK(p)
           /\ req[p].account \in AccountId /\ accounts[req[p].account] \in AccountRow
    <1>1. DraftOK(p) /\ LocksOK(p)
        BY DEF LedgerInv
    <1>2. held[p] = {req[p].account} /\ Exists(req[p].account)
        BY <1>1 DEF LocksOK, DraftOK, LockSet
    <1> QED BY <1>1, <1>2 DEF LedgerInv, TypeOK, Exists

\* UpdateForUserEnforcingCurrencyInvariant keeps the invariant.
LEMMA CommitUpdateKeeps ==
    ASSUME LedgerInv, NEW p \in Proc, CommitUpdate(p)
    PROVE  LedgerInv'
    <1>1. draft[p] \in AccountRow /\ "account.updated" \in EventType
        BY DEF CommitUpdate, LedgerInv, DraftOK, EventType
    <1> QED BY <1>1, LockedAccount, WriteAccountKeeps DEF CommitUpdate

\* ArchiveForUser keeps the invariant.
LEMMA CommitArchiveKeeps ==
    ASSUME LedgerInv, NEW p \in Proc, CommitArchive(p)
    PROVE  LedgerInv'
    <1> DEFINE new == [accounts[req[p].account] EXCEPT !.active = FALSE]
    <1>1. Exists(req[p].account) /\ req[p].account \in held[p] /\ accounts[req[p].account] \in AccountRow
        BY LockedAccount DEF CommitArchive
    <1>2. new \in AccountRow /\ "account.archived" \in EventType
        BY <1>1 DEF AccountRow, EventType
    <1>3. WriteAccount(req[p].account, "account.archived", new) /\ Finish(p)
        BY DEF CommitArchive
    <1> HIDE DEF new
    <1> QED BY <1>1, <1>2, <1>3, WriteAccountKeeps

\* A request that is turned down, cancelled or chosen as a deadlock victim leaves no trace.
LEMMA RejectKeeps ==
    ASSUME LedgerInv, NEW p \in Proc, Reject(p)
    PROVE  LedgerInv'
    BY UnchangedTables, FinishKeeps DEF Reject

-----------------------------------------------------------------------------
(* The theorems. *)

\* The initial tables hold the initial accounts and nobody runs.
LEMMA InitHolds == Init => LedgerInv
    <1> SUFFICES ASSUME Init PROVE LedgerInv
        OBVIOUS
    <1>1. accountAudit \in [AccountId -> AuditLog(AccountRow)]
        <2>1. \A a \in AccountId : InitialAccount[a] # NoAccount =>
                <<Event("account.created", NoAccount, InitialAccount[a])>> \in AuditLog(AccountRow)
            <3> TAKE a \in AccountId
            <3> HAVE InitialAccount[a] # NoAccount
            <3>1. InitialAccount[a] \in AccountRow /\ "account.created" \in EventType
                BY ConstantsAssumption DEF EventType
            <3> QED BY <3>1, AuditLogStarts
        <2>2. <<>> \in AuditLog(AccountRow)
            BY DEF AuditLog
        <2> QED BY <2>1, <2>2 DEF Init
    <1>2. TypeOK
        BY <1>1, ConstantsAssumption DEF Init, TypeOK, Draft, None
    <1>3. \A p \in Proc : LocksOK(p) /\ pc[p] = "idle"
        BY DEF Init, LocksOK
    <1>4. Exclusive
        BY DEF Init, Exclusive
    <1> QED BY <1>2, <1>3, <1>4 DEF LedgerInv

\* Every step of every request keeps the invariant.
LEMMA NextKeeps == LedgerInv /\ [Next]_vars => LedgerInv'
    <1> SUFFICES ASSUME LedgerInv, [Next]_vars PROVE LedgerInv'
        OBVIOUS
    <1>1. CASE UNCHANGED vars
        BY <1>1 DEF vars, LedgerInv, TypeOK, DraftOK, LocksOK, Exclusive, Exists,
           TransferAccountsAccept, LifecycleAccepts
    <1>2. ASSUME NEW p \in Proc, NEW r \in Offered, Submit(p, r) PROVE LedgerInv'
        BY <1>2, SubmitCreateKeeps, SubmitTransferKeeps, SubmitStatusChangeKeeps,
           SubmitReverseKeeps, OpenAccountKeeps, SubmitUpdateKeeps, SubmitArchiveKeeps DEF Submit
    <1>3. ASSUME NEW p \in Proc, Acquire(p) PROVE LedgerInv'
        BY <1>3, LockAccountKeeps, LockTransactionKeeps, ReferenceAccountKeeps, RejectKeeps
        DEF Acquire, RejectLifecycle
    <1>4. ASSUME NEW p \in Proc, Proceed(p) PROVE LedgerInv'
        BY <1>4, CommitCreateKeeps, CheckTransferKeeps, CommitTransferKeeps,
           CommitStatusChangeKeeps, CommitReverseKeeps, CommitUpdateKeeps, CommitArchiveKeeps,
           RejectKeeps
        DEF Proceed, RejectCreate, RejectTransfer, RejectDuplicateKey, RejectUpdate
    <1>5. ASSUME NEW p \in Proc, Abort(p) \/ DeadlockVictim(p) PROVE LedgerInv'
        BY <1>5, RejectKeeps DEF Abort, DeadlockVictim
    <1> QED BY <1>1, <1>2, <1>3, <1>4, <1>5 DEF Next

\* In every reachable state a request's locks are exclusive, its draft still describes rows
\* that exist, and what it checked under its locks still holds.
THEOREM InvariantHolds == Spec => []LedgerInv
    BY InitHolds, NextKeeps, PTL DEF Spec

\* The tables and the requests in flight always have their types.
THEOREM TypesHold == Spec => []TypeOK
    <1>1. LedgerInv => TypeOK
        BY DEF LedgerInv
    <1> QED BY <1>1, InvariantHolds, PTL

-----------------------------------------------------------------------------
(* Ledger implements AtomicLedger, step by step. *)

\* A created transaction is posted to accounts that accept it: its rows are locked, and they are
\* checked under the lock.
LEMMA CommitCreatePosts ==
    ASSUME LedgerInv, NEW p \in Proc, CommitCreate(p)
    PROVE  Atomic!Post
    <1> DEFINE d == draft[p]
    <1>1. /\ pc[p] = "locked" /\ req[p].kind = "create" /\ LockedRowsAccept(p)
          /\ transactions' = Append(transactions, d)
          /\ UNCHANGED <<accounts, transfers>>
        BY DEF CommitCreate
    <1>2. DraftOK(p) /\ LocksOK(p) /\ transactions \in Seq(TransactionRow) /\ d \in TransactionRow
        BY <1>1 DEF LedgerInv, TypeOK, DraftOK
    <1>3. held[p] = {d.account, d.related} \ {None} /\ \A a \in held[p] : Exists(a)
        BY <1>1, <1>2 DEF LocksOK, DraftOK, LockSet
    <1>4. \A a \in held[p] : accounts[a].opened \in Nat /\ d.date \in Nat
        BY <1>2, <1>3, ConstantsAssumption DEF LedgerInv, TypeOK, AccountRow, TransactionRow, Exists
    <1>5. \A a \in {d.account, d.related} \ {None} : Atomic!Accepts(a, d.date)
        BY <1>1, <1>3, <1>4 DEF LockedRowsAccept, Atomic!Accepts, Exists
    <1>6. /\ d.source = "manual" /\ d.status = "confirmed" /\ d.transfer = 0
          /\ d.type \notin {"transfer_in", "transfer_out"}
          /\ d.amount # 0 /\ (d.type # "adjustment" => d.amount > 0) /\ d.date <= Today
        BY <1>1, <1>2 DEF DraftOK, IsTransferType
    <1> HIDE DEF d
    <1>7. transactions'[Len(transactions) + 1] = d /\ Len(transactions') = Len(transactions) + 1
        BY <1>1, <1>2
    <1> QED BY <1>1, <1>5, <1>6, <1>7 DEF Atomic!Post, Atomic!NextTransaction, Atomic!None, None

\* Two entries and one more are three.
LEMMA PairAndOne ==
    ASSUME NEW a, NEW b, NEW c
    PROVE  <<a, b>> \o <<c>> = <<a, b, c>>
    <1> DEFINE S == {a, b, c}
    <1>1. <<a, b>> \in Seq(S) /\ <<c>> \in Seq(S) /\ <<a, b, c>> \in Seq(S)
        OBVIOUS
    <1>2. /\ <<a, b>> \o <<c>> \in Seq(S)
          /\ Len(<<a, b>> \o <<c>>) = 3
          /\ \A i \in 1..3 : (<<a, b>> \o <<c>>)[i] = <<a, b, c>>[i]
        BY <1>1
    <1> HIDE DEF S
    <1> QED BY <1>1, <1>2, SeqEqual

\* A committed transfer moves the money with all its entries, between accounts whose currencies are
\* still those it was calculated with.
LEMMA CommitTransferMoves ==
    ASSUME LedgerInv, NEW p \in Proc, CommitTransfer(p)
    PROVE  Atomic!Move
    <1> DEFINE n == Len(transactions)
               tid == Len(transfers) + 1
               d == draft[p]
               k == IF d.fee > 0 THEN n + 3 ELSE 0
               tr == [d EXCEPT !.fromTx = n + 1, !.toTx = n + 2, !.feeTx = k]
    <1>1. /\ pc[p] = "write" /\ req[p].kind = "transfer" /\ ~KeyUsed(d.key)
          /\ transfers' = Append(transfers, tr)
          /\ transactions' = transactions \o TransferRows(d, tid)
          /\ UNCHANGED accounts
        BY DEF CommitTransfer
    <1>2. /\ DraftOK(p) /\ LocksOK(p) /\ d \in TransferRow
          /\ transactions \in Seq(TransactionRow) /\ transfers \in Seq(TransferRow)
        BY <1>1 DEF LedgerInv, TypeOK, DraftOK
    <1>3. /\ held[p] = {d.from, d.to} /\ \A a \in held[p] : Exists(a)
          /\ TransferAccountsAccept(p)
        BY <1>1, <1>2 DEF LocksOK, DraftOK, LockSet
    <1>4. /\ \A a \in {d.from, d.to} : Atomic!Accepts(a, Today)
          /\ accounts[d.from].currency = d.fromCurrency /\ accounts[d.to].currency = d.toCurrency
        <2>1. \A a \in held[p] : accounts[a].opened \in Nat /\ Today \in Nat
            BY <1>2, <1>3, ConstantsAssumption DEF LedgerInv, TypeOK, AccountRow, Exists
        <2> QED BY <1>3, <2>1 DEF TransferAccountsAccept, Atomic!Accepts, Exists
    <1>5. /\ d.from # d.to /\ d.fromAmount > 0 /\ d.toAmount > 0 /\ d.fee >= 0
          /\ \A i \in DOMAIN transfers : transfers[i].key # d.key
        BY <1>1, <1>2 DEF DraftOK, KeyUsed
    <1>6. /\ tr.from = d.from /\ tr.to = d.to /\ tr.fromAmount = d.fromAmount
          /\ tr.toAmount = d.toAmount /\ tr.fromCurrency = d.fromCurrency
          /\ tr.toCurrency = d.toCurrency /\ tr.fee = d.fee /\ tr.key = d.key
          /\ tr.fromTx = n + 1 /\ tr.toTx = n + 2 /\ tr.feeTx = k
        <2> HIDE DEF k, n
        <2> QED BY <1>2 DEF TransferRow
    <1>7. TransferRows(d, tid) = Atomic!Entries(d, tid)
        <2> DEFINE out == TransferLeg(d, tid, "transfer_out")
                   in == TransferLeg(d, tid, "transfer_in")
                   fee == FeeRow(d, tid)
        <2>1. /\ out = Atomic!Entry(d.from, d.to, "transfer_out", d.fromAmount, tid, tid)
              /\ in = Atomic!Entry(d.to, d.from, "transfer_in", d.toAmount, tid, tid)
              /\ fee = Atomic!Entry(d.from, Atomic!None, "expense", d.fee, 0, tid)
            BY DEF TransferLeg, FeeRow, Atomic!Entry, Atomic!None, None
        <2>2. TransferRows(d, tid) = IF d.fee > 0 THEN <<out, in, fee>> ELSE <<out, in>>
            BY DEF TransferRows
        <2>3. Atomic!Entries(d, tid) = IF d.fee > 0 THEN <<out, in>> \o <<fee>> ELSE <<out, in>>
            BY <2>1 DEF Atomic!Entries
        <2> HIDE DEF out, in, fee
        <2>4. <<out, in>> \o <<fee>> = <<out, in, fee>>
            BY PairAndOne
        <2>5. CASE d.fee > 0
            <3>1. TransferRows(d, tid) = <<out, in, fee>>
                BY <2>2, <2>5
            <3>2. Atomic!Entries(d, tid) = <<out, in>> \o <<fee>>
                BY <2>3, <2>5
            <3> QED BY <2>4, <3>1, <3>2
        <2>6. CASE ~(d.fee > 0)
            BY <2>2, <2>3, <2>6
        <2> QED BY <2>5, <2>6
    <1> HIDE DEF tr
    <1>8. Atomic!Entries(tr, tid) = Atomic!Entries(d, tid)
        BY <1>6 DEF Atomic!Entries
    <1>9. Len(transfers') = Len(transfers) + 1 /\ transfers'[Len(transfers) + 1] = tr
        BY <1>1, <1>2
    <1> QED BY <1>1, <1>4, <1>5, <1>6, <1>7, <1>8, <1>9 DEF Atomic!Move, Atomic!NextTransfer

\* A status change withdraws a transaction that is confirmed while its row is locked.
LEMMA CommitStatusChangeWithdraws ==
    ASSUME LedgerInv, NEW p \in Proc, CommitStatusChange(p)
    PROVE  Atomic!Withdraw
    <1>1. row[p] \in DOMAIN transactions /\ LifecycleAccepts(row[p])
        BY LockedRow DEF CommitStatusChange, IsLifecycle
    <1>2. Atomic!Correctable(transactions[row[p]])
        BY <1>1 DEF LifecycleAccepts, IsManualLifecycle, Atomic!Correctable
    <1> QED BY <1>1, <1>2 DEF CommitStatusChange, SetStatus, Atomic!Withdraw

\* The two definitions of an entry's effect agree on the types of transactions.
LEMMA EffectIsDelta ==
    ASSUME NEW t \in TransactionRow
    PROVE  Atomic!Effect(t) = Delta(t) /\ Delta(t) \in Int
    BY DEF TransactionRow, TransactionType, Atomic!Effect, Delta

\* A reversal undoes a transaction that is confirmed while its row is locked, by the amount that
\* was read before.
LEMMA CommitReverseUndoes ==
    ASSUME LedgerInv, NEW p \in Proc, CommitReverse(p)
    PROVE  Atomic!Undo
    <1> DEFINE t == row[p]
               txs == [transactions EXCEPT ![t].status = "reversed"]
    <1>1. /\ t \in DOMAIN transactions /\ LifecycleAccepts(t) /\ t = req[p].tx /\ DraftOK(p)
          /\ req[p].kind = "reverse"
        BY LockedRow DEF CommitReverse, IsLifecycle
    <1>2. Atomic!Correctable(transactions[t])
        BY <1>1 DEF LifecycleAccepts, IsManualLifecycle, Atomic!Correctable
    <1>3. transactions' = Append(txs, draft[p]) /\ UNCHANGED <<accounts, transfers>>
        BY DEF CommitReverse, SetStatus
    <1>4. /\ draft[p] \in TransactionRow /\ draft[p].source = "reconciliation_adjustment"
          /\ draft[p].ref = t /\ draft[p].status = "confirmed" /\ draft[p].transfer = 0
          /\ draft[p].account = transactions[t].account /\ draft[p].type = "adjustment"
          /\ draft[p].amount = -Delta(transactions[t]) /\ draft[p].date = Today
        BY <1>1 DEF DraftOK
    <1>5. Atomic!Effect(draft[p]) = -Atomic!Effect(transactions[t])
        <2>1. transactions[t] \in TransactionRow
            BY <1>1 DEF LedgerInv, TypeOK
        <2> QED BY <1>4, <2>1, EffectIsDelta DEF Atomic!Effect
    <1>6. Len(transactions') = Len(transactions) + 1 /\ transactions'[Len(transactions) + 1] = draft[p]
        <2>1. "reversed" \in TransactionStatus
            BY DEF TransactionStatus
        <2>2. txs \in Seq(TransactionRow) /\ Len(txs) = Len(transactions)
            BY <1>1, <2>1, StatusRow DEF SetStatus
        <2> HIDE DEF txs
        <2> QED BY <1>3, <1>4, <2>2
    <1> QED BY <1>1, <1>2, <1>3, <1>4, <1>5, <1>6 DEF Atomic!Undo, Atomic!NextTransaction

\* A written account row keeps the currency that its transactions are in.
LEMMA AccountWriteAmends ==
    ASSUME LedgerInv, NEW a \in AccountId, NEW new \in AccountRow,
           accounts' = [accounts EXCEPT ![a] = new], UNCHANGED <<transactions, transfers>>,
           accounts[a] = NoAccount \/ accounts[a].currency = new.currency \/ ~HasTransactions(a)
    PROVE  Atomic!Amend
    <1>1. accounts'[a] = new /\ new # NoAccount
        BY ConstantsAssumption DEF LedgerInv, TypeOK
    <1> QED BY <1>1 DEF Atomic!Amend, HasTransactions

\* What one request does is one event of AtomicLedger or changes no table.
LEMMA StepImplements ==
    ASSUME LedgerInv, [Next]_vars
    PROVE  [Atomic!ANext]_(Atomic!avars)
    <1> USE DEF Atomic!ANext
    <1>1. ASSUME UNCHANGED tables PROVE UNCHANGED Atomic!avars
        BY <1>1 DEF tables, Atomic!avars
    <1>2. CASE UNCHANGED vars
        BY <1>2 DEF vars, Atomic!avars
    <1>3. ASSUME NEW p \in Proc, NEW r \in Offered, Submit(p, r)
          PROVE  [Atomic!ANext]_(Atomic!avars)
        <2>1. CASE OpenAccount(p, r)
            <3> DEFINE new == [r.row EXCEPT !.active = TRUE]
            <3>1. r \in OpenRequest
                BY <2>1, ConstantsAssumption, RequestShape DEF OpenAccount
            <3>2. new \in AccountRow /\ r.account \in AccountId
                BY <3>1 DEF OpenRequest, AccountRow
            <3> QED BY <2>1, <3>2, AccountWriteAmends DEF OpenAccount, Exists
        <2>2. CASE ~OpenAccount(p, r)
            BY <1>1, <1>3, <2>2 DEF Submit, SubmitCreate, SubmitTransfer, SubmitStatusChange,
               SubmitReverse, SubmitUpdate, SubmitArchive, Start
        <2> QED BY <2>1, <2>2
    <1>4. ASSUME NEW p \in Proc, Acquire(p) \/ Abort(p) \/ DeadlockVictim(p)
          PROVE  UNCHANGED Atomic!avars
        BY <1>1, <1>4 DEF Acquire, LockAccount, LockTransaction, RejectLifecycle, ReferenceAccount,
           Reject, Abort, DeadlockVictim
    <1>5. ASSUME NEW p \in Proc, CommitUpdate(p) PROVE Atomic!Amend
        <2>1. req[p].account \in AccountId /\ draft[p] \in AccountRow
            BY <1>5, LockedAccount DEF CommitUpdate, DraftOK
        <2> QED BY <1>5, <2>1, AccountWriteAmends DEF CommitUpdate, WriteAccount, CurrencyInvariantHolds
    <1>6. ASSUME NEW p \in Proc, CommitArchive(p) PROVE Atomic!Amend
        <2> DEFINE a == req[p].account
                   new == [accounts[a] EXCEPT !.active = FALSE]
        <2>1. a \in AccountId /\ accounts[a] \in AccountRow
            BY <1>6, LockedAccount DEF CommitArchive
        <2>2. new \in AccountRow /\ new.currency = accounts[a].currency
            BY <2>1 DEF AccountRow
        <2>3. accounts' = [accounts EXCEPT ![a] = new] /\ UNCHANGED <<transactions, transfers>>
            BY <1>6 DEF CommitArchive, WriteAccount
        <2> HIDE DEF new
        <2> QED BY <2>1, <2>2, <2>3, AccountWriteAmends
    <1>7. ASSUME NEW p \in Proc, Proceed(p) PROVE [Atomic!ANext]_(Atomic!avars)
        <2>1. ASSUME RejectCreate(p) \/ CheckTransfer(p) \/ RejectTransfer(p) \/ RejectDuplicateKey(p)
                       \/ RejectUpdate(p)
              PROVE  UNCHANGED Atomic!avars
            BY <1>1, <2>1 DEF RejectCreate, CheckTransfer, RejectTransfer, RejectDuplicateKey,
               RejectUpdate, Reject, Advance
        <2> QED BY <1>5, <1>6, <1>7, <2>1, CommitCreatePosts, CommitTransferMoves,
               CommitStatusChangeWithdraws, CommitReverseUndoes DEF Proceed
    <1> QED BY <1>2, <1>3, <1>4, <1>7 DEF Next

\* The tables change only as AtomicLedger allows.
THEOREM LedgerRefines == Spec => ImplementsAtomicLedger
    <1>1. Init => Atomic!AInit
        BY DEF Init, Atomic!AInit
    <1>2. LedgerInv /\ [Next]_vars => [Atomic!ANext]_(Atomic!avars)
        BY StepImplements
    <1> QED BY <1>1, <1>2, InvariantHolds, PTL DEF Spec, ImplementsAtomicLedger, Atomic!ASpec

-----------------------------------------------------------------------------
(* Transfers and reversals: what every event of AtomicLedger keeps. *)

\* What an event leaves of the rows that were there: all but the status of a row that may be
\* corrected.
EntriesKept ==
    \A n \in DOMAIN transactions :
        /\ n \in DOMAIN transactions'
        /\ transactions'[n].account = transactions[n].account
        /\ transactions'[n].related = transactions[n].related
        /\ transactions'[n].type = transactions[n].type
        /\ transactions'[n].amount = transactions[n].amount
        /\ transactions'[n].source = transactions[n].source
        /\ transactions'[n].ref = transactions[n].ref
        /\ transactions'[n].transfer = transactions[n].transfer
        /\ \/ transactions'[n].status = transactions[n].status
           \/ Atomic!Correctable(transactions[n]) /\ transactions'[n].status # "confirmed"

\* What it leaves of the accounts that have rows.
AccountsKept ==
    \A a \in AccountId :
        Exists(a) => /\ accounts'[a] # NoAccount
                     /\ HasTransactions(a) => accounts'[a].currency = accounts[a].currency

\* A transfer that was intact stays so: none of its rows may be corrected.
LEMMA TransfersKept ==
    ASSUME TypeOK, EntriesInv, TypeOK', EntriesKept, AccountsKept,
           NEW i \in DOMAIN transfers, i \in DOMAIN transfers', transfers'[i] = transfers[i],
           \A n \in DOMAIN transactions' \ DOMAIN transactions : transactions'[n].transfer # i
    PROVE  /\ TransferIntact(i)'
           /\ transfers'[i].fee > 0 => transactions'[transfers'[i].feeTx].source = "transfer"
    <1> DEFINE tr == transfers[i]
    <1>1. TransferIntact(i) /\ (tr.fee > 0 => transactions[tr.feeTx].source = "transfer")
        BY DEF EntriesInv, TransferIntegrity, LinksOK
    <1>2. i \in Nat \ {0} /\ tr \in TransferRow
        BY DEF TypeOK
    <1>3. /\ tr.fromTx \in DOMAIN transactions /\ tr.toTx \in DOMAIN transactions
          /\ transactions[tr.fromTx].transfer = i /\ transactions[tr.toTx].transfer = i
        BY <1>1 DEF TransferIntact
    <1>4. {n \in DOMAIN transactions' : transactions'[n].transfer = i} = {tr.fromTx, tr.toTx}
        BY <1>1 DEF TransferIntact, EntriesKept
    <1>5. /\ transactions'[tr.fromTx].status = "confirmed" /\ transactions'[tr.toTx].status = "confirmed"
          /\ tr.fee > 0 => transactions'[tr.feeTx].status = "confirmed"
        BY <1>1, <1>2, <1>3 DEF TransferIntact, EntriesKept, Atomic!Correctable
    <1>6. /\ tr.from \in AccountId /\ tr.to \in AccountId
          /\ Exists(tr.from) /\ Exists(tr.to) /\ HasTransactions(tr.from) /\ HasTransactions(tr.to)
        BY <1>1, <1>2, <1>3 DEF TransferIntact, Exists, HasTransactions, TransferRow
    <1>7. /\ accounts'[tr.from] # NoAccount /\ accounts'[tr.from].currency = tr.fromCurrency
          /\ accounts'[tr.to] # NoAccount /\ accounts'[tr.to].currency = tr.toCurrency
        BY <1>1, <1>6 DEF AccountsKept, TransferIntact
    <1>8. LET out == transactions'[tr.fromTx]
              in == transactions'[tr.toTx]
          IN /\ out.type = "transfer_out" /\ in.type = "transfer_in"
             /\ out.account = tr.from /\ in.account = tr.to
             /\ out.related = tr.to /\ in.related = tr.from
             /\ out.amount = tr.fromAmount /\ in.amount = tr.toAmount
        BY <1>1, <1>3 DEF TransferIntact, EntriesKept
    <1>9. IF tr.fee > 0
          THEN /\ tr.feeTx \in DOMAIN transactions'
               /\ transactions'[tr.feeTx].type = "expense"
               /\ transactions'[tr.feeTx].account = tr.from
               /\ transactions'[tr.feeTx].amount = tr.fee
               /\ transactions'[tr.feeTx].source = "transfer"
          ELSE tr.feeTx = 0
        BY <1>1 DEF TransferIntact, EntriesKept
    <1>10. tr.fromTx # tr.toTx /\ tr.from # tr.to
        BY <1>1 DEF TransferIntact
    <1> HIDE DEF tr
    <1>11. transfers'[i] = tr
        BY DEF tr
    <1> QED BY <1>4, <1>5, <1>7, <1>8, <1>9, <1>10, <1>11 DEF TransferIntact

\* A row that is not being reversed keeps its reversals, when no reversal is added for it.
LEMMA ReversalsKept ==
    ASSUME TypeOK, EntriesInv, TypeOK', EntriesKept, NEW n \in DOMAIN transactions',
           n \in DOMAIN transactions /\ transactions'[n].status = "reversed"
             => transactions[n].status = "reversed",
           n \notin DOMAIN transactions => transactions'[n].status # "reversed",
           \A m \in DOMAIN transactions' \ DOMAIN transactions :
             ~(transactions'[m].source = "reconciliation_adjustment" /\ transactions'[m].ref = n)
    PROVE  UndoneOnce(n)'
    <1>1. ReversalsOf(n)' = ReversalsOf(n)
        BY DEF ReversalsOf, EntriesKept
    <1>2. CASE n \in DOMAIN transactions
        <2>1. UndoneOnce(n)
            BY <1>2 DEF EntriesInv, ReversedOnce
        <2>2. \A k \in DOMAIN transactions : Delta(transactions'[k]) = Delta(transactions[k])
            BY DEF EntriesKept, Delta
        <2>3. CASE transactions[n].status = "reversed"
            <3>1. PICK m \in DOMAIN transactions :
                    /\ ReversalsOf(n) = {m}
                    /\ transactions[m].account = transactions[n].account
                    /\ transactions[m].status = "confirmed"
                    /\ Delta(transactions[m]) + Delta(transactions[n]) = 0
                BY <2>1, <2>3 DEF UndoneOnce
            <3>2. transactions[m].source = "reconciliation_adjustment"
                BY <3>1 DEF ReversalsOf
            <3>3. transactions'[m].status = "confirmed" /\ transactions'[n].status = "reversed"
                BY <1>2, <2>3, <3>1, <3>2 DEF EntriesKept, Atomic!Correctable
            <3>4. m \in DOMAIN transactions' /\ transactions'[m].account = transactions'[n].account
                BY <1>2, <3>1 DEF EntriesKept
            <3> QED BY <1>1, <1>2, <2>2, <3>1, <3>3, <3>4 DEF UndoneOnce
        <2>4. CASE transactions[n].status # "reversed"
            BY <1>1, <1>2, <2>1, <2>4 DEF UndoneOnce
        <2> QED BY <2>3, <2>4
    <1>3. CASE n \notin DOMAIN transactions
        <2>1. ReversalsOf(n) = {}
            BY <1>3 DEF EntriesInv, LinksOK, ReversalsOf
        <2> QED BY <1>1, <1>3, <2>1 DEF UndoneOnce
    <1> QED BY <1>2, <1>3

\* An event that adds no transfer and no reversal: Post, Withdraw and Amend.
LEMMA PlainEventKeeps ==
    ASSUME TypeOK, EntriesInv, TypeOK', EntriesKept, AccountsKept, UNCHANGED transfers,
           \A n \in DOMAIN transactions :
             transactions'[n].status = "reversed" => transactions[n].status = "reversed",
           \A n \in DOMAIN transactions' \ DOMAIN transactions :
             /\ transactions'[n].transfer = 0 /\ transactions'[n].status # "reversed"
             /\ transactions'[n].source # "reconciliation_adjustment"
    PROVE  EntriesInv'
    <1>1. TransferIntegrity'
        <2> SUFFICES ASSUME NEW i \in DOMAIN transfers PROVE TransferIntact(i)'
            BY DEF TransferIntegrity
        <2>1. i \in Nat \ {0}
            BY DEF TypeOK
        <2> QED BY <2>1, TransfersKept
    <1>2. ReversedOnce'
        BY ReversalsKept DEF ReversedOnce
    <1>3. LinksOK'
        <2>1. \A i \in DOMAIN transfers :
                transfers'[i].fee > 0 => transactions'[transfers'[i].feeTx].source = "transfer"
            <3> TAKE i \in DOMAIN transfers
            <3>1. i \in Nat \ {0}
                BY DEF TypeOK
            <3> QED BY <3>1, TransfersKept
        <2>2. Len(transfers) \in Nat
            BY DEF TypeOK
        <2> QED BY <2>1, <2>2 DEF EntriesInv, LinksOK, EntriesKept
    <1> QED BY <1>1, <1>2, <1>3 DEF EntriesInv

\* An entry posted or an account amended.
LEMMA PostKeepsEntries ==
    ASSUME TypeOK, EntriesInv, TypeOK', Atomic!Post
    PROVE  EntriesInv'
    <1> DEFINE tx == transactions'[Len(transactions) + 1]
    <1>1. /\ transactions' = Append(transactions, tx) /\ UNCHANGED <<accounts, transfers>>
          /\ tx.source = "manual" /\ tx.status = "confirmed" /\ tx.transfer = 0
          /\ Len(transactions') = Len(transactions) + 1
        BY DEF Atomic!Post, Atomic!NextTransaction
    <1>2. transactions \in Seq(TransactionRow) /\ transactions' \in Seq(TransactionRow)
        BY DEF TypeOK
    <1> HIDE DEF tx
    <1>3. \A n \in DOMAIN transactions : n \in DOMAIN transactions' /\ transactions'[n] = transactions[n]
        BY <1>1, <1>2
    <1>4. \A n \in DOMAIN transactions' \ DOMAIN transactions : transactions'[n] = tx
        BY <1>1, <1>2
    <1>5. EntriesKept /\ AccountsKept
        BY <1>1, <1>3 DEF EntriesKept, AccountsKept, Exists
    <1> QED BY <1>1, <1>3, <1>4, <1>5, PlainEventKeeps

\* An amended account has no rows or keeps its currency.
LEMMA AmendKeepsEntries ==
    ASSUME TypeOK, EntriesInv, TypeOK', Atomic!Amend
    PROVE  EntriesInv'
    <1>1. PICK a \in AccountId :
            /\ accounts' = [accounts EXCEPT ![a] = accounts'[a]]
            /\ accounts'[a] # NoAccount
            /\ accounts[a] = NoAccount \/ accounts[a].currency = accounts'[a].currency
                 \/ \A n \in DOMAIN transactions : transactions[n].account # a
            /\ UNCHANGED <<transactions, transfers>>
        BY DEF Atomic!Amend
    <1>2. \A b \in AccountId \ {a} : accounts'[b] = accounts[b]
        BY <1>1 DEF TypeOK
    <1>3. AccountsKept
        BY <1>1, <1>2 DEF AccountsKept, Exists, HasTransactions
    <1>4. EntriesKept
        BY <1>1 DEF EntriesKept
    <1> QED BY <1>1, <1>3, <1>4, PlainEventKeeps

\* The columns of the table after the status of a correctable row has changed.
LEMMA StatusKeepsEntries ==
    ASSUME TypeOK, NEW t \in DOMAIN transactions, Atomic!Correctable(transactions[t]),
           NEW status \in TransactionStatus \ {"confirmed"}
    PROVE  LET txs == SetStatus(transactions, t, status)
           IN /\ txs \in Seq(TransactionRow) /\ Len(txs) = Len(transactions)
              /\ txs[t].status = status
              /\ \A n \in DOMAIN transactions :
                   /\ n \in DOMAIN txs
                   /\ txs[n].account = transactions[n].account
                   /\ txs[n].related = transactions[n].related
                   /\ txs[n].type = transactions[n].type
                   /\ txs[n].amount = transactions[n].amount
                   /\ txs[n].source = transactions[n].source
                   /\ txs[n].ref = transactions[n].ref
                   /\ txs[n].transfer = transactions[n].transfer
                   /\ txs[n].date = transactions[n].date
                   /\ n # t => txs[n].status = transactions[n].status
    <1> DEFINE new == [transactions[t] EXCEPT !.status = status]
               txs == SetStatus(transactions, t, status)
    <1>1. transactions \in Seq(TransactionRow) /\ transactions[t] \in TransactionRow
        BY DEF TypeOK
    <1>2. /\ new \in TransactionRow /\ new.status = status
          /\ new.account = transactions[t].account /\ new.related = transactions[t].related
          /\ new.type = transactions[t].type /\ new.amount = transactions[t].amount
          /\ new.source = transactions[t].source /\ new.ref = transactions[t].ref
          /\ new.transfer = transactions[t].transfer /\ new.date = transactions[t].date
        BY <1>1 DEF TransactionRow
    <1>3. txs = [transactions EXCEPT ![t] = new]
        BY DEF SetStatus
    <1> HIDE DEF new, txs
    <1>4. /\ txs \in Seq(TransactionRow) /\ Len(txs) = Len(transactions) /\ txs[t] = new
          /\ \A n \in DOMAIN transactions : n \in DOMAIN txs /\ (n # t => txs[n] = transactions[n])
        BY <1>1, <1>2, <1>3
    <1> QED BY <1>2, <1>4 DEF txs

\* A withdrawn entry was confirmed, so it is not reversed.
LEMMA WithdrawKeepsEntries ==
    ASSUME TypeOK, EntriesInv, TypeOK', Atomic!Withdraw
    PROVE  EntriesInv'
    <1>1. PICK t \in DOMAIN transactions, status \in {"cancelled", "soft_deleted"} :
            /\ Atomic!Correctable(transactions[t])
            /\ transactions' = SetStatus(transactions, t, status)
            /\ UNCHANGED <<accounts, transfers>>
        BY DEF Atomic!Withdraw, SetStatus
    <1>2. status \in TransactionStatus \ {"confirmed"}
        BY DEF TransactionStatus
    <1>3. /\ Len(transactions') = Len(transactions)
          /\ transactions'[t].status = status
          /\ EntriesKept
          /\ \A n \in DOMAIN transactions : n # t => transactions'[n].status = transactions[n].status
        BY <1>1, <1>2, StatusKeepsEntries DEF EntriesKept
    <1>4. AccountsKept
        BY <1>1 DEF AccountsKept, Exists
    <1>5. DOMAIN transactions' = DOMAIN transactions
        BY <1>3 DEF TypeOK
    <1> QED BY <1>1, <1>3, <1>4, <1>5, PlainEventKeeps

\* A reversal is the only one of its row: a confirmed row has none yet.
LEMMA UndoKeepsEntries ==
    ASSUME TypeOK, EntriesInv, TypeOK', Atomic!Undo
    PROVE  EntriesInv'
    <1> DEFINE undo == transactions'[Len(transactions) + 1]
    <1>1. PICK t \in DOMAIN transactions :
            /\ Atomic!Correctable(transactions[t])
            /\ transactions' = Append(SetStatus(transactions, t, "reversed"), undo)
            /\ Len(transactions') = Len(transactions) + 1
            /\ undo.source = "reconciliation_adjustment" /\ undo.ref = t
            /\ undo.status = "confirmed" /\ undo.transfer = 0
            /\ undo.account = transactions[t].account
            /\ Atomic!Effect(undo) = -Atomic!Effect(transactions[t])
            /\ UNCHANGED <<accounts, transfers>>
        BY DEF Atomic!Undo, Atomic!NextTransaction, SetStatus
    <1> DEFINE txs == SetStatus(transactions, t, "reversed")
               m == Len(transactions) + 1
    <1>2. "reversed" \in TransactionStatus \ {"confirmed"}
        BY DEF TransactionStatus
    <1>3. /\ txs \in Seq(TransactionRow) /\ Len(txs) = Len(transactions)
          /\ txs[t].status = "reversed"
          /\ \A n \in DOMAIN transactions :
               /\ n \in DOMAIN txs
               /\ txs[n].account = transactions[n].account /\ txs[n].related = transactions[n].related
               /\ txs[n].type = transactions[n].type /\ txs[n].amount = transactions[n].amount
               /\ txs[n].source = transactions[n].source /\ txs[n].ref = transactions[n].ref
               /\ txs[n].transfer = transactions[n].transfer
               /\ n # t => txs[n].status = transactions[n].status
        BY <1>1, <1>2, StatusKeepsEntries
    <1>4. transactions \in Seq(TransactionRow) /\ transactions' \in Seq(TransactionRow)
        BY DEF TypeOK
    <1> HIDE DEF undo, txs
    <1>5. /\ \A n \in DOMAIN transactions : n \in DOMAIN transactions' /\ transactions'[n] = txs[n]
          /\ m \in DOMAIN transactions' /\ transactions'[m] = undo
          /\ DOMAIN transactions' = DOMAIN transactions \union {m} /\ m \notin DOMAIN transactions
        BY <1>1, <1>3, <1>4 DEF undo, txs
    <1>6. EntriesKept
        BY <1>1, <1>3, <1>5 DEF EntriesKept
    <1>7. AccountsKept
        BY <1>1 DEF AccountsKept, Exists
    <1>8. \A i \in DOMAIN transfers :
            /\ TransferIntact(i)'
            /\ transfers'[i].fee > 0 => transactions'[transfers'[i].feeTx].source = "transfer"
        <2> TAKE i \in DOMAIN transfers
        <2>1. i \in Nat \ {0} /\ i \in DOMAIN transfers' /\ transfers'[i] = transfers[i]
            BY <1>1 DEF TypeOK
        <2>2. \A n \in DOMAIN transactions' \ DOMAIN transactions : transactions'[n].transfer # i
            BY <1>1, <1>5, <2>1
        <2> QED BY <1>6, <1>7, <2>1, <2>2, TransfersKept
    <1>9. UndoneOnce(t)'
        <2>1. ReversalsOf(t) = {}
            BY <1>1 DEF EntriesInv, ReversedOnce, UndoneOnce, Atomic!Correctable
        <2>2. ReversalsOf(t)' = {m}
            BY <1>1, <1>5, <1>6, <2>1 DEF ReversalsOf, EntriesKept
        <2>3. Delta(transactions'[m]) + Delta(transactions'[t]) = 0
            <3>1. transactions[t] \in TransactionRow /\ undo \in TransactionRow
                BY <1>4, <1>5
            <3>2. Delta(transactions'[t]) = Delta(transactions[t])
                BY <1>6 DEF EntriesKept, Delta
            <3> QED BY <1>1, <1>5, <3>1, <3>2, EffectIsDelta
        <2> QED BY <1>1, <1>3, <1>5, <2>2, <2>3 DEF UndoneOnce
    <1>10. ReversedOnce'
        <2> SUFFICES ASSUME NEW n \in DOMAIN transactions', n # t PROVE UndoneOnce(n)'
            BY <1>9 DEF ReversedOnce
        <2> QED BY <1>1, <1>3, <1>5, <1>6, ReversalsKept
    <1>11. LinksOK'
        <2>1. Len(transfers) \in Nat /\ transfers' = transfers
            BY <1>1 DEF TypeOK
        <2>2. \A n \in DOMAIN transactions' :
                /\ transactions'[n].transfer <= Len(transfers)
                /\ transactions'[n].source = "reconciliation_adjustment" =>
                     transactions'[n].ref \in DOMAIN transactions'
            <3> TAKE n \in DOMAIN transactions'
            <3>1. CASE n \in DOMAIN transactions
                BY <1>6, <3>1 DEF EntriesInv, LinksOK, EntriesKept
            <3>2. CASE n = m
                BY <1>1, <1>5, <2>1, <3>2
            <3> QED BY <1>5, <3>1, <3>2
        <2> QED BY <1>8, <2>1, <2>2 DEF LinksOK
    <1> QED BY <1>1, <1>8, <1>10, <1>11 DEF EntriesInv, TransferIntegrity

\* Rows written after the others take the next places.
LEMMA RowsAppended ==
    ASSUME NEW S, NEW s \in Seq(S), NEW t, t \in Seq(S), NEW u, u = s \o t
    PROVE  /\ DOMAIN s = 1..Len(s) /\ DOMAIN u = 1..(Len(s) + Len(t))
           /\ \A k \in DOMAIN s : u[k] = s[k]
           /\ \A k \in 1..Len(t) : u[Len(s) + k] = t[k]
    BY ConcatProperties

\* A new transfer takes the next place and its entries the places after the others.
LEMMA MoveWrites ==
    ASSUME TypeOK, TypeOK', Atomic!Move, NEW tid \in Nat, tid = Len(transfers) + 1
    PROVE  LET tr == transfers'[tid]
               n == Len(transactions)
               out == transactions'[n + 1]
               in == transactions'[n + 2]
               fee == transactions'[n + 3]
           IN /\ transfers' = Append(transfers, tr) /\ Len(transfers') = tid
              /\ tr.fromTx = n + 1 /\ tr.toTx = n + 2 /\ tr.feeTx = IF tr.fee > 0 THEN n + 3 ELSE 0
              /\ tr.from # tr.to
              /\ Atomic!Accepts(tr.from, Today) /\ Atomic!Accepts(tr.to, Today)
              /\ accounts[tr.from].currency = tr.fromCurrency
              /\ accounts[tr.to].currency = tr.toCurrency
              /\ UNCHANGED accounts
              /\ out.account = tr.from /\ out.related = tr.to /\ out.type = "transfer_out"
              /\ out.amount = tr.fromAmount /\ out.status = "confirmed" /\ out.source = "transfer"
              /\ out.transfer = tid /\ out.date = Today
              /\ in.account = tr.to /\ in.related = tr.from /\ in.type = "transfer_in"
              /\ in.amount = tr.toAmount /\ in.status = "confirmed" /\ in.source = "transfer"
              /\ in.transfer = tid /\ in.date = Today
              /\ tr.fee > 0 =>
                   /\ fee.account = tr.from /\ fee.type = "expense" /\ fee.amount = tr.fee
                   /\ fee.status = "confirmed" /\ fee.source = "transfer" /\ fee.transfer = 0
                   /\ fee.date = Today
              /\ \A k \in DOMAIN transactions : k \in DOMAIN transactions' /\ transactions'[k] = transactions[k]
              /\ n + 1 \in DOMAIN transactions' /\ n + 2 \in DOMAIN transactions'
              /\ tr.fee > 0 => n + 3 \in DOMAIN transactions'
              /\ DOMAIN transactions = 1..n
              /\ DOMAIN transactions' = 1..(IF tr.fee > 0 THEN n + 3 ELSE n + 2)
    <1> DEFINE tr == transfers'[tid]
               n == Len(transactions)
               out == Atomic!Entry(tr.from, tr.to, "transfer_out", tr.fromAmount, tid, tid)
               in == Atomic!Entry(tr.to, tr.from, "transfer_in", tr.toAmount, tid, tid)
               fee == Atomic!Entry(tr.from, Atomic!None, "expense", tr.fee, 0, tid)
               rows == Atomic!Entries(tr, tid)
    <1>1. /\ transfers' = Append(transfers, tr) /\ Len(transfers') = tid
          /\ transactions' = transactions \o rows
          /\ tr.fromTx = n + 1 /\ tr.toTx = n + 2 /\ tr.feeTx = IF tr.fee > 0 THEN n + 3 ELSE 0
          /\ tr.from # tr.to
          /\ Atomic!Accepts(tr.from, Today) /\ Atomic!Accepts(tr.to, Today)
          /\ accounts[tr.from].currency = tr.fromCurrency /\ accounts[tr.to].currency = tr.toCurrency
          /\ UNCHANGED accounts
        BY DEF Atomic!Move, Atomic!NextTransfer
    <1>2. /\ transactions \in Seq(TransactionRow) /\ transactions' \in Seq(TransactionRow)
          /\ transfers \in Seq(TransferRow) /\ transfers' \in Seq(TransferRow)
          /\ n \in Nat /\ Len(transfers) \in Nat
        BY DEF TypeOK
    <1>3. /\ out.account = tr.from /\ out.related = tr.to /\ out.type = "transfer_out"
          /\ out.amount = tr.fromAmount /\ out.status = "confirmed" /\ out.source = "transfer"
          /\ out.transfer = tid /\ out.date = Today
          /\ in.account = tr.to /\ in.related = tr.from /\ in.type = "transfer_in"
          /\ in.amount = tr.toAmount /\ in.status = "confirmed" /\ in.source = "transfer"
          /\ in.transfer = tid /\ in.date = Today
          /\ fee.account = tr.from /\ fee.type = "expense" /\ fee.amount = tr.fee
          /\ fee.status = "confirmed" /\ fee.source = "transfer" /\ fee.transfer = 0
          /\ fee.date = Today
        BY DEF Atomic!Entry
    <1>4. rows = IF tr.fee > 0 THEN <<out, in>> \o <<fee>> ELSE <<out, in>>
        BY DEF Atomic!Entries
    <1> HIDE DEF out, in, fee, rows, tr
    <1>5. rows = IF tr.fee > 0 THEN <<out, in, fee>> ELSE <<out, in>>
        <2>1. CASE tr.fee > 0
            <3>1. rows = <<out, in>> \o <<fee>>
                BY <1>4, <2>1
            <3> QED BY <2>1, <3>1, PairAndOne
        <2>2. CASE ~(tr.fee > 0)
            BY <1>4, <2>2
        <2> QED BY <2>1, <2>2
    <1>6. /\ rows \in Seq({out, in, fee}) /\ rows[1] = out /\ rows[2] = in
          /\ tr.fee > 0 => Len(rows) = 3 /\ rows[3] = fee
          /\ ~(tr.fee > 0) => Len(rows) = 2
        <2>1. CASE tr.fee > 0
            <3>1. rows = <<out, in, fee>>
                BY <1>5, <2>1
            <3> QED BY <2>1, <3>1
        <2>2. CASE ~(tr.fee > 0)
            <3>1. rows = <<out, in>>
                BY <1>5, <2>2
            <3> QED BY <2>2, <3>1
        <2> QED BY <2>1, <2>2
    <1>7. /\ \A k \in DOMAIN transactions : k \in DOMAIN transactions' /\ transactions'[k] = transactions[k]
          /\ DOMAIN transactions = 1..n /\ DOMAIN transactions' = 1..(n + Len(rows))
          /\ \A k \in 1..Len(rows) : transactions'[n + k] = rows[k]
        <2> DEFINE S == TransactionRow \union {out, in, fee}
        <2>1. transactions \in Seq(S) /\ rows \in Seq(S)
            BY <1>2, <1>6
        <2> HIDE DEF S
        <2>2. /\ DOMAIN transactions = 1..n /\ DOMAIN transactions' = 1..(n + Len(rows))
              /\ \A k \in DOMAIN transactions : transactions'[k] = transactions[k]
              /\ \A k \in 1..Len(rows) : transactions'[n + k] = rows[k]
            BY <1>1, <2>1, RowsAppended
        <2>3. n + Len(rows) >= n /\ n \in Nat
            BY <1>2, <2>1
        <2> HIDE DEF n
        <2> QED BY <2>2, <2>3
    <1>8. /\ n + 1 \in DOMAIN transactions' /\ transactions'[n + 1] = out
          /\ n + 2 \in DOMAIN transactions' /\ transactions'[n + 2] = in
          /\ tr.fee > 0 => n + 3 \in DOMAIN transactions' /\ transactions'[n + 3] = fee
          /\ DOMAIN transactions = 1..n
          /\ DOMAIN transactions' = 1..(IF tr.fee > 0 THEN n + 3 ELSE n + 2)
        <2> HIDE DEF n
        <2>2. CASE tr.fee > 0
            <3>1. Len(rows) = 3 /\ rows[1] = out /\ rows[2] = in /\ rows[3] = fee
                BY <1>6, <2>2
            <3>2. transactions'[n + 1] = rows[1] /\ transactions'[n + 2] = rows[2] /\ transactions'[n + 3] = rows[3]
                BY <1>7, <3>1
            <3> QED BY <1>2, <1>7, <2>2, <3>1, <3>2
        <2>3. CASE ~(tr.fee > 0)
            <3>1. Len(rows) = 2 /\ rows[1] = out /\ rows[2] = in
                BY <1>6, <2>3
            <3>2. transactions'[n + 1] = rows[1] /\ transactions'[n + 2] = rows[2]
                BY <1>7, <3>1
            <3> QED BY <1>2, <1>7, <2>3, <3>1, <3>2
        <2> QED BY <2>2, <2>3
    <1> QED BY <1>1, <1>3, <1>7, <1>8 DEF tr

\* A new transfer comes with its rows, which no other transfer has.
LEMMA MoveKeepsEntries ==
    ASSUME TypeOK, EntriesInv, TypeOK', Atomic!Move
    PROVE  EntriesInv'
    <1>0. PICK tid \in Nat : tid = Len(transfers) + 1
        BY DEF TypeOK
    <1> DEFINE tr == transfers'[tid]
               n == Len(transactions)
               out == transactions'[n + 1]
               in == transactions'[n + 2]
               fee == transactions'[n + 3]
    <1>1. /\ transfers' = Append(transfers, tr) /\ Len(transfers') = tid
          /\ tr.fromTx = n + 1 /\ tr.toTx = n + 2 /\ tr.feeTx = IF tr.fee > 0 THEN n + 3 ELSE 0
          /\ tr.from # tr.to
          /\ Atomic!Accepts(tr.from, Today) /\ Atomic!Accepts(tr.to, Today)
          /\ accounts[tr.from].currency = tr.fromCurrency /\ accounts[tr.to].currency = tr.toCurrency
          /\ UNCHANGED accounts
        BY <1>0, MoveWrites
    <1>2. /\ transactions \in Seq(TransactionRow) /\ transactions' \in Seq(TransactionRow)
          /\ transfers \in Seq(TransferRow) /\ transfers' \in Seq(TransferRow)
          /\ n \in Nat /\ Len(transfers) \in Nat
        BY DEF TypeOK
    <1>3. /\ out.account = tr.from /\ out.related = tr.to /\ out.type = "transfer_out"
          /\ out.amount = tr.fromAmount /\ out.status = "confirmed" /\ out.source = "transfer"
          /\ out.transfer = tid
          /\ in.account = tr.to /\ in.related = tr.from /\ in.type = "transfer_in"
          /\ in.amount = tr.toAmount /\ in.status = "confirmed" /\ in.source = "transfer"
          /\ in.transfer = tid
          /\ tr.fee > 0 =>
               /\ fee.account = tr.from /\ fee.type = "expense" /\ fee.amount = tr.fee
               /\ fee.status = "confirmed" /\ fee.source = "transfer" /\ fee.transfer = 0
        BY <1>0, MoveWrites
    <1>7. \A k \in DOMAIN transactions : k \in DOMAIN transactions' /\ transactions'[k] = transactions[k]
        BY <1>0, MoveWrites
    <1>8. /\ n + 1 \in DOMAIN transactions' /\ transactions'[n + 1] = out
          /\ n + 2 \in DOMAIN transactions' /\ transactions'[n + 2] = in
          /\ tr.fee > 0 => n + 3 \in DOMAIN transactions' /\ transactions'[n + 3] = fee
          /\ DOMAIN transactions = 1..n
          /\ DOMAIN transactions' = 1..(IF tr.fee > 0 THEN n + 3 ELSE n + 2)
        BY <1>0, MoveWrites
    <1> HIDE DEF out, in, fee, tr
    <1>9. \A k \in DOMAIN transactions' \ DOMAIN transactions :
            \/ k = n + 1 \/ k = n + 2
            \/ k = n + 3 /\ tr.fee > 0
        <2>1. n \in Nat
            BY <1>2
        <2> HIDE DEF n
        <2>2. CASE tr.fee > 0
            BY <1>8, <2>1, <2>2
        <2>3. CASE ~(tr.fee > 0)
            BY <1>8, <2>1, <2>3
        <2> QED BY <2>2, <2>3
    <1>10. EntriesKept
        BY <1>7 DEF EntriesKept
    <1>11. AccountsKept
        BY <1>1 DEF AccountsKept, Exists
    <1>12. /\ DOMAIN transfers' = DOMAIN transfers \union {tid} /\ tid \notin DOMAIN transfers
           /\ transfers'[tid] = tr /\ \A i \in DOMAIN transfers : transfers'[i] = transfers[i]
           /\ \A i \in DOMAIN transfers : i \in Nat \ {0} /\ i # tid
        <2>1. DOMAIN transfers = 1..Len(transfers) /\ DOMAIN transfers' = 1..(Len(transfers) + 1)
            BY <1>1, <1>2
        <2>2. \A i \in DOMAIN transfers : transfers'[i] = transfers[i]
            BY <1>1, <1>2
        <2> QED BY <1>0, <1>2, <2>1, <2>2 DEF tr
    <1>13. \A i \in DOMAIN transfers :
             /\ TransferIntact(i)'
             /\ transfers'[i].fee > 0 => transactions'[transfers'[i].feeTx].source = "transfer"
        <2> TAKE i \in DOMAIN transfers
        <2>1. \A k \in DOMAIN transactions' \ DOMAIN transactions : transactions'[k].transfer # i
            BY <1>3, <1>8, <1>9, <1>12
        <2> QED BY <1>10, <1>11, <1>12, <2>1, TransfersKept
    <1>14. TransferIntact(tid)'
        <2>1. \A k \in DOMAIN transactions : transactions'[k].transfer # tid
            <3> TAKE k \in DOMAIN transactions
            <3>1. transactions[k].transfer <= Len(transfers)
                BY DEF EntriesInv, LinksOK
            <3>2. transactions[k] \in TransactionRow
                BY <1>2
            <3>3. transactions[k].transfer \in Nat
                BY <3>2 DEF TransactionRow
            <3> QED BY <1>0, <1>2, <1>7, <3>1, <3>3
        <2>2. {k \in DOMAIN transactions' : transactions'[k].transfer = tid} = {n + 1, n + 2}
            <3>1. transactions'[n + 1].transfer = tid /\ transactions'[n + 2].transfer = tid
                BY <1>3, <1>8
            <3>2. \A k \in DOMAIN transactions' \ DOMAIN transactions :
                    transactions'[k].transfer = tid => k \in {n + 1, n + 2}
                <4>1. tr.fee > 0 => transactions'[n + 3].transfer # tid
                    BY <1>0, <1>2, <1>3, <1>8
                <4> QED BY <1>9, <4>1
            <3> HIDE DEF n
            <3> QED BY <1>8, <2>1, <3>1, <3>2
        <2>3. /\ accounts'[tr.from] # NoAccount /\ accounts'[tr.from].currency = tr.fromCurrency
              /\ accounts'[tr.to] # NoAccount /\ accounts'[tr.to].currency = tr.toCurrency
            BY <1>1 DEF Atomic!Accepts
        <2>4. transfers'[tid] = tr /\ tr.fromTx = n + 1 /\ tr.toTx = n + 2 /\ n + 1 # n + 2
            BY <1>1, <1>2, <1>12
        <2>5. tr.feeTx = IF tr.fee > 0 THEN n + 3 ELSE 0
            BY <1>1
        <2>6. transactions'[tr.fromTx] = out /\ transactions'[tr.toTx] = in
            BY <1>8, <2>4
        <2>7. LET o == transactions'[tr.fromTx]
                  i == transactions'[tr.toTx]
              IN /\ o.type = "transfer_out" /\ i.type = "transfer_in"
                 /\ o.account = tr.from /\ i.account = tr.to
                 /\ o.related = tr.to /\ i.related = tr.from
                 /\ o.amount = tr.fromAmount /\ i.amount = tr.toAmount
                 /\ o.status = "confirmed" /\ i.status = "confirmed"
            BY <1>3, <2>6
        <2>8. IF tr.fee > 0
              THEN /\ tr.feeTx \in DOMAIN transactions'
                   /\ transactions'[tr.feeTx].type = "expense"
                   /\ transactions'[tr.feeTx].account = tr.from
                   /\ transactions'[tr.feeTx].amount = tr.fee
                   /\ transactions'[tr.feeTx].status = "confirmed"
              ELSE tr.feeTx = 0
            BY <1>3, <1>8, <2>5
        <2>9. {k \in DOMAIN transactions' : transactions'[k].transfer = tid} = {tr.fromTx, tr.toTx}
            BY <2>2, <2>4
        <2>10. tr.fromTx # tr.toTx /\ tr.from # tr.to
            BY <1>1, <2>4
        <2> HIDE DEF n
        <2> QED BY <2>3, <2>4, <2>7, <2>8, <2>9, <2>10 DEF TransferIntact
    <1>15. ReversedOnce'
        <2> SUFFICES ASSUME NEW k \in DOMAIN transactions' PROVE UndoneOnce(k)'
            BY DEF ReversedOnce
        <2>1. \A j \in DOMAIN transactions' \ DOMAIN transactions :
                transactions'[j].source = "transfer" /\ transactions'[j].status = "confirmed"
            BY <1>3, <1>8, <1>9
        <2>2. transactions'[k].status = "reversed" => k \in DOMAIN transactions
            BY <2>1
        <2>3. CASE k \in DOMAIN transactions
            BY <1>7, <1>10, <2>1, <2>3, ReversalsKept
        <2>4. CASE k \notin DOMAIN transactions
            BY <1>7, <1>10, <2>1, <2>4, ReversalsKept
        <2> QED BY <2>3, <2>4
    <1>16. LinksOK'
        <2>1. \A k \in DOMAIN transactions' :
                /\ transactions'[k].transfer <= Len(transfers')
                /\ transactions'[k].source = "reconciliation_adjustment" =>
                     transactions'[k].ref \in DOMAIN transactions'
            <3> TAKE k \in DOMAIN transactions'
            <3>1. CASE k \in DOMAIN transactions
                <4>1. transactions[k].transfer \in Nat /\ transactions[k].transfer <= Len(transfers)
                    <5>1. transactions[k].transfer <= Len(transfers)
                        BY <3>1 DEF EntriesInv, LinksOK
                    <5>2. transactions[k] \in TransactionRow
                        BY <1>2, <3>1
                    <5> QED BY <5>1, <5>2 DEF TransactionRow
                <4>2. transactions[k].source = "reconciliation_adjustment" =>
                        transactions[k].ref \in DOMAIN transactions
                    BY <3>1 DEF EntriesInv, LinksOK
                <4> QED BY <1>0, <1>1, <1>2, <1>7, <3>1, <4>1, <4>2
            <3>2. CASE k \notin DOMAIN transactions
                <4>1. transactions'[k] \in {out, in} \/ (tr.fee > 0 /\ transactions'[k] = fee)
                    BY <1>8, <1>9, <3>2
                <4>2. transactions'[k].transfer \in {0, tid} /\ transactions'[k].source = "transfer"
                    BY <1>3, <4>1
                <4> QED BY <1>1, <1>2, <4>2
            <3> QED BY <3>1, <3>2
        <2>2. tr.fee > 0 => transactions'[tr.feeTx].source = "transfer"
            BY <1>1, <1>3, <1>8
        <2> QED BY <1>12, <1>13, <2>1, <2>2 DEF LinksOK
    <1>17. TransferIntegrity'
        <2> SUFFICES ASSUME NEW i \in DOMAIN transfers' PROVE TransferIntact(i)'
            BY DEF TransferIntegrity
        <2>1. CASE i = tid
            BY <1>14, <2>1
        <2>2. CASE i \in DOMAIN transfers
            BY <1>13, <2>2
        <2> QED BY <1>12, <2>1, <2>2
    <1> QED BY <1>15, <1>16, <1>17 DEF EntriesInv

\* No row of a transfer, no pair of a reversal and its original is ever torn apart.
THEOREM EntriesHold == Spec => []EntriesInv
    <1>1. Init => EntriesInv
        BY DEF Init, EntriesInv, LinksOK, TransferIntegrity, ReversedOnce
    <1>2. TypeOK /\ TypeOK' /\ EntriesInv /\ [Atomic!ANext]_(Atomic!avars) => EntriesInv'
        <2> SUFFICES ASSUME TypeOK, TypeOK', EntriesInv, [Atomic!ANext]_(Atomic!avars)
                     PROVE  EntriesInv'
            OBVIOUS
        <2>1. CASE UNCHANGED Atomic!avars
            BY <2>1 DEF Atomic!avars, EntriesInv, LinksOK, TransferIntegrity, TransferIntact,
               ReversedOnce, UndoneOnce, ReversalsOf
        <2> QED BY <2>1, PostKeepsEntries, MoveKeepsEntries, WithdrawKeepsEntries, UndoKeepsEntries,
               AmendKeepsEntries DEF Atomic!ANext
    <1>3. LedgerInv /\ [Next]_vars => [Atomic!ANext]_(Atomic!avars)
        BY StepImplements
    <1> QED BY <1>1, <1>2, <1>3, InvariantHolds, TypesHold, PTL DEF Spec

\* Every transfer keeps its two legs, its fee row and the currencies of its accounts.
THEOREM TransfersIntact == Spec => []TransferIntegrity
    <1>1. EntriesInv => TransferIntegrity
        BY DEF EntriesInv
    <1> QED BY <1>1, EntriesHold, PTL

\* A transaction is undone by exactly one adjustment or by none.
THEOREM ReversalsOnce == Spec => []ReversedOnce
    <1>1. EntriesInv => ReversedOnce
        BY DEF EntriesInv
    <1> QED BY <1>1, EntriesHold, PTL

-----------------------------------------------------------------------------
(* The audit trail. *)

\* A row's first event makes its trail replay to it.
LEMMA TrailStarts ==
    ASSUME NEW type, NEW now
    PROVE  Replays(<<Event(type, NoAccount, now)>>, now)
    <1> DEFINE log == <<Event(type, NoAccount, now)>>
    <1>1. Len(log) = 1 /\ log[1] = Event(type, NoAccount, now) /\ log # <<>>
        OBVIOUS
    <1>2. log[1].before = NoAccount /\ log[1].after = now
        BY <1>1 DEF Event
    <1> HIDE DEF log
    <1> QED BY <1>1, <1>2 DEF Replays, Chained, log

\* An event whose "before" is the row as it was continues a trail.
LEMMA TrailContinues ==
    ASSUME NEW S, NEW log \in Seq(S), NEW old, Replays(log, old), NEW type, NEW now
    PROVE  Replays(Append(log, Event(type, old, now)), now)
    <1> DEFINE e == Event(type, old, now)
               new == Append(log, e)
    <1>1. e.before = old /\ e.after = now
        BY DEF Event
    <1> HIDE DEF e
    <1>2. /\ Len(log) \in Nat \ {0} /\ Len(new) = Len(log) + 1
          /\ new[Len(log) + 1] = e /\ \A i \in 1..Len(log) : new[i] = log[i]
        BY DEF Replays
    <1> HIDE DEF new
    <1>3. log[Len(log)].after = old /\ log[1].before = NoAccount /\ Chained(log)
        BY DEF Replays
    <1>4. \A i \in 1..Len(new) - 1 : new[i].after = new[i + 1].before
        <2> TAKE i \in 1..Len(new) - 1
        <2>1. CASE i = Len(log)
            BY <1>1, <1>2, <1>3, <2>1
        <2>2. CASE i # Len(log)
            <3>1. i \in 1..Len(log) - 1 /\ i + 1 \in 1..Len(log)
                BY <1>2, <2>2
            <3>2. log[i].after = log[i + 1].before
                BY <1>3, <3>1 DEF Chained
            <3> QED BY <1>2, <3>1, <3>2
        <2> QED BY <2>1, <2>2
    <1>5. new # <<>> /\ new[1].before = NoAccount /\ new[Len(new)].after = now
        BY <1>1, <1>2, <1>3
    <1> QED BY <1>4, <1>5 DEF Replays, Chained, new, e

\* The trails of a table of accounts, of transactions and of transfers.
AccountTrails(rows, logs) ==
    \A a \in AccountId :
        IF rows[a] = NoAccount THEN logs[a] = <<>> ELSE Replays(logs[a], rows[a])

TransactionTrails(rows, logs) ==
    \A n \in DOMAIN rows :
        IF rows[n].source = "transfer" THEN logs[n] = <<>> ELSE Replays(logs[n], rows[n])

TransferTrails(rows, logs) ==
    \A i \in DOMAIN rows : Len(logs[i]) = 1 /\ logs[i][1].after = rows[i]

\* The audit trail is the trails of the three tables.
LEMMA Trails ==
    /\ AuditReplays <=> /\ AccountTrails(accounts, accountAudit)
                        /\ TransactionTrails(transactions, transactionAudit)
                        /\ TransferTrails(transfers, transferAudit)
    /\ AuditReplays' <=> /\ AccountTrails(accounts', accountAudit')
                         /\ TransactionTrails(transactions', transactionAudit')
                         /\ TransferTrails(transfers', transferAudit')
    <1>1. AuditReplays <=> /\ AccountTrails(accounts, accountAudit)
                           /\ TransactionTrails(transactions, transactionAudit)
                           /\ TransferTrails(transfers, transferAudit)
        BY DEF AuditReplays, AccountTrails, TransactionTrails, TransferTrails
    <1>2. AuditReplays' <=> /\ AccountTrails(accounts', accountAudit')
                            /\ TransactionTrails(transactions', transactionAudit')
                            /\ TransferTrails(transfers', transferAudit')
        BY DEF AuditReplays, AccountTrails, TransactionTrails, TransferTrails, Replays, Chained
    <1> QED BY <1>1, <1>2

\* A transaction appended with its first event.
LEMMA PostedTrail ==
    ASSUME NEW txs \in Seq(TransactionRow), NEW logs \in Seq(AuditLog(TransactionRow)),
           Len(txs) = Len(logs), TransactionTrails(txs, logs),
           NEW tx \in TransactionRow, tx.source # "transfer"
    PROVE  TransactionTrails(Append(txs, tx),
                             Append(logs, <<Event("transaction.created", NoAccount, tx)>>))
    <1> DEFINE log == <<Event("transaction.created", NoAccount, tx)>>
               txs2 == Append(txs, tx)
               logs2 == Append(logs, log)
    <1>1. Replays(log, tx)
        BY TrailStarts
    <1> HIDE DEF log
    <1>2. /\ DOMAIN txs2 = DOMAIN txs \union {Len(txs) + 1}
          /\ txs2[Len(txs) + 1] = tx /\ logs2[Len(txs) + 1] = log
          /\ \A n \in DOMAIN txs : txs2[n] = txs[n] /\ logs2[n] = logs[n]
        OBVIOUS
    <1> HIDE DEF txs2, logs2
    <1>3. TransactionTrails(txs2, logs2)
        BY <1>1, <1>2 DEF TransactionTrails
    <1> QED BY <1>3 DEF txs2, logs2, log

\* A status change with the event that records it.
LEMMA StatusTrail ==
    ASSUME LedgerInv, AuditReplays, NEW t \in DOMAIN transactions, NEW status \in TransactionStatus,
           transactions[t].source # "transfer"
    PROVE  TransactionTrails(SetStatus(transactions, t, status), AuditStatus(t, status))
    <1> DEFINE old == transactions[t]
               new == [old EXCEPT !.status = status]
               log == Append(transactionAudit[t], Event(StatusEvent(status), old, new))
               txs == SetStatus(transactions, t, status)
               logs == AuditStatus(t, status)
    <1>1. /\ transactions \in Seq(TransactionRow)
          /\ transactionAudit \in Seq(AuditLog(TransactionRow))
          /\ Len(transactionAudit) = Len(transactions)
        BY DEF LedgerInv, TypeOK
    <1>2. old \in TransactionRow /\ transactionAudit[t] \in AuditLog(TransactionRow)
        BY <1>1
    <1>3. new.source = old.source
        BY <1>2 DEF TransactionRow
    <1>4. TransactionTrails(transactions, transactionAudit)
        BY Trails
    <1>5. Replays(log, new)
        <2>1. Replays(transactionAudit[t], old)
            BY <1>4 DEF TransactionTrails
        <2> HIDE DEF new, old
        <2> QED BY <1>2, <2>1, TrailContinues DEF AuditLog
    <1>6. txs = [transactions EXCEPT ![t] = new] /\ logs = [transactionAudit EXCEPT ![t] = log]
        BY DEF SetStatus, AuditStatus
    <1> HIDE DEF new, log, txs, logs
    <1>7. /\ DOMAIN txs = DOMAIN transactions /\ txs[t] = new /\ logs[t] = log
          /\ \A n \in DOMAIN transactions \ {t} : txs[n] = transactions[n] /\ logs[n] = transactionAudit[n]
        BY <1>1, <1>6
    <1>8. TransactionTrails(txs, logs)
        BY <1>3, <1>4, <1>5, <1>7 DEF TransactionTrails
    <1> QED BY <1>8 DEF txs, logs

\* A created transaction is audited once.
LEMMA CommitCreateAudits ==
    ASSUME LedgerInv, AuditReplays, NEW p \in Proc, CommitCreate(p)
    PROVE  AuditReplays'
    <1>1. draft[p] \in TransactionRow /\ draft[p].source # "transfer"
        BY DEF CommitCreate, LedgerInv, DraftOK
    <1>2. TransactionTrails(transactions', transactionAudit')
        BY <1>1, PostedTrail, Trails DEF CommitCreate, LedgerInv, TypeOK
    <1> QED BY <1>2, Trails DEF CommitCreate

\* A cancelled or soft-deleted transaction is audited with the row as it was under its lock.
LEMMA CommitStatusChangeAudits ==
    ASSUME LedgerInv, AuditReplays, NEW p \in Proc, CommitStatusChange(p)
    PROVE  AuditReplays'
    <1>1. row[p] \in DOMAIN transactions /\ transactions[row[p]].source # "transfer"
        BY LockedRow DEF CommitStatusChange, IsLifecycle, LifecycleAccepts, IsManualLifecycle
    <1>2. TransactionTrails(transactions', transactionAudit')
        <2>1. CASE req[p].kind = "cancel"
            BY <1>1, <2>1, StatusTrail DEF CommitStatusChange, TransactionStatus
        <2>2. CASE req[p].kind # "cancel"
            BY <1>1, <2>2, StatusTrail DEF CommitStatusChange, TransactionStatus
        <2> QED BY <2>1, <2>2
    <1> QED BY <1>2, Trails DEF CommitStatusChange

\* A reversal is audited on the row it reverses and on the row it adds.
LEMMA CommitReverseAudits ==
    ASSUME LedgerInv, AuditReplays, NEW p \in Proc, CommitReverse(p)
    PROVE  AuditReplays'
    <1>1. /\ row[p] \in DOMAIN transactions /\ transactions[row[p]].source # "transfer"
          /\ draft[p] \in TransactionRow /\ draft[p].source # "transfer"
        BY LockedRow DEF CommitReverse, IsLifecycle, LifecycleAccepts, IsManualLifecycle, DraftOK
    <1>2. "reversed" \in TransactionStatus
        BY DEF TransactionStatus
    <1>3. TransactionTrails(SetStatus(transactions, row[p], "reversed"), AuditStatus(row[p], "reversed"))
        BY <1>1, <1>2, StatusTrail
    <1>4. /\ SetStatus(transactions, row[p], "reversed") \in Seq(TransactionRow)
          /\ AuditStatus(row[p], "reversed") \in Seq(AuditLog(TransactionRow))
          /\ Len(SetStatus(transactions, row[p], "reversed")) = Len(AuditStatus(row[p], "reversed"))
        BY <1>1, <1>2, StatusRow, StatusAudit
    <1>5. TransactionTrails(transactions', transactionAudit')
        BY <1>1, <1>3, <1>4, PostedTrail DEF CommitReverse
    <1> QED BY <1>5, Trails DEF CommitReverse

\* Two or three elements make a sequence.
LEMMA ShortSequences ==
    ASSUME NEW a, NEW b, NEW c
    PROVE  /\ <<a, b>> \in Seq({a, b, c}) /\ Len(<<a, b>>) = 2
           /\ <<a, b, c>> \in Seq({a, b, c}) /\ Len(<<a, b, c>>) = 3
    OBVIOUS

\* A transfer is audited as such; its rows are not audited one by one.
LEMMA CommitTransferAudits ==
    ASSUME LedgerInv, AuditReplays, NEW p \in Proc, CommitTransfer(p)
    PROVE  AuditReplays'
    <1> DEFINE d == draft[p]
               tid == Len(transfers) + 1
               out == TransferLeg(d, tid, "transfer_out")
               in == TransferLeg(d, tid, "transfer_in")
               fee == FeeRow(d, tid)
               rows == TransferRows(d, tid)
               logs == IF d.fee > 0 THEN << <<>>, <<>>, <<>> >> ELSE << <<>>, <<>> >>
    <1>1. /\ transactions \in Seq(TransactionRow) /\ transactionAudit \in Seq(AuditLog(TransactionRow))
          /\ Len(transactionAudit) = Len(transactions)
          /\ transfers \in Seq(TransferRow) /\ transferAudit \in Seq(AuditLog(TransferRow))
          /\ Len(transferAudit) = Len(transfers)
        BY DEF LedgerInv, TypeOK
    <1>2. out.source = "transfer" /\ in.source = "transfer" /\ fee.source = "transfer"
        BY DEF TransferLeg, FeeRow
    <1>3. rows = IF d.fee > 0 THEN <<out, in, fee>> ELSE <<out, in>>
        BY DEF TransferRows
    <1> HIDE DEF out, in, fee, rows
    <1>4. /\ rows \in Seq({out, in, fee}) /\ logs \in Seq({<<>>}) /\ Len(rows) = Len(logs)
        <2>1. CASE d.fee > 0
            <3>1. rows = <<out, in, fee>> /\ logs = << <<>>, <<>>, <<>> >>
                BY <1>3, <2>1
            <3>2. <<out, in, fee>> \in Seq({out, in, fee}) /\ Len(<<out, in, fee>>) = 3
                BY ShortSequences
            <3>3. << <<>>, <<>>, <<>> >> \in Seq({<<>>, <<>>, <<>>}) /\ Len(<< <<>>, <<>>, <<>> >>) = 3
                BY ShortSequences
            <3>4. {<<>>, <<>>, <<>>} = {<<>>}
                OBVIOUS
            <3> HIDE DEF logs
            <3> QED BY <3>1, <3>2, <3>3, <3>4
        <2>2. CASE ~(d.fee > 0)
            <3>1. rows = <<out, in>> /\ logs = << <<>>, <<>> >>
                BY <1>3, <2>2
            <3>2. <<out, in>> \in Seq({out, in, fee}) /\ Len(<<out, in>>) = 2
                BY ShortSequences
            <3>3. << <<>>, <<>> >> \in Seq({<<>>, <<>>, <<>>}) /\ Len(<< <<>>, <<>> >>) = 2
                BY ShortSequences
            <3>4. {<<>>, <<>>, <<>>} = {<<>>}
                OBVIOUS
            <3> HIDE DEF logs
            <3> QED BY <3>1, <3>2, <3>3, <3>4
        <2> QED BY <2>1, <2>2
    <1>5. transactions' = transactions \o rows /\ transactionAudit' = transactionAudit \o logs
        BY DEF CommitTransfer, rows
    <1> HIDE DEF logs
    <1>6. \A k \in 1..Len(rows) : rows[k].source = "transfer" /\ logs[k] = <<>>
        BY <1>2, <1>4
    <1>7. /\ DOMAIN transactions = 1..Len(transactions)
          /\ DOMAIN transactions' = 1..(Len(transactions) + Len(rows))
          /\ \A n \in DOMAIN transactions : transactions'[n] = transactions[n]
          /\ \A k \in 1..Len(rows) : transactions'[Len(transactions) + k] = rows[k]
        <2>1. transactions \in Seq(TransactionRow \union {out, in, fee})
              /\ rows \in Seq(TransactionRow \union {out, in, fee})
            BY <1>1, <1>4
        <2> QED BY <1>5, <2>1, RowsAppended
    <1>8. /\ \A n \in DOMAIN transactionAudit : transactionAudit'[n] = transactionAudit[n]
          /\ DOMAIN transactionAudit = 1..Len(transactions)
          /\ \A k \in 1..Len(rows) : transactionAudit'[Len(transactions) + k] = logs[k]
        <2>1. transactionAudit \in Seq(AuditLog(TransactionRow) \union {<<>>})
              /\ logs \in Seq(AuditLog(TransactionRow) \union {<<>>})
            BY <1>1, <1>4
        <2>2. /\ DOMAIN transactionAudit = 1..Len(transactionAudit)
              /\ \A n \in DOMAIN transactionAudit : transactionAudit'[n] = transactionAudit[n]
              /\ \A k \in 1..Len(logs) : transactionAudit'[Len(transactionAudit) + k] = logs[k]
            BY <1>5, <2>1, RowsAppended
        <2> QED BY <1>1, <1>4, <2>2
    <1>9. TransactionTrails(transactions', transactionAudit')
        <2> SUFFICES ASSUME NEW n \in DOMAIN transactions'
                     PROVE  IF transactions'[n].source = "transfer" THEN transactionAudit'[n] = <<>>
                            ELSE Replays(transactionAudit'[n], transactions'[n])
            BY DEF TransactionTrails
        <2>1. CASE n \in DOMAIN transactions
            BY <1>7, <1>8, <2>1, Trails DEF TransactionTrails
        <2>2. CASE n \notin DOMAIN transactions
            <3>0. Len(transactions) \in Nat /\ Len(rows) \in Nat
                BY <1>1, <1>4
            <3>1. PICK k \in 1..Len(rows) : n = Len(transactions) + k
                <4>1. n - Len(transactions) \in 1..Len(rows) /\ n = Len(transactions) + (n - Len(transactions))
                    BY <1>7, <2>2, <3>0
                <4> QED BY <4>1
            <3> QED BY <1>6, <1>7, <1>8, <3>1
        <2> QED BY <2>1, <2>2
    <1>10. TransferTrails(transfers', transferAudit')
        <2> DEFINE tr == [d EXCEPT !.fromTx = Len(transactions) + 1, !.toTx = Len(transactions) + 2,
                                   !.feeTx = IF d.fee > 0 THEN Len(transactions) + 3 ELSE 0]
                   log == <<Event("transfer.created", NoAccount, tr)>>
        <2>1. transfers' = Append(transfers, tr) /\ transferAudit' = Append(transferAudit, log)
            BY DEF CommitTransfer
        <2> HIDE DEF tr
        <2>2. Len(log) = 1 /\ log[1].after = tr
            BY DEF Event
        <2> HIDE DEF log
        <2>3. /\ DOMAIN transfers' = DOMAIN transfers \union {Len(transfers) + 1}
              /\ transfers'[Len(transfers) + 1] = tr /\ transferAudit'[Len(transfers) + 1] = log
              /\ \A i \in DOMAIN transfers : transfers'[i] = transfers[i] /\ transferAudit'[i] = transferAudit[i]
            BY <1>1, <2>1
        <2> QED BY <2>2, <2>3, Trails DEF TransferTrails
    <1>11. AccountTrails(accounts', accountAudit')
        BY Trails DEF CommitTransfer
    <1> QED BY <1>9, <1>10, <1>11, Trails

\* An account write is audited with the row as it is under its lock.
LEMMA WriteAccountAudits ==
    ASSUME LedgerInv, AuditReplays, NEW a \in AccountId, NEW type, NEW new, new # NoAccount, Exists(a),
           WriteAccount(a, type, new)
    PROVE  AuditReplays'
    <1>1. /\ accounts \in [AccountId -> AccountRow \union {NoAccount}]
          /\ accountAudit \in [AccountId -> AuditLog(AccountRow)]
        BY DEF LedgerInv, TypeOK
    <1> DEFINE log == Append(accountAudit[a], Event(type, accounts[a], new))
    <1>2. Replays(accountAudit[a], accounts[a]) /\ accountAudit[a] \in AuditLog(AccountRow)
        BY <1>1, Trails DEF AccountTrails, Exists
    <1>3. Replays(log, new)
        BY <1>2, TrailContinues DEF AuditLog
    <1>4. accounts' = [accounts EXCEPT ![a] = new] /\ accountAudit' = [accountAudit EXCEPT ![a] = log]
        BY DEF WriteAccount
    <1> HIDE DEF log
    <1>5. AccountTrails(accounts', accountAudit')
        BY <1>1, <1>3, <1>4, Trails DEF AccountTrails
    <1> QED BY <1>5, Trails DEF WriteAccount

\* A new account's trail starts with its creation.
LEMMA OpenAccountAudits ==
    ASSUME LedgerInv, AuditReplays, NEW p \in Proc, NEW r \in Offered, OpenAccount(p, r)
    PROVE  AuditReplays'
    <1> DEFINE new == [r.row EXCEPT !.active = TRUE]
               log == Append(accountAudit[r.account], Event("account.created", NoAccount, new))
    <1>1. /\ accounts \in [AccountId -> AccountRow \union {NoAccount}]
          /\ accountAudit \in [AccountId -> AuditLog(AccountRow)]
        BY DEF LedgerInv, TypeOK
    <1>2. r \in OpenRequest
        BY RequestShape, ConstantsAssumption DEF OpenAccount
    <1>3. r.account \in AccountId /\ new \in AccountRow
        BY <1>2 DEF OpenRequest, AccountRow
    <1>4. accountAudit[r.account] = <<>>
        BY <1>3, Trails DEF AccountTrails, OpenAccount, Exists
    <1>5. /\ accounts' = [accounts EXCEPT ![r.account] = new]
          /\ accountAudit' = [accountAudit EXCEPT ![r.account] = log]
        BY DEF OpenAccount
    <1>6. new # NoAccount
        BY <1>3, ConstantsAssumption
    <1> HIDE DEF new
    <1>7. log = <<Event("account.created", NoAccount, new)>>
        BY <1>4
    <1>8. Replays(log, new)
        <2> HIDE DEF log
        <2> QED BY <1>7, TrailStarts
    <1> HIDE DEF log
    <1>9. AccountTrails(accounts', accountAudit')
        BY <1>1, <1>3, <1>5, <1>6, <1>8, Trails DEF AccountTrails
    <1> QED BY <1>9, Trails DEF OpenAccount

\* Updating and archiving an account are audited with the row as it is under its lock.
LEMMA AccountStepAudits ==
    ASSUME LedgerInv, AuditReplays, NEW p \in Proc, CommitUpdate(p) \/ CommitArchive(p)
    PROVE  AuditReplays'
    <1>1. /\ req[p].account \in AccountId /\ Exists(req[p].account)
        BY LockedAccount DEF CommitUpdate, CommitArchive
    <1>2. CASE CommitUpdate(p)
        <2>1. draft[p] # NoAccount
            BY <1>2, ConstantsAssumption DEF CommitUpdate, LedgerInv, DraftOK
        <2> QED BY <1>1, <1>2, <2>1, WriteAccountAudits DEF CommitUpdate
    <1>3. CASE CommitArchive(p)
        <2>1. accounts[req[p].account] \in AccountRow
            BY <1>1 DEF LedgerInv, TypeOK, Exists
        <2>2. [accounts[req[p].account] EXCEPT !.active = FALSE] \in AccountRow
            BY <2>1 DEF AccountRow
        <2>3. [accounts[req[p].account] EXCEPT !.active = FALSE] # NoAccount
            BY <2>2, ConstantsAssumption
        <2> QED BY <1>1, <1>3, <2>3, WriteAccountAudits DEF CommitArchive
    <1> QED BY <1>2, <1>3

\* Whoever reads the audit trail of a row finds its whole history, whatever ran concurrently.
THEOREM AuditHolds == Spec => []AuditReplays
    <1>1. Init => AuditReplays
        <2> SUFFICES ASSUME Init PROVE AuditReplays
            OBVIOUS
        <2>1. AccountTrails(accounts, accountAudit)
            BY TrailStarts, ConstantsAssumption DEF Init, AccountTrails
        <2>2. TransactionTrails(transactions, transactionAudit) /\ TransferTrails(transfers, transferAudit)
            BY DEF Init, TransactionTrails, TransferTrails
        <2> QED BY <2>1, <2>2, Trails
    <1>2. LedgerInv /\ AuditReplays /\ [Next]_vars => AuditReplays'
        <2> SUFFICES ASSUME LedgerInv, AuditReplays, [Next]_vars PROVE AuditReplays'
            OBVIOUS
        <2>1. CASE UNCHANGED tables
            BY <2>1, Trails DEF tables
        <2>2. CASE UNCHANGED vars
            BY <2>1, <2>2 DEF vars, tables
        <2>3. ASSUME NEW p \in Proc, NEW r \in Offered, Submit(p, r) PROVE AuditReplays'
            <3>1. OpenAccount(p, r) \/ UNCHANGED tables
                BY <2>3 DEF Submit, SubmitCreate, SubmitTransfer, SubmitStatusChange, SubmitReverse,
                   SubmitUpdate, SubmitArchive, Start
            <3> QED BY <2>1, <3>1, OpenAccountAudits
        <2>4. ASSUME NEW p \in Proc, Acquire(p) PROVE AuditReplays'
            <3>1. UNCHANGED tables
                BY <2>4 DEF Acquire, LockAccount, LockTransaction, RejectLifecycle, ReferenceAccount, Reject
            <3> QED BY <2>1, <3>1
        <2>5. ASSUME NEW p \in Proc, Proceed(p) PROVE AuditReplays'
            <3>1. \/ CommitCreate(p) \/ CommitTransfer(p) \/ CommitStatusChange(p)
                  \/ CommitReverse(p) \/ CommitUpdate(p) \/ CommitArchive(p)
                  \/ UNCHANGED tables
                BY <2>5 DEF Proceed, RejectCreate, CheckTransfer, RejectTransfer, RejectDuplicateKey,
                   RejectUpdate, Reject, Advance
            <3> QED BY <2>1, <3>1, CommitCreateAudits, CommitTransferAudits, CommitStatusChangeAudits,
                    CommitReverseAudits, AccountStepAudits
        <2>6. ASSUME NEW p \in Proc, Abort(p) \/ DeadlockVictim(p) PROVE AuditReplays'
            <3>1. UNCHANGED tables
                BY <2>6 DEF Abort, DeadlockVictim, Reject
            <3> QED BY <2>1, <3>1
        <2> QED BY <2>2, <2>3, <2>4, <2>5, <2>6 DEF Next
    <1> QED BY <1>1, <1>2, InvariantHolds, PTL DEF Spec

-----------------------------------------------------------------------------
(* Deadlocks. *)

\* A set of naturals has a least element.
LEMMA LeastNatural ==
    ASSUME NEW T \in SUBSET Nat, T # {}
    PROVE  \E x \in T : \A y \in T : x <= y
    <1>1. PICK x \in T : \A y \in T : ~(<<y, x>> \in OpToRel(<, Nat))
        BY NatLessThanWellFounded, WFMin
    <1>2. \A y \in T : ~(y < x)
        BY <1>1 DEF OpToRel
    <1> QED BY <1>2

\* In a finite set not everybody can wait for somebody with a higher number.
LEMMA NoAscent ==
    ASSUME NEW S, IsFiniteSet(S), S # {}, NEW f \in [S -> Nat]
    PROVE  \E p \in S : \A q \in S : f[q] <= f[p]
    <1> SUFFICES ASSUME \A p \in S : \E q \in S : f[q] > f[p] PROVE FALSE
        OBVIOUS
    <1> DEFINE Climbs(U) == U # {} /\ \A p \in U : \E q \in U : f[q] > f[p]
               C == {c \in Nat : \E U \in SUBSET S : Climbs(U) /\ c = Cardinality(U)}
    <1>1. \A U \in SUBSET S : IsFiniteSet(U) /\ Cardinality(U) \in Nat
        BY FS_Subset, FS_CardinalityType
    <1>2. Cardinality(S) \in C
        BY <1>1
    <1>3. PICK c \in C : \A d \in C : c <= d
        <2> HIDE DEF C
        <2>1. C \in SUBSET Nat
            BY DEF C
        <2> QED BY <1>2, <2>1, LeastNatural
    <1>4. PICK U \in SUBSET S : Climbs(U) /\ c = Cardinality(U)
        BY <1>3
    <1>5. PICK x \in U : \A p \in U : f[x] <= f[p]
        <2> DEFINE T == {f[p] : p \in U}
        <2>1. T \in SUBSET Nat /\ T # {}
            BY <1>4
        <2>2. PICK y \in T : \A z \in T : y <= z
            <3> HIDE DEF T
            <3> QED BY <2>1, LeastNatural
        <2> QED BY <2>2
    <1>6. Climbs(U \ {x})
        <2>1. \A p \in U : \E q \in U \ {x} : f[q] > f[p]
            <3> TAKE p \in U
            <3>1. PICK q \in U : f[q] > f[p]
                BY <1>4
            <3>2. f[x] \in Nat /\ f[p] \in Nat /\ f[q] \in Nat /\ f[x] <= f[p]
                BY <1>5
            <3> QED BY <3>1, <3>2
        <2> QED BY <1>4, <1>5, <2>1
    <1>7. Cardinality(U \ {x}) = c - 1 /\ U \ {x} \in SUBSET S
        BY <1>1, <1>4, FS_RemoveElement
    <1>8. c - 1 \in C
        BY <1>1, <1>6, <1>7
    <1> QED BY <1>3, <1>8

\* NextLock is the least account still to be locked.
LEMMA NextLockIsLeast ==
    ASSUME LedgerInv, NEW p \in Proc, pc[p] = "lock", ~IsLifecycle(req[p])
    PROVE  /\ NextLock(p) \in LockSet(req[p]) \ held[p]
           /\ NextLock(p) \in Nat /\ LockSet(req[p]) \subseteq Nat
           /\ \A b \in LockSet(req[p]) \ held[p] : NextLock(p) <= b
    <1>1. req[p] \in Request
        BY ConstantsAssumption DEF LedgerInv, DraftOK
    <1>2. LockSet(req[p]) \ held[p] # {}
        BY DEF LedgerInv, LocksOK
    <1>3. \E a \in LockSet(req[p]) \ held[p] : \A b \in LockSet(req[p]) \ held[p] : a <= b
        BY <1>1, <1>2, LockSetShape
    <1>4. LockSet(req[p]) \subseteq Nat
        BY <1>1, LockSetShape, ConstantsAssumption
    <1> QED BY <1>3, <1>4 DEF NextLock

\* Accounts are locked in order by every step.
LEMMA LockOrderKept ==
    ASSUME LedgerInv, LockOrder, [Next]_vars
    PROVE  LockOrder'
    <1> USE DEF LockOrder
    <1>1. CASE UNCHANGED vars
        BY <1>1 DEF vars
    <1>2. ASSUME NEW p \in Proc, Finish(p) PROVE LockOrder'
        BY <1>2 DEF Finish, LedgerInv, TypeOK
    <1>3. ASSUME NEW p \in Proc, NEW r, NEW d, pc[p] = "idle", Start(p, r, d) PROVE LockOrder'
        <2>1. held[p] = {} /\ shared[p] = {}
            BY <1>3 DEF LedgerInv, LocksOK
        <2> QED BY <1>3, <2>1 DEF Start, LedgerInv, TypeOK
    <1>4. ASSUME NEW p \in Proc, LockAccount(p) PROVE LockOrder'
        <2> DEFINE a == NextLock(p)
        <2>1. /\ pc[p] = "lock" /\ held' = [held EXCEPT ![p] = @ \union {a}]
              /\ UNCHANGED <<req, shared>>
              /\ pc' = [pc EXCEPT ![p] = IF LockSet(req[p]) \subseteq held'[p] THEN "locked" ELSE "lock"]
            BY <1>4 DEF LockAccount
        <2>2. /\ a \in LockSet(req[p]) \ held[p] /\ a \in Nat /\ LockSet(req[p]) \subseteq Nat
              /\ \A b \in LockSet(req[p]) \ held[p] : a <= b
            BY <1>4, NextLockIsLeast DEF LockAccount
        <2> HIDE DEF a
        <2>3. held'[p] = held[p] \union {a} /\ \A q \in Proc \ {p} : held'[q] = held[q] /\ pc'[q] = pc[q]
            BY <2>1 DEF LedgerInv, TypeOK
        <2>4. \A b \in LockSet(req[p]) \ held'[p] : \A c \in held'[p] : c < b
            BY <2>1, <2>2, <2>3
        <2>5. shared[p] = {}
            BY <2>1
        <2> QED BY <2>1, <2>3, <2>4, <2>5
    <1>5. ASSUME NEW p \in Proc, LockTransaction(p) PROVE LockOrder'
        BY <1>5 DEF LockTransaction, LedgerInv, TypeOK
    <1>6. ASSUME NEW p \in Proc, ReferenceAccount(p) PROVE LockOrder'
        BY <1>6 DEF ReferenceAccount, LedgerInv, TypeOK
    <1>7. ASSUME NEW p \in Proc, CheckTransfer(p) PROVE LockOrder'
        BY <1>7 DEF CheckTransfer, Advance, LedgerInv, TypeOK
    <1>8. ASSUME NEW p \in Proc, NEW r \in Offered, OpenAccount(p, r) PROVE LockOrder'
        BY <1>8 DEF OpenAccount, local
    <1>9. ASSUME NEW p \in Proc, NEW r \in Offered, Submit(p, r) PROVE LockOrder'
        <2>1. OpenAccount(p, r) \/ (pc[p] = "idle" /\ \E d : Start(p, r, d))
            BY <1>9 DEF Submit, SubmitCreate, SubmitTransfer, SubmitStatusChange, SubmitReverse,
               SubmitUpdate, SubmitArchive, Idle
        <2> QED BY <1>3, <1>8, <2>1
    <1>10. ASSUME NEW p \in Proc, Acquire(p) \/ Proceed(p) \/ Abort(p) \/ DeadlockVictim(p)
           PROVE  LockOrder'
        <2>1. LockAccount(p) \/ LockTransaction(p) \/ ReferenceAccount(p) \/ CheckTransfer(p) \/ Finish(p)
            BY <1>10 DEF Acquire, Proceed, Abort, DeadlockVictim, RejectLifecycle, CommitCreate,
               RejectCreate, RejectTransfer, CommitTransfer, RejectDuplicateKey, CommitStatusChange,
               CommitReverse, CommitUpdate, RejectUpdate, CommitArchive, Reject
        <2> QED BY <1>2, <1>4, <1>5, <1>6, <1>7, <2>1
    <1> QED BY <1>1, <1>9, <1>10 DEF Next

\* The order of the locks leaves no cycle among the requests that lock accounts only.
LEMMA OrderPreventsDeadlock ==
    ASSUME LedgerInv, LockOrder
    PROVE  OnlyReversalsDeadlock
    <1> SUFFICES ASSUME NEW S \in SUBSET Proc, S # {}, \A q \in S : BlockedBy(q) \intersect S # {},
                        \A q \in S : req[q].kind # "reverse"
                 PROVE  FALSE
        BY DEF OnlyReversalsDeadlock
    <1>1. \A q \in S : pc[q] = "lock"
        BY DEF BlockedBy
    <1>2. \A q \in S : shared[q] = {} /\ row[q] = None
        BY <1>1 DEF LockOrder, LedgerInv, LocksOK
    <1>3. \A q \in S : ~IsLifecycle(req[q])
        <2> SUFFICES ASSUME NEW q \in S, IsLifecycle(req[q]) PROVE FALSE
            OBVIOUS
        <2>1. PICK w \in S : w \in BlockedBy(q)
            OBVIOUS
        <2>2. row[w] = req[q].tx
            BY <1>1, <2>1 DEF BlockedBy
        <2>3. req[q].tx \in DOMAIN transactions
            BY <1>1 DEF LedgerInv, DraftOK
        <2>4. 0 \notin DOMAIN transactions
            BY DEF LedgerInv, TypeOK
        <2> QED BY <1>2, <2>2, <2>3, <2>4 DEF None
    <1> DEFINE f == [q \in S |-> NextLock(q)]
    <1>4. f \in [S -> Nat]
        BY <1>1, <1>3, NextLockIsLeast
    <1>5. \A q \in S : \E w \in S : f[w] > f[q]
        <2> TAKE q \in S
        <2>1. PICK w \in S : w \in BlockedBy(q)
            OBVIOUS
        <2>2. NextLock(q) \in held[w]
            BY <1>1, <1>2, <1>3, <2>1 DEF BlockedBy
        <2>3. NextLock(w) \in LockSet(req[w]) \ held[w]
            BY <1>1, <1>3, NextLockIsLeast
        <2>4. NextLock(q) < NextLock(w)
            BY <1>1, <2>2, <2>3 DEF LockOrder
        <2>5. f[q] \in Nat /\ f[w] \in Nat /\ f[q] = NextLock(q) /\ f[w] = NextLock(w)
            BY <1>4
        <2> QED BY <2>4, <2>5
    <1>6. IsFiniteSet(S)
        BY ProcAssumption, FS_Subset
    <1> HIDE DEF f
    <1>7. PICK p \in S : \A q \in S : f[q] <= f[p]
        BY <1>4, <1>6, NoAscent
    <1>8. \A q \in S : f[q] \in Nat
        BY <1>4
    <1>9. PICK w \in S : f[w] > f[p]
        BY <1>5
    <1>10. f[w] \in Nat /\ f[p] \in Nat /\ f[w] <= f[p]
        BY <1>7, <1>8
    <1> QED BY <1>9, <1>10

\* Requests are never all waiting for each other unless a reversal is among them.
THEOREM DeadlocksNeedReversals == Spec => []OnlyReversalsDeadlock
    <1>1. Init => LockOrder
        BY DEF Init, LockOrder
    <1>2. LedgerInv /\ LockOrder /\ [Next]_vars => LockOrder'
        BY LockOrderKept
    <1>3. LedgerInv /\ LockOrder => OnlyReversalsDeadlock
        BY OrderPreventsDeadlock
    <1> QED BY <1>1, <1>2, <1>3, InvariantHolds, PTL DEF Spec

-----------------------------------------------------------------------------
(* Sums.  What holds of every row holds of the sums, by the first place where it would not. *)

\* The running sums exist and are what their definition says.
LEMMA RunningSumDef ==
    ASSUME NEW n \in Nat, NEW s \in [1..n -> Int]
    PROVE  /\ RunningSum(s, n) \in [0..n -> Int]
           /\ RunningSum(s, n)[0] = 0
           /\ \A k \in 1..n : RunningSum(s, n)[k] = RunningSum(s, n)[k - 1] + s[k]
    <1> DEFINE Sums(f, m) == /\ f \in [0..m -> Int] /\ f[0] = 0
                             /\ \A k \in 1..m : f[k] = f[k - 1] + s[k]
               Bad == {m \in 0..n : ~ \E f : Sums(f, m)}
    <1>1. Bad = {}
        <2> SUFFICES ASSUME Bad # {} PROVE FALSE
            OBVIOUS
        <2>1. PICK m \in Bad : \A l \in Bad : m <= l
            <3>1. Bad \in SUBSET Nat
                OBVIOUS
            <3> HIDE DEF Bad
            <3> QED BY <3>1, LeastNatural
        <2>2. m # 0
            <3>1. Sums([k \in {0} |-> 0], 0)
                OBVIOUS
            <3> QED BY <3>1
        <2>3. PICK f : Sums(f, m - 1)
            <3>1. m - 1 \in 0..n /\ ~(m <= m - 1)
                BY <2>2
            <3> QED BY <2>1, <3>1
        <2> DEFINE g == [k \in 0..m |-> IF k = m THEN f[m - 1] + s[m] ELSE f[k]]
        <2>4. Sums(g, m)
            <3>1. m \in Nat \ {0} /\ m \in 1..n /\ s[m] \in Int
                BY <2>2
            <3>2. f \in [0..(m - 1) -> Int] /\ f[0] = 0 /\ \A k \in 1..(m - 1) : f[k] = f[k - 1] + s[k]
                BY <2>3
            <3>3. \A k \in 0..(m - 1) : f[k] \in Int /\ g[k] = f[k]
                BY <3>1, <3>2
            <3>4. g[m] = f[m - 1] + s[m] /\ f[m - 1] \in Int
                <4>1. m - 1 \in 0..(m - 1) /\ m \in 0..m
                    BY <3>1
                <4>2. f[m - 1] \in Int
                    BY <3>2, <4>1
                <4> QED BY <4>1, <4>2
            <3>5. g \in [0..m -> Int]
                <4>1. \A k \in 0..m : k = m \/ k \in 0..(m - 1)
                    BY <3>1
                <4>2. \A k \in 0..m : g[k] \in Int
                    <5> TAKE k \in 0..m
                    <5> HIDE DEF g
                    <5>1. CASE k = m
                        BY <3>1, <3>4, <5>1
                    <5>2. CASE k \in 0..(m - 1)
                        BY <3>3, <5>2
                    <5> QED BY <4>1, <5>1, <5>2
                <4>3. g = [k \in 0..m |-> g[k]]
                    OBVIOUS
                <4> HIDE DEF g
                <4> QED BY <4>2, <4>3
            <3>6. \A k \in 1..m : g[k] = g[k - 1] + s[k]
                <4> TAKE k \in 1..m
                <4> HIDE DEF g
                <4>1. CASE k = m
                    BY <3>1, <3>3, <3>4, <4>1
                <4>2. CASE k # m
                    <5>1. k \in 1..(m - 1) /\ k - 1 \in 0..(m - 1) /\ k \in 0..(m - 1)
                        BY <3>1, <4>2
                    <5> QED BY <3>2, <3>3, <5>1
                <4> QED BY <4>1, <4>2
            <3>7. g[0] = 0
                BY <3>1, <3>2, <3>3
            <3> HIDE DEF g
            <3> QED BY <3>5, <3>6, <3>7
        <2> QED BY <2>1, <2>4
    <1>2. PICK f : Sums(f, n)
        <2>1. n \in 0..n
            OBVIOUS
        <2> HIDE DEF Sums
        <2> QED BY <1>1, <2>1
    <1>3. f = [k \in 0..n |-> IF k = 0 THEN 0 ELSE f[k - 1] + s[k]]
        BY <1>2
    <1> DEFINE h == RunningSum(s, n)
    <1>4. h = [k \in 0..n |-> IF k = 0 THEN 0 ELSE h[k - 1] + s[k]]
        BY <1>3 DEF RunningSum
    <1> HIDE DEF h
    <1>5. h[0] = 0 /\ \A k \in 1..n : h[k] = h[k - 1] + s[k]
        BY <1>4
    <1>6. \A k \in 0..n : h[k] = f[k]
        <2> DEFINE D == {k \in 0..n : h[k] # f[k]}
        <2> SUFFICES ASSUME D # {} PROVE FALSE
            OBVIOUS
        <2>1. PICK m \in D : \A l \in D : m <= l
            <3>1. D \in SUBSET Nat
                OBVIOUS
            <3> HIDE DEF D
            <3> QED BY <3>1, LeastNatural
        <2>2. m # 0
            BY <1>2, <1>5
        <2>3. m \in 1..n /\ m - 1 \in 0..n /\ ~(m <= m - 1)
            BY <2>2
        <2>4. h[m - 1] = f[m - 1]
            BY <2>1, <2>3
        <2>5. h[m] = h[m - 1] + s[m] /\ f[m] = f[m - 1] + s[m]
            BY <1>2, <1>5, <2>3
        <2> QED BY <2>1, <2>4, <2>5
    <1>7. h = f
        BY <1>2, <1>4, <1>6
    <1> QED BY <1>2, <1>7 DEF h

\* Two comparisons added up.
LEMMA AddedUp ==
    ASSUME NEW a \in Int, NEW b \in Int, NEW c \in Int, NEW x \in Int, NEW y \in Int, NEW z \in Int,
           a + b <= c, x + y <= z
    PROVE  (a + x) + (b + y) <= c + z
    OBVIOUS

\* Rows that add at most what others add, less what third ones add.
LEMMA SumsCompare ==
    ASSUME NEW n \in Nat, NEW s \in [1..n -> Int], NEW t \in [1..n -> Int], NEW u \in [1..n -> Int],
           \A k \in 1..n : s[k] + u[k] <= t[k]
    PROVE  SumTo(s, n) + SumTo(u, n) <= SumTo(t, n)
    <1> DEFINE S == RunningSum(s, n)
               T == RunningSum(t, n)
               U == RunningSum(u, n)
               D == {k \in 0..n : ~(S[k] + U[k] <= T[k])}
    <1>1. S \in [0..n -> Int] /\ S[0] = 0 /\ \A k \in 1..n : S[k] = S[k - 1] + s[k]
        BY RunningSumDef
    <1>2. T \in [0..n -> Int] /\ T[0] = 0 /\ \A k \in 1..n : T[k] = T[k - 1] + t[k]
        BY RunningSumDef
    <1>3. U \in [0..n -> Int] /\ U[0] = 0 /\ \A k \in 1..n : U[k] = U[k - 1] + u[k]
        BY RunningSumDef
    <1> HIDE DEF S, T, U
    <1>4. D = {}
        <2> SUFFICES ASSUME D # {} PROVE FALSE
            OBVIOUS
        <2>1. PICK m \in D : \A l \in D : m <= l
            <3>1. D \in SUBSET Nat
                OBVIOUS
            <3> HIDE DEF D
            <3> QED BY <3>1, LeastNatural
        <2>2. m # 0
            BY <1>1, <1>2, <1>3
        <2>3. m \in 1..n /\ m - 1 \in 0..n /\ ~(m <= m - 1)
            BY <2>2
        <2>4. S[m - 1] + U[m - 1] <= T[m - 1]
            BY <2>1, <2>3
        <2>5. /\ S[m] = S[m - 1] + s[m] /\ T[m] = T[m - 1] + t[m] /\ U[m] = U[m - 1] + u[m]
              /\ s[m] + u[m] <= t[m] /\ s[m] \in Int /\ t[m] \in Int /\ u[m] \in Int
              /\ S[m - 1] \in Int /\ T[m - 1] \in Int /\ U[m - 1] \in Int
            BY <1>1, <1>2, <1>3, <2>3
        <2>6. S[m] + U[m] <= T[m]
            <3>1. (S[m - 1] + s[m]) + (U[m - 1] + u[m]) <= T[m - 1] + t[m]
                BY <2>4, <2>5, AddedUp
            <3> QED BY <2>5, <3>1
        <2> QED BY <2>1, <2>6
    <1>5. S[n] + U[n] <= T[n]
        BY <1>4
    <1> QED BY <1>5 DEF SumTo, S, T, U

\* Rows added at the end, or rewritten without a change of what they add.
LEMMA SumsExtend ==
    ASSUME NEW n \in Nat, NEW m \in Nat, n <= m,
           NEW s \in [1..n -> Int], NEW t \in [1..m -> Int],
           \A k \in 1..n : t[k] = s[k]
    PROVE  /\ RunningSum(t, m)[n] = SumTo(s, n)
           /\ SumTo(s, n) \in Int /\ SumTo(t, m) \in Int
           /\ (\A k \in (n + 1)..m : t[k] >= 0) => SumTo(t, m) >= SumTo(s, n)
           /\ (\A k \in (n + 1)..m : t[k] = 0) => SumTo(t, m) = SumTo(s, n)
           /\ m = n + 1 => SumTo(t, m) = SumTo(s, n) + t[n + 1]
           /\ m = n + 2 => SumTo(t, m) = SumTo(s, n) + t[n + 1] + t[n + 2]
           /\ m = n + 3 => SumTo(t, m) = SumTo(s, n) + t[n + 1] + t[n + 2] + t[n + 3]
    <1> DEFINE S == RunningSum(s, n)
               T == RunningSum(t, m)
    <1>1. S \in [0..n -> Int] /\ S[0] = 0 /\ \A k \in 1..n : S[k] = S[k - 1] + s[k]
        BY RunningSumDef
    <1>2. T \in [0..m -> Int] /\ T[0] = 0 /\ \A k \in 1..m : T[k] = T[k - 1] + t[k]
        BY RunningSumDef
    <1>3. SumTo(s, n) = S[n] /\ SumTo(t, m) = T[m]
        BY DEF SumTo
    <1> HIDE DEF S, T
    <1>4. T[n] = S[n]
        <2> DEFINE D == {k \in 0..n : T[k] # S[k]}
        <2>1. D = {}
            <3> SUFFICES ASSUME D # {} PROVE FALSE
                OBVIOUS
            <3>1. PICK l \in D : \A k \in D : l <= k
                <4>1. D \in SUBSET Nat
                    OBVIOUS
                <4> HIDE DEF D
                <4> QED BY <4>1, LeastNatural
            <3>2. l # 0
                BY <1>1, <1>2
            <3>3. l \in 1..n /\ l \in 1..m /\ l - 1 \in 0..n /\ ~(l <= l - 1)
                BY <3>2
            <3>4. T[l - 1] = S[l - 1]
                BY <3>1, <3>3
            <3> QED BY <1>1, <1>2, <3>1, <3>3, <3>4
        <2> QED BY <2>1
    <1>5. ASSUME \A k \in (n + 1)..m : t[k] >= 0 PROVE T[m] >= T[n]
        <2> DEFINE D == {k \in n..m : ~(T[k] >= T[n])}
        <2>1. D = {}
            <3> SUFFICES ASSUME D # {} PROVE FALSE
                OBVIOUS
            <3>1. PICK l \in D : \A k \in D : l <= k
                <4>1. D \in SUBSET Nat
                    OBVIOUS
                <4> HIDE DEF D
                <4> QED BY <4>1, LeastNatural
            <3>2. l # n
                BY <1>2
            <3>3. l \in (n + 1)..m /\ l \in 1..m /\ l - 1 \in n..m /\ l - 1 \in 0..m /\ ~(l <= l - 1)
                BY <3>2
            <3>4. T[l - 1] >= T[n]
                BY <3>1, <3>3
            <3>5. T[l] = T[l - 1] + t[l] /\ t[l] >= 0 /\ t[l] \in Int /\ T[l - 1] \in Int /\ T[n] \in Int
                BY <1>2, <1>5, <3>3
            <3>6. T[l] >= T[n]
                BY <3>4, <3>5
            <3> QED BY <3>1, <3>6
        <2> QED BY <2>1
    <1>6. ASSUME \A k \in (n + 1)..m : t[k] = 0 PROVE T[m] = T[n]
        <2> DEFINE D == {k \in n..m : T[k] # T[n]}
        <2>1. D = {}
            <3> SUFFICES ASSUME D # {} PROVE FALSE
                OBVIOUS
            <3>1. PICK l \in D : \A k \in D : l <= k
                <4>1. D \in SUBSET Nat
                    OBVIOUS
                <4> HIDE DEF D
                <4> QED BY <4>1, LeastNatural
            <3>2. l # n
                BY <1>2
            <3>3. l \in (n + 1)..m /\ l \in 1..m /\ l - 1 \in n..m /\ l - 1 \in 0..m /\ ~(l <= l - 1)
                BY <3>2
            <3>4. T[l - 1] = T[n]
                BY <3>1, <3>3
            <3>5. T[l] = T[l - 1] + t[l] /\ t[l] = 0 /\ T[l - 1] \in Int
                BY <1>2, <1>6, <3>3
            <3> QED BY <3>1, <3>4, <3>5
        <2> QED BY <2>1
    <1>7. ASSUME NEW k \in n..m, k + 1 \in 1..m PROVE T[k + 1] = T[k] + t[k + 1]
        BY <1>2, <1>7
    <1>8. m = n + 1 => T[m] = T[n] + t[n + 1]
        BY <1>7
    <1>9. m = n + 2 => T[m] = T[n] + t[n + 1] + t[n + 2]
        <2> SUFFICES ASSUME m = n + 2 PROVE T[n + 2] = T[n] + t[n + 1] + t[n + 2]
            OBVIOUS
        <2>1. T[n + 1] = T[n] + t[n + 1]
            BY <1>7
        <2>2. T[(n + 1) + 1] = T[n + 1] + t[(n + 1) + 1]
            BY <1>7
        <2> QED BY <2>1, <2>2
    <1>10. m = n + 3 => T[m] = T[n] + t[n + 1] + t[n + 2] + t[n + 3]
        <2> SUFFICES ASSUME m = n + 3 PROVE T[n + 3] = T[n] + t[n + 1] + t[n + 2] + t[n + 3]
            OBVIOUS
        <2>1. T[n + 1] = T[n] + t[n + 1]
            BY <1>7
        <2>2. T[(n + 1) + 1] = T[n + 1] + t[(n + 1) + 1]
            BY <1>7
        <2>3. T[(n + 2) + 1] = T[n + 2] + t[(n + 2) + 1]
            BY <1>7
        <2> QED BY <2>1, <2>2, <2>3
    <1>11. S[n] \in Int /\ T[m] \in Int
        BY <1>1, <1>2
    <1> QED BY <1>3, <1>4, <1>5, <1>6, <1>8, <1>9, <1>10, <1>11 DEF T

\* Rows that add nothing negative do not lower a sum.
LEMMA SumGrows ==
    ASSUME NEW n \in Nat, NEW m \in Nat, n <= m,
           NEW s \in [1..n -> Int], NEW t \in [1..m -> Int],
           \A k \in 1..n : t[k] = s[k], \A k \in (n + 1)..m : t[k] >= 0
    PROVE  SumTo(t, m) >= SumTo(s, n) /\ SumTo(s, n) \in Int /\ SumTo(t, m) \in Int
    BY SumsExtend

\* Rows that add nothing leave a sum alone.
LEMMA SumStays ==
    ASSUME NEW n \in Nat, NEW m \in Nat, n <= m,
           NEW s \in [1..n -> Int], NEW t \in [1..m -> Int],
           \A k \in 1..n : t[k] = s[k], \A k \in (n + 1)..m : t[k] = 0
    PROVE  SumTo(t, m) = SumTo(s, n) /\ SumTo(s, n) \in Int
    BY SumsExtend

\* One, two or three rows more.
LEMMA SumPlusOne ==
    ASSUME NEW n \in Nat, NEW s \in [1..n -> Int], NEW t \in [1..(n + 1) -> Int],
           \A k \in 1..n : t[k] = s[k]
    PROVE  SumTo(t, n + 1) = SumTo(s, n) + t[n + 1] /\ SumTo(s, n) \in Int
    BY SumsExtend

\* Two entries more add their amounts: the two legs of a transfer.
LEMMA SumPlusTwo ==
    ASSUME NEW n \in Nat, NEW s \in [1..n -> Int], NEW t \in [1..(n + 2) -> Int],
           \A k \in 1..n : t[k] = s[k]
    PROVE  SumTo(t, n + 2) = SumTo(s, n) + t[n + 1] + t[n + 2] /\ SumTo(s, n) \in Int
    <1>1. PICK m \in Nat : m = n + 2
        OBVIOUS
    <1>2. n <= m /\ t \in [1..m -> Int]
        BY <1>1
    <1>3. (m = n + 2 => SumTo(t, m) = SumTo(s, n) + t[n + 1] + t[n + 2]) /\ SumTo(s, n) \in Int
        BY <1>2, SumsExtend
    <1> QED BY <1>1, <1>3

\* Three entries more add their amounts: the two legs of a transfer and its fee.
LEMMA SumPlusThree ==
    ASSUME NEW n \in Nat, NEW s \in [1..n -> Int], NEW t \in [1..(n + 3) -> Int],
           \A k \in 1..n : t[k] = s[k]
    PROVE  SumTo(t, n + 3) = SumTo(s, n) + t[n + 1] + t[n + 2] + t[n + 3] /\ SumTo(s, n) \in Int
    <1>1. PICK m \in Nat : m = n + 3
        OBVIOUS
    <1>2. n <= m /\ t \in [1..m -> Int]
        BY <1>1
    <1>3. (m = n + 3 => SumTo(t, m) = SumTo(s, n) + t[n + 1] + t[n + 2] + t[n + 3]) /\ SumTo(s, n) \in Int
        BY <1>2, SumsExtend
    <1> QED BY <1>1, <1>3

-----------------------------------------------------------------------------
(* Transfers never overdraw. *)

\* What a row adds is an integer.
LEMMA DeltaIsInt ==
    ASSUME NEW tx \in TransactionRow
    PROVE  Delta(tx) \in Int
    BY DEF TransactionRow, Delta

\* The summed rows are integers, before and after a step.
LEMMA SummedRows ==
    ASSUME TypeOK, TypeOK', NEW a
    PROVE  /\ Len(transactions) \in Nat /\ Len(transactions)' \in Nat
           /\ Len(transfers) \in Nat /\ Len(transfers)' \in Nat
           /\ Credits(a) \in [1..Len(transactions) -> Int]
           /\ TransferDebits(a) \in [1..Len(transactions) -> Int]
           /\ BalanceChanges(a) \in [1..Len(transactions) -> Int]
           /\ Draws(a) \in [1..Len(transfers) -> Int]
           /\ Credits(a)' \in [1..Len(transactions)' -> Int]
           /\ TransferDebits(a)' \in [1..Len(transactions)' -> Int]
           /\ Draws(a)' \in [1..Len(transfers)' -> Int]
    <1>1. /\ transactions \in Seq(TransactionRow) /\ transactions' \in Seq(TransactionRow)
          /\ transfers \in Seq(TransferRow) /\ transfers' \in Seq(TransferRow)
        BY DEF TypeOK
    <1>2. /\ \A k \in 1..Len(transactions) : Delta(transactions[k]) \in Int
          /\ \A k \in 1..Len(transactions') : Delta(transactions'[k]) \in Int
        BY <1>1, DeltaIsInt
    <1>3. /\ \A k \in 1..Len(transfers) : transfers[k].fromAmount \in Int /\ transfers[k].fee \in Int
          /\ \A k \in 1..Len(transfers') : transfers'[k].fromAmount \in Int /\ transfers'[k].fee \in Int
        <2>1. \A tr \in TransferRow : tr.fromAmount \in Int /\ tr.fee \in Int
            BY DEF TransferRow
        <2> QED BY <1>1, <2>1
    <1>4. /\ Len(transactions) \in Nat /\ Len(transactions)' \in Nat
          /\ Len(transfers) \in Nat /\ Len(transfers)' \in Nat
        BY <1>1
    <1>5. /\ Credits(a) \in [1..Len(transactions) -> Int]
          /\ Credits(a)' \in [1..Len(transactions)' -> Int]
        BY <1>2 DEF Credits
    <1>6. /\ TransferDebits(a) \in [1..Len(transactions) -> Int]
          /\ TransferDebits(a)' \in [1..Len(transactions)' -> Int]
        BY <1>2 DEF TransferDebits
    <1>7. BalanceChanges(a) \in [1..Len(transactions) -> Int]
        BY <1>2 DEF BalanceChanges
    <1>8. Draws(a) \in [1..Len(transfers) -> Int] /\ Draws(a)' \in [1..Len(transfers)' -> Int]
        BY <1>3 DEF Draws
    <1> QED BY <1>4, <1>5, <1>6, <1>7, <1>8

\* A step that keeps the rows and adds none of a transfer.
RowsKept ==
    /\ UNCHANGED transfers
    /\ Len(transactions) <= Len(transactions')
    /\ \A k \in 1..Len(transactions) :
         /\ transactions'[k].account = transactions[k].account
         /\ transactions'[k].type = transactions[k].type
         /\ transactions'[k].amount = transactions[k].amount
         /\ transactions'[k].source = transactions[k].source
         /\ transactions[k].source = "transfer" => transactions'[k].status = transactions[k].status
    /\ \A k \in (Len(transactions) + 1)..Len(transactions') : transactions'[k].source # "transfer"

\* Such a step takes nothing from what covers the transfers.
LEMMA RowsKeptCover ==
    ASSUME TypeOK, TypeOK', CoverInv, RowsKept
    PROVE  /\ \A n \in DOMAIN transactions' :
                transactions'[n].source = "transfer" => transactions'[n].status = "confirmed"
           /\ \A a \in AccountId :
                /\ TransferredOut(a)' = TransferredOut(a)
                /\ TransferredOut(a)' = SumTo(TransferDebits(a), Len(transactions))'
                /\ EverCredited(a)' >= EverCredited(a)
                /\ EverCredited(a) \in Int /\ EverCredited(a)' \in Int /\ TransferredOut(a) \in Int
    <1> DEFINE n == Len(transactions)
               m == Len(transactions)'
    <1>1. /\ transactions \in Seq(TransactionRow) /\ transactions' \in Seq(TransactionRow)
          /\ n \in Nat /\ m \in Nat /\ n <= m
          /\ DOMAIN transactions = 1..n /\ DOMAIN transactions' = 1..m
        BY DEF TypeOK, RowsKept
    <1>2. \A k \in DOMAIN transactions' :
            transactions'[k].source = "transfer" => transactions'[k].status = "confirmed"
        <2> TAKE k \in DOMAIN transactions'
        <2>1. CASE k \in 1..n
            BY <1>1, <2>1 DEF CoverInv, RowsKept
        <2>2. CASE k \notin 1..n
            <3>1. k \in (n + 1)..m
                BY <1>1, <2>2
            <3> QED BY <3>1 DEF RowsKept
        <2> QED BY <2>1, <2>2
    <1>3. ASSUME NEW a \in AccountId
          PROVE  /\ TransferredOut(a)' = TransferredOut(a)
                 /\ TransferredOut(a)' = SumTo(TransferDebits(a), Len(transactions))'
                 /\ EverCredited(a)' >= EverCredited(a)
                 /\ EverCredited(a) \in Int /\ EverCredited(a)' \in Int /\ TransferredOut(a) \in Int
        <2>1. TransferredOut(a)' = TransferredOut(a)
            BY DEF TransferredOut, Draws, RowsKept
        <2>2. TransferredOut(a) = SumTo(TransferDebits(a), n)
            BY <1>3 DEF CoverInv
        <2> DEFINE s == Credits(a)
                   t == Credits(a)'
                   d == TransferDebits(a)
                   e == TransferDebits(a)'
        <2>3. s \in [1..n -> Int] /\ t \in [1..m -> Int] /\ d \in [1..n -> Int] /\ e \in [1..m -> Int]
            BY SummedRows
        <2>4. \A k \in 1..n : Delta(transactions'[k]) = Delta(transactions[k]) /\ k \in 1..m
            BY <1>1 DEF RowsKept, Delta
        <2>5. \A k \in 1..n : t[k] = s[k] /\ e[k] = d[k]
            BY <1>1, <2>4 DEF RowsKept, Credits, TransferDebits
        <2>6. \A k \in (n + 1)..m : k \in 1..m
            BY <1>1
        <2>7. \A k \in (n + 1)..m : t[k] >= 0 /\ e[k] = 0
            <3> TAKE k \in (n + 1)..m
            <3>1. k \in 1..m /\ transactions'[k].source # "transfer"
                BY <2>6 DEF RowsKept
            <3>2. e[k] = 0
                BY <3>1 DEF TransferDebits
            <3>3. Delta(transactions'[k]) \in Int
                BY <1>1, <3>1, DeltaIsInt
            <3>4. t[k] = IF transactions'[k].account = a /\ Delta(transactions'[k]) > 0
                         THEN Delta(transactions'[k]) ELSE 0
                BY <3>1 DEF Credits
            <3> QED BY <3>2, <3>3, <3>4
        <2>8. EverCredited(a) = SumTo(s, n) /\ EverCredited(a)' = SumTo(t, m)
            BY DEF EverCredited, SumTo, RunningSum
        <2>9. SumTo(TransferDebits(a), Len(transactions))' = SumTo(e, m)
            BY DEF SumTo, RunningSum
        <2> HIDE DEF s, t, d, e, n, m
        <2>10. SumTo(t, m) >= SumTo(s, n) /\ SumTo(s, n) \in Int /\ SumTo(t, m) \in Int
            BY <1>1, <2>3, <2>5, <2>7, SumGrows
        <2>11. SumTo(e, m) = SumTo(d, n) /\ SumTo(d, n) \in Int
            <3>1. /\ n \in Nat /\ m \in Nat /\ n <= m /\ d \in [1..n -> Int] /\ e \in [1..m -> Int]
                  /\ \A k \in 1..n : e[k] = d[k]
                BY <1>1, <2>3, <2>5
            <3>2. \A k \in (n + 1)..m : e[k] = 0
                BY <2>7
            <3> QED BY <3>1, <3>2, SumStays
        <2> QED BY <2>1, <2>2, <2>8, <2>9, <2>10, <2>11 DEF d, n
    <1> QED BY <1>2, <1>3

\* It keeps the invariant, as long as no transfer passes its balance check.
LEMMA RowsKeptKeepCover ==
    ASSUME LedgerInv, TypeOK', CoverInv, RowsKept,
           \A p \in Proc : pc'[p] = "write" => pc[p] = "write" /\ draft'[p] = draft[p]
    PROVE  CoverInv'
    <1>0. TypeOK
        BY DEF LedgerInv
    <1>1. /\ \A n \in DOMAIN transactions' :
               transactions'[n].source = "transfer" => transactions'[n].status = "confirmed"
          /\ \A a \in AccountId :
               /\ TransferredOut(a)' = TransferredOut(a)
               /\ TransferredOut(a)' = SumTo(TransferDebits(a), Len(transactions))'
               /\ EverCredited(a)' >= EverCredited(a)
               /\ EverCredited(a) \in Int /\ EverCredited(a)' \in Int /\ TransferredOut(a) \in Int
        BY <1>0, RowsKeptCover
    <1>2. TransfersNeverOverdraw'
        <2> SUFFICES ASSUME NEW a \in AccountId PROVE (TransferredOut(a) <= EverCredited(a))'
            BY DEF TransfersNeverOverdraw
        <2>1. TransferredOut(a) <= EverCredited(a)
            BY DEF CoverInv, TransfersNeverOverdraw
        <2> QED BY <1>1, <2>1
    <1>3. ASSUME NEW p \in Proc, pc'[p] = "write"
          PROVE  (TransferredOut(draft[p].from) + draft[p].fromAmount + draft[p].fee
                    <= EverCredited(draft[p].from))'
        <2>1. pc[p] = "write" /\ draft'[p] = draft[p]
            BY <1>3
        <2>2. draft[p] \in TransferRow
            BY <2>1 DEF LedgerInv, DraftOK, LocksOK
        <2>3. PICK a \in AccountId : a = draft[p].from
            BY <2>2 DEF TransferRow
        <2>4. draft[p].fromAmount \in Int /\ draft[p].fee \in Int
            BY <2>2 DEF TransferRow
        <2>5. TransferredOut(a) + draft[p].fromAmount + draft[p].fee <= EverCredited(a)
            BY <2>1, <2>3 DEF CoverInv
        <2>6. /\ TransferredOut(a)' = TransferredOut(a) /\ EverCredited(a)' >= EverCredited(a)
              /\ EverCredited(a) \in Int /\ EverCredited(a)' \in Int /\ TransferredOut(a) \in Int
            BY <1>1
        <2>7. TransferredOut(a)' + draft[p].fromAmount + draft[p].fee <= EverCredited(a)'
            BY <2>4, <2>5, <2>6
        <2> QED BY <2>1, <2>3, <2>7
    <1> QED BY <1>1, <1>2, <1>3 DEF CoverInv


\* A balance is at most what was credited less what transfers took.
LEMMA BalanceCovers ==
    ASSUME TypeOK, TypeOK', CoverInv, NEW a \in AccountId
    PROVE  /\ transferSourceBalance(a) + TransferredOut(a) <= EverCredited(a)
           /\ transferSourceBalance(a) \in Int /\ TransferredOut(a) \in Int /\ EverCredited(a) \in Int
    <1> DEFINE n == Len(transactions)
               b == BalanceChanges(a)
               c == Credits(a)
               d == TransferDebits(a)
    <1>1. n \in Nat /\ b \in [1..n -> Int] /\ c \in [1..n -> Int] /\ d \in [1..n -> Int]
        BY SummedRows
    <1>2. \A k \in 1..n : b[k] + d[k] <= c[k]
        <2> TAKE k \in 1..n
        <2> DEFINE tx == transactions[k]
        <2>1. /\ b[k] = IF tx.account = a /\ AffectsBalance(tx) THEN Delta(tx) ELSE 0
              /\ c[k] = IF tx.account = a /\ Delta(tx) > 0 THEN Delta(tx) ELSE 0
              /\ d[k] = IF tx.account = a /\ tx.source = "transfer" /\ Delta(tx) < 0 THEN -Delta(tx) ELSE 0
            BY DEF BalanceChanges, Credits, TransferDebits
        <2>2. Delta(tx) \in Int
            BY DeltaIsInt DEF TypeOK
        <2>3. tx.source = "transfer" => AffectsBalance(tx)
            <3>1. k \in DOMAIN transactions
                BY DEF TypeOK
            <3> QED BY <3>1 DEF CoverInv, AffectsBalance
        <2> HIDE DEF tx, b, c, d
        <2> QED BY <2>1, <2>2, <2>3
    <1>3. /\ transferSourceBalance(a) = SumTo(b, n) /\ EverCredited(a) = SumTo(c, n)
          /\ TransferredOut(a) = SumTo(d, n)
        BY DEF transferSourceBalance, EverCredited, CoverInv
    <1> HIDE DEF b, c, d, n
    <1>4. SumTo(b, n) + SumTo(d, n) <= SumTo(c, n)
        BY <1>1, <1>2, SumsCompare
    <1>5. SumTo(b, n) \in Int /\ SumTo(c, n) \in Int /\ SumTo(d, n) \in Int
        <2>1. n \in 0..n
            BY <1>1
        <2>2. /\ RunningSum(b, n) \in [0..n -> Int] /\ RunningSum(c, n) \in [0..n -> Int]
              /\ RunningSum(d, n) \in [0..n -> Int]
            BY <1>1, RunningSumDef
        <2> QED BY <2>1, <2>2 DEF SumTo
    <1> QED BY <1>3, <1>4, <1>5

\* The balance check covers the transfer and every earlier one.
LEMMA CheckTransferKeepsCover ==
    ASSUME LedgerInv, TypeOK', CoverInv, NEW p \in Proc, CheckTransfer(p)
    PROVE  CoverInv'
    <1>0. TypeOK /\ UNCHANGED <<transactions, transfers, draft>>
        BY DEF LedgerInv, CheckTransfer, Advance, tables
    <1>1. /\ \A a : /\ TransferredOut(a)' = TransferredOut(a) /\ EverCredited(a)' = EverCredited(a)
                    /\ SumTo(TransferDebits(a), Len(transactions))' = SumTo(TransferDebits(a), Len(transactions))
        BY <1>0 DEF TransferredOut, EverCredited, Draws, Credits, TransferDebits, SumTo, RunningSum
    <1>2. draft[p] \in TransferRow
        BY DEF CheckTransfer, LedgerInv, DraftOK
    <1>3. PICK a \in AccountId : a = draft[p].from
        BY <1>2 DEF TransferRow
    <1>4. draft[p].fromAmount \in Int /\ draft[p].fee \in Int
        BY <1>2 DEF TransferRow
    <1>5. transferSourceBalance(a) >= draft[p].fromAmount + draft[p].fee
        BY <1>3 DEF CheckTransfer
    <1>6. /\ transferSourceBalance(a) + TransferredOut(a) <= EverCredited(a)
          /\ transferSourceBalance(a) \in Int /\ TransferredOut(a) \in Int /\ EverCredited(a) \in Int
        BY <1>0, BalanceCovers
    <1>7. TransferredOut(a) + draft[p].fromAmount + draft[p].fee <= EverCredited(a)
        BY <1>4, <1>5, <1>6
    <1>8. \A q \in Proc : pc'[q] = "write" => pc[q] = "write" \/ q = p
        BY <1>0 DEF CheckTransfer, Advance, TypeOK
    <1>9. \A q \in Proc : pc'[q] = "write" =>
            TransferredOut(draft[q].from) + draft[q].fromAmount + draft[q].fee <= EverCredited(draft[q].from)
        BY <1>3, <1>7, <1>8 DEF CoverInv
    <1>10. \A q \in Proc : pc'[q] = "write" =>
             (TransferredOut(draft[q].from) + draft[q].fromAmount + draft[q].fee <= EverCredited(draft[q].from))'
        <2> SUFFICES ASSUME NEW q \in Proc, pc'[q] = "write"
                     PROVE  (TransferredOut(draft[q].from) + draft[q].fromAmount + draft[q].fee
                               <= EverCredited(draft[q].from))'
            OBVIOUS
        <2>1. PICK x : x = draft[q].from
            OBVIOUS
        <2>2. TransferredOut(x) + draft[q].fromAmount + draft[q].fee <= EverCredited(x)
            BY <1>9, <2>1
        <2> QED BY <1>0, <1>1, <2>1, <2>2
    <1>11. TransfersNeverOverdraw'
        BY <1>1 DEF CoverInv, TransfersNeverOverdraw
    <1> QED BY <1>0, <1>1, <1>10, <1>11 DEF CoverInv

\* The rows a committed transfer adds, and what they add to their accounts.
LEMMA TransferRowsWritten ==
    ASSUME LedgerInv, NEW p \in Proc, CommitTransfer(p)
    PROVE  LET d == draft[p]
               n == Len(transactions)
               new == transactions'
           IN /\ d \in TransferRow /\ d.fromAmount > 0 /\ d.toAmount > 0 /\ d.fee >= 0
              /\ DOMAIN transactions = 1..n /\ n \in Nat
              /\ DOMAIN new = 1..(IF d.fee > 0 THEN n + 3 ELSE n + 2)
              /\ Len(new) = IF d.fee > 0 THEN n + 3 ELSE n + 2
              /\ \A k \in 1..n : new[k] = transactions[k]
              /\ new[n + 1].account = d.from /\ Delta(new[n + 1]) = -d.fromAmount
              /\ new[n + 1].source = "transfer" /\ new[n + 1].status = "confirmed"
              /\ new[n + 2].account = d.to /\ Delta(new[n + 2]) = d.toAmount
              /\ new[n + 2].source = "transfer" /\ new[n + 2].status = "confirmed"
              /\ d.fee > 0 => /\ new[n + 3].account = d.from /\ Delta(new[n + 3]) = -d.fee
                              /\ new[n + 3].source = "transfer" /\ new[n + 3].status = "confirmed"
    <1> DEFINE d == draft[p]
               n == Len(transactions)
               tid == Len(transfers) + 1
               out == TransferLeg(d, tid, "transfer_out")
               in == TransferLeg(d, tid, "transfer_in")
               fee == FeeRow(d, tid)
               rows == TransferRows(d, tid)
    <1>1. d \in TransferRow /\ d.fromAmount > 0 /\ d.toAmount > 0 /\ d.fee >= 0
        BY DEF CommitTransfer, LedgerInv, DraftOK
    <1>2. transactions \in Seq(TransactionRow) /\ tid \in Nat
        BY DEF LedgerInv, TypeOK
    <1>3. rows \in Seq(TransactionRow) /\ Len(rows) = IF d.fee > 0 THEN 3 ELSE 2
        BY <1>1, <1>2, TransferRowsShape
    <1>4. transactions' = transactions \o rows
        BY DEF CommitTransfer
    <1>5. /\ out.account = d.from /\ out.source = "transfer" /\ out.status = "confirmed"
          /\ out.type = "transfer_out" /\ out.amount = d.fromAmount
          /\ in.account = d.to /\ in.source = "transfer" /\ in.status = "confirmed"
          /\ in.type = "transfer_in" /\ in.amount = d.toAmount
          /\ fee.account = d.from /\ fee.source = "transfer" /\ fee.status = "confirmed"
          /\ fee.type = "expense" /\ fee.amount = d.fee
        BY DEF TransferLeg, FeeRow
    <1>6. rows = IF d.fee > 0 THEN <<out, in, fee>> ELSE <<out, in>>
        BY DEF TransferRows
    <1> HIDE DEF out, in, fee, rows, d, tid
    <1>7. Delta(out) = -d.fromAmount /\ Delta(in) = d.toAmount /\ Delta(fee) = -d.fee
        BY <1>5 DEF Delta
    <1>8. rows[1] = out /\ rows[2] = in /\ (d.fee > 0 => rows[3] = fee)
        <2>1. CASE d.fee > 0
            <3>1. rows = <<out, in, fee>>
                BY <1>6, <2>1
            <3> QED BY <3>1
        <2>2. CASE ~(d.fee > 0)
            <3>1. rows = <<out, in>>
                BY <1>6, <2>2
            <3> QED BY <2>2, <3>1
        <2> QED BY <2>1, <2>2
    <1>9. /\ DOMAIN transactions = 1..n /\ DOMAIN transactions' = 1..(n + Len(rows))
          /\ \A k \in DOMAIN transactions : transactions'[k] = transactions[k]
          /\ \A k \in 1..Len(rows) : transactions'[n + k] = rows[k]
        <2>1. rows \in Seq(TransactionRow)
            BY <1>3
        <2> QED BY <1>2, <1>4, <2>1, RowsAppended
    <1>10. n \in Nat /\ Len(transactions') = n + Len(rows)
        <2>1. rows \in Seq(TransactionRow)
            BY <1>3
        <2>2. Len(transactions \o rows) = Len(transactions) + Len(rows)
            BY <1>2, <2>1, ConcatProperties
        <2> QED BY <1>2, <1>4, <2>2
    <1> HIDE DEF n
    <1>11. /\ transactions'[n + 1] = out /\ transactions'[n + 2] = in
           /\ d.fee > 0 => transactions'[n + 3] = fee
        BY <1>3, <1>8, <1>9
    <1>12. Len(transactions') = IF d.fee > 0 THEN n + 3 ELSE n + 2
        BY <1>3, <1>10
    <1>13. DOMAIN transactions' = 1..(IF d.fee > 0 THEN n + 3 ELSE n + 2)
        BY <1>9, <1>10, <1>12
    <1> QED BY <1>1, <1>5, <1>7, <1>9, <1>10, <1>11, <1>12, <1>13 DEF d, n

\* A committed transfer is covered by its check: nobody else draws on its account meanwhile.
LEMMA CommitTransferKeepsCover ==
    ASSUME LedgerInv, TypeOK', CoverInv, NEW p \in Proc, CommitTransfer(p)
    PROVE  CoverInv'
    <1>0. TypeOK
        BY DEF LedgerInv
    <1> DEFINE d == draft[p]
               n == Len(transactions)
               m == Len(transactions)'
               drawn(a) == IF d.from = a THEN d.fromAmount + d.fee ELSE 0
    <1>1. /\ d \in TransferRow /\ d.fromAmount > 0 /\ d.toAmount > 0 /\ d.fee >= 0
          /\ DOMAIN transactions = 1..n /\ n \in Nat
          /\ DOMAIN transactions' = 1..(IF d.fee > 0 THEN n + 3 ELSE n + 2)
          /\ Len(transactions') = IF d.fee > 0 THEN n + 3 ELSE n + 2
          /\ \A k \in 1..n : transactions'[k] = transactions[k]
          /\ transactions'[n + 1].account = d.from /\ Delta(transactions'[n + 1]) = -d.fromAmount
          /\ transactions'[n + 1].source = "transfer" /\ transactions'[n + 1].status = "confirmed"
          /\ transactions'[n + 2].account = d.to /\ Delta(transactions'[n + 2]) = d.toAmount
          /\ transactions'[n + 2].source = "transfer" /\ transactions'[n + 2].status = "confirmed"
          /\ d.fee > 0 => /\ transactions'[n + 3].account = d.from
                          /\ Delta(transactions'[n + 3]) = -d.fee
                          /\ transactions'[n + 3].source = "transfer"
                          /\ transactions'[n + 3].status = "confirmed"
        BY TransferRowsWritten
    <1>2. /\ d.from \in AccountId /\ d.fromAmount \in Int /\ d.toAmount \in Int /\ d.fee \in Int
        BY <1>1 DEF TransferRow
    <1> HIDE DEF d
    <1>3. \A k \in DOMAIN transactions' :
            transactions'[k].source = "transfer" => transactions'[k].status = "confirmed"
        <2> TAKE k \in DOMAIN transactions'
        <2>1. CASE k \in 1..n
            BY <1>1, <2>1 DEF CoverInv
        <2>2. CASE k \notin 1..n
            <3>1. k = n + 1 \/ k = n + 2 \/ (k = n + 3 /\ d.fee > 0)
                BY <1>1, <2>2
            <3> QED BY <1>1, <3>1
        <2> QED BY <2>1, <2>2
    <1>4. ASSUME NEW a \in AccountId
          PROVE  TransferredOut(a)' = TransferredOut(a) + drawn(a) /\ TransferredOut(a) \in Int
        <2> DEFINE s == Draws(a)
                   t == Draws(a)'
                   l == Len(transfers)
        <2>1. l \in Nat /\ Len(transfers)' = l + 1 /\ s \in [1..l -> Int] /\ t \in [1..(l + 1) -> Int]
            <3>1. Len(transfers)' = l + 1
                BY DEF CommitTransfer, LedgerInv, TypeOK
            <3> QED BY <1>0, <3>1, SummedRows
        <2>2. \A k \in 1..l : transfers'[k] = transfers[k]
            BY DEF CommitTransfer, LedgerInv, TypeOK
        <2>3. /\ transfers'[l + 1].from = d.from /\ transfers'[l + 1].fromAmount = d.fromAmount
              /\ transfers'[l + 1].fee = d.fee
            <3> DEFINE tr == [d EXCEPT !.fromTx = n + 1, !.toTx = n + 2,
                                       !.feeTx = IF d.fee > 0 THEN n + 3 ELSE 0]
            <3>1. transfers' = Append(transfers, tr)
                BY DEF CommitTransfer, d
            <3>2. tr.from = d.from /\ tr.fromAmount = d.fromAmount /\ tr.fee = d.fee
                BY <1>1 DEF TransferRow
            <3>3. transfers \in Seq(TransferRow)
                BY <1>0 DEF TypeOK
            <3> HIDE DEF tr
            <3>4. transfers'[l + 1] = tr
                BY <3>1, <3>3
            <3> QED BY <3>2, <3>4
        <2>4. (\A k \in 1..l : t[k] = s[k]) /\ t[l + 1] = drawn(a)
            <3>1. \A k \in 1..(l + 1) :
                    t[k] = IF transfers'[k].from = a THEN transfers'[k].fromAmount + transfers'[k].fee ELSE 0
                BY <2>1 DEF Draws
            <3>2. \A k \in 1..l :
                    s[k] = IF transfers[k].from = a THEN transfers[k].fromAmount + transfers[k].fee ELSE 0
                BY DEF Draws
            <3>3. l + 1 \in 1..(l + 1) /\ \A k \in 1..l : k \in 1..(l + 1)
                BY <2>1
            <3> HIDE DEF s, t, l
            <3> QED BY <2>2, <2>3, <3>1, <3>2, <3>3
        <2>5. TransferredOut(a) = SumTo(s, l) /\ TransferredOut(a)' = SumTo(t, l + 1)
            BY <2>1 DEF TransferredOut, SumTo, RunningSum
        <2> HIDE DEF s, t, l, drawn
        <2>6. SumTo(t, l + 1) = SumTo(s, l) + t[l + 1] /\ SumTo(s, l) \in Int
            BY <2>1, <2>4, SumPlusOne
        <2> QED BY <2>4, <2>5, <2>6
    <1>5. ASSUME NEW a \in AccountId
          PROVE  SumTo(TransferDebits(a), Len(transactions))'
                   = SumTo(TransferDebits(a), Len(transactions)) + drawn(a)
        <2> DEFINE s == TransferDebits(a)
                   t == TransferDebits(a)'
        <2>1. m \in Nat /\ s \in [1..n -> Int] /\ t \in [1..m -> Int] /\ n <= m
            BY <1>0, <1>1, SummedRows
        <2>2. \A k \in 1..m : t[k] = IF /\ transactions'[k].account = a
                                        /\ transactions'[k].source = "transfer"
                                        /\ Delta(transactions'[k]) < 0
                                     THEN -Delta(transactions'[k]) ELSE 0
            BY DEF TransferDebits
        <2>3. \A k \in 1..n : t[k] = s[k]
            <3>1. \A k \in 1..n : k \in 1..m
                BY <1>1, <2>1
            <3> QED BY <1>1, <2>2, <3>1 DEF TransferDebits
        <2>4. SumTo(TransferDebits(a), Len(transactions))' = SumTo(t, m)
            BY DEF SumTo, RunningSum
        <2>5. m = IF d.fee > 0 THEN n + 3 ELSE n + 2
            BY <1>1
        <2> HIDE DEF s, t, n, m
        <2>6. t[n + 1] = IF d.from = a THEN d.fromAmount ELSE 0
            <3>1. n + 1 \in 1..m
                BY <1>1, <2>5
            <3>2. Delta(transactions'[n + 1]) < 0 /\ -Delta(transactions'[n + 1]) = d.fromAmount
                BY <1>1, <1>2
            <3> QED BY <1>1, <2>2, <3>1, <3>2
        <2>7. t[n + 2] = 0
            <3>1. n + 2 \in 1..m
                BY <1>1, <2>5
            <3>2. ~(Delta(transactions'[n + 2]) < 0)
                BY <1>1, <1>2
            <3> QED BY <1>1, <2>2, <3>1, <3>2
        <2>8. CASE d.fee > 0
            <3>1. t[n + 3] = IF d.from = a THEN d.fee ELSE 0
                <4>1. n + 3 \in 1..m
                    BY <1>1, <2>5, <2>8
                <4>2. Delta(transactions'[n + 3]) < 0 /\ -Delta(transactions'[n + 3]) = d.fee
                    <5>1. d.fee \in Int
                        BY <1>2
                    <5>2. Delta(transactions'[n + 3]) = -d.fee
                        BY <1>1, <2>8
                    <5> QED BY <2>8, <5>1, <5>2
                <4> QED BY <1>1, <2>2, <2>8, <4>1, <4>2
            <3>2. m = n + 3
                BY <2>5, <2>8
            <3>3. SumTo(t, n + 3) = SumTo(s, n) + t[n + 1] + t[n + 2] + t[n + 3] /\ SumTo(s, n) \in Int
                BY <1>1, <2>1, <2>3, <3>2, SumPlusThree
            <3> QED BY <1>2, <2>4, <2>6, <2>7, <3>1, <3>2, <3>3 DEF s, n
        <2>9. CASE ~(d.fee > 0)
            <3>1. m = n + 2 /\ d.fee = 0
                BY <1>1, <1>2, <2>5, <2>9
            <3>2. SumTo(t, n + 2) = SumTo(s, n) + t[n + 1] + t[n + 2] /\ SumTo(s, n) \in Int
                BY <1>1, <2>1, <2>3, <3>1, SumPlusTwo
            <3> QED BY <1>2, <2>4, <2>6, <2>7, <3>1, <3>2 DEF s, n
        <2> QED BY <2>8, <2>9
    <1>6. ASSUME NEW a \in AccountId
          PROVE  EverCredited(a)' >= EverCredited(a) /\ EverCredited(a) \in Int /\ EverCredited(a)' \in Int
        <2> DEFINE s == Credits(a)
                   t == Credits(a)'
        <2>1. m \in Nat /\ s \in [1..n -> Int] /\ t \in [1..m -> Int] /\ n <= m
            BY <1>0, <1>1, SummedRows
        <2>2. \A k \in 1..m : t[k] = IF transactions'[k].account = a /\ Delta(transactions'[k]) > 0
                                     THEN Delta(transactions'[k]) ELSE 0
            BY DEF Credits
        <2>3. \A k \in 1..n : t[k] = s[k]
            <3>1. \A k \in 1..n : k \in 1..m
                BY <1>1, <2>1
            <3> QED BY <1>1, <2>2, <3>1 DEF Credits
        <2>4. EverCredited(a) = SumTo(s, n) /\ EverCredited(a)' = SumTo(t, m)
            BY DEF EverCredited, SumTo, RunningSum
        <2>5. \A k \in 1..m : t[k] >= 0
            <3>1. \A k \in 1..m : Delta(transactions'[k]) \in Int
                BY DeltaIsInt DEF TypeOK
            <3> HIDE DEF t
            <3> QED BY <2>2, <3>1
        <2>6. \A k \in (n + 1)..m : t[k] >= 0
            <3>1. \A k \in (n + 1)..m : k \in 1..m
                BY <1>1, <2>1
            <3> QED BY <2>5, <3>1
        <2> HIDE DEF s, t, n, m
        <2>7. SumTo(t, m) >= SumTo(s, n) /\ SumTo(s, n) \in Int /\ SumTo(t, m) \in Int
            BY <1>1, <2>1, <2>3, <2>6, SumGrows
        <2> QED BY <2>4, <2>7
    <1>7. \A a \in AccountId : TransferredOut(a)' = SumTo(TransferDebits(a), Len(transactions))'
        <2> TAKE a \in AccountId
        <2>1. TransferredOut(a) = SumTo(TransferDebits(a), Len(transactions))
            BY DEF CoverInv
        <2> HIDE DEF drawn
        <2> QED BY <1>4, <1>5, <2>1
    <1>8. pc[p] = "write" /\ TransferredOut(d.from) + d.fromAmount + d.fee <= EverCredited(d.from)
        BY DEF CommitTransfer, CoverInv, d
    <1>9. TransfersNeverOverdraw'
        <2> SUFFICES ASSUME NEW a \in AccountId PROVE (TransferredOut(a) <= EverCredited(a))'
            BY DEF TransfersNeverOverdraw
        <2>1. TransferredOut(a) + drawn(a) <= EverCredited(a)
            <3>1. CASE a = d.from
                BY <1>2, <1>4, <1>6, <1>8, <3>1
            <3>2. CASE a # d.from
                BY <1>4, <3>2 DEF CoverInv, TransfersNeverOverdraw
            <3> QED BY <3>1, <3>2
        <2>2. drawn(a) \in Int
            BY <1>2
        <2> HIDE DEF drawn
        <2> QED BY <1>4, <1>6, <2>1, <2>2
    <1>10. ASSUME NEW q \in Proc, pc'[q] = "write"
           PROVE  (TransferredOut(draft[q].from) + draft[q].fromAmount + draft[q].fee
                     <= EverCredited(draft[q].from))'
        <2>1. q # p /\ pc[q] = "write" /\ draft'[q] = draft[q]
            BY <1>0, <1>10 DEF CommitTransfer, Finish, TypeOK
        <2>2. draft[q] \in TransferRow
            BY <2>1 DEF LedgerInv, DraftOK, LocksOK
        <2>3. PICK a \in AccountId : a = draft[q].from
            BY <2>2 DEF TransferRow
        <2>4. draft[q].fromAmount \in Int /\ draft[q].fee \in Int
            BY <2>2 DEF TransferRow
        <2>5. a # d.from
            <3>1. a \in held[q] /\ d.from \in held[p]
                <4>1. \A x \in Proc : pc[x] = "write" =>
                        req[x].kind = "transfer" /\ held[x] = LockSet(req[x]) /\ draft[x].from = req[x].from
                    BY DEF LedgerInv, DraftOK, LocksOK
                <4>2. \A x \in Proc : pc[x] = "write" => draft[x].from \in held[x]
                    BY <4>1 DEF LockSet
                <4> QED BY <1>8, <2>1, <2>3, <4>2 DEF d
            <3> QED BY <2>1, <3>1 DEF LedgerInv, Exclusive
        <2>6. TransferredOut(a) + draft[q].fromAmount + draft[q].fee <= EverCredited(a)
            BY <2>1, <2>3 DEF CoverInv
        <2>7. /\ TransferredOut(a)' = TransferredOut(a) /\ EverCredited(a)' >= EverCredited(a)
              /\ EverCredited(a) \in Int /\ EverCredited(a)' \in Int /\ TransferredOut(a) \in Int
            BY <1>4, <1>6, <2>5
        <2>8. TransferredOut(a)' + draft[q].fromAmount + draft[q].fee <= EverCredited(a)'
            BY <2>4, <2>6, <2>7
        <2> QED BY <2>1, <2>3, <2>8
    <1> QED BY <1>3, <1>7, <1>9, <1>10 DEF CoverInv

\* A change of the status of a correctable row, and rows added that are not of a transfer.
LEMMA StatusRowKept ==
    ASSUME LedgerInv, TypeOK', UNCHANGED transfers, NEW t \in DOMAIN transactions,
           Atomic!Correctable(transactions[t]), Len(transactions) <= Len(transactions'),
           \A n \in DOMAIN transactions :
             /\ n # t => transactions'[n] = transactions[n]
             /\ transactions'[n] = [transactions[n] EXCEPT !.status = transactions'[n].status],
           \A k \in (Len(transactions) + 1)..Len(transactions') : transactions'[k].source # "transfer"
    PROVE  RowsKept
    <1>1. /\ transactions \in Seq(TransactionRow) /\ transactions' \in Seq(TransactionRow)
          /\ DOMAIN transactions = 1..Len(transactions) /\ DOMAIN transactions' = 1..Len(transactions')
          /\ Len(transactions) \in Nat /\ Len(transactions') \in Nat
        BY DEF LedgerInv, TypeOK
    <1>2. \A n \in DOMAIN transactions :
            /\ transactions'[n].account = transactions[n].account
            /\ transactions'[n].type = transactions[n].type
            /\ transactions'[n].amount = transactions[n].amount
            /\ transactions'[n].source = transactions[n].source
        <2> TAKE n \in DOMAIN transactions
        <2>1. transactions[n] \in TransactionRow /\ transactions'[n] \in TransactionRow
            BY <1>1
        <2> QED BY <2>1, SameEntry
    <1>3. \A n \in DOMAIN transactions : transactions[n].source = "transfer" =>
            transactions'[n].status = transactions[n].status
        BY DEF Atomic!Correctable
    <1> QED BY <1>1, <1>2, <1>3 DEF RowsKept

\* Only a committed transfer adds a transfer.
LEMMA NoOtherTransfers ==
    ASSUME [Next]_vars, \A p \in Proc : ~CommitTransfer(p)
    PROVE  UNCHANGED transfers
    <1>1. CASE UNCHANGED vars
        BY <1>1 DEF vars
    <1>2. ASSUME NEW p \in Proc, NEW r \in Offered, Submit(p, r) PROVE UNCHANGED transfers
        BY <1>2 DEF Submit, SubmitCreate, SubmitTransfer, SubmitStatusChange, SubmitReverse,
           SubmitUpdate, SubmitArchive, OpenAccount, Start, tables
    <1>3. ASSUME NEW p \in Proc, Acquire(p) \/ Abort(p) \/ DeadlockVictim(p) PROVE UNCHANGED transfers
        BY <1>3 DEF Acquire, LockAccount, LockTransaction, RejectLifecycle, ReferenceAccount,
           Abort, DeadlockVictim, Reject, tables
    <1>4. ASSUME NEW p \in Proc, Proceed(p) PROVE UNCHANGED transfers
        BY <1>4 DEF Proceed, CommitCreate, RejectCreate, CheckTransfer, RejectTransfer,
           RejectDuplicateKey, CommitStatusChange, CommitReverse, CommitUpdate, RejectUpdate,
           CommitArchive, WriteAccount, Reject, Advance, tables
    <1> QED BY <1>1, <1>2, <1>3, <1>4 DEF Next

\* Whatever else is posted, withdrawn, undone or amended keeps the rows.
LEMMA PlainStepsKeepRows ==
    ASSUME LedgerInv, TypeOK', Atomic!Post \/ Atomic!Withdraw \/ Atomic!Undo \/ Atomic!Amend
    PROVE  RowsKept
    <1>0. /\ transactions \in Seq(TransactionRow) /\ transactions' \in Seq(TransactionRow)
          /\ DOMAIN transactions = 1..Len(transactions) /\ Len(transactions) \in Nat
        BY DEF LedgerInv, TypeOK
    <1>1. CASE Atomic!Post
        <2>1. /\ transactions' = Append(transactions, transactions'[Len(transactions) + 1])
              /\ Len(transactions') = Len(transactions) + 1
              /\ transactions'[Len(transactions) + 1].source # "transfer" /\ UNCHANGED transfers
            BY <1>1 DEF Atomic!Post, Atomic!NextTransaction
        <2>2. \A k \in 1..Len(transactions) : transactions'[k] = transactions[k]
            BY <1>0, <2>1
        <2>3. \A k \in (Len(transactions) + 1)..Len(transactions') : k = Len(transactions) + 1
            BY <1>0, <2>1
        <2> QED BY <1>0, <2>1, <2>2, <2>3 DEF RowsKept
    <1>2. CASE Atomic!Withdraw
        <2>1. PICK t \in DOMAIN transactions, status \in {"cancelled", "soft_deleted"} :
                /\ Atomic!Correctable(transactions[t])
                /\ transactions' = SetStatus(transactions, t, status)
                /\ UNCHANGED transfers
            BY <1>2 DEF Atomic!Withdraw, SetStatus
        <2>2. /\ Len(transactions') = Len(transactions)
              /\ \A n \in DOMAIN transactions :
                   /\ n # t => transactions'[n] = transactions[n]
                   /\ transactions'[n] = [transactions[n] EXCEPT !.status = transactions'[n].status]
            BY <2>1, StatusRow DEF TransactionStatus
        <2>3. /\ Len(transactions) <= Len(transactions')
              /\ \A k \in (Len(transactions) + 1)..Len(transactions') : transactions'[k].source # "transfer"
            BY <1>0, <2>2
        <2> QED BY <2>1, <2>2, <2>3, StatusRowKept
    <1>3. CASE Atomic!Undo
        <2>1. PICK t \in DOMAIN transactions :
                /\ Atomic!Correctable(transactions[t])
                /\ transactions' = Append(SetStatus(transactions, t, "reversed"),
                                          transactions'[Len(transactions) + 1])
                /\ transactions'[Len(transactions) + 1].source = "reconciliation_adjustment"
                /\ Len(transactions') = Len(transactions) + 1
                /\ UNCHANGED transfers
            BY <1>3 DEF Atomic!Undo, Atomic!NextTransaction, SetStatus
        <2> DEFINE txs == SetStatus(transactions, t, "reversed")
        <2>2. /\ txs \in Seq(TransactionRow) /\ Len(txs) = Len(transactions)
              /\ \A n \in DOMAIN transactions :
                   /\ n # t => txs[n] = transactions[n]
                   /\ txs[n] = [transactions[n] EXCEPT !.status = txs[n].status]
            BY StatusRow DEF TransactionStatus
        <2> HIDE DEF txs
        <2>3. \A n \in DOMAIN transactions : transactions'[n] = txs[n]
            BY <1>0, <2>1, <2>2 DEF txs
        <2>4. \A n \in DOMAIN transactions :
                /\ n # t => transactions'[n] = transactions[n]
                /\ transactions'[n] = [transactions[n] EXCEPT !.status = transactions'[n].status]
            BY <2>2, <2>3
        <2>5. \A k \in (Len(transactions) + 1)..Len(transactions') : transactions'[k].source # "transfer"
            <3>1. \A k \in (Len(transactions) + 1)..Len(transactions') : k = Len(transactions) + 1
                BY <1>0, <2>1
            <3> QED BY <2>1, <3>1
        <2>6. Len(transactions) <= Len(transactions')
            BY <1>0, <2>1
        <2> QED BY <1>0, <2>1, <2>4, <2>5, <2>6, StatusRowKept
    <1>4. CASE Atomic!Amend
        BY <1>0, <1>4 DEF Atomic!Amend, RowsKept
    <1> QED BY <1>1, <1>2, <1>3, <1>4

\* No step but the balance check lets a transfer pass it.
LEMMA WritesCheckedBefore ==
    ASSUME LedgerInv, [Next]_vars, \A p \in Proc : ~CheckTransfer(p)
    PROVE  \A p \in Proc : pc'[p] = "write" => pc[p] = "write" /\ draft'[p] = draft[p]
    <1>0. TypeOK
        BY DEF LedgerInv
    <1> SUFFICES ASSUME NEW x \in Proc, pc'[x] = "write"
                 PROVE  pc[x] = "write" /\ draft'[x] = draft[x]
        OBVIOUS
    <1>1. CASE UNCHANGED vars
        BY <1>1 DEF vars
    <1>2. ASSUME NEW p \in Proc, Finish(p) PROVE pc[x] = "write" /\ draft'[x] = draft[x]
        BY <1>0, <1>2 DEF Finish, TypeOK
    <1>3. ASSUME NEW p \in Proc, NEW r, NEW d, Start(p, r, d)
          PROVE  pc[x] = "write" /\ draft'[x] = draft[x]
        BY <1>0, <1>3 DEF Start, TypeOK
    <1>4. ASSUME NEW p \in Proc, LockAccount(p) \/ LockTransaction(p) \/ ReferenceAccount(p)
          PROVE  pc[x] = "write" /\ draft'[x] = draft[x]
        <2>1. UNCHANGED draft /\ (UNCHANGED pc \/ \E s \in {"lock", "locked"} : pc' = [pc EXCEPT ![p] = s])
            BY <1>4 DEF LockAccount, LockTransaction, ReferenceAccount
        <2> QED BY <1>0, <2>1 DEF TypeOK
    <1>5. ASSUME NEW p \in Proc, NEW r \in Offered, Submit(p, r)
          PROVE  pc[x] = "write" /\ draft'[x] = draft[x]
        <2>1. UNCHANGED <<pc, draft>> \/ \E d : Start(p, r, d)
            BY <1>5 DEF Submit, SubmitCreate, SubmitTransfer, SubmitStatusChange, SubmitReverse,
               SubmitUpdate, SubmitArchive, OpenAccount, local
        <2> QED BY <1>3, <2>1
    <1>6. ASSUME NEW p \in Proc, Acquire(p) \/ Proceed(p) \/ Abort(p) \/ DeadlockVictim(p)
          PROVE  pc[x] = "write" /\ draft'[x] = draft[x]
        <2>1. LockAccount(p) \/ LockTransaction(p) \/ ReferenceAccount(p) \/ CheckTransfer(p) \/ Finish(p)
            BY <1>6 DEF Acquire, Proceed, Abort, DeadlockVictim, RejectLifecycle, CommitCreate,
               RejectCreate, RejectTransfer, CommitTransfer, RejectDuplicateKey, CommitStatusChange,
               CommitReverse, CommitUpdate, RejectUpdate, CommitArchive, Reject
        <2> QED BY <1>2, <1>4, <2>1
    <1> QED BY <1>1, <1>5, <1>6 DEF Next

\* Every step keeps the cover of the transfers.
LEMMA NextKeepsCover ==
    ASSUME LedgerInv, LedgerInv', CoverInv, [Next]_vars
    PROVE  CoverInv'
    <1>0. TypeOK' /\ TypeOK
        BY DEF LedgerInv
    <1>1. CASE \E p \in Proc : CheckTransfer(p)
        BY <1>0, <1>1, CheckTransferKeepsCover
    <1>2. CASE \E p \in Proc : CommitTransfer(p)
        BY <1>0, <1>2, CommitTransferKeepsCover
    <1>3. CASE /\ \A p \in Proc : ~CheckTransfer(p) /\ ~CommitTransfer(p)
        <2>1. RowsKept
            <3>1. CASE UNCHANGED Atomic!avars
                BY <1>0, <3>1 DEF Atomic!avars, RowsKept, TypeOK
            <3>2. CASE Atomic!ANext
                <4>1. ~Atomic!Move
                    <5>1. UNCHANGED transfers
                        BY <1>3, NoOtherTransfers
                    <5> QED BY <1>0, <5>1 DEF Atomic!Move, TypeOK
                <4> QED BY <1>0, <3>2, <4>1, PlainStepsKeepRows DEF Atomic!ANext
            <3> QED BY <3>1, <3>2, StepImplements
        <2>2. \A p \in Proc : pc'[p] = "write" => pc[p] = "write" /\ draft'[p] = draft[p]
            BY <1>3, WritesCheckedBefore
        <2> QED BY <1>0, <2>1, <2>2, RowsKeptKeepCover
    <1> QED BY <1>1, <1>2, <1>3

\* Transfers alone never overdraw an account, however many requests race for its balance.
THEOREM NeverOverdrawn == Spec => []TransfersNeverOverdraw
    <1>1. Init => CoverInv
        <2> SUFFICES ASSUME Init PROVE CoverInv
            OBVIOUS
        <2>1. Len(transactions) = 0 /\ Len(transfers) = 0 /\ DOMAIN transactions = {}
            BY DEF Init
        <2>2. \A s \in [1..0 -> Int] : SumTo(s, 0) = 0
            <3> TAKE s \in [1..0 -> Int]
            <3>1. RunningSum(s, 0)[0] = 0
                BY RunningSumDef
            <3> QED BY <3>1 DEF SumTo
        <2>3. \A a : /\ Credits(a) \in [1..0 -> Int] /\ Draws(a) \in [1..0 -> Int]
                     /\ TransferDebits(a) \in [1..0 -> Int]
            BY <2>1 DEF Credits, Draws, TransferDebits
        <2>4. \A a : EverCredited(a) = 0 /\ TransferredOut(a) = 0
                       /\ SumTo(TransferDebits(a), Len(transactions)) = 0
            BY <2>1, <2>2, <2>3 DEF EverCredited, TransferredOut
        <2>5. \A p \in Proc : pc[p] # "write"
            BY DEF Init
        <2> QED BY <2>1, <2>4, <2>5 DEF CoverInv, TransfersNeverOverdraw
    <1>2. LedgerInv /\ LedgerInv' /\ CoverInv /\ [Next]_vars => CoverInv'
        BY NextKeepsCover
    <1>3. CoverInv => TransfersNeverOverdraw
        BY DEF CoverInv
    <1> QED BY <1>1, <1>2, <1>3, InvariantHolds, PTL DEF Spec

-----------------------------------------------------------------------------
(* The cash flow and the net worth agree. *)

\* A sum of integers is one.
LEMMA SumIsInt ==
    ASSUME NEW n \in Nat, NEW s \in [1..n -> Int]
    PROVE  SumTo(s, n) \in Int
    BY SumsExtend

\* Rows that add what two others add together.
LEMMA SumsAdd ==
    ASSUME NEW n \in Nat, NEW s \in [1..n -> Int], NEW t \in [1..n -> Int], NEW u \in [1..n -> Int],
           \A k \in 1..n : t[k] = s[k] + u[k]
    PROVE  /\ SumTo(t, n) = SumTo(s, n) + SumTo(u, n)
           /\ SumTo(s, n) \in Int /\ SumTo(t, n) \in Int /\ SumTo(u, n) \in Int
    <1> DEFINE S == RunningSum(s, n)
               T == RunningSum(t, n)
               U == RunningSum(u, n)
               D == {k \in 0..n : ~(T[k] = S[k] + U[k])}
    <1>1. S \in [0..n -> Int] /\ S[0] = 0 /\ \A k \in 1..n : S[k] = S[k - 1] + s[k]
        BY RunningSumDef
    <1>2. T \in [0..n -> Int] /\ T[0] = 0 /\ \A k \in 1..n : T[k] = T[k - 1] + t[k]
        BY RunningSumDef
    <1>3. U \in [0..n -> Int] /\ U[0] = 0 /\ \A k \in 1..n : U[k] = U[k - 1] + u[k]
        BY RunningSumDef
    <1>4. SumTo(s, n) = S[n] /\ SumTo(t, n) = T[n] /\ SumTo(u, n) = U[n]
        BY DEF SumTo
    <1> HIDE DEF S, T, U
    <1>5. D = {}
        <2> SUFFICES ASSUME D # {} PROVE FALSE
            OBVIOUS
        <2>1. PICK m \in D : \A l \in D : m <= l
            <3>1. D \in SUBSET Nat
                OBVIOUS
            <3> HIDE DEF D
            <3> QED BY <3>1, LeastNatural
        <2>2. m # 0
            BY <1>1, <1>2, <1>3
        <2>3. m \in 1..n /\ m - 1 \in 0..n /\ ~(m <= m - 1)
            BY <2>2
        <2>4. T[m - 1] = S[m - 1] + U[m - 1]
            BY <2>1, <2>3
        <2>5. /\ S[m] = S[m - 1] + s[m] /\ T[m] = T[m - 1] + t[m] /\ U[m] = U[m - 1] + u[m]
              /\ t[m] = s[m] + u[m] /\ s[m] \in Int /\ t[m] \in Int /\ u[m] \in Int
              /\ S[m - 1] \in Int /\ T[m - 1] \in Int /\ U[m - 1] \in Int
            BY <1>1, <1>2, <1>3, <2>3
        <2>6. T[m] = S[m] + U[m]
            <3>1. T[m - 1] + t[m] = (S[m - 1] + s[m]) + (U[m - 1] + u[m])
                <4>1. PICK a \in Int, b \in Int, x \in Int, y \in Int :
                        a = S[m - 1] /\ b = U[m - 1] /\ x = s[m] /\ y = u[m]
                    BY <2>5
                <4>2. T[m - 1] = a + b /\ t[m] = x + y
                    BY <2>4, <2>5, <4>1
                <4>3. (a + b) + (x + y) = (a + x) + (b + y)
                    OBVIOUS
                <4> QED BY <4>1, <4>2, <4>3
            <3> QED BY <2>5, <3>1
        <2> QED BY <2>1, <2>6
    <1>6. n \in 0..n
        OBVIOUS
    <1>7. T[n] = S[n] + U[n] /\ S[n] \in Int /\ T[n] \in Int /\ U[n] \in Int
        BY <1>1, <1>2, <1>3, <1>5, <1>6
    <1> QED BY <1>4, <1>7

\* Rows that add nothing add up to nothing.
LEMMA SumOfZeros ==
    ASSUME NEW n \in Nat, NEW s \in [1..n -> Int], \A k \in 1..n : s[k] = 0
    PROVE  SumTo(s, n) = 0
    <1>1. SumTo(s, n) = SumTo(s, n) + SumTo(s, n) /\ SumTo(s, n) \in Int
        BY SumsAdd
    <1> QED BY <1>1

\* A single row that adds something.
LEMMA SumOfOne ==
    ASSUME NEW n \in Nat, NEW s \in [1..n -> Int], NEW j \in 1..n,
           \A k \in 1..n : k # j => s[k] = 0
    PROVE  SumTo(s, n) = s[j]
    <1> DEFINE z == [k \in 1..(j - 1) |-> 0]
               w == [k \in 1..((j - 1) + 1) |-> s[k]]
    <1>1. j - 1 \in Nat /\ j \in Nat /\ (j - 1) + 1 = j /\ j <= n
        OBVIOUS
    <1>2. z \in [1..(j - 1) -> Int] /\ \A k \in 1..(j - 1) : z[k] = 0
        OBVIOUS
    <1>3. \A k \in 1..((j - 1) + 1) : k \in 1..n
        BY <1>1
    <1>4. w \in [1..((j - 1) + 1) -> Int] /\ \A k \in 1..((j - 1) + 1) : w[k] = s[k]
        BY <1>3
    <1> HIDE DEF z, w
    <1>5. SumTo(z, j - 1) = 0
        BY <1>1, <1>2, SumOfZeros
    <1>6. \A k \in 1..(j - 1) : w[k] = z[k]
        BY <1>1, <1>2, <1>4
    <1>7. SumTo(w, (j - 1) + 1) = SumTo(z, j - 1) + w[(j - 1) + 1]
        BY <1>1, <1>2, <1>4, <1>6, SumPlusOne
    <1>8. w[(j - 1) + 1] = s[j] /\ s[j] \in Int
        BY <1>1, <1>4
    <1>9. SumTo(w, j) = s[j]
        BY <1>1, <1>5, <1>7, <1>8
    <1>10. w \in [1..j -> Int] /\ (\A k \in 1..j : s[k] = w[k]) /\ \A k \in (j + 1)..n : s[k] = 0
        <2>1. w \in [1..j -> Int] /\ \A k \in 1..j : s[k] = w[k]
            BY <1>1, <1>4
        <2>2. \A k \in (j + 1)..n : k \in 1..n /\ k # j
            BY <1>1
        <2> QED BY <2>1, <2>2
    <1>11. SumTo(s, n) = SumTo(w, j)
        BY <1>1, <1>10, SumStays
    <1> QED BY <1>9, <1>11

\* One row rewritten.
LEMMA SumChanges ==
    ASSUME NEW n \in Nat, NEW s \in [1..n -> Int], NEW t \in [1..n -> Int], NEW j \in 1..n,
           \A k \in 1..n : k # j => t[k] = s[k]
    PROVE  SumTo(t, n) = SumTo(s, n) + (t[j] - s[j]) /\ SumTo(s, n) \in Int
    <1> DEFINE u == [k \in 1..n |-> t[k] - s[k]]
    <1>1. \A k \in 1..n : s[k] \in Int /\ t[k] \in Int
        OBVIOUS
    <1>2. u \in [1..n -> Int] /\ \A k \in 1..n : u[k] = t[k] - s[k]
        BY <1>1
    <1> HIDE DEF u
    <1>3. (\A k \in 1..n : t[k] = s[k] + u[k]) /\ \A k \in 1..n : k # j => u[k] = 0
        BY <1>1, <1>2
    <1>4. SumTo(u, n) = u[j]
        BY <1>2, <1>3, SumOfOne
    <1>5. SumTo(t, n) = SumTo(s, n) + SumTo(u, n) /\ SumTo(s, n) \in Int
        BY <1>2, <1>3, SumsAdd
    <1> QED BY <1>2, <1>4, <1>5

\* The rows of group x, and those of the groups 1..m.
InGroup(v, key, n, x) == [k \in 1..n |-> IF key[k] = x THEN v[k] ELSE 0]
InGroups(v, key, n, m) == [k \in 1..n |-> IF key[k] \in 1..m THEN v[k] ELSE 0]

\* The sum of the sums of the groups 1..m is the sum of the rows that are in one of them.
LEMMA GroupedSums ==
    ASSUME NEW n \in Nat, NEW m \in Nat, NEW v \in [1..n -> Int], NEW key \in [1..n -> Int],
           NEW g \in [1..m -> Int],
           \A x \in 1..m : g[x] = SumTo(InGroup(v, key, n, x), n)
    PROVE  SumTo(g, m) = SumTo(InGroups(v, key, n, m), n)
    <1> DEFINE G == RunningSum(g, m)
               Below(x) == InGroups(v, key, n, x)
               At(x) == InGroup(v, key, n, x)
               D == {x \in 0..m : ~(G[x] = SumTo(Below(x), n))}
    <1>1. G \in [0..m -> Int] /\ G[0] = 0 /\ \A x \in 1..m : G[x] = G[x - 1] + g[x]
        BY RunningSumDef
    <1>2. SumTo(g, m) = G[m]
        BY DEF SumTo
    <1>3. \A k \in 1..n : v[k] \in Int /\ key[k] \in Int
        OBVIOUS
    <1>4. ASSUME NEW x \in Int PROVE Below(x) \in [1..n -> Int] /\ At(x) \in [1..n -> Int]
        BY <1>3 DEF InGroups, InGroup
    <1>5. \A x \in 1..m : g[x] = SumTo(At(x), n)
        OBVIOUS
    <1> HIDE DEF G
    <1>6. D = {}
        <2> SUFFICES ASSUME D # {} PROVE FALSE
            OBVIOUS
        <2>1. PICK x \in D : \A y \in D : x <= y
            <3>1. D \in SUBSET Nat
                OBVIOUS
            <3> HIDE DEF D
            <3> QED BY <3>1, LeastNatural
        <2>2. x # 0
            <3>1. \A k \in 1..n : Below(0)[k] = 0
                BY <1>3 DEF InGroups
            <3>2. SumTo(Below(0), n) = 0
                <4>1. Below(0) \in [1..n -> Int]
                    BY <1>4
                <4> HIDE DEF Below
                <4> QED BY <3>1, <4>1, SumOfZeros
            <3> QED BY <1>1, <2>1, <3>2
        <2>3. x \in 1..m /\ x - 1 \in 0..m /\ ~(x <= x - 1) /\ x \in Int /\ x - 1 \in Int
            BY <2>2
        <2>4. G[x - 1] = SumTo(Below(x - 1), n)
            BY <2>1, <2>3
        <2>5. \A k \in 1..n : Below(x)[k] = Below(x - 1)[k] + At(x)[k]
            <3> TAKE k \in 1..n
            <3>1. key[k] \in Int /\ v[k] \in Int
                BY <1>3
            <3>2. key[k] \in 1..x <=> (key[k] \in 1..(x - 1) \/ key[k] = x)
                BY <2>3, <3>1
            <3>3. ~(key[k] \in 1..(x - 1) /\ key[k] = x)
                BY <2>3, <3>1
            <3> QED BY <3>1, <3>2, <3>3 DEF InGroups, InGroup
        <2>6. SumTo(Below(x), n) = SumTo(Below(x - 1), n) + SumTo(At(x), n)
            <3>1. /\ Below(x) \in [1..n -> Int] /\ Below(x - 1) \in [1..n -> Int]
                  /\ At(x) \in [1..n -> Int]
                BY <1>4, <2>3
            <3> HIDE DEF Below, At
            <3> QED BY <2>5, <3>1, SumsAdd
        <2>7. G[x] = G[x - 1] + g[x] /\ g[x] = SumTo(At(x), n)
            BY <1>1, <1>5, <2>3
        <2>8. G[x] = SumTo(Below(x), n)
            <3> HIDE DEF Below, At
            <3> QED BY <2>4, <2>6, <2>7
        <2> QED BY <2>1, <2>8
    <1>7. m \in 0..m
        OBVIOUS
    <1>8. G[m] = SumTo(Below(m), n)
        BY <1>6, <1>7
    <1> QED BY <1>2, <1>8

\* What FlowInv says of the rows one by one.
RowsPlaced ==
    \A n \in DOMAIN transactions :
        /\ Exists(transactions[n].account) /\ transactions[n].date <= Today
        /\ transactions[n].source = "manual" => ~IsTransferType(transactions[n].type)

\* The rows and transfers that FlowInv adds up are integers, before and after a step.
LEMMA FlowSummands ==
    ASSUME TypeOK, TypeOK', NEW c
    PROVE  /\ Len(transactions) \in Nat /\ Len(transactions)' \in Nat
           /\ Len(transfers) \in Nat /\ Len(transfers)' \in Nat
           /\ DOMAIN transactions = 1..Len(transactions)
           /\ DOMAIN transactions' = 1..Len(transactions)'
           /\ Unexplained(c) \in [1..Len(transactions) -> Int]
           /\ Unexplained(c)' \in [1..Len(transactions)' -> Int]
           /\ Brought(c) \in [1..Len(transfers) -> Int]
           /\ Brought(c)' \in [1..Len(transfers)' -> Int]
    <1>1. /\ transactions \in Seq(TransactionRow) /\ transactions' \in Seq(TransactionRow)
          /\ transfers \in Seq(TransferRow) /\ transfers' \in Seq(TransferRow)
        BY DEF TypeOK
    <1>2. /\ \A k \in 1..Len(transactions) : Delta(transactions[k]) \in Int
          /\ \A k \in 1..Len(transactions') : Delta(transactions'[k]) \in Int
        BY <1>1, DeltaIsInt
    <1>3. /\ \A k \in 1..Len(transfers) : transfers[k].fromAmount \in Int /\ transfers[k].toAmount \in Int
          /\ \A k \in 1..Len(transfers') : transfers'[k].fromAmount \in Int /\ transfers'[k].toAmount \in Int
        <2>1. \A tr \in TransferRow : tr.fromAmount \in Int /\ tr.toAmount \in Int
            BY DEF TransferRow
        <2> QED BY <1>1, <2>1
    <1>4. Unexplained(c) \in [1..Len(transactions) -> Int]
        BY <1>2 DEF Unexplained
    <1>5. Unexplained(c)' \in [1..Len(transactions)' -> Int]
        BY <1>2 DEF Unexplained
    <1>6. Brought(c) \in [1..Len(transfers) -> Int] /\ Brought(c)' \in [1..Len(transfers)' -> Int]
        BY <1>3 DEF Brought
    <1> QED BY <1>1, <1>4, <1>5, <1>6

\* A confirmed row that a user posted is reported; a withdrawn row is in no balance; a reversed
\* row and the adjustment that undoes it are in the balances and not in the reports.
LEMMA ReportedRows ==
    ASSUME NEW tx \in TransactionRow
    PROVE  /\ tx.source = "manual" /\ tx.status = "confirmed" /\ ~IsTransferType(tx.type)
                => ~Unreported(tx)
           /\ tx.status \in {"cancelled", "soft_deleted"} => ~Unreported(tx)
           /\ tx.status = "reversed" => Unreported(tx)
           /\ tx.status = "confirmed" /\ tx.type = "adjustment" /\ tx.source # "manual"
                => Unreported(tx)
           /\ tx.status = "confirmed" /\ IsTransferType(tx.type) => Unreported(tx)
           /\ tx.status = "confirmed" /\ tx.type = "expense" => ~Unreported(tx)
    BY DEF TransactionRow, TransactionType, Unreported, AffectsBalance, InFlow, FlowType, IsManual,
       IsTransferType

\* A posted row is reported as soon as it counts.
LEMMA PostKeepsFlow ==
    ASSUME TypeOK, FlowInv, TypeOK', Atomic!Post
    PROVE  FlowInv'
    <1> DEFINE n == Len(transactions)
               tx == transactions'[n + 1]
    <1>1. /\ transactions' = Append(transactions, tx) /\ UNCHANGED <<accounts, transfers>>
          /\ tx.source = "manual" /\ tx.status = "confirmed"
          /\ tx.type \notin {"transfer_in", "transfer_out"} /\ tx.date <= Today
          /\ \A a \in {tx.account, tx.related} \ {Atomic!None} : Atomic!Accepts(a, tx.date)
          /\ Len(transactions') = n + 1
        BY DEF Atomic!Post, Atomic!NextTransaction
    <1>2. transactions \in Seq(TransactionRow) /\ transactions' \in Seq(TransactionRow) /\ n \in Nat
        BY DEF TypeOK
    <1>3. n + 1 \in DOMAIN transactions' /\ tx \in TransactionRow
        BY <1>1, <1>2
    <1>4. accounts'[tx.account] # NoAccount
        <2>1. tx.account \in AccountId
            BY <1>3 DEF TransactionRow
        <2>2. tx.account # 0
            BY <2>1, ConstantsAssumption DEF None
        <2> QED BY <1>1, <2>2 DEF Atomic!Accepts, Atomic!None
    <1>5. ~Unreported(tx)
        BY <1>1, <1>3, ReportedRows DEF IsTransferType
    <1> HIDE DEF tx
    <1>6. \A k \in DOMAIN transactions : k \in DOMAIN transactions' /\ transactions'[k] = transactions[k]
        BY <1>1, <1>2
    <1>7. \A k \in DOMAIN transactions' : k \in DOMAIN transactions \/ k = n + 1
        BY <1>1, <1>2
    <1>8. RowsPlaced'
        <2> SUFFICES ASSUME NEW k \in DOMAIN transactions'
                     PROVE  /\ Exists(transactions[k].account)' /\ transactions'[k].date <= Today
                            /\ transactions'[k].source = "manual" => ~IsTransferType(transactions'[k].type)
            BY DEF RowsPlaced
        <2>1. CASE k \in DOMAIN transactions
            BY <1>1, <1>6, <2>1 DEF FlowInv, Exists
        <2>2. CASE k = n + 1
            BY <1>1, <1>4, <2>2 DEF tx, IsTransferType, Exists
        <2> QED BY <1>7, <2>1, <2>2
    <1>9. ASSUME NEW c \in Currency PROVE (SumTo(Unexplained(c), Len(transactions)) = Moved(c))'
        <2>1. /\ Unexplained(c) \in [1..n -> Int] /\ Unexplained(c)' \in [1..(n + 1) -> Int]
              /\ DOMAIN transactions = 1..n
            BY <1>1, FlowSummands
        <2>2. \A k \in 1..n : Unexplained(c)'[k] = Unexplained(c)[k]
            BY <1>1, <1>2, <1>6, <2>1 DEF Unexplained, CurrencyOf
        <2>3. Unexplained(c)'[n + 1] = 0
            BY <1>1, <1>2, <1>5 DEF Unexplained, tx
        <2>4. \A k \in (n + 1)..(n + 1) : Unexplained(c)'[k] = 0
            BY <1>2, <2>3
        <2>5. SumTo(Unexplained(c)', n + 1) = SumTo(Unexplained(c), n)
            <3>1. n + 1 \in Nat /\ n <= n + 1
                BY <1>2
            <3> HIDE DEF n
            <3> QED BY <1>2, <2>1, <2>2, <2>4, <3>1, SumStays
        <2>6. SumTo(Unexplained(c), n) = Moved(c)
            BY <1>9 DEF FlowInv
        <2>7. Moved(c)' = Moved(c)
            BY <1>1 DEF Moved, Brought, SumTo, RunningSum
        <2> QED BY <1>1, <2>5, <2>6, <2>7 DEF SumTo, RunningSum
    <1> QED BY <1>8, <1>9 DEF FlowInv, RowsPlaced

\* A step that leaves the transfers, the number of rows and what each row adds.
LEMMA SameSummandsKeepFlow ==
    ASSUME TypeOK, TypeOK', FlowInv, NEW c \in Currency,
           UNCHANGED transfers, Len(transactions') = Len(transactions),
           \A k \in 1..Len(transactions) : Unexplained(c)'[k] = Unexplained(c)[k]
    PROVE  (SumTo(Unexplained(c), Len(transactions)) = Moved(c))'
    <1> DEFINE n == Len(transactions)
    <1>1. /\ Unexplained(c) \in [1..n -> Int] /\ Unexplained(c)' \in [1..n -> Int]
        BY FlowSummands
    <1>2. Unexplained(c)' = Unexplained(c)
        BY <1>1
    <1>3. SumTo(Unexplained(c), n) = Moved(c)
        BY DEF FlowInv
    <1>4. Moved(c)' = Moved(c)
        BY DEF Moved, Brought, SumTo, RunningSum
    <1> QED BY <1>2, <1>3, <1>4 DEF SumTo, RunningSum

\* A withdrawn row was reported and leaves the balances and the reports together.
LEMMA WithdrawKeepsFlow ==
    ASSUME TypeOK, FlowInv, TypeOK', Atomic!Withdraw
    PROVE  FlowInv'
    <1>1. PICK t \in DOMAIN transactions, status \in {"cancelled", "soft_deleted"} :
            /\ Atomic!Correctable(transactions[t])
            /\ transactions' = SetStatus(transactions, t, status)
            /\ UNCHANGED <<accounts, transfers>>
        BY DEF Atomic!Withdraw, SetStatus
    <1>2. status \in TransactionStatus \ {"confirmed"}
        BY DEF TransactionStatus
    <1>3. transactions \in Seq(TransactionRow) /\ transactions' \in Seq(TransactionRow)
        BY DEF TypeOK
    <1>4. /\ Len(transactions') = Len(transactions)
          /\ transactions'[t].status = status
          /\ \A n \in DOMAIN transactions :
               /\ n \in DOMAIN transactions'
               /\ transactions'[n].account = transactions[n].account
               /\ transactions'[n].type = transactions[n].type
               /\ transactions'[n].source = transactions[n].source
               /\ transactions'[n].date = transactions[n].date
        BY <1>1, <1>2, StatusKeepsEntries
    <1>5. \A n \in DOMAIN transactions : n # t => transactions'[n] = transactions[n]
        BY <1>1, <1>3 DEF SetStatus
    <1>6. DOMAIN transactions' = DOMAIN transactions /\ DOMAIN transactions = 1..Len(transactions)
        BY <1>3, <1>4
    <1>7. RowsPlaced'
        BY <1>1, <1>4, <1>6 DEF RowsPlaced, FlowInv, Exists
    <1>8. ~Unreported(transactions[t]) /\ ~Unreported(transactions'[t])
        <2>1. transactions[t] \in TransactionRow /\ transactions'[t] \in TransactionRow
            BY <1>3, <1>6
        <2>2. /\ transactions[t].source = "manual" /\ transactions[t].status = "confirmed"
              /\ ~IsTransferType(transactions[t].type)
            BY <1>1 DEF Atomic!Correctable, FlowInv
        <2> QED BY <1>4, <2>1, <2>2, ReportedRows
    <1>9. ASSUME NEW c \in Currency, NEW k \in 1..Len(transactions)
          PROVE  Unexplained(c)'[k] = Unexplained(c)[k]
        <2>1. CASE k = t
            BY <1>4, <1>8, <2>1 DEF Unexplained
        <2>2. CASE k # t
            BY <1>1, <1>4, <1>5, <1>6, <2>2 DEF Unexplained, CurrencyOf
        <2> QED BY <2>1, <2>2
    <1> QED BY <1>1, <1>4, <1>7, <1>9, SameSummandsKeepFlow DEF FlowInv, RowsPlaced

\* An account that has rows keeps its currency.
LEMMA AmendKeepsFlow ==
    ASSUME TypeOK, FlowInv, TypeOK', Atomic!Amend
    PROVE  FlowInv'
    <1>1. PICK a \in AccountId :
            /\ accounts' = [accounts EXCEPT ![a] = accounts'[a]]
            /\ accounts'[a] # NoAccount
            /\ accounts[a] = NoAccount \/ accounts[a].currency = accounts'[a].currency
                 \/ \A n \in DOMAIN transactions : transactions[n].account # a
            /\ UNCHANGED <<transactions, transfers>>
        BY DEF Atomic!Amend
    <1>2. \A b \in AccountId \ {a} : accounts'[b] = accounts[b]
        BY <1>1 DEF TypeOK
    <1>3. transactions \in Seq(TransactionRow) /\ DOMAIN transactions = 1..Len(transactions)
        BY DEF TypeOK
    <1>4. \A n \in DOMAIN transactions : transactions[n].account \in AccountId
        <2>1. \A n \in DOMAIN transactions : transactions[n] \in TransactionRow
            BY <1>3
        <2> QED BY <2>1 DEF TransactionRow
    <1>5. RowsPlaced'
        BY <1>1, <1>2, <1>4 DEF RowsPlaced, FlowInv, Exists
    <1>6. \A n \in DOMAIN transactions : CurrencyOf(n)' = CurrencyOf(n)
        BY <1>1, <1>2, <1>4 DEF FlowInv, Exists, CurrencyOf
    <1>7. ASSUME NEW c \in Currency, NEW k \in 1..Len(transactions)
          PROVE  Unexplained(c)'[k] = Unexplained(c)[k]
        BY <1>1, <1>3, <1>6 DEF Unexplained
    <1> QED BY <1>1, <1>5, <1>7, SameSummandsKeepFlow DEF FlowInv, RowsPlaced

\* A reversed row and the adjustment that undoes it leave the reports and cancel out in the
\* balances.
LEMMA UndoKeepsFlow ==
    ASSUME TypeOK, FlowInv, TypeOK', Atomic!Undo
    PROVE  FlowInv'
    <1> DEFINE n == Len(transactions)
               undo == transactions'[n + 1]
    <1>1. PICK t \in DOMAIN transactions :
            /\ Atomic!Correctable(transactions[t])
            /\ transactions' = Append(SetStatus(transactions, t, "reversed"), undo)
            /\ Len(transactions') = n + 1
            /\ undo.source = "reconciliation_adjustment" /\ undo.type = "adjustment"
            /\ undo.status = "confirmed" /\ undo.date = Today
            /\ undo.account = transactions[t].account
            /\ Atomic!Effect(undo) = -Atomic!Effect(transactions[t])
            /\ UNCHANGED <<accounts, transfers>>
        BY DEF Atomic!Undo, Atomic!NextTransaction, SetStatus
    <1> DEFINE txs == SetStatus(transactions, t, "reversed")
    <1>2. "reversed" \in TransactionStatus \ {"confirmed"}
        BY DEF TransactionStatus
    <1>3. transactions \in Seq(TransactionRow) /\ transactions' \in Seq(TransactionRow) /\ n \in Nat
        BY DEF TypeOK
    <1>4. /\ txs \in Seq(TransactionRow) /\ Len(txs) = n
          /\ txs[t].status = "reversed"
          /\ \A k \in DOMAIN transactions :
               /\ k \in DOMAIN txs
               /\ txs[k].account = transactions[k].account /\ txs[k].type = transactions[k].type
               /\ txs[k].amount = transactions[k].amount
               /\ txs[k].source = transactions[k].source /\ txs[k].date = transactions[k].date
        BY <1>1, <1>2, StatusKeepsEntries
    <1>5. \A k \in DOMAIN transactions : k # t => txs[k] = transactions[k]
        BY <1>3 DEF SetStatus
    <1>6. n + 1 \in DOMAIN transactions' /\ undo \in TransactionRow
        BY <1>1, <1>3
    <1> HIDE DEF undo, txs
    <1>7. \A k \in DOMAIN transactions : k \in DOMAIN transactions' /\ transactions'[k] = txs[k]
        BY <1>1, <1>3, <1>4 DEF txs
    <1>8. /\ DOMAIN transactions = 1..n /\ t \in 1..n
          /\ \A k \in DOMAIN transactions' : k \in DOMAIN transactions \/ k = n + 1
        BY <1>1, <1>3
    <1>9. RowsPlaced'
        <2> SUFFICES ASSUME NEW k \in DOMAIN transactions'
                     PROVE  /\ Exists(transactions[k].account)' /\ transactions'[k].date <= Today
                            /\ transactions'[k].source = "manual" => ~IsTransferType(transactions'[k].type)
            BY DEF RowsPlaced
        <2>1. CASE k \in DOMAIN transactions
            BY <1>1, <1>4, <1>7, <2>1 DEF FlowInv, Exists
        <2>2. CASE k = n + 1
            <3>1. Today \in Nat
                BY ConstantsAssumption
            <3>2. Exists(transactions[t].account)
                BY DEF FlowInv
            <3> QED BY <1>1, <2>2, <3>1, <3>2 DEF undo, IsTransferType, Exists
        <2> QED BY <1>8, <2>1, <2>2
    <1>10. /\ ~Unreported(transactions[t]) /\ Unreported(transactions'[t]) /\ Unreported(undo)
        <2>1. transactions[t] \in TransactionRow /\ transactions'[t] \in TransactionRow
            BY <1>3, <1>7
        <2>2. /\ transactions[t].source = "manual" /\ transactions[t].status = "confirmed"
              /\ ~IsTransferType(transactions[t].type)
            BY <1>1 DEF Atomic!Correctable, FlowInv
        <2>3. transactions'[t].status = "reversed"
            BY <1>4, <1>7
        <2> QED BY <1>1, <1>6, <2>1, <2>2, <2>3, ReportedRows
    <1>11. Delta(undo) = -Delta(transactions'[t]) /\ Delta(transactions'[t]) \in Int
        <2>1. transactions[t] \in TransactionRow /\ transactions'[t] \in TransactionRow
            BY <1>3, <1>7
        <2>2. Delta(transactions'[t]) = Delta(transactions[t])
            BY <1>4, <1>7 DEF Delta
        <2> QED BY <1>1, <1>6, <2>1, <2>2, EffectIsDelta
    <1>12. ASSUME NEW c \in Currency PROVE (SumTo(Unexplained(c), Len(transactions)) = Moved(c))'
        <2> DEFINE s == Unexplained(c)
                   s1 == Unexplained(c)'
                   w == [k \in 1..n |-> s1[k]]
        <2>1. s \in [1..n -> Int] /\ s1 \in [1..(n + 1) -> Int]
            BY <1>1, FlowSummands
        <2>2. \A k \in 1..n : k # t => s1[k] = s[k]
            <3> TAKE k \in 1..n
            <3> HAVE k # t
            <3>1. transactions'[k] = transactions[k] /\ k \in 1..Len(transactions')
                BY <1>1, <1>3, <1>5, <1>7, <1>8
            <3> QED BY <1>1, <3>1 DEF Unexplained, CurrencyOf
        <2>3. /\ accounts'[transactions'[t].account].currency = CurrencyOf(t)
              /\ accounts'[transactions'[n + 1].account].currency = CurrencyOf(t)
            BY <1>1, <1>4, <1>7 DEF CurrencyOf, undo
        <2>4. s[t] = 0
            BY <1>8, <1>10 DEF Unexplained
        <2>5. s1[n + 1] = -s1[t]
            <3>1. n + 1 \in 1..Len(transactions') /\ t \in 1..Len(transactions')
                BY <1>1, <1>3, <1>8
            <3>2. s1[n + 1] = IF CurrencyOf(t) = c THEN Delta(undo) ELSE 0
                BY <1>10, <2>3, <3>1 DEF Unexplained, CurrencyOf, undo
            <3>3. s1[t] = IF CurrencyOf(t) = c THEN Delta(transactions'[t]) ELSE 0
                BY <1>10, <2>3, <3>1 DEF Unexplained, CurrencyOf
            <3> QED BY <1>11, <3>2, <3>3
        <2>6. s1[t] \in Int
            BY <1>3, <1>8, <2>1
        <2> HIDE DEF s, s1, n
        <2>7. w \in [1..n -> Int] /\ \A k \in 1..n : w[k] = s1[k]
            BY <1>3, <2>1
        <2> HIDE DEF w
        <2>8. SumTo(w, n) = SumTo(s, n) + (w[t] - s[t]) /\ SumTo(s, n) \in Int
            BY <1>3, <1>8, <2>1, <2>2, <2>7, SumChanges
        <2>9. SumTo(s1, n + 1) = SumTo(w, n) + s1[n + 1]
            BY <1>3, <2>1, <2>7, SumPlusOne
        <2>10. SumTo(s1, n + 1) = SumTo(s, n)
            <3>1. w[t] = s1[t]
                BY <1>8, <2>7
            <3> QED BY <2>4, <2>5, <2>6, <2>8, <2>9, <3>1
        <2>11. SumTo(s, n) = Moved(c)
            BY <1>12 DEF FlowInv, s, n
        <2>12. Moved(c)' = Moved(c)
            BY <1>1 DEF Moved, Brought, SumTo, RunningSum
        <2> QED BY <1>1, <2>10, <2>11, <2>12 DEF SumTo, RunningSum, s1
    <1> QED BY <1>9, <1>12 DEF FlowInv, RowsPlaced

\* What the entries of a transfer add to the balances of a currency, beyond its fee, is what the
\* transfer brought into it.
LEMMA MoveKeepsFlow ==
    ASSUME TypeOK, FlowInv, TypeOK', Atomic!Move
    PROVE  FlowInv'
    <1>0. PICK tid \in Nat : tid = Len(transfers) + 1
        BY DEF TypeOK
    <1> DEFINE tr == transfers'[tid]
               n == Len(transactions)
               m == IF tr.fee > 0 THEN n + 3 ELSE n + 2
    <1>1. /\ transfers' = Append(transfers, tr) /\ Len(transfers') = tid
          /\ Atomic!Accepts(tr.from, Today) /\ Atomic!Accepts(tr.to, Today)
          /\ accounts[tr.from].currency = tr.fromCurrency /\ accounts[tr.to].currency = tr.toCurrency
          /\ UNCHANGED accounts
        BY <1>0, MoveWrites
    <1>2. /\ transactions'[n + 1].account = tr.from /\ transactions'[n + 1].type = "transfer_out"
          /\ transactions'[n + 1].amount = tr.fromAmount
          /\ transactions'[n + 1].status = "confirmed" /\ transactions'[n + 1].date = Today
          /\ transactions'[n + 1].source = "transfer"
        BY <1>0, MoveWrites
    <1>3. /\ transactions'[n + 2].account = tr.to /\ transactions'[n + 2].type = "transfer_in"
          /\ transactions'[n + 2].amount = tr.toAmount
          /\ transactions'[n + 2].status = "confirmed" /\ transactions'[n + 2].date = Today
          /\ transactions'[n + 2].source = "transfer"
        BY <1>0, MoveWrites
    <1>4. tr.fee > 0 =>
            /\ transactions'[n + 3].account = tr.from /\ transactions'[n + 3].type = "expense"
            /\ transactions'[n + 3].status = "confirmed" /\ transactions'[n + 3].date = Today
            /\ transactions'[n + 3].source = "transfer"
        BY <1>0, MoveWrites
    <1>5. /\ \A k \in DOMAIN transactions : k \in DOMAIN transactions' /\ transactions'[k] = transactions[k]
          /\ DOMAIN transactions = 1..n /\ DOMAIN transactions' = 1..m
        BY <1>0, MoveWrites
    <1>6. /\ transactions' \in Seq(TransactionRow) /\ transfers \in Seq(TransferRow)
          /\ transfers' \in Seq(TransferRow) /\ n \in Nat /\ Len(transfers) \in Nat
        BY DEF TypeOK
    <1> HIDE DEF n, tr
    <1>7. m \in Nat /\ n + 1 \in 1..m /\ n + 2 \in 1..m /\ (tr.fee > 0 => n + 3 \in 1..m)
          /\ \A k \in 1..m : k \in 1..n \/ k = n + 1 \/ k = n + 2 \/ (k = n + 3 /\ tr.fee > 0)
        BY <1>6
    <1>8. Len(transactions') = m
        <2>1. Len(transactions') \in Nat /\ DOMAIN transactions' = 1..Len(transactions')
            BY <1>6
        <2> HIDE DEF m
        <2> DEFINE l == Len(transactions')
        <2>2. l \in Nat /\ 1..l = 1..m /\ m \in Nat /\ m >= 1
            BY <1>5, <1>6, <1>7, <2>1
        <2> HIDE DEF l
        <2>3. m \in 1..l
            BY <2>2
        <2>4. l \in 1..m
            BY <2>2, <2>3
        <2>5. l = m
            BY <2>2, <2>3, <2>4
        <2> QED BY <2>5 DEF l
    <1>9. tr \in TransferRow /\ tr.fromAmount \in Int /\ tr.toAmount \in Int
        <2>1. tr \in TransferRow
            <3>1. tid \in DOMAIN transfers'
                BY <1>0, <1>1, <1>6
            <3> QED BY <1>6, <3>1 DEF tr
        <2> QED BY <2>1 DEF TransferRow
    <1>10. /\ Unreported(transactions'[n + 1]) /\ Unreported(transactions'[n + 2])
           /\ tr.fee > 0 => ~Unreported(transactions'[n + 3])
        <2>1. /\ transactions'[n + 1] \in TransactionRow /\ transactions'[n + 2] \in TransactionRow
              /\ tr.fee > 0 => transactions'[n + 3] \in TransactionRow
            BY <1>5, <1>6, <1>7
        <2> QED BY <1>2, <1>3, <1>4, <2>1, ReportedRows DEF IsTransferType
    <1>11. Delta(transactions'[n + 1]) = -tr.fromAmount /\ Delta(transactions'[n + 2]) = tr.toAmount
        BY <1>2, <1>3 DEF Delta
    <1>12. RowsPlaced'
        <2> SUFFICES ASSUME NEW k \in DOMAIN transactions'
                     PROVE  /\ Exists(transactions[k].account)' /\ transactions'[k].date <= Today
                            /\ transactions'[k].source = "manual" => ~IsTransferType(transactions'[k].type)
            BY DEF RowsPlaced
        <2>1. CASE k \in DOMAIN transactions
            BY <1>1, <1>5, <2>1 DEF FlowInv, Exists
        <2>2. CASE k \notin DOMAIN transactions
            <3>1. Today \in Nat
                BY ConstantsAssumption
            <3>2. k = n + 1 \/ k = n + 2 \/ (k = n + 3 /\ tr.fee > 0)
                BY <1>5, <1>7, <2>2
            <3>3. /\ transactions'[k].account \in {tr.from, tr.to} /\ transactions'[k].date = Today
                  /\ transactions'[k].source = "transfer"
                BY <1>2, <1>3, <1>4, <3>2
            <3> QED BY <1>1, <3>1, <3>3 DEF Exists, Atomic!Accepts
        <2> QED BY <2>1, <2>2
    <1>13. ASSUME NEW c \in Currency PROVE (SumTo(Unexplained(c), Len(transactions)) = Moved(c))'
        <2> DEFINE s == Unexplained(c)
                   s1 == Unexplained(c)'
                   b == Brought(c)
                   b1 == Brought(c)'
                   out == IF tr.fromCurrency = c THEN tr.fromAmount ELSE 0
                   in == IF tr.toCurrency = c THEN tr.toAmount ELSE 0
        <2>1. /\ s \in [1..n -> Int] /\ s1 \in [1..m -> Int]
              /\ b \in [1..Len(transfers) -> Int] /\ b1 \in [1..tid -> Int]
            BY <1>1, <1>8, FlowSummands DEF n
        <2>2. \A k \in 1..n : s1[k] = s[k]
            <3> TAKE k \in 1..n
            <3>1. transactions'[k] = transactions[k] /\ k \in 1..Len(transactions') /\ k \in 1..Len(transactions)
                BY <1>5, <1>8 DEF n
            <3> QED BY <1>1, <3>1 DEF Unexplained, CurrencyOf
        <2>3. s1[n + 1] = -out
            BY <1>1, <1>2, <1>7, <1>8, <1>9, <1>10, <1>11 DEF Unexplained, CurrencyOf
        <2>4. s1[n + 2] = in
            BY <1>1, <1>3, <1>7, <1>8, <1>9, <1>10, <1>11 DEF Unexplained, CurrencyOf
        <2>5. tr.fee > 0 => s1[n + 3] = 0
            BY <1>7, <1>8, <1>10 DEF Unexplained
        <2>6. b1[tid] = in - out
            <3>1. tid \in 1..Len(transfers')
                BY <1>0, <1>1, <1>6
            <3> QED BY <3>1 DEF Brought, tr
        <2>7. \A i \in 1..Len(transfers) : b1[i] = b[i]
            <3> TAKE i \in 1..Len(transfers)
            <3>1. transfers'[i] = transfers[i] /\ i \in 1..Len(transfers')
                BY <1>0, <1>1, <1>6
            <3> QED BY <3>1 DEF Brought
        <2>8. out \in Int /\ in \in Int
            BY <1>9
        <2>9. SumTo(s, n) = SumTo(b, Len(transfers))
            BY <1>13 DEF FlowInv, Moved, n
        <2> HIDE DEF s, s1, b, b1, out, in
        <2>10. SumTo(b1, tid) = SumTo(b, Len(transfers)) + (in - out) /\ SumTo(b, Len(transfers)) \in Int
            <3>1. b1 \in [1..(Len(transfers) + 1) -> Int]
                BY <1>0, <2>1
            <3>2. SumTo(b1, Len(transfers) + 1) = SumTo(b, Len(transfers)) + b1[Len(transfers) + 1]
                  /\ SumTo(b, Len(transfers)) \in Int
                BY <1>6, <2>1, <2>7, <3>1, SumPlusOne
            <3> QED BY <1>0, <2>6, <3>2
        <2>11. SumTo(s1, m) = SumTo(s, n) + (in - out)
            <3>1. CASE tr.fee > 0
                <4>1. m = n + 3 /\ s1 \in [1..(n + 3) -> Int]
                    BY <2>1, <3>1
                <4>2. SumTo(s1, n + 3) = SumTo(s, n) + s1[n + 1] + s1[n + 2] + s1[n + 3] /\ SumTo(s, n) \in Int
                    BY <1>6, <2>1, <2>2, <4>1, SumPlusThree
                <4> HIDE DEF m
                <4> QED BY <2>3, <2>4, <2>5, <2>8, <3>1, <4>1, <4>2
            <3>2. CASE ~(tr.fee > 0)
                <4>1. m = n + 2 /\ s1 \in [1..(n + 2) -> Int]
                    BY <2>1, <3>2
                <4>2. SumTo(s1, n + 2) = SumTo(s, n) + s1[n + 1] + s1[n + 2] /\ SumTo(s, n) \in Int
                    BY <1>6, <2>1, <2>2, <4>1, SumPlusTwo
                <4> HIDE DEF m
                <4> QED BY <2>3, <2>4, <2>8, <4>1, <4>2
            <3> QED BY <3>1, <3>2
        <2>12. SumTo(s1, m) = SumTo(b1, tid)
            BY <2>9, <2>10, <2>11
        <2> QED BY <1>1, <1>8, <2>12 DEF s1, b1, Moved, SumTo, RunningSum
    <1> QED BY <1>12, <1>13 DEF FlowInv, RowsPlaced

\* What the reports leave out cancels out but for the transfers, in every reachable state.
THEOREM FlowInvHolds == Spec => []FlowInv
    <1>1. Init => FlowInv
        <2> SUFFICES ASSUME Init, NEW c \in Currency
                     PROVE  SumTo(Unexplained(c), Len(transactions)) = Moved(c)
            BY DEF Init, FlowInv
        <2>1. transactions = <<>> /\ transfers = <<>> /\ Len(<<>>) = 0
            BY DEF Init
        <2>2. ASSUME NEW s \in [1..0 -> Int] PROVE SumTo(s, 0) = 0
            <3>1. 0 \in Nat /\ \A k \in 1..0 : s[k] = 0
                OBVIOUS
            <3> QED BY <3>1, SumOfZeros
        <2>3. Unexplained(c) \in [1..0 -> Int] /\ Brought(c) \in [1..0 -> Int]
            BY <2>1 DEF Unexplained, Brought
        <2> QED BY <2>1, <2>2, <2>3 DEF Moved
    <1>2. TypeOK /\ TypeOK' /\ FlowInv /\ [Atomic!ANext]_(Atomic!avars) => FlowInv'
        <2> SUFFICES ASSUME TypeOK, TypeOK', FlowInv, [Atomic!ANext]_(Atomic!avars)
                     PROVE  FlowInv'
            OBVIOUS
        <2>1. CASE UNCHANGED Atomic!avars
            <3>1. UNCHANGED <<accounts, transactions, transfers>>
                BY <2>1 DEF Atomic!avars
            <3>2. ASSUME NEW c \in Currency, NEW k \in 1..Len(transactions)
                  PROVE  Unexplained(c)'[k] = Unexplained(c)[k]
                BY <3>1 DEF Unexplained, CurrencyOf
            <3> QED BY <3>1, <3>2, SameSummandsKeepFlow DEF FlowInv, Exists
        <2> QED BY <2>1, PostKeepsFlow, MoveKeepsFlow, WithdrawKeepsFlow, UndoKeepsFlow,
               AmendKeepsFlow DEF Atomic!ANext
    <1>3. LedgerInv /\ [Next]_vars => [Atomic!ANext]_(Atomic!avars)
        BY StepImplements
    <1> QED BY <1>1, <1>2, <1>3, InvariantHolds, TypesHold, PTL DEF Spec

\* What each row adds to the balances, and to the cash flow, of currency c.
Posted(c) ==
    [n \in 1..Len(transactions) |->
        IF CurrencyOf(n) = c /\ AffectsBalance(transactions[n]) THEN Delta(transactions[n]) ELSE 0]

Flowing(c) ==
    [n \in 1..Len(transactions) |->
        IF CurrencyOf(n) = c /\ InFlow(transactions[n]) THEN Delta(transactions[n]) ELSE 0]

Manual(c) ==
    [n \in 1..Len(transactions) |->
        IF n \in {k \in DOMAIN transactions : IsManual(transactions[k]) /\ CurrencyOf(k) = c}
        THEN Amounts[n] ELSE 0]

\* The rows of the tables are typed and add integers.
LEMMA ReportRows ==
    ASSUME TypeOK, NEW c
    PROVE  /\ Len(transactions) \in Nat /\ DOMAIN transactions = 1..Len(transactions)
           /\ \A n \in 1..Len(transactions) :
                /\ transactions[n] \in TransactionRow /\ transactions[n].account \in AccountId
                /\ transactions[n].date \in Day /\ transactions[n].amount \in Int
                /\ Delta(transactions[n]) \in Int
           /\ Posted(c) \in [1..Len(transactions) -> Int]
           /\ Flowing(c) \in [1..Len(transactions) -> Int]
           /\ Manual(c) \in [1..Len(transactions) -> Int]
           /\ Unexplained(c) \in [1..Len(transactions) -> Int]
           /\ \A a : BalanceChanges(a) \in [1..Len(transactions) -> Int]
    <1>1. transactions \in Seq(TransactionRow) /\ DOMAIN transactions = 1..Len(transactions)
        BY DEF TypeOK
    <1>2. \A n \in 1..Len(transactions) :
            /\ transactions[n] \in TransactionRow /\ transactions[n].account \in AccountId
            /\ transactions[n].date \in Day /\ transactions[n].amount \in Int
        <2>1. \A n \in 1..Len(transactions) : transactions[n] \in TransactionRow
            BY <1>1
        <2> QED BY <2>1 DEF TransactionRow
    <1>3. \A n \in 1..Len(transactions) : Delta(transactions[n]) \in Int
        BY <1>2, DeltaIsInt
    <1>4. /\ Posted(c) \in [1..Len(transactions) -> Int]
          /\ Flowing(c) \in [1..Len(transactions) -> Int]
        BY <1>3 DEF Posted, Flowing
    <1>5. /\ Unexplained(c) \in [1..Len(transactions) -> Int]
          /\ \A a : BalanceChanges(a) \in [1..Len(transactions) -> Int]
        BY <1>3 DEF Unexplained, BalanceChanges
    <1>6. Manual(c) \in [1..Len(transactions) -> Int]
        BY <1>1, <1>2 DEF Manual, Amounts
    <1> QED BY <1>1, <1>2, <1>3, <1>4, <1>5, <1>6

\* The accounts of a currency, active or archived, hold what their rows add.
LEMMA WorthIsPosted ==
    ASSUME TypeOK, FlowInv, NEW c \in Currency
    PROVE  /\ NetWorth[c] + ArchivedWorth(c) = SumTo(Posted(c), Len(transactions))
    <1> DEFINE N == Len(transactions)
               L == LastAccount
               active == {a \in DOMAIN AccountBalances :
                            AccountBalances[a].active /\ AccountBalances[a].currency = c}
               archived == {a \in AccountId : Exists(a) /\ ~accounts[a].active /\ accounts[a].currency = c}
               worth == [a \in DOMAIN AccountBalances |-> AccountBalances[a].balance]
               balance == [a \in AccountId |-> transferSourceBalance(a)]
               s == [a \in 1..L |-> IF a \in active THEN worth[a] ELSE 0]
               u == [a \in 1..L |-> IF a \in archived THEN balance[a] ELSE 0]
               g == [a \in 1..L |-> IF a \in active \union archived THEN transferSourceBalance(a) ELSE 0]
               key == [k \in 1..N |-> transactions[k].account]
    <1>1. L \in AccountId /\ (\A a \in AccountId : a <= L) /\ L \in Nat
        <2>1. L \in AccountId /\ \A a \in AccountId : a <= L
            BY AccountsAssumption DEF LastAccount
        <2> QED BY <2>1, ConstantsAssumption
    <1>2. \A a \in AccountId : a \in 1..L
        <2>1. \A a \in AccountId : a \in Nat /\ a # 0
            BY ConstantsAssumption DEF None
        <2> QED BY <1>1, <2>1
    <1>3. /\ N \in Nat /\ \A a : BalanceChanges(a) \in [1..N -> Int]
          /\ \A k \in 1..N : transactions[k].account \in AccountId /\ Delta(transactions[k]) \in Int
          /\ DOMAIN transactions = 1..N /\ Posted(c) \in [1..N -> Int]
        BY ReportRows
    <1>4. ASSUME NEW a PROVE transferSourceBalance(a) \in Int
        BY <1>3, SumIsInt DEF transferSourceBalance
    <1>5. /\ DOMAIN AccountBalances = {a \in AccountId : Exists(a)}
          /\ \A a \in DOMAIN AccountBalances :
               /\ AccountBalances[a].active = accounts[a].active
               /\ AccountBalances[a].currency = accounts[a].currency
               /\ AccountBalances[a].balance = transferSourceBalance(a)
        BY DEF AccountBalances
    <1>6. active = {a \in AccountId : Exists(a) /\ accounts[a].active /\ accounts[a].currency = c}
        BY <1>5
    <1>7. s \in [1..L -> Int] /\ u \in [1..L -> Int] /\ g \in [1..L -> Int]
        BY <1>4, <1>5, <1>6
    <1>8. \A a \in 1..L : g[a] = s[a] + u[a]
        BY <1>4, <1>5, <1>6
    <1>9. NetWorth[c] = SumTo(s, L) /\ ArchivedWorth(c) = SumTo(u, L)
        BY DEF NetWorth, BuildDashboardNetWorth, ArchivedWorth, SumOver
    <1>10. SumTo(g, L) = SumTo(s, L) + SumTo(u, L)
        <2> HIDE DEF s, u, g, L
        <2> QED BY <1>1, <1>7, <1>8, SumsAdd
    <1>11. key \in [1..N -> Int]
        <2>1. \A a \in AccountId : a \in Int
            BY ConstantsAssumption
        <2> QED BY <1>3, <2>1
    <1>12. ASSUME NEW a \in 1..L
           PROVE  g[a] = SumTo(InGroup(Posted(c), key, N, a), N)
        <2> DEFINE w == InGroup(Posted(c), key, N, a)
        <2>1. w \in [1..N -> Int]
            BY <1>3 DEF InGroup
        <2>2. CASE a \in active \union archived
            <3>1. a \in AccountId /\ accounts[a].currency = c
                BY <1>6, <2>2
            <3>2. \A k \in 1..N : w[k] = BalanceChanges(a)[k]
                BY <3>1 DEF Posted, BalanceChanges, CurrencyOf, InGroup
            <3>3. BalanceChanges(a) \in [1..N -> Int]
                BY <1>3
            <3>4. w = BalanceChanges(a)
                <4> HIDE DEF w
                <4> QED BY <2>1, <3>2, <3>3
            <3> QED BY <2>2, <3>4 DEF transferSourceBalance
        <2>3. CASE a \notin active \union archived
            <3>1. \A k \in 1..N : key[k] = a => Posted(c)[k] = 0
                <4> TAKE k \in 1..N
                <4> HAVE key[k] = a
                <4>1. Exists(transactions[k].account) /\ transactions[k].account = a /\ a \in AccountId
                    BY <1>3 DEF FlowInv
                <4>2. accounts[a] \in AccountRow
                    BY <4>1 DEF Exists, TypeOK
                <4>3. accounts[a].active \in BOOLEAN
                    BY <4>2 DEF AccountRow
                <4>4. accounts[a].currency # c
                    BY <1>6, <2>3, <4>1, <4>3
                <4> QED BY <4>1, <4>4 DEF Posted, CurrencyOf
            <3>2. \A k \in 1..N : w[k] = 0
                BY <3>1 DEF InGroup
            <3>3. SumTo(w, N) = 0
                <4> HIDE DEF w
                <4> QED BY <1>3, <2>1, <3>2, SumOfZeros
            <3> QED BY <2>3, <3>3
        <2> QED BY <2>2, <2>3
    <1>13. SumTo(g, L) = SumTo(InGroups(Posted(c), key, N, L), N)
        <2>1. Posted(c) \in [1..N -> Int] /\ N \in Nat
            BY <1>3
        <2> HIDE DEF g, key, L, N
        <2> QED BY <1>1, <1>7, <1>11, <1>12, <2>1, GroupedSums
    <1>14. InGroups(Posted(c), key, N, L) = Posted(c)
        <2>1. \A k \in 1..N : key[k] \in 1..L
            BY <1>2, <1>3
        <2>2. Posted(c) = [k \in 1..N |-> Posted(c)[k]]
            BY <1>3
        <2> HIDE DEF key
        <2> QED BY <2>1, <2>2 DEF InGroups
    <1> HIDE DEF s, u, g, L, N, key
    <1> QED BY <1>9, <1>10, <1>13, <1>14 DEF N

\* The net flow of a month and a currency is what its rows add.
LEMMA MonthIsItsRows ==
    ASSUME TypeOK, NEW c \in Currency, NEW p \in 1..Today
    PROVE  Cashflow(Today)[p][c]
             = SumTo([k \in 1..Len(transactions) |->
                        IF transactions[k].date = p THEN Flowing(c)[k] ELSE 0], Len(transactions))
    <1> DEFINE N == Len(transactions)
               rows == FlowRows(p, c)
               w == [k \in 1..N |-> IF transactions[k].date = p THEN Flowing(c)[k] ELSE 0]
               earned == {n \in rows : transactions[n].type \in {"income", "interest_income"}}
               spent == {n \in rows : transactions[n].type \in {"expense"}}
               inc == [k \in 1..N |-> IF k \in earned THEN Amounts[k] ELSE 0]
               exp == [k \in 1..N |-> IF k \in spent THEN Amounts[k] ELSE 0]
               flow == MonthlyFlow(1, Today)
    <1>1. /\ N \in Nat /\ DOMAIN transactions = 1..N /\ Flowing(c) \in [1..N -> Int]
          /\ \A k \in 1..N : transactions[k] \in TransactionRow /\ transactions[k].amount \in Int
        BY ReportRows
    <1>2. Today \in Nat /\ Today - (Today - 1) = 1 /\ Periods(Today) = 1..Today
        BY ConstantsAssumption DEF Periods
    <1>3. Cashflow(Today)[p][c] =
            IF <<p, c>> \in DOMAIN flow THEN flow[<<p, c>>].income - flow[<<p, c>>].expense ELSE 0
        BY <1>2 DEF Cashflow, BuildDashboardCashflow
    <1>4. <<p, c>> \in DOMAIN flow <=> rows # {}
        BY DEF MonthlyFlow
    <1>5. w \in [1..N -> Int] /\ inc \in [1..N -> Int] /\ exp \in [1..N -> Int]
        BY <1>1 DEF Amounts
    <1>6. CASE rows # {}
        <2>1. flow[<<p, c>>].income = SumTo(inc, N) /\ flow[<<p, c>>].expense = SumTo(exp, N)
            BY <1>6 DEF MonthlyFlow, FlowTotal, SumOver
        <2>2. \A k \in 1..N : inc[k] = w[k] + exp[k]
            <3> TAKE k \in 1..N
            <3>1. Amounts[k] = transactions[k].amount /\ transactions[k].amount \in Int
                BY <1>1 DEF Amounts
            <3>2. k \in rows <=> /\ InFlow(transactions[k]) /\ transactions[k].date = p
                                 /\ CurrencyOf(k) = c
                BY <1>1 DEF FlowRows
            <3>3. w[k] = IF k \in rows THEN Delta(transactions[k]) ELSE 0
                BY <3>2 DEF Flowing
            <3>4. CASE k \in rows
                <4>1. transactions[k].type \in {"income", "interest_income", "expense"}
                    BY <3>2, <3>4 DEF InFlow, FlowType
                <4>2. CASE transactions[k].type = "expense"
                    BY <3>1, <3>3, <3>4, <4>2 DEF Delta
                <4>3. CASE transactions[k].type \in {"income", "interest_income"}
                    BY <3>1, <3>3, <3>4, <4>3 DEF Delta
                <4> QED BY <4>1, <4>2, <4>3
            <3>5. CASE k \notin rows
                BY <3>3, <3>5
            <3> QED BY <3>4, <3>5
        <2>3. SumTo(inc, N) = SumTo(w, N) + SumTo(exp, N) /\ SumTo(w, N) \in Int /\ SumTo(exp, N) \in Int
            <3>1. N \in Nat
                BY <1>1
            <3> HIDE DEF w, inc, exp, N
            <3> QED BY <1>5, <2>2, <3>1, SumsAdd
        <2> HIDE DEF w, inc, exp, N, flow, rows
        <2>4. SumTo(inc, N) - SumTo(exp, N) = SumTo(w, N)
            BY <2>3
        <2>5. Cashflow(Today)[p][c] = SumTo(w, N)
            BY <1>3, <1>4, <1>6, <2>1, <2>4
        <2> QED BY <2>5 DEF w, N
    <1>7. CASE rows = {}
        <2>1. \A k \in 1..N : w[k] = 0
            <3> TAKE k \in 1..N
            <3>1. ~(InFlow(transactions[k]) /\ transactions[k].date = p /\ CurrencyOf(k) = c)
                BY <1>1, <1>7 DEF FlowRows
            <3> QED BY <3>1 DEF Flowing
        <2>2. SumTo(w, N) = 0
            <3>1. N \in Nat
                BY <1>1
            <3> HIDE DEF w, N
            <3> QED BY <1>5, <2>1, <3>1, SumOfZeros
        <2> QED BY <1>3, <1>4, <1>7, <2>2
    <1> QED BY <1>6, <1>7

\* The months together are all the rows of the cash flow.
LEMMA NetFlowIsFlowing ==
    ASSUME TypeOK, FlowInv, NEW c \in Currency
    PROVE  NetFlow(c) = SumTo(Flowing(c), Len(transactions))
    <1> DEFINE N == Len(transactions)
               key == [k \in 1..N |-> transactions[k].date]
               g == [period \in 1..Today |-> Cashflow(Today)[period][c]]
    <1>1. Today \in Nat
        BY ConstantsAssumption
    <1>2. /\ N \in Nat /\ DOMAIN transactions = 1..N /\ Flowing(c) \in [1..N -> Int]
          /\ \A k \in 1..N : transactions[k].date \in Day
        BY ReportRows
    <1>3. \A k \in 1..N : transactions[k].date \in 1..Today
        <2>1. \A k \in 1..N : transactions[k].date \in Nat /\ transactions[k].date # 0
            BY <1>2, ConstantsAssumption, PeriodAssumption
        <2>2. \A k \in 1..N : transactions[k].date <= Today
            BY <1>2 DEF FlowInv
        <2> QED BY <1>1, <2>1, <2>2
    <1>4. key \in [1..N -> Int]
        BY <1>1, <1>3
    <1>5. ASSUME NEW p \in 1..Today
          PROVE  /\ g[p] = SumTo(InGroup(Flowing(c), key, N, p), N)
                 /\ g[p] \in Int
        <2> DEFINE w == InGroup(Flowing(c), key, N, p)
                   v == [k \in 1..N |-> IF transactions[k].date = p THEN Flowing(c)[k] ELSE 0]
        <2>1. w = v
            BY DEF InGroup
        <2>2. g[p] = SumTo(v, N)
            BY MonthIsItsRows
        <2>3. w \in [1..N -> Int]
            BY <1>2 DEF InGroup
        <2>4. SumTo(w, N) \in Int
            <3>1. N \in Nat
                BY <1>2
            <3> HIDE DEF w, N
            <3> QED BY <2>3, <3>1, SumIsInt
        <2> QED BY <2>1, <2>2, <2>4
    <1>6. g \in [1..Today -> Int]
        BY <1>5
    <1>7. SumTo(g, Today) = SumTo(InGroups(Flowing(c), key, N, Today), N)
        <2>1. N \in Nat /\ Flowing(c) \in [1..N -> Int]
            BY <1>2
        <2> HIDE DEF g, key, N
        <2> QED BY <1>1, <1>4, <1>5, <1>6, <2>1, GroupedSums
    <1>8. InGroups(Flowing(c), key, N, Today) = Flowing(c)
        <2>1. \A k \in 1..N : key[k] \in 1..Today
            BY <1>3
        <2>2. Flowing(c) = [k \in 1..N |-> Flowing(c)[k]]
            BY <1>2
        <2> HIDE DEF key
        <2> QED BY <2>1, <2>2 DEF InGroups
    <1> QED BY <1>7, <1>8 DEF NetFlow

\* Every row of a balance is in the cash flow, among the manual ones or unexplained.
LEMMA PostedSplits ==
    ASSUME TypeOK, NEW c \in Currency
    PROVE  /\ SumTo(Posted(c), Len(transactions))
                = (SumTo(Flowing(c), Len(transactions)) + SumTo(Manual(c), Len(transactions)))
                    + SumTo(Unexplained(c), Len(transactions))
           /\ SumTo(Flowing(c), Len(transactions)) \in Int
           /\ SumTo(Manual(c), Len(transactions)) \in Int
           /\ SumTo(Unexplained(c), Len(transactions)) \in Int
    <1> DEFINE N == Len(transactions)
               w == [k \in 1..N |-> Flowing(c)[k] + Manual(c)[k]]
    <1>1. /\ N \in Nat /\ DOMAIN transactions = 1..N
          /\ Posted(c) \in [1..N -> Int] /\ Flowing(c) \in [1..N -> Int]
          /\ Manual(c) \in [1..N -> Int] /\ Unexplained(c) \in [1..N -> Int]
          /\ \A k \in 1..N : /\ transactions[k] \in TransactionRow /\ transactions[k].amount \in Int
                             /\ Delta(transactions[k]) \in Int
        BY ReportRows
    <1>2. w \in [1..N -> Int] /\ \A k \in 1..N : w[k] = Flowing(c)[k] + Manual(c)[k]
        BY <1>1
    <1>3. \A k \in 1..N : Posted(c)[k] = w[k] + Unexplained(c)[k]
        <2> TAKE k \in 1..N
        <2>1. IsManual(transactions[k]) => /\ Delta(transactions[k]) = transactions[k].amount
                                           /\ ~InFlow(transactions[k]) /\ AffectsBalance(transactions[k])
            BY DEF IsManual, Delta, InFlow, FlowType, AffectsBalance
        <2>2. InFlow(transactions[k]) => AffectsBalance(transactions[k])
            BY DEF InFlow, AffectsBalance
        <2>3. Manual(c)[k] = IF IsManual(transactions[k]) /\ CurrencyOf(k) = c
                             THEN Delta(transactions[k]) ELSE 0
            BY <1>1, <2>1 DEF Manual, Amounts
        <2>4. Flowing(c)[k] = IF CurrencyOf(k) = c /\ InFlow(transactions[k])
                              THEN Delta(transactions[k]) ELSE 0
            BY DEF Flowing
        <2>5. Posted(c)[k] = IF CurrencyOf(k) = c /\ AffectsBalance(transactions[k])
                             THEN Delta(transactions[k]) ELSE 0
            BY DEF Posted
        <2>6. Unexplained(c)[k] = IF CurrencyOf(k) = c /\ Unreported(transactions[k])
                                  THEN Delta(transactions[k]) ELSE 0
            BY DEF Unexplained
        <2>7. w[k] = Flowing(c)[k] + Manual(c)[k] /\ Delta(transactions[k]) \in Int
            BY <1>1, <1>2
        <2> HIDE DEF w
        <2> QED BY <2>1, <2>2, <2>3, <2>4, <2>5, <2>6, <2>7 DEF Unreported
    <1> HIDE DEF w, N
    <1>4. /\ SumTo(w, N) = SumTo(Flowing(c), N) + SumTo(Manual(c), N)
          /\ SumTo(Flowing(c), N) \in Int /\ SumTo(Manual(c), N) \in Int
        BY <1>1, <1>2, SumsAdd
    <1>5. SumTo(Posted(c), N) = SumTo(w, N) + SumTo(Unexplained(c), N) /\ SumTo(Unexplained(c), N) \in Int
        BY <1>1, <1>2, <1>3, SumsAdd
    <1> QED BY <1>4, <1>5 DEF N

\* The reports of net worth and of cash flow agree in every currency, in every reachable state.
THEOREM FlowExplained == Spec => []FlowExplainsNetWorth
    <1>1. TypeOK /\ FlowInv => FlowExplainsNetWorth
        <2> SUFFICES ASSUME TypeOK, FlowInv, NEW c \in Currency
                     PROVE  NetWorth[c] + ArchivedWorth(c) = NetFlow(c) + Moved(c) + ManualTotal(c)
            BY DEF FlowExplainsNetWorth
        <2> DEFINE N == Len(transactions)
        <2>1. NetWorth[c] + ArchivedWorth(c) = SumTo(Posted(c), N)
            BY WorthIsPosted
        <2>2. NetFlow(c) = SumTo(Flowing(c), N)
            BY NetFlowIsFlowing
        <2>3. ManualTotal(c) = SumTo(Manual(c), N)
            BY DEF ManualTotal, Manual, SumOver
        <2>4. Moved(c) = SumTo(Unexplained(c), N)
            BY DEF FlowInv
        <2>5. /\ SumTo(Posted(c), N) = (SumTo(Flowing(c), N) + SumTo(Manual(c), N)) + SumTo(Unexplained(c), N)
              /\ SumTo(Flowing(c), N) \in Int /\ SumTo(Manual(c), N) \in Int
              /\ SumTo(Unexplained(c), N) \in Int
            BY PostedSplits
        <2> HIDE DEF N
        <2> QED BY <2>1, <2>2, <2>3, <2>4, <2>5
    <1> QED BY <1>1, FlowInvHolds, TypesHold, PTL

=============================================================================
