------------------------------- MODULE Ledger -------------------------------
(***************************************************************************)
(* The accounts, transactions and transfers of CapitalFlow as concurrent   *)
(* requests see them.  A request is served by one goroutine: the service   *)
(* layer reads rows without a lock and validates them, the repository then *)
(* opens a READ COMMITTED database transaction, takes row locks, checks    *)
(* again what it checks, writes and commits.  Each of these stages is an   *)
(* action; what two statements of one stage read while the rows they read  *)
(* are locked is one action.  A database transaction's writes become       *)
(* visible in its Commit action; a failure before it leaves no trace.      *)
(*                                                                         *)
(* Amounts are integers in units of the finest currency step; Unit[c] is   *)
(* the number of those steps in one minor unit of currency c.  Row ids are *)
(* positions in the sequences transactions and transfers.  A row that      *)
(* belongs to another user answers "not found", as an absent one does.     *)
(***************************************************************************)
EXTENDS Sums, Sequences, FiniteSets

CONSTANTS
    Proc,            \* requests in flight at the same time
    AccountId,       \* account ids: positive naturals, their order is the lock order
    Currency,        \* account currencies
    Unit,            \* Unit[c]: the amount of one minor unit of c (10^-scale)
    Rate,            \* exchange rates <<n, d>> the provider may answer between two currencies
    Day,             \* calendar days (naturals)
    Today,           \* the day the server's clock shows
    Label,           \* values of an account's descriptive columns (name, bank, type)
    Key,             \* idempotency keys of transfer requests
    MaxAmount,       \* the largest amount a transaction may have
    NoAccount,       \* the value of an account row that does not exist
    InitialAccount,  \* the account rows that exist at the start
    Offered,         \* the requests clients send
    MaxRequests      \* bound: how many requests are started in a behaviour

None == 0

TransactionType == {"initial_balance", "income", "expense", "transfer_in",
                    "transfer_out", "interest_income", "adjustment"}
TransactionStatus == {"confirmed", "reversed", "cancelled", "soft_deleted"}
TransactionSource == {"manual", "transfer", "reconciliation_adjustment"}
Column == {"label", "currency", "active", "opened"}

AccountRow == [label : Label, currency : Currency, active : BOOLEAN, opened : Day]

TransactionRow ==
    [account : AccountId, related : AccountId \union {None}, type : TransactionType,
     amount : Int, status : TransactionStatus, source : TransactionSource,
     ref : Nat, transfer : Nat, date : Day]

TransferRow ==
    [from : AccountId, to : AccountId, fromAmount : Int, toAmount : Int,
     fromCurrency : Currency, toCurrency : Currency, fee : Int, key : Key,
     fromTx : Nat, toTx : Nat, feeTx : Nat]

CreateRequest ==
    [kind : {"create"}, account : AccountId, related : AccountId \union {None},
     type : TransactionType, amount : Int, date : Day]
TransferRequest ==
    [kind : {"transfer"}, from : AccountId, to : AccountId, amount : Int, fee : Int, key : Key]
LifecycleRequest == [kind : {"cancel", "soft_delete", "reverse"}, tx : Nat]
UpdateRequest ==
    [kind : {"update"}, account : AccountId, set : SUBSET Column, row : AccountRow]
ArchiveRequest == [kind : {"archive"}, account : AccountId]
OpenRequest == [kind : {"open"}, account : AccountId, row : AccountRow]

EventType == {"account.created", "account.updated", "account.archived", "transfer.created",
              "transaction.created", "transaction.cancelled", "transaction.soft_deleted",
              "transaction.reversed"}

\* The audit_events of one row: each has the row before and after the change.
AuditLog(Row) == Seq([type : EventType, before : Row \union {NoAccount}, after : Row])

\* What a request carries from its unlocked reads to its writes.
Draft == TransactionRow \union TransferRow \union AccountRow \union {NoAccount}

Request == CreateRequest \union TransferRequest \union LifecycleRequest
             \union UpdateRequest \union ArchiveRequest \union OpenRequest

ASSUME ConstantsAssumption ==
    /\ AccountId \subseteq Nat \ {None}
    /\ Unit \in [Currency -> Nat \ {0}]
    /\ Rate \subseteq (Nat \ {0}) \X (Nat \ {0})
    /\ Day \subseteq Nat /\ Today \in Day
    /\ MaxAmount \in Nat
    /\ NoAccount \notin AccountRow
    /\ InitialAccount \in [AccountId -> AccountRow \union {NoAccount}]
    /\ \A a \in AccountId : InitialAccount[a] # NoAccount => InitialAccount[a].active
    /\ Offered \subseteq Request
    /\ MaxRequests \in Nat

\* A server runs finitely many requests at a time.
ASSUME ProcAssumption == IsFiniteSet(Proc)

VARIABLES
    accounts,         \* table accounts
    transactions,     \* table transactions, in commit order
    transfers,        \* table transfers, in commit order
    accountAudit,     \* audit_events of each account, in commit order
    transactionAudit, \* audit_events of each transaction
    transferAudit,    \* audit_events of each transfer
    pc,               \* the stage a request is in
    req,              \* the request
    draft,            \* what the request has built from the rows it read unlocked
    held,             \* account rows locked FOR UPDATE by the request
    shared,           \* account rows it holds FOR KEY SHARE (foreign keys of its inserts)
    row,              \* the transaction row it has locked FOR UPDATE, or None
    started           \* requests started so far

tables == <<accounts, transactions, transfers, accountAudit, transactionAudit, transferAudit>>
local == <<pc, req, draft, held, shared, row>>
vars == <<accounts, transactions, transfers, accountAudit, transactionAudit, transferAudit,
          pc, req, draft, held, shared, row, started>>

-----------------------------------------------------------------------------
(* Amounts and validation. *)

\* pkg/money: an amount has no more decimals than its currency.
HasCurrencyScale(amount, c) == amount % Unit[c] = 0

\* decimal.Round: n/d in steps of one minor unit of c, halves away from zero (n >= 0).
RoundForCurrency(n, d, c) == ((2 * n + d * Unit[c]) \div (2 * d * Unit[c])) * Unit[c]

IsTransferType(type) == type \in {"transfer_in", "transfer_out"}

\* What a transaction adds to its account.
Delta(tx) ==
    CASE tx.type \in {"initial_balance", "income", "transfer_in", "interest_income", "adjustment"}
           -> tx.amount
      [] OTHER -> -tx.amount

AffectsBalance(tx) == tx.status \in {"confirmed", "reversed"}

\* domain/transaction.ValidateCreate, without the rule on transfer types.
ValidateCreate(type, amount, c, date, opened) ==
    /\ amount # 0
    /\ amount <= MaxAmount /\ amount >= -MaxAmount
    /\ HasCurrencyScale(amount, c)
    /\ type # "adjustment" => amount > 0
    /\ date <= Today
    /\ date >= opened

\* What each row adds to the balance of account a.
BalanceChanges(a) ==
    [n \in 1..Len(transactions) |->
        IF transactions[n].account = a /\ AffectsBalance(transactions[n])
        THEN Delta(transactions[n]) ELSE 0]

\* The SUM query of the repository over the committed rows.
transferSourceBalance(a) == SumTo(BalanceChanges(a), Len(transactions))

Exists(a) == accounts[a] # NoAccount

-----------------------------------------------------------------------------
(* Row locks.  FOR UPDATE conflicts with FOR UPDATE and FOR KEY SHARE.      *)

\* The account rows a request locks FOR UPDATE.
LockSet(r) ==
    CASE r.kind = "create" -> {r.account, r.related} \ {None}
      [] r.kind = "transfer" -> {r.from, r.to}
      [] r.kind \in {"update", "archive"} -> {r.account}
      [] OTHER -> {}

\* Mutant: rows locked in the order the request names them.
NextLockAsNamed(p) ==
    IF req[p].kind = "transfer" /\ req[p].from \notin held[p] THEN req[p].from
    ELSE CHOOSE a \in LockSet(req[p]) \ held[p] : TRUE

\* ORDER BY id: the lowest row not locked yet.
NextLock(p) ==
    CHOOSE a \in LockSet(req[p]) \ held[p] : \A b \in LockSet(req[p]) \ held[p] : a <= b

\* The account rows the reversal inserted by p refers to: account_id, then related_account_id.
NextReference(p) ==
    IF draft[p].account \notin shared[p] THEN draft[p].account ELSE draft[p].related

ReferencesHeld(p) == {draft[p].account, draft[p].related} \ {None} \subseteq shared[p]

IsLifecycle(r) == r.kind \in {"cancel", "soft_delete", "reverse"}

\* Requests q that must finish before p can take its next step.
BlockedBy(p) ==
    CASE pc[p] = "lock" /\ ~IsLifecycle(req[p])
           -> {q \in Proc \ {p} : NextLock(p) \in held[q] \union shared[q]}
      [] pc[p] = "lock" /\ IsLifecycle(req[p])
           -> {q \in Proc \ {p} : row[q] = req[p].tx}
      [] pc[p] = "locked" /\ req[p].kind = "reverse" /\ ~ReferencesHeld(p)
           -> {q \in Proc \ {p} : NextReference(p) \in held[q]}
      [] OTHER -> {}

\* A request is deadlocked when it waits within a set whose members all wait for each other.
Deadlocked(p) == \E S \in SUBSET Proc : p \in S /\ \A q \in S : BlockedBy(q) \intersect S # {}

-----------------------------------------------------------------------------
(* Starting and finishing a request. *)

Idle(p) == pc[p] = "idle" /\ started < MaxRequests

Start(p, r, d) ==
    /\ pc' = [pc EXCEPT ![p] = "lock"]
    /\ req' = [req EXCEPT ![p] = r]
    /\ draft' = [draft EXCEPT ![p] = d]
    /\ started' = started + 1
    /\ UNCHANGED <<held, shared, row>>
    /\ UNCHANGED tables

\* Mutant: the database transaction of a reversal is left open when its handler returns.
FinishLeavesOpen(p) ==
    /\ pc' = [pc EXCEPT ![p] = "idle"]
    /\ req' = [req EXCEPT ![p] = NoAccount]
    /\ draft' = [draft EXCEPT ![p] = NoAccount]
    /\ held' = [held EXCEPT ![p] = {}]
    /\ row' = [row EXCEPT ![p] = None]
    /\ UNCHANGED <<shared, started>>

\* COMMIT or ROLLBACK: the request's locks are released and its handler returns.
Finish(p) ==
    /\ pc' = [pc EXCEPT ![p] = "idle"]
    /\ req' = [req EXCEPT ![p] = NoAccount]
    /\ draft' = [draft EXCEPT ![p] = NoAccount]
    /\ held' = [held EXCEPT ![p] = {}]
    /\ shared' = [shared EXCEPT ![p] = {}]
    /\ row' = [row EXCEPT ![p] = None]
    /\ UNCHANGED started

\* An error return of the handler after its database transaction began.
Reject(p) == Finish(p) /\ UNCHANGED tables

Advance(p, stage) ==
    /\ pc' = [pc EXCEPT ![p] = stage]
    /\ UNCHANGED <<req, draft, held, shared, row, started>>
    /\ UNCHANGED tables

Event(type, before, after) == [type |-> type, before |-> before, after |-> after]

-----------------------------------------------------------------------------
(* Transactions. *)

\* resolveCreateRequest: both accounts are the user's.
Resolves(r) == Exists(r.account) /\ (r.related # None => Exists(r.related))

buildTransaction(r) ==
    [account |-> r.account, related |-> r.related, type |-> r.type, amount |-> r.amount,
     status |-> "confirmed", source |-> "manual", ref |-> 0, transfer |-> 0, date |-> r.date]

\* CreateForUser: resolve and validate against the account row as it is now, unlocked.
SubmitCreate(p, r) ==
    /\ Idle(p) /\ r.kind = "create"
    /\ Resolves(r)
    /\ ~IsTransferType(r.type)
    /\ ValidateCreate(r.type, r.amount, accounts[r.account].currency, r.date,
                      accounts[r.account].opened)
    /\ Start(p, r, buildTransaction(r))

\* SELECT ... ORDER BY id FOR UPDATE, one row at a time.
LockAccount(p) ==
    /\ pc[p] = "lock" /\ ~IsLifecycle(req[p])
    /\ BlockedBy(p) = {}
    /\ held' = [held EXCEPT ![p] = @ \union {NextLock(p)}]
    /\ pc' = [pc EXCEPT ![p] = IF LockSet(req[p]) \subseteq held'[p] THEN "locked" ELSE "lock"]
    /\ UNCHANGED <<req, draft, shared, row, started>>
    /\ UNCHANGED tables

LockedRowsAccept(p) ==
    /\ \A a \in held[p] : accounts[a].active
    /\ \A a \in held[p] : draft[p].date >= accounts[a].opened

CommitCreate(p) ==
    /\ pc[p] = "locked" /\ req[p].kind = "create"
    /\ LockedRowsAccept(p)
    /\ transactions' = Append(transactions, draft[p])
    /\ transactionAudit' = Append(transactionAudit,
                                  <<Event("transaction.created", NoAccount, draft[p])>>)
    /\ Finish(p)
    /\ UNCHANGED <<accounts, transfers, accountAudit, transferAudit>>

RejectCreate(p) ==
    /\ pc[p] = "locked" /\ req[p].kind = "create"
    /\ ~LockedRowsAccept(p)
    /\ Reject(p)

-----------------------------------------------------------------------------
(* Transfers. *)

\* domain/transfer.ValidateCreate; the fee is in the source currency.
ValidTransfer(r, fromC) ==
    /\ r.from # r.to
    /\ r.amount > 0 /\ r.fee >= 0
    /\ HasCurrencyScale(r.amount, fromC) /\ HasCurrencyScale(r.fee, fromC)

\* ConvertDecimalAmount at the rate the provider answers, rounded to the target currency.
ConvertedAmount(amount, rate, fromC, toC) ==
    IF fromC = toC THEN amount ELSE RoundForCurrency(amount * rate[1], rate[2], toC)

\* TransferService.Create: currencies, validation and the converted amount from unlocked rows.
SubmitTransfer(p, r) ==
    /\ Idle(p) /\ r.kind = "transfer"
    /\ Exists(r.from) /\ Exists(r.to)
    /\ \E rate \in Rate :
         LET fromC == accounts[r.from].currency
             toC == accounts[r.to].currency
             toAmount == ConvertedAmount(r.amount, rate, fromC, toC)
         IN /\ ValidTransfer(r, fromC)
            /\ toAmount > 0
            /\ r.amount <= MaxAmount /\ toAmount <= MaxAmount /\ r.fee <= MaxAmount
            /\ Start(p, r, [from |-> r.from, to |-> r.to, fromAmount |-> r.amount,
                            toAmount |-> toAmount, fromCurrency |-> fromC, toCurrency |-> toC,
                            fee |-> r.fee, key |-> r.key, fromTx |-> 0, toTx |-> 0, feeTx |-> 0])

TransferAccountsAccept(p) ==
    /\ \A a \in held[p] : accounts[a].active /\ Today >= accounts[a].opened
    /\ accounts[draft[p].from].currency = draft[p].fromCurrency
    /\ accounts[draft[p].to].currency = draft[p].toCurrency

\* Mutant: the fee is left out of the balance check.
CheckTransferWithoutFee(p) ==
    /\ pc[p] = "locked" /\ req[p].kind = "transfer"
    /\ TransferAccountsAccept(p)
    /\ transferSourceBalance(draft[p].from) >= draft[p].fromAmount
    /\ Advance(p, "write")

\* Both locked rows are checked, then the source balance is summed by a query of its own.
CheckTransfer(p) ==
    /\ pc[p] = "locked" /\ req[p].kind = "transfer"
    /\ TransferAccountsAccept(p)
    /\ transferSourceBalance(draft[p].from) >= draft[p].fromAmount + draft[p].fee
    /\ Advance(p, "write")

RejectTransfer(p) ==
    /\ pc[p] = "locked" /\ req[p].kind = "transfer"
    /\ \/ ~TransferAccountsAccept(p)
       \/ transferSourceBalance(draft[p].from) < draft[p].fromAmount + draft[p].fee
    /\ Reject(p)

\* Mutant: no unique index on the key.
KeyNeverUsed(k) == FALSE

KeyUsed(k) == \E i \in DOMAIN transfers : transfers[i].key = k

\* The two legs and the fee row of the transfer with id tid, written after n rows.
TransferLeg(d, tid, type) ==
    [account |-> IF type = "transfer_out" THEN d.from ELSE d.to,
     related |-> IF type = "transfer_out" THEN d.to ELSE d.from,
     type |-> type,
     amount |-> IF type = "transfer_out" THEN d.fromAmount ELSE d.toAmount,
     status |-> "confirmed", source |-> "transfer", ref |-> tid, transfer |-> tid, date |-> Today]

FeeRow(d, tid) ==
    [account |-> d.from, related |-> None, type |-> "expense", amount |-> d.fee,
     status |-> "confirmed", source |-> "transfer", ref |-> tid, transfer |-> 0, date |-> Today]

TransferRows(d, tid) ==
    IF d.fee > 0
    THEN <<TransferLeg(d, tid, "transfer_out"), TransferLeg(d, tid, "transfer_in"), FeeRow(d, tid)>>
    ELSE <<TransferLeg(d, tid, "transfer_out"), TransferLeg(d, tid, "transfer_in")>>

CommitTransfer(p) ==
    LET n == Len(transactions)
        tid == Len(transfers) + 1
        d == draft[p]
        tr == [d EXCEPT !.fromTx = n + 1, !.toTx = n + 2,
                        !.feeTx = IF d.fee > 0 THEN n + 3 ELSE 0]
    IN /\ pc[p] = "write" /\ req[p].kind = "transfer"
       /\ ~KeyUsed(d.key)
       /\ transfers' = Append(transfers, tr)
       /\ transactions' = transactions \o TransferRows(d, tid)
       /\ transactionAudit' = transactionAudit \o
                                (IF d.fee > 0 THEN << <<>>, <<>>, <<>> >> ELSE << <<>>, <<>> >>)
       /\ transferAudit' = Append(transferAudit, <<Event("transfer.created", NoAccount, tr)>>)
       /\ Finish(p)
       /\ UNCHANGED <<accounts, accountAudit>>

\* The unique index on (user_id, idempotency_key).
RejectDuplicateKey(p) ==
    /\ pc[p] = "write" /\ req[p].kind = "transfer"
    /\ KeyUsed(draft[p].key)
    /\ Reject(p)

-----------------------------------------------------------------------------
(* Cancelling, soft-deleting and reversing a transaction. *)

IsManualLifecycle(tx) == tx.source = "manual" /\ tx.transfer = 0

\* CancelForUser and SoftDeleteForUser go straight to the repository.
SubmitStatusChange(p, r) ==
    /\ Idle(p) /\ r.kind \in {"cancel", "soft_delete"}
    /\ r.tx \in DOMAIN transactions
    /\ Start(p, r, NoAccount)

\* The adjustment that undoes transaction t.
Reversal(t) ==
    [account |-> transactions[t].account, related |-> transactions[t].related,
     type |-> "adjustment", amount |-> -Delta(transactions[t]), status |-> "confirmed",
     source |-> "reconciliation_adjustment", ref |-> t, transfer |-> 0, date |-> Today]

\* ReverseForUser builds the reversal from an unlocked read of the original.
SubmitReverse(p, r) ==
    /\ Idle(p) /\ r.kind = "reverse"
    /\ r.tx \in DOMAIN transactions
    /\ transactions[r.tx].status = "confirmed"
    /\ IsManualLifecycle(transactions[r.tx])
    /\ Start(p, r, Reversal(r.tx))

\* Mutant: the status is not read again under the lock.
LifecycleAcceptsStale(t) == IsManualLifecycle(transactions[t])

LifecycleAccepts(t) ==
    /\ IsManualLifecycle(transactions[t])
    /\ transactions[t].status = "confirmed"

\* Mutant: the row is read without FOR UPDATE.
LockTransactionUnlocked(p) ==
    /\ pc[p] = "lock" /\ IsLifecycle(req[p])
    /\ LifecycleAccepts(req[p].tx)
    /\ row' = [row EXCEPT ![p] = req[p].tx]
    /\ pc' = [pc EXCEPT ![p] = "locked"]
    /\ UNCHANGED <<req, draft, held, shared, started>>
    /\ UNCHANGED tables

\* lockManualLifecycleTransactionForUser and the status check that follows it.
LockTransaction(p) ==
    /\ pc[p] = "lock" /\ IsLifecycle(req[p])
    /\ BlockedBy(p) = {}
    /\ LifecycleAccepts(req[p].tx)
    /\ row' = [row EXCEPT ![p] = req[p].tx]
    /\ pc' = [pc EXCEPT ![p] = "locked"]
    /\ UNCHANGED <<req, draft, held, shared, started>>
    /\ UNCHANGED tables

RejectLifecycle(p) ==
    /\ pc[p] = "lock" /\ IsLifecycle(req[p])
    /\ BlockedBy(p) = {}
    /\ ~LifecycleAccepts(req[p].tx)
    /\ Reject(p)

StatusEvent(status) ==
    CASE status = "cancelled" -> "transaction.cancelled"
      [] status = "soft_deleted" -> "transaction.soft_deleted"
      [] OTHER -> "transaction.reversed"

SetStatus(txs, t, status) == [txs EXCEPT ![t].status = status]

\* Mutant: a status change writes no audit event.
AuditStatusSkipped(t, status) == transactionAudit

AuditStatus(t, status) ==
    [transactionAudit EXCEPT ![t] =
        Append(@, Event(StatusEvent(status), transactions[t],
                        [transactions[t] EXCEPT !.status = status]))]

CommitStatusChange(p) ==
    LET status == IF req[p].kind = "cancel" THEN "cancelled" ELSE "soft_deleted"
    IN /\ pc[p] = "locked" /\ req[p].kind \in {"cancel", "soft_delete"}
       /\ transactions' = SetStatus(transactions, row[p], status)
       /\ transactionAudit' = AuditStatus(row[p], status)
       /\ Finish(p)
       /\ UNCHANGED <<accounts, transfers, accountAudit, transferAudit>>

\* The foreign keys of the inserted reversal take FOR KEY SHARE, account_id first.
ReferenceAccount(p) ==
    /\ pc[p] = "locked" /\ req[p].kind = "reverse"
    /\ ~ReferencesHeld(p)
    /\ BlockedBy(p) = {}
    /\ shared' = [shared EXCEPT ![p] = @ \union {NextReference(p)}]
    /\ UNCHANGED <<pc, req, draft, held, row, started>>
    /\ UNCHANGED tables

CommitReverse(p) ==
    /\ pc[p] = "locked" /\ req[p].kind = "reverse"
    /\ ReferencesHeld(p)
    /\ transactions' = Append(SetStatus(transactions, row[p], "reversed"), draft[p])
    /\ transactionAudit' = Append(AuditStatus(row[p], "reversed"),
                                  <<Event("transaction.created", NoAccount, draft[p])>>)
    /\ Finish(p)
    /\ UNCHANGED <<accounts, transfers, accountAudit, transferAudit>>

-----------------------------------------------------------------------------
(* Accounts. *)

\* AccountRepository.Create: the row and its audit event in one database transaction.
OpenAccount(p, r) ==
    /\ Idle(p) /\ r.kind = "open"
    /\ ~Exists(r.account)
    /\ LET new == [r.row EXCEPT !.active = TRUE]
       IN /\ accounts' = [accounts EXCEPT ![r.account] = new]
          /\ accountAudit' = [accountAudit EXCEPT ![r.account] =
                                Append(@, Event("account.created", NoAccount, new))]
    /\ started' = started + 1
    /\ UNCHANGED <<transactions, transfers, transactionAudit, transferAudit>>
    /\ UNCHANGED local

\* The columns in set come from the request, the others from the row read.
Patch(before, set, new) ==
    [label |-> IF "label" \in set THEN new.label ELSE before.label,
     currency |-> IF "currency" \in set THEN new.currency ELSE before.currency,
     active |-> IF "active" \in set THEN new.active ELSE before.active,
     opened |-> IF "opened" \in set THEN new.opened ELSE before.opened]

\* UpdateForUser patches the row as an unlocked read returned it.
SubmitUpdate(p, r) ==
    /\ Idle(p) /\ r.kind = "update"
    /\ Exists(r.account)
    /\ Start(p, r, Patch(accounts[r.account], r.set, r.row))

HasTransactions(a) == \E i \in DOMAIN transactions : transactions[i].account = a

\* Mutant: the existing transactions are not looked for.
CurrencyInvariantAssumed(p) == TRUE

CurrencyInvariantHolds(p) ==
    accounts[req[p].account].currency # draft[p].currency => ~HasTransactions(req[p].account)

WriteAccount(a, type, new) ==
    /\ accounts' = [accounts EXCEPT ![a] = new]
    /\ accountAudit' = [accountAudit EXCEPT ![a] = Append(@, Event(type, accounts[a], new))]
    /\ UNCHANGED <<transactions, transfers, transactionAudit, transferAudit>>

\* UpdateForUserEnforcingCurrencyInvariant writes every column of the patched row.
CommitUpdate(p) ==
    /\ pc[p] = "locked" /\ req[p].kind = "update"
    /\ CurrencyInvariantHolds(p)
    /\ WriteAccount(req[p].account, "account.updated", draft[p])
    /\ Finish(p)

RejectUpdate(p) ==
    /\ pc[p] = "locked" /\ req[p].kind = "update"
    /\ ~CurrencyInvariantHolds(p)
    /\ Reject(p)

SubmitArchive(p, r) ==
    /\ Idle(p) /\ r.kind = "archive"
    /\ Exists(r.account)
    /\ Start(p, r, NoAccount)

CommitArchive(p) ==
    /\ pc[p] = "locked" /\ req[p].kind = "archive"
    /\ WriteAccount(req[p].account, "account.archived",
                    [accounts[req[p].account] EXCEPT !.active = FALSE])
    /\ Finish(p)

-----------------------------------------------------------------------------
(* Failures. *)

\* The client goes away, the connection is lost or the server stops: ROLLBACK.
Abort(p) == pc[p] # "idle" /\ Reject(p)

\* PostgreSQL ends a lock cycle by aborting one of its members.
DeadlockVictim(p) == Deadlocked(p) /\ Reject(p)

-----------------------------------------------------------------------------
Init ==
    /\ accounts = InitialAccount
    /\ transactions = <<>>
    /\ transfers = <<>>
    /\ accountAudit = [a \in AccountId |->
                         IF InitialAccount[a] = NoAccount THEN <<>>
                         ELSE <<Event("account.created", NoAccount, InitialAccount[a])>>]
    /\ transactionAudit = <<>>
    /\ transferAudit = <<>>
    /\ pc = [p \in Proc |-> "idle"]
    /\ req = [p \in Proc |-> NoAccount]
    /\ draft = [p \in Proc |-> NoAccount]
    /\ held = [p \in Proc |-> {}]
    /\ shared = [p \in Proc |-> {}]
    /\ row = [p \in Proc |-> None]
    /\ started = 0

Submit(p, r) ==
    \/ SubmitCreate(p, r)
    \/ SubmitTransfer(p, r)
    \/ SubmitStatusChange(p, r)
    \/ SubmitReverse(p, r)
    \/ OpenAccount(p, r)
    \/ SubmitUpdate(p, r)
    \/ SubmitArchive(p, r)

\* Waiting for a row lock.
Acquire(p) ==
    \/ LockAccount(p)
    \/ LockTransaction(p)
    \/ RejectLifecycle(p)
    \/ ReferenceAccount(p)

\* Running without a wait.
Proceed(p) ==
    \/ CommitCreate(p)
    \/ RejectCreate(p)
    \/ CheckTransfer(p)
    \/ RejectTransfer(p)
    \/ CommitTransfer(p)
    \/ RejectDuplicateKey(p)
    \/ CommitStatusChange(p)
    \/ CommitReverse(p)
    \/ CommitUpdate(p)
    \/ RejectUpdate(p)
    \/ CommitArchive(p)

Next ==
    \E p \in Proc :
        \/ \E r \in Offered : Submit(p, r)
        \/ Acquire(p)
        \/ Proceed(p)
        \/ Abort(p)
        \/ DeadlockVictim(p)

Spec == Init /\ [][Next]_vars

\* PostgreSQL queues lock waiters and detects deadlocks; a running handler runs on.
Fairness ==
    \A p \in Proc :
        /\ SF_vars(Acquire(p))
        /\ WF_vars(Proceed(p))
        /\ SF_vars(DeadlockVictim(p))

FairSpec == Spec /\ Fairness

-----------------------------------------------------------------------------
(* Types. *)

\* Every table and every request in flight has the shape its columns allow.
TypeOK ==
    /\ accounts \in [AccountId -> AccountRow \union {NoAccount}]
    /\ transactions \in Seq(TransactionRow)
    /\ transfers \in Seq(TransferRow)
    /\ accountAudit \in [AccountId -> AuditLog(AccountRow)]
    /\ transactionAudit \in Seq(AuditLog(TransactionRow))
    /\ transferAudit \in Seq(AuditLog(TransferRow))
    /\ Len(transactionAudit) = Len(transactions)
    /\ Len(transferAudit) = Len(transfers)
    /\ pc \in [Proc -> {"idle", "lock", "locked", "write"}]
    /\ req \in [Proc -> Offered \union {NoAccount}]
    /\ draft \in [Proc -> Draft]
    /\ held \in [Proc -> SUBSET AccountId]
    /\ shared \in [Proc -> SUBSET AccountId]
    /\ row \in [Proc -> Nat]
    /\ started \in Nat

-----------------------------------------------------------------------------
(* Safety. *)

\* The rows of transfer i: two legs that mirror it, a fee row when it has a fee, and accounts
\* that still have the currencies of its amounts.
TransferIntact(i) ==
    LET tr == transfers[i]
    IN /\ {n \in DOMAIN transactions : transactions[n].transfer = i} = {tr.fromTx, tr.toTx}
       /\ tr.fromTx # tr.toTx /\ tr.from # tr.to
       /\ LET out == transactions[tr.fromTx]
              in == transactions[tr.toTx]
          IN /\ out.type = "transfer_out" /\ in.type = "transfer_in"
             /\ out.account = tr.from /\ in.account = tr.to
             /\ out.related = tr.to /\ in.related = tr.from
             /\ out.amount = tr.fromAmount /\ in.amount = tr.toAmount
             /\ out.status = "confirmed" /\ in.status = "confirmed"
       /\ IF tr.fee > 0
          THEN /\ tr.feeTx \in DOMAIN transactions
               /\ transactions[tr.feeTx].type = "expense"
               /\ transactions[tr.feeTx].account = tr.from
               /\ transactions[tr.feeTx].amount = tr.fee
               /\ transactions[tr.feeTx].status = "confirmed"
          ELSE tr.feeTx = 0
       /\ accounts[tr.from] # NoAccount /\ accounts[tr.from].currency = tr.fromCurrency
       /\ accounts[tr.to] # NoAccount /\ accounts[tr.to].currency = tr.toCurrency

\* What validate_transfer_integrity checks, for ever: each transfer has exactly two legs
\* that mirror it, a fee row when it has a fee, and the currencies its accounts still have.
\* No cancellation, reversal or currency change ever touches a part of a transfer.
TransferIntegrity == \A i \in DOMAIN transfers : TransferIntact(i)

\* What each row, and each transfer, ever credited to account a or drew from it.
Credits(a) ==
    [n \in 1..Len(transactions) |->
        IF transactions[n].account = a /\ Delta(transactions[n]) > 0
        THEN Delta(transactions[n]) ELSE 0]

Draws(a) ==
    [i \in 1..Len(transfers) |->
        IF transfers[i].from = a THEN transfers[i].fromAmount + transfers[i].fee ELSE 0]

EverCredited(a) == SumTo(Credits(a), Len(transactions))

TransferredOut(a) == SumTo(Draws(a), Len(transfers))

\* Transfers alone never overdraw an account: whatever expenses and cancellations do, the
\* transfers out of an account, fees included, never exceed what was ever credited to it.
\* Two transfers that both saw the same balance would break it.
TransfersNeverOverdraw == \A a \in AccountId : TransferredOut(a) <= EverCredited(a)

ReversalsOf(n) ==
    {m \in DOMAIN transactions :
        transactions[m].source = "reconciliation_adjustment" /\ transactions[m].ref = n}

\* Transaction n is reversed by exactly one adjustment that undoes it, or not at all.
UndoneOnce(n) ==
    IF transactions[n].status = "reversed"
    THEN \E m \in DOMAIN transactions :
           /\ ReversalsOf(n) = {m}
           /\ transactions[m].account = transactions[n].account
           /\ transactions[m].status = "confirmed"
           /\ Delta(transactions[m]) + Delta(transactions[n]) = 0
    ELSE ReversalsOf(n) = {}

\* A transaction is marked reversed together with exactly one adjustment that undoes it, and
\* no adjustment exists for a transaction that is not: racing reversals and cancellations
\* can neither undo a transaction twice nor undo one whose effect is already gone.
ReversedOnce == \A n \in DOMAIN transactions : UndoneOnce(n)

\* Consecutive audit events join: each one's "before" is "after" of the one before it.
Chained(log) == \A i \in 1..Len(log) - 1 : log[i].after = log[i + 1].before

\* The events of one row lead from its creation to the row as it is now.
Replays(log, now) ==
    /\ log # <<>> /\ Chained(log)
    /\ log[1].before = NoAccount /\ log[Len(log)].after = now

\* The audit trail replays to the tables: no writer's "before" summary is stale, no change is
\* missing and the last "after" summary is the row itself, however updates interleave.
AuditReplays ==
    /\ \A a \in AccountId :
         IF accounts[a] = NoAccount THEN accountAudit[a] = <<>>
         ELSE Replays(accountAudit[a], accounts[a])
    /\ \A n \in DOMAIN transactions :
         IF transactions[n].source = "transfer" THEN transactionAudit[n] = <<>>
         ELSE Replays(transactionAudit[n], transactions[n])
    /\ \A i \in DOMAIN transfers :
         Len(transferAudit[i]) = 1 /\ transferAudit[i][1].after = transfers[i]

\* Requests that lock accounts cannot deadlock each other, whichever way their transfers and
\* related accounts point: a set of requests that all wait for each other has a reversal in it,
\* whose foreign keys are locked in the order of its columns and not of the ids.
OnlyReversalsDeadlock ==
    \A S \in (SUBSET Proc) \ {{}} :
        (\A q \in S : BlockedBy(q) \intersect S # {}) => \E q \in S : req[q].kind = "reverse"

\* The tables are the abstract state; requests, locks, drafts and the audit trail are hidden.
Atomic == INSTANCE AtomicLedger
            WITH accounts <- accounts, transactions <- transactions, transfers <- transfers

\* The requests, with their unlocked reads, row locks and failures, together change the
\* tables only as AtomicLedger allows: every condition checked before a commit, under a lock
\* or not, still holds when the commit takes effect.
ImplementsAtomicLedger == Atomic!ASpec

\* Every request that began eventually returns, lock waits and deadlocks included.
RequestsReturn == \A p \in Proc : pc[p] # "idle" ~> pc[p] = "idle"

-----------------------------------------------------------------------------
(* The inductive invariant behind the theorems of LedgerProofs. *)

\* What a request in flight has built is of the kind it will write, and whatever of it was
\* read without a lock can no longer change.
DraftOK(p) ==
    /\ req[p] \in Offered
    /\ req[p].kind = "create" =>
         /\ draft[p] \in TransactionRow
         /\ draft[p].account = req[p].account /\ draft[p].related = req[p].related
         /\ draft[p].status = "confirmed" /\ draft[p].source = "manual"
         /\ draft[p].transfer = 0
         /\ ~IsTransferType(draft[p].type) /\ draft[p].amount # 0
         /\ draft[p].type # "adjustment" => draft[p].amount > 0
         /\ draft[p].date <= Today
    /\ req[p].kind = "transfer" =>
         /\ draft[p] \in TransferRow
         /\ draft[p].from = req[p].from /\ draft[p].to = req[p].to
         /\ draft[p].from # draft[p].to
         /\ draft[p].fromAmount > 0 /\ draft[p].toAmount > 0 /\ draft[p].fee >= 0
    /\ req[p].kind = "update" => draft[p] \in AccountRow
    /\ req[p].kind # "open"
    /\ IsLifecycle(req[p]) => req[p].tx \in DOMAIN transactions
    /\ req[p].kind = "reverse" =>
         /\ draft[p] \in TransactionRow
         /\ draft[p].account = transactions[req[p].tx].account
         /\ draft[p].status = "confirmed" /\ draft[p].source = "reconciliation_adjustment"
         /\ draft[p].ref = req[p].tx /\ draft[p].transfer = 0 /\ draft[p].type = "adjustment"
         /\ draft[p].date = Today
         /\ draft[p].amount = -Delta(transactions[req[p].tx])
    /\ \A a \in LockSet(req[p]) : Exists(a)

\* The locks a request holds at each stage, and what it may rely on while it holds them.
LocksOK(p) ==
    /\ held[p] \subseteq (IF pc[p] = "idle" THEN {} ELSE LockSet(req[p]))
    /\ (pc[p] = "lock" /\ ~IsLifecycle(req[p])) => ~(LockSet(req[p]) \subseteq held[p])
    /\ pc[p] \in {"locked", "write"} => held[p] = LockSet(req[p])
    /\ pc[p] = "write" => req[p].kind = "transfer" /\ TransferAccountsAccept(p)
    /\ row[p] # None => pc[p] = "locked" /\ IsLifecycle(req[p])
    /\ (pc[p] = "locked" /\ IsLifecycle(req[p])) =>
         row[p] = req[p].tx /\ LifecycleAccepts(row[p])

\* FOR UPDATE is exclusive on accounts and on transactions.
Exclusive ==
    \A p, q \in Proc :
        p # q => /\ held[p] \intersect held[q] = {}
                 /\ row[p] = row[q] => row[p] = None

LedgerInv ==
    /\ TypeOK
    /\ \A p \in Proc : pc[p] # "idle" => DraftOK(p)
    /\ \A p \in Proc : LocksOK(p)
    /\ Exclusive

\* A request locks accounts in the order of their ids, and only reversals hold FOR KEY SHARE.
LockOrder ==
    \A p \in Proc :
        /\ pc[p] = "lock" => \A a \in held[p] : \A b \in LockSet(req[p]) \ held[p] : a < b
        /\ shared[p] # {} => pc[p] = "locked" /\ req[p].kind = "reverse"

\* Rows refer to rows that exist, and the fee row of a transfer is nobody's to correct.
LinksOK ==
    /\ \A n \in DOMAIN transactions :
         /\ transactions[n].transfer <= Len(transfers)
         /\ transactions[n].source = "reconciliation_adjustment" =>
              transactions[n].ref \in DOMAIN transactions
    /\ \A i \in DOMAIN transfers :
         transfers[i].fee > 0 => transactions[transfers[i].feeTx].source = "transfer"

\* What the rows of transfers took from account a.
TransferDebits(a) ==
    [n \in 1..Len(transactions) |->
        IF /\ transactions[n].account = a /\ transactions[n].source = "transfer"
           /\ Delta(transactions[n]) < 0
        THEN -Delta(transactions[n]) ELSE 0]

\* The transfers out of an account are the debits its rows show, none of which is ever
\* withdrawn, and a transfer about to be written is covered together with the earlier ones.
CoverInv ==
    /\ \A n \in DOMAIN transactions :
         transactions[n].source = "transfer" => transactions[n].status = "confirmed"
    /\ \A a \in AccountId : TransferredOut(a) = SumTo(TransferDebits(a), Len(transactions))
    /\ TransfersNeverOverdraw
    /\ \A p \in Proc : pc[p] = "write" =>
         TransferredOut(draft[p].from) + draft[p].fromAmount + draft[p].fee
           <= EverCredited(draft[p].from)

\* What every event of AtomicLedger keeps of the transfers and the reversals.
EntriesInv == LinksOK /\ TransferIntegrity /\ ReversedOnce

-----------------------------------------------------------------------------
(* What the documentation says and the code does not do; see the README. *)

\* docs/architecture/invariants.md: "Financial writes to archived accounts are rejected."
ArchivedAccountsUntouched ==
    [][\A a \in AccountId :
         (accounts[a] # NoAccount /\ ~accounts[a].active /\ accounts'[a] = accounts[a]) =>
            {n \in DOMAIN transactions' : transactions'[n].account = a
                                         /\ (n \notin DOMAIN transactions
                                             \/ transactions'[n] # transactions[n])} = {}]_vars

\* docs/architecture/invariants.md: "Amount scale must match the account currency."
AmountScaleMatches ==
    \A n \in DOMAIN transactions :
        HasCurrencyScale(transactions[n].amount, accounts[transactions[n].account].currency)

=============================================================================
