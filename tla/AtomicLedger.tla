---------------------------- MODULE AtomicLedger ----------------------------
(***************************************************************************)
(* What the ledger promises: every change of the three tables is one       *)
(* indivisible event, and the conditions an event needs hold in the very   *)
(* state it changes.  There are no requests, no locks and no stale reads   *)
(* here; Ledger is shown to implement this.                                *)
(***************************************************************************)
EXTENDS Integers, Sequences

CONSTANTS
    AccountId,       \* account ids
    Today,           \* the day of today's entries
    NoAccount,       \* the value of an account that was never opened
    InitialAccount   \* the accounts open at the start

VARIABLES accounts, transactions, transfers

avars == <<accounts, transactions, transfers>>

None == 0

\* An account accepts entries of a day when it exists, is active and was open on that day.
Accepts(a, date) == accounts[a] # NoAccount /\ accounts[a].active /\ accounts[a].opened <= date

\* The effect of an entry on its account.
Effect(tx) == IF tx.type \in {"expense", "transfer_out"} THEN -tx.amount ELSE tx.amount

Correctable(tx) == tx.source = "manual" /\ tx.transfer = 0 /\ tx.status = "confirmed"

NextTransaction == transactions'[Len(transactions) + 1]
NextTransfer == transfers'[Len(transfers) + 1]

-----------------------------------------------------------------------------
\* One entry is posted to accounts that accept it.
Post ==
    LET tx == NextTransaction
    IN /\ Len(transactions') = Len(transactions) + 1
       /\ transactions' = Append(transactions, tx)
       /\ tx.source = "manual" /\ tx.status = "confirmed" /\ tx.transfer = 0
       /\ tx.type \notin {"transfer_in", "transfer_out"}
       /\ tx.amount # 0 /\ (tx.type # "adjustment" => tx.amount > 0)
       /\ tx.date <= Today
       /\ \A a \in {tx.account, tx.related} \ {None} : Accepts(a, tx.date)
       /\ UNCHANGED <<accounts, transfers>>

\* The entries a transfer consists of.
Entry(account, related, type, amount, link, id) ==
    [account |-> account, related |-> related, type |-> type, amount |-> amount,
     status |-> "confirmed", source |-> "transfer", ref |-> id, transfer |-> link, date |-> Today]

Entries(tr, id) ==
    LET legs == <<Entry(tr.from, tr.to, "transfer_out", tr.fromAmount, id, id),
                  Entry(tr.to, tr.from, "transfer_in", tr.toAmount, id, id)>>
    IN IF tr.fee > 0
       THEN legs \o <<Entry(tr.from, None, "expense", tr.fee, 0, id)>>
       ELSE legs

\* Money moves between two accounts in their own currencies, all entries at once,
\* and at most once for a key.
Move ==
    LET tr == NextTransfer
        n == Len(transactions)
    IN /\ Len(transfers') = Len(transfers) + 1
       /\ transfers' = Append(transfers, tr)
       /\ transactions' = transactions \o Entries(tr, Len(transfers) + 1)
       /\ tr.fromTx = n + 1 /\ tr.toTx = n + 2
       /\ tr.feeTx = IF tr.fee > 0 THEN n + 3 ELSE 0
       /\ tr.from # tr.to
       /\ tr.fromAmount > 0 /\ tr.toAmount > 0 /\ tr.fee >= 0
       /\ Accepts(tr.from, Today) /\ Accepts(tr.to, Today)
       /\ accounts[tr.from].currency = tr.fromCurrency
       /\ accounts[tr.to].currency = tr.toCurrency
       /\ \A i \in DOMAIN transfers : transfers[i].key # tr.key
       /\ UNCHANGED accounts

\* A manual entry is withdrawn.
Withdraw ==
    \E t \in DOMAIN transactions, status \in {"cancelled", "soft_deleted"} :
        /\ Correctable(transactions[t])
        /\ transactions' = [transactions EXCEPT ![t].status = status]
        /\ UNCHANGED <<accounts, transfers>>

\* A manual entry is undone by a second entry of the opposite effect.
Undo ==
    \E t \in DOMAIN transactions :
        LET undo == NextTransaction
        IN /\ Correctable(transactions[t])
           /\ Len(transactions') = Len(transactions) + 1
           /\ transactions' = Append([transactions EXCEPT ![t].status = "reversed"], undo)
           /\ undo.source = "reconciliation_adjustment" /\ undo.ref = t
           /\ undo.type = "adjustment" /\ undo.status = "confirmed" /\ undo.transfer = 0
           /\ undo.date = Today
           /\ undo.account = transactions[t].account
           /\ Effect(undo) = -Effect(transactions[t])
           /\ UNCHANGED <<accounts, transfers>>

\* An account is opened, or amended in anything but the currency of its entries.
Amend ==
    \E a \in AccountId :
        /\ accounts' = [accounts EXCEPT ![a] = accounts'[a]]
        /\ accounts'[a] # NoAccount
        /\ accounts[a] = NoAccount \/ accounts[a].currency = accounts'[a].currency
             \/ \A n \in DOMAIN transactions : transactions[n].account # a
        /\ UNCHANGED <<transactions, transfers>>

-----------------------------------------------------------------------------
AInit == accounts = InitialAccount /\ transactions = <<>> /\ transfers = <<>>

ANext == Post \/ Move \/ Withdraw \/ Undo \/ Amend

ASpec == AInit /\ [][ANext]_avars
=============================================================================
