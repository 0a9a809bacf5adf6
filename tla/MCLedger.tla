------------------------------ MODULE MCLedger ------------------------------
(* Small instances of Ledger: two accounts, a coarse and a fine currency, and the   *)
(* request sets of the scenarios the runs explore.                                   *)
EXTENDS Dashboard, TLC

MCUnit == [c \in Currency |-> IF c = "JPY" THEN 2 ELSE 1]
MCRate == {<<1, 2>>}
OpenRow(c) == [label |-> "old", currency |-> c, active |-> TRUE, opened |-> 1]
MCAccounts == [a \in AccountId |-> OpenRow("USD")]
MCMixedAccounts ==
    [a \in AccountId |->
        CASE a = 1 -> OpenRow("USD") [] a = 2 -> OpenRow("JPY") [] OTHER -> NoAccount]

Create(a, related, type, amount, date) ==
    [kind |-> "create", account |-> a, related |-> related, type |-> type,
     amount |-> amount, date |-> date]
Transfer(from, to, amount, fee, key) ==
    [kind |-> "transfer", from |-> from, to |-> to, amount |-> amount, fee |-> fee, key |-> key]
Lifecycle(kind, tx) == [kind |-> kind, tx |-> tx]
Update(a, set, new) == [kind |-> "update", account |-> a, set |-> set, row |-> new]
Archive(a) == [kind |-> "archive", account |-> a]

\* The three ways to withdraw a transaction, against each other and against the account.
LifecycleRequests ==
    {Create(1, 2, "income", 2, 1), Create(2, None, "expense", 2, 1), Archive(1)}
      \union {Lifecycle(k, t) : k \in {"cancel", "soft_delete", "reverse"}, t \in 1..3}

\* Postings and transfers over one balance, with a fee and a shared key, against withdrawals
\* and account maintenance.
LedgerRequests ==
    {Create(1, None, "income", 4, 1), Create(2, 1, "adjustment", -2, 1),
     Create(1, 2, "expense", 1, 2), Transfer(1, 2, 2, 1, "k1"), Transfer(1, 2, 4, 1, "k1"),
     Transfer(2, 1, 2, 0, "k2"), Update(1, {"currency"}, OpenRow("JPY")),
     Update(1, {"label"}, [OpenRow("USD") EXCEPT !.label = "new"]),
     Update(2, {"opened", "active"}, [OpenRow("JPY") EXCEPT !.opened = 2]), Archive(1),
     [kind |-> "open", account |-> 3, row |-> OpenRow("JPY")]}
      \union {Lifecycle(k, t) : k \in {"cancel", "soft_delete", "reverse"}, t \in {1, 2}}

\* A plain creation racing a currency change.
ScaleRequests ==
    {Create(1, None, "income", 1, 1), Update(1, {"currency"}, OpenRow("JPY")),
     Update(1, {"label"}, [OpenRow("USD") EXCEPT !.label = "new"])}
=============================================================================
