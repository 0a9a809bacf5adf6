----------------------------- MODULE Dashboard -----------------------------
(***************************************************************************)
(* The reports of the dashboard: queries over the tables of Ledger and the *)
(* aggregation of their rows.  They change nothing; each is a function of  *)
(* the tables in the state its query sees.  A Day of Ledger stands for a   *)
(* month, the period a transaction is counted in; months count from 1.     *)
(***************************************************************************)
EXTENDS Ledger

\* The months begin with 1, and the accounts table is finite.
ASSUME PeriodAssumption == 0 \notin Day
ASSUME AccountsAssumption == \E last \in AccountId : \A a \in AccountId : a <= last

LastAccount == CHOOSE last \in AccountId : \A a \in AccountId : a <= last

-----------------------------------------------------------------------------
(* Queries of the repository. *)

\* One row for each account, archived ones too: status IN ('confirmed', 'reversed').
AccountBalances ==
    [a \in {b \in AccountId : Exists(b)} |->
        [currency |-> accounts[a].currency, active |-> accounts[a].active,
         balance |-> transferSourceBalance(a)]]

FlowType == {"income", "expense", "interest_income"}

\* Mutant: as in AccountBalances, reversed rows count.
InFlowAffecting(tx) == tx.type \in FlowType /\ AffectsBalance(tx)

InFlow(tx) == tx.type \in FlowType /\ tx.status = "confirmed"

\* The currency that the account of row n has now.
CurrencyOf(n) == accounts[transactions[n].account].currency

Amounts == [n \in DOMAIN transactions |-> transactions[n].amount]

\* The rows of one group of the query, and what those of some types add up to.
FlowRows(period, c) ==
    {n \in DOMAIN transactions :
        InFlow(transactions[n]) /\ transactions[n].date = period /\ CurrencyOf(n) = c}

FlowTotal(period, c, types) ==
    SumOver({n \in FlowRows(period, c) : transactions[n].type \in types}, Amounts,
            Len(transactions))

\* GROUP BY month and currency: a row for each group that is not empty.
MonthlyFlow(from, to) ==
    [k \in {g \in (from..to) \X Currency : FlowRows(g[1], g[2]) # {}} |->
        [income |-> FlowTotal(k[1], k[2], {"income", "interest_income"}),
         expense |-> FlowTotal(k[1], k[2], {"expense"})]]

-----------------------------------------------------------------------------
(* Reports of the service. *)

\* The balance of the active accounts of each currency.
BuildDashboardNetWorth(balances) ==
    [c \in Currency |->
        SumOver({a \in DOMAIN balances : balances[a].active /\ balances[a].currency = c},
                [a \in DOMAIN balances |-> balances[a].balance], LastAccount)]

\* The last months, the current one included.
Periods(months) == (Today - (months - 1))..Today

\* The net flow of each month and currency; a group the query did not return counts nothing.
BuildDashboardCashflow(flow, months) ==
    [period \in Periods(months) |->
        [c \in Currency |->
            IF <<period, c>> \in DOMAIN flow
            THEN flow[<<period, c>>].income - flow[<<period, c>>].expense
            ELSE 0]]

NetWorth == BuildDashboardNetWorth(AccountBalances)

Cashflow(months) ==
    BuildDashboardCashflow(MonthlyFlow(Today - (months - 1), Today), months)

-----------------------------------------------------------------------------
(* Properties. *)

\* What the archived accounts of currency c hold.
ArchivedWorth(c) ==
    SumOver({a \in AccountId : Exists(a) /\ ~accounts[a].active /\ accounts[a].currency = c},
            [a \in AccountId |-> transferSourceBalance(a)], LastAccount)

\* The net cash flow of all months in currency c.
NetFlow(c) == SumTo([period \in 1..Today |-> Cashflow(Today)[period][c]], Today)

\* The opening balances and the adjustments that users posted.
IsManual(tx) ==
    /\ tx.source = "manual" /\ tx.status = "confirmed"
    /\ tx.type \in {"initial_balance", "adjustment"}

ManualTotal(c) ==
    SumOver({n \in DOMAIN transactions : IsManual(transactions[n]) /\ CurrencyOf(n) = c},
            Amounts, Len(transactions))

\* What transfers brought into currency c.
Brought(c) ==
    [i \in 1..Len(transfers) |->
        (IF transfers[i].toCurrency = c THEN transfers[i].toAmount ELSE 0)
          - (IF transfers[i].fromCurrency = c THEN transfers[i].fromAmount ELSE 0)]

Moved(c) == SumTo(Brought(c), Len(transfers))

\* The two reports agree, in every currency: the net worth and the balances of the archived
\* accounts are the net cash flow of all months, the opening balances, the manual adjustments
\* and what transfers brought in from other currencies.  Balances count reversed rows and the
\* cash flow does not, a fee is an expense, a transfer is no income, and every amount is
\* grouped by the currency its account has now: it holds only if reversals undo exactly what
\* they mark and no account leaves its currency.
FlowExplainsNetWorth ==
    \A c \in Currency :
        NetWorth[c] + ArchivedWorth(c) = NetFlow(c) + Moved(c) + ManualTotal(c)

-----------------------------------------------------------------------------
(* The inductive invariant behind FlowExplainsNetWorth. *)

\* A row that counts in a balance and that neither the cash flow nor ManualTotal names.
Unreported(tx) == AffectsBalance(tx) /\ ~InFlow(tx) /\ ~IsManual(tx)

\* What each such row adds to the balances of currency c.
Unexplained(c) ==
    [n \in 1..Len(transactions) |->
        IF CurrencyOf(n) = c /\ Unreported(transactions[n]) THEN Delta(transactions[n]) ELSE 0]

\* Every row belongs to an account that exists and to a month that is not to come; users post
\* no transfer rows; and what is not reported are the transfers, the reversed rows and the
\* adjustments that undo them, which cancel out.
FlowInv ==
    /\ \A n \in DOMAIN transactions :
         /\ Exists(transactions[n].account) /\ transactions[n].date <= Today
         /\ transactions[n].source = "manual" => ~IsTransferType(transactions[n].type)
    /\ \A c \in Currency : SumTo(Unexplained(c), Len(transactions)) = Moved(c)
=============================================================================
