--------------------------- MODULE InterestEngine ---------------------------
(***************************************************************************)
(* The calculation of deposit interest: which days a rule pays, on which   *)
(* balance, when accrued interest joins the principal, and what Accrue and *)
(* Recalculate post.  Days are naturals from 1; months have MonthLength    *)
(* days; amounts are integers in minor units of the account's currency.    *)
(*                                                                         *)
(* A transaction is [id, account, date, amount, source], with the signed   *)
(* effect on the balance as its amount; an accrual is [account, rule,      *)
(* date, amount, tx, days], where days, which the table does not keep, are *)
(* the days it pays.                                                       *)
(***************************************************************************)
EXTENDS Sums, FiniteSets, FiniteSetsExt

CONSTANTS
    MonthLength,  \* the number of days of a month
    LeapDay       \* the days that lie in leap years

ASSUME CalendarAssumption == MonthLength \in Nat \ {0} /\ LeapDay \subseteq Nat

NoDate == 0

AccrualFrequency == {"daily", "monthly", "end_of_term"}
CapitalizationFrequency == {"none", "daily", "monthly", "end_of_term"}
DayCountConvention == {"actual_365", "actual_366", "actual_actual"}

-----------------------------------------------------------------------------
(* The calendar of a rule. *)

monthEnd(d) == ((d - 1) \div MonthLength + 1) * MonthLength
monthStart(d) == monthEnd(d) - MonthLength + 1

ruleActiveOn(rule, d) == d >= rule.start /\ (rule.end # NoDate => d <= rule.end)

lastActiveDayOfMonth(rule, d) ==
    IF rule.end # NoDate /\ rule.end < monthEnd(d) THEN rule.end ELSE monthEnd(d)

isEndOfTerm(rule, d) == rule.end # NoDate /\ rule.end = d

\* Is interest posted on day d?
shouldPostAccrual(rule, d) ==
    /\ ruleActiveOn(rule, d)
    /\ CASE rule.accrual = "monthly" -> d = lastActiveDayOfMonth(rule, d)
         [] rule.accrual = "end_of_term" -> isEndOfTerm(rule, d)
         [] OTHER -> TRUE

shouldCapitalizeOn(rule, d) ==
    CASE rule.capitalization = "daily" -> TRUE
      [] rule.capitalization = "monthly" -> d = lastActiveDayOfMonth(rule, d)
      [] rule.capitalization = "end_of_term" -> isEndOfTerm(rule, d)
      [] OTHER -> FALSE

\* The day interest posted on d joins the principal, or NoDate.
capitalizationDateForAccrual(rule, d) ==
    IF ~ruleActiveOn(rule, d) THEN NoDate
    ELSE CASE rule.capitalization = "daily" -> d
           [] rule.capitalization = "monthly" -> lastActiveDayOfMonth(rule, d)
           [] rule.capitalization = "end_of_term" -> rule.end
           [] OTHER -> NoDate

accrualCapitalizedBy(rule, d, asOf) ==
    IF asOf = NoDate THEN shouldCapitalizeOn(rule, d)
    ELSE LET c == capitalizationDateForAccrual(rule, d) IN c # NoDate /\ c < asOf

-----------------------------------------------------------------------------
(* One day's interest. *)

daysInYear(convention, d) ==
    CASE convention = "actual_366" -> 366
      [] convention = "actual_actual" -> IF d \in LeapDay THEN 366 ELSE 365
      [] OTHER -> 365

\* Mutant: the promo rate ends before its last day.
rateWithoutLastDay(rule, d) ==
    IF rule.promoRate # 0 /\ rule.promoEnd # NoDate /\ d < rule.promoEnd
    THEN rule.promoRate ELSE rule.rate

\* The promo rate, inclusive of its last day, then the annual rate; 0 is "no promo rate".
effectiveRateBps(rule, d) ==
    IF rule.promoRate # 0 /\ rule.promoEnd # NoDate /\ d <= rule.promoEnd
    THEN rule.promoRate ELSE rule.rate

\* balance * rate / days, rounded to minor units, halves up; the balance is positive.
calculateDailyInterestAmount(balance, rule, d) ==
    LET den == 10000 * daysInYear(rule.dayCount, d)
    IN (2 * balance * effectiveRateBps(rule, d) + den) \div (2 * den)

-----------------------------------------------------------------------------
(* Balances and principal. *)

Balance(txs) == MapThenSumSet(LAMBDA t : t.amount, txs)

transactionsUpToDate(txs, d) == {t \in txs : t.date <= d}

AccrualsOf(accs, rule) == {a \in accs : a.account = rule.account /\ a.rule = rule.id}

\* The transactions without this rule's interest that is not capitalized by asOf.
PrincipalTransactionsForRuleAt(txs, accs, rule, asOf) ==
    {t \in txs : \A a \in AccrualsOf(accs, rule) :
                    a.tx = t.id => accrualCapitalizedBy(rule, a.date, asOf)}

\* A given balance stands in for an empty list of transactions.
DayBalance(txs, balance, d) ==
    IF txs = {} THEN balance ELSE Balance(transactionsUpToDate(txs, d))

\* Interest of one day: nothing on an inactive day or a balance that is not positive.
DayInterest(rule, txs, balance, d) ==
    IF ruleActiveOn(rule, d) /\ DayBalance(txs, balance, d) > 0
    THEN calculateDailyInterestAmount(DayBalance(txs, balance, d), rule, d)
    ELSE 0

PaidDays(rule, txs, balance, from, to) == {d \in from..to : DayInterest(rule, txs, balance, d) > 0}

calculateAccrualAmount(rule, txs, balance, from, to) ==
    SumOver(from..to, [d \in from..to |-> DayInterest(rule, txs, balance, d)], to)

-----------------------------------------------------------------------------
(* Accrue: what the engine answers for one date. *)

hasInterestAccrual(accs, rule, d) == \E a \in AccrualsOf(accs, rule) : a.date = d

\* Mutant: the period always starts with the rule.
periodStartOfRule(rule, accs, d) == IF rule.accrual = "daily" THEN d ELSE rule.start

\* A daily rule pays its date; another one pays all days since its last accrual.
nextAccrualPeriodStart(rule, accs, d) ==
    IF rule.accrual = "daily" THEN d
    ELSE Max({rule.start} \union
             {a.date + 1 : a \in {x \in AccrualsOf(accs, rule) : x.date < d /\ x.date >= rule.start}})

\* The answer of Accrue: an amount and the days it pays, "skipped" or "rejected".
Accrue(rule, txs, accs, balance, d) ==
    LET from == nextAccrualPeriodStart(rule, accs, d)
        principal == PrincipalTransactionsForRuleAt(txs, accs, rule, d)
        amount == calculateAccrualAmount(rule, principal, balance, from, d)
        answer(status) == [status |-> status, amount |-> 0, days |-> {}]
    IN IF ~(rule.active /\ ruleActiveOn(rule, d) /\ shouldPostAccrual(rule, d)) THEN answer("rejected")
       ELSE IF hasInterestAccrual(accs, rule, d) THEN answer("skipped")
       ELSE IF amount <= 0 THEN answer("rejected")
       ELSE [status |-> "posted", amount |-> amount,
             days |-> PaidDays(rule, principal, balance, from, d)]

-----------------------------------------------------------------------------
(* Recalculate: a pass over the days of a range. *)

accrualPeriodStart(rule, d) ==
    CASE rule.accrual = "monthly" -> Max({rule.start, monthStart(d)})
      [] rule.accrual = "end_of_term" -> rule.start
      [] OTHER -> d

\* The first payment of the range decides where the calculation starts.
recalculationStartDate(rule, from, to) ==
    LET payable == {d \in from..to : shouldPostAccrual(rule, d)}
    IN IF rule.accrual = "daily" \/ payable = {} THEN from
       ELSE Min({from, accrualPeriodStart(rule, Min(payable))})

\* Mutant: the rule is not compared.
ReplacedOfAnyRule(accs, rule, from, to) ==
    {a \in accs : a.account = rule.account /\ a.date >= from /\ a.date <= to}

Replaced(accs, rule, from, to) == {a \in AccrualsOf(accs, rule) : a.date >= from /\ a.date <= to}

excludeAccrualTransactions(txs, accs, rule, from, to) ==
    {t \in txs : \A a \in Replaced(accs, rule, from, to) : a.tx # t.id}

\* Mutant: interest accrued before the range is forgotten.
noPendingCapitalization(txs, accs, rule, from, to) == {}

\* Interest posted before the range that joins the principal within it.
pendingCapitalizationTransactionsBefore(txs, accs, rule, from, to) ==
    IF rule.capitalization \in {"none", "daily"} THEN {}
    ELSE {t \in txs : \E a \in AccrualsOf(accs, rule) :
             LET c == capitalizationDateForAccrual(rule, a.date)
             IN a.tx = t.id /\ a.date < from /\ c # NoDate /\ c >= from /\ c <= to}

\* Interest posted on day d: rows with ids from fresh on.
InterestRow(rule, d, amount, fresh) ==
    [id |-> fresh + d, account |-> rule.account, date |-> d, amount |-> amount, source |-> "interest"]

AccrualRow(rule, d, amount, days, fresh) ==
    [account |-> rule.account, rule |-> rule.id, date |-> d, amount |-> amount,
     tx |-> fresh + d, days |-> days]

\* One day of the loop.  s.working is the principal, s.waiting the interest not capitalized
\* yet, s.amount and s.days what is accrued and not posted, s.rows and s.accruals what is posted.
RecalculateDay(s, rule, d, fresh) ==
    LET interest == DayInterest(rule, s.working, 0, d)
        amount == s.amount + interest
        days == IF interest > 0 THEN s.days \union {d} ELSE s.days
        row == InterestRow(rule, d, amount, fresh)
    IN IF ~shouldPostAccrual(rule, d) \/ amount = 0
       THEN [s EXCEPT !.amount = amount, !.days = days]
       ELSE [working |-> CASE rule.capitalization = "daily" -> s.working \union {row}
                           [] rule.capitalization # "daily" /\ shouldCapitalizeOn(rule, d)
                                -> s.working \union s.waiting \union {row}
                           [] OTHER -> s.working,
             waiting |-> CASE rule.capitalization \in {"none", "daily"} -> s.waiting
                           [] rule.capitalization \notin {"none", "daily"} /\ shouldCapitalizeOn(rule, d) -> {}
                           [] OTHER -> s.waiting \union {row},
             amount |-> 0, days |-> {},
             rows |-> s.rows \union {row},
             accruals |-> s.accruals \union {AccrualRow(rule, d, amount, days, fresh)}]

\* The loop: what it has after each day, from the day before the first.
RecalculationPass(rule, txs, accs, from, to, fresh) ==
    LET first == recalculationStartDate(rule, from, to)
        base == excludeAccrualTransactions(txs, accs, rule, from, to)
        start == [working |-> PrincipalTransactionsForRuleAt(base, accs, rule, first),
                  waiting |-> pendingCapitalizationTransactionsBefore(base, accs, rule, first, to),
                  amount |-> 0, days |-> {}, rows |-> {}, accruals |-> {}]
        pass[d \in (first - 1)..to] ==
            IF d < first THEN start ELSE RecalculateDay(pass[d - 1], rule, d, fresh)
    IN pass

\* The rows Recalculate posts for the range from..to.
Recalculate(rule, txs, accs, from, to, fresh) == RecalculationPass(rule, txs, accs, from, to, fresh)[to]

-----------------------------------------------------------------------------
(* Forecast: a recalculation of days to come.  The balance counts the interest of the range, and of *)
(* what was posted before only that which is principal by its last day.                             *)

Forecast(rule, txs, accs, from, days, fresh) ==
    LET to == from + days - 1
        result == Recalculate(rule, txs, accs, from, to, fresh)
        principal == PrincipalTransactionsForRuleAt(txs, accs, rule, to)
    IN [accruals |-> result.accruals,
        balance |-> Balance(transactionsUpToDate(principal, to)) + Balance(result.rows)]
=============================================================================
