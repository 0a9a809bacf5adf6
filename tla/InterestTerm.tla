---------------------------- MODULE InterestTerm ----------------------------
(***************************************************************************)
(* The interest engine against what it is to calculate.  One account has   *)
(* one rule and a history of manual transactions; every day of the term    *)
(* the job posts what Accrue answers.  A reference says what each day      *)
(* earns and when it is paid, without accruals, periods or principals and  *)
(* without the engine's own functions: a balance of manual amounts and of  *)
(* the interest that is capitalized before the day, at the day's rate.     *)
(***************************************************************************)
EXTENDS InterestEngine

CONSTANTS
    Terms,      \* the rules to look at
    Histories,  \* the histories of manual transactions: the amount of each day
    TermDays    \* bound: the days that are looked at

\* The rules that a job lists: active ones, as validation lets them be.
Term ==
    [id : Nat, account : Nat, rate : Nat, promoRate : Nat, promoEnd : Nat,
     accrual : AccrualFrequency, capitalization : CapitalizationFrequency,
     dayCount : DayCountConvention, active : {TRUE}, start : Nat \ {0}, end : Nat, version : Nat]

ASSUME TermsAssumption ==
    TermDays \in Nat /\ Terms \subseteq Term /\ Histories \subseteq [1..TermDays -> Int]

VARIABLES
    term,      \* the rule
    history,   \* the manual transactions
    lastRun,   \* the day the job has run for
    payments,  \* table interest_accruals
    book       \* table transactions

termVars == <<term, history, lastRun, payments, book>>

Manual(r, h) ==
    {[id |-> d, account |-> r.account, date |-> d, amount |-> h[d], source |-> "manual"] :
        d \in {e \in 1..TermDays : h[e] # 0}}

TermInit ==
    /\ term \in Terms /\ history \in Histories
    /\ lastRun = 0 /\ payments = {} /\ book = Manual(term, history)

\* Lifecycle.Accrue, run by the job of the rule's frequency on each day in turn.
Answer(rule, txs, accs, d) ==
    LET principal == PrincipalTransactionsForRuleAt(transactionsUpToDate(txs, d), accs, rule, d)
    IN Accrue(rule, principal, accs, Balance(principal), d)

RunJob ==
    /\ lastRun < TermDays
    /\ lastRun' = lastRun + 1
    /\ LET d == lastRun + 1
           answer == Answer(term, book, payments, d)
       IN \/ /\ answer.status = "posted"
             /\ book' = book \union {InterestRow(term, d, answer.amount, TermDays)}
             /\ payments' = payments \union {AccrualRow(term, d, answer.amount, answer.days, TermDays)}
          \/ answer.status # "posted" /\ UNCHANGED <<book, payments>>
    /\ UNCHANGED <<term, history>>

TermSpec == TermInit /\ [][RunJob]_termVars

-----------------------------------------------------------------------------
(* The reference, for rule r and history h. *)

\* The first and the last day of a rule both belong to its term.
InTerm(r, d) == r.start <= d /\ (d <= r.end \/ r.end = NoDate)

MonthOf(d) == (d - 1) \div MonthLength

\* A monthly rule pays on the last day that month and term have in common, one that pays at the
\* end of the term on the last day of the term, and a daily one every day.
PaysOn(r, d) ==
    /\ InTerm(r, d)
    /\ r.accrual = "monthly" => ~(InTerm(r, d + 1) /\ MonthOf(d + 1) = MonthOf(d))
    /\ r.accrual = "end_of_term" => d = r.end

\* The promotion ends with its last day.
RateOn(r, d) == IF r.promoRate > 0 /\ d \in 1..r.promoEnd THEN r.promoRate ELSE r.rate

YearOf(r, d) ==
    IF r.dayCount = "actual_366" \/ (r.dayCount = "actual_actual" /\ d \in LeapDay) THEN 366 ELSE 365

\* The whole number nearest to x / y; a half counts as one.
Nearest(x, y) == x \div y + (IF 2 * (x % y) >= y THEN 1 ELSE 0)

\* What a positive balance earns on day d; rates are in hundredths of a percent of a year.
InterestFor(r, balance, d) == Nearest(balance * RateOn(r, d), 10000 * YearOf(r, d))

PayDay(r, d) == {e \in d..TermDays : PaysOn(r, e)}
PaidOn(r, d) == IF PayDay(r, d) = {} THEN NoDate ELSE Min(PayDay(r, d))

\* The day the interest earned on d joins the balance, as the rule says it.
JoinsOn(r, d) ==
    LET paid == PaidOn(r, d)
    IN IF paid = NoDate \/ r.capitalization = "none" THEN NoDate
       ELSE CASE r.capitalization = "daily" -> paid
              [] r.capitalization = "monthly" -> Min({monthEnd(paid)} \union ({r.end} \ {NoDate}))
              [] OTHER -> r.end

\* The days whose interest is in the balance of day d.
Joined(r, d) == {e \in 1..(d - 1) : JoinsOn(r, e) # NoDate /\ JoinsOn(r, e) < d}

Earned(r, h) ==
    LET earned[d \in 0..TermDays] ==
          IF d = 0 THEN 0
          ELSE LET balance == SumOver(1..d, h, d) + SumOver(Joined(r, d), earned, d - 1)
               IN IF InTerm(r, d) /\ balance > 0 THEN InterestFor(r, balance, d) ELSE 0
    IN earned

Due(r, h, d) == SumOver({e \in 1..d : PaidOn(r, e) = d}, Earned(r, h), d)

\* The payment dates up to n on which there is something to pay.
PaymentDates(r, h, n) == {d \in 1..n : PaidOn(r, d) = d /\ Due(r, h, d) > 0}

Amounts(as) == {<<a.date, a.amount>> : a \in as}

\* Daily runs post on every payment date exactly what the days since the payment before have
\* earned, compounded as the rule says (InterestEngine.Accrue, with nextAccrualPeriodStart and
\* PrincipalTransactionsForRuleAt).
AccruesWhatIsEarned ==
    Amounts(payments) = {<<d, Due(term, history, d)>> : d \in PaymentDates(term, history, lastRun)}

\* No day is paid twice, and none that earned something is left out by its payment.
EveryDayPaidOnce ==
    /\ \A a, b \in payments : a # b => a.days \intersect b.days = {}
    /\ \A d \in 1..lastRun :
         LET paid == PaidOn(term, d)
         IN Earned(term, history)[d] > 0 /\ paid # NoDate /\ paid <= lastRun =>
              \E a \in payments : a.date = paid /\ d \in a.days

\* Capitalization happens with a payment: an accrual that waits for a date on which nothing is
\* posted stays outside the principal of the pass of Recalculate, and inside that of Accrue.
EveryCapitalizationPays ==
    \A a \in payments : LET c == capitalizationDateForAccrual(term, a.date)
                        IN c # NoDate /\ c <= lastRun => hasInterestAccrual(payments, term, c)

\* A recalculation of any part of the past confirms the interest that daily runs have posted,
\* and a forecast of it, made on the evening before, had foretold that interest and the balance
\* it leads to, if every capitalization came with a payment (InterestEngine.Recalculate, with
\* recalculationStartDate and pendingCapitalizationTransactionsBefore, and Forecast).
RecalculationConfirms ==
    EveryCapitalizationPays =>
        \A to \in 1..lastRun : \A from \in 1..to :
            LET known == {a \in payments : a.date < from}
                visible == {t \in book : t.date < from \/ t.source = "manual"}
                forecast == Forecast(term, visible, known, from, to - from + 1, 2 * TermDays)
                waiting == {a \in known : ~accrualCapitalizedBy(term, a.date, to)}
            IN /\ Amounts(Recalculate(term, book, payments, from, to, 2 * TermDays).accruals)
                    = Amounts(Replaced(payments, term, from, to))
               /\ Amounts(forecast.accruals) = Amounts(Replaced(payments, term, from, to))
               /\ forecast.balance = Balance(transactionsUpToDate(book, to))
                                       - MapThenSumSet(LAMBDA a : a.amount, waiting)

-----------------------------------------------------------------------------
(* The inductive invariant behind the theorems of InterestProofs. *)

\* A payment pays what is due, for the days that earned it.
Payment(r, h, d) ==
    AccrualRow(r, d, Due(r, h, d), {e \in 1..d : PaidOn(r, e) = d /\ Earned(r, h)[e] > 0}, TermDays)

\* The tables hold the payments of the reference up to the last run, and nothing else.
TermInv ==
    /\ term \in Terms /\ history \in Histories /\ lastRun \in 0..TermDays
    /\ payments = {Payment(term, history, d) : d \in PaymentDates(term, history, lastRun)}
    /\ book = Manual(term, history) \union
                {InterestRow(term, d, Due(term, history, d), TermDays) : d \in PaymentDates(term, history, lastRun)}
=============================================================================
