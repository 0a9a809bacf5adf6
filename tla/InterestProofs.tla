--------------------------- MODULE InterestProofs ---------------------------
(***************************************************************************)
(* InterestInv is an inductive invariant of Interest, for any accounts,    *)
(* rules, requests and processes, any month length and any length of the   *)
(* range that is recalculated: what the loop of Recalculate posts is       *)
(* described by PassOK, by induction over its days.  The properties of the *)
(* tables and of their changes follow.                                     *)
(*                                                                         *)
(* TermInv is an inductive invariant of InterestTerm: what daily runs of   *)
(* Accrue post is what the reference says is due, for any rules, manual    *)
(* histories, month length and leap days.                                  *)
(***************************************************************************)
EXTENDS Interest, InterestTerm, FiniteSetTheorems, NaturalsInduction, WellFoundedInduction, TLAPS

(* Numbers. *)

\* A set of naturals has a least element.
LEMMA LeastNatural ==
    ASSUME NEW T \in SUBSET Nat, T # {}
    PROVE  \E x \in T : \A y \in T : x <= y
    <1>1. PICK x \in T : \A y \in T : ~(<<y, x>> \in OpToRel(<, Nat))
        BY NatLessThanWellFounded, WFMin
    <1>2. \A y \in T : ~(y < x)
        BY <1>1 DEF OpToRel
    <1> QED BY <1>2

\* Min of a set of naturals is its least element.
LEMMA MinIsLeast ==
    ASSUME NEW T \in SUBSET Nat, T # {}
    PROVE  Min(T) \in T /\ \A y \in T : Min(T) <= y
    <1>1. \E x \in T : \A y \in T : x =< y
        BY LeastNatural
    <1> QED BY <1>1 DEF Min

\* Max of a set of naturals with a bound is its greatest element.
LEMMA MaxIsGreatest ==
    ASSUME NEW T \in SUBSET Nat, T # {}, NEW d \in Nat, \A x \in T : x <= d
    PROVE  Max(T) \in T /\ \A y \in T : y <= Max(T)
    <1> DEFINE U == {d - x : x \in T}
    <1>1. U \in SUBSET Nat /\ U # {}
        <2>1. \A x \in T : d - x \in Nat
            OBVIOUS
        <2>2. PICK x : x \in T
            OBVIOUS
        <2>3. d - x \in U
            BY <2>2
        <2> QED BY <2>1, <2>3
    <1>2. PICK u \in U : \A v \in U : u <= v
        <2> HIDE DEF U
        <2> QED BY <1>1, LeastNatural
    <1>3. PICK x \in T : u = d - x
        BY <1>2
    <1>4. \A y \in T : x >= y
        <2> TAKE y \in T
        <2>1. d - y \in U /\ x \in Nat /\ y \in Nat
            BY <1>3
        <2> QED BY <1>2, <1>3, <2>1
    <1> QED BY <1>4 DEF Max

-----------------------------------------------------------------------------
(* The calendar. *)

\* A day lies in the month that ends on its monthEnd, and the days of a month have one end.
LEMMA MonthOfDay ==
    ASSUME NEW d \in Nat \ {0}
    PROVE  /\ monthEnd(d) \in Nat /\ monthStart(d) \in Int
           /\ monthStart(d) <= d /\ d <= monthEnd(d)
           /\ \A e \in Nat \ {0} : monthStart(d) <= e /\ e <= d => monthEnd(e) = monthEnd(d)
           /\ \A e \in Nat \ {0} : e < monthStart(d) => monthEnd(e) < monthStart(d)
    <1> PICK w \in Nat \ {0} : w = MonthLength
        BY CalendarAssumption
    <1> DEFINE q(x) == (x - 1) \div w
    <1>1. \A x \in Nat \ {0} : /\ q(x) \in Int /\ w * q(x) <= x - 1 /\ x - 1 < w * q(x) + w
        <2> TAKE x \in Nat \ {0}
        <2>1. /\ q(x) \in Int /\ x - 1 = w * q(x) + ((x - 1) % w) /\ (x - 1) % w \in 0..(w - 1)
            OBVIOUS
        <2> PICK r \in 0..(w - 1) : r = (x - 1) % w
            BY <2>1
        <2>2. q(x) \in Int /\ x - 1 = w * q(x) + r
            BY <2>1
        <2> HIDE DEF q
        <2>3. w * q(x) \in Int
            BY <2>2
        <2> QED BY <2>2, <2>3
    <1>2. \A x \in Nat \ {0} : monthEnd(x) = w * q(x) + w
        <2> TAKE x \in Nat \ {0}
        <2>1. monthEnd(x) = (q(x) + 1) * w
            BY DEF monthEnd
        <2>2. q(x) \in Int
            BY <1>1
        <2> HIDE DEF q
        <2> QED BY <2>1, <2>2
    <1> HIDE DEF q
    <1>3. \A n, m \in Int : n < m => w * n + w <= w * m
        <2> SUFFICES ASSUME NEW n \in Int, NEW m \in Int, n < m PROVE w * n + w <= w * m
            OBVIOUS
        <2>1. PICK k \in Nat : m = n + 1 + k
            <3>1. m - n - 1 \in Nat /\ m = n + 1 + (m - n - 1)
                OBVIOUS
            <3> QED BY <3>1
        <2>2. w * m = w * n + w + w * k /\ w * k >= 0
            BY <2>1
        <2> QED BY <2>2
    <1>4. w * q(d) \in Int /\ monthEnd(d) = w * q(d) + w /\ monthStart(d) = w * q(d) + 1
        BY <1>1, <1>2 DEF monthStart
    <1>5. monthEnd(d) \in Int /\ monthStart(d) \in Int /\ monthStart(d) <= d /\ d <= monthEnd(d)
        BY <1>1, <1>4
    <1>6. ASSUME NEW e \in Nat \ {0}, monthStart(d) <= e, e <= d PROVE monthEnd(e) = monthEnd(d)
        <2>1. /\ q(e) \in Int /\ q(d) \in Int /\ w * q(e) \in Int /\ w * q(d) \in Int
              /\ w * q(e) <= e - 1 /\ e - 1 < w * q(e) + w
              /\ w * q(d) <= d - 1 /\ d - 1 < w * q(d) + w /\ w * q(d) + 1 <= e
            BY <1>1, <1>4, <1>6
        <2>2. ~(q(e) < q(d))
            <3> SUFFICES ASSUME q(e) < q(d) PROVE FALSE
                OBVIOUS
            <3>1. w * q(e) + w <= w * q(d)
                BY <1>3, <2>1
            <3> QED BY <2>1, <3>1
        <2>3. ~(q(d) < q(e))
            <3> SUFFICES ASSUME q(d) < q(e) PROVE FALSE
                OBVIOUS
            <3>1. w * q(d) + w <= w * q(e)
                BY <1>3, <2>1
            <3> QED BY <2>1, <3>1, <1>6
        <2>4. q(e) = q(d)
            BY <2>1, <2>2, <2>3
        <2> QED BY <1>2, <2>4
    <1>7. ASSUME NEW e \in Nat \ {0}, e < monthStart(d) PROVE monthEnd(e) < monthStart(d)
        <2>1. /\ q(e) \in Int /\ q(d) \in Int /\ w * q(e) \in Int /\ w * q(d) \in Int
              /\ w * q(e) <= e - 1 /\ e < w * q(d) + 1 /\ monthEnd(e) = w * q(e) + w
            BY <1>1, <1>2, <1>4, <1>7
        <2>2. q(e) # q(d)
            <3> SUFFICES ASSUME q(e) = q(d) PROVE FALSE
                OBVIOUS
            <3> PICK x \in Int : x = w * q(d)
                BY <2>1
            <3>1. x <= e - 1 /\ e < x + 1
                BY <2>1
            <3> QED BY <3>1
        <2>3. ~(q(d) < q(e))
            <3> SUFFICES ASSUME q(d) < q(e) PROVE FALSE
                OBVIOUS
            <3>1. w * q(d) + w <= w * q(e)
                BY <1>3, <2>1
            <3> QED BY <2>1, <3>1
        <2>4. w * q(e) + w <= w * q(d)
            BY <1>3, <2>1, <2>2, <2>3
        <2> QED BY <1>4, <2>1, <2>4
    <1> QED BY <1>5, <1>6, <1>7

\* Where Recalculate starts: not after the range, and no payment lies between its start and the
\* range, so that every row it posts is dated in the range whose rows it replaces.
LEMMA RangeStart ==
    ASSUME NEW rule, rule.accrual \in AccrualFrequency, rule.start \in Nat \ {0}, rule.end \in Nat,
           NEW from \in Nat \ {0}, NEW to \in Nat, from <= to
    PROVE  /\ recalculationStartDate(rule, from, to) \in Nat \ {0}
           /\ recalculationStartDate(rule, from, to) <= from
           /\ \A e \in recalculationStartDate(rule, from, to)..to : shouldPostAccrual(rule, e) => from <= e
           /\ \A e \in from..to : shouldPostAccrual(rule, e) /\ rule.accrual # "daily" =>
                \E m \in from..e :
                   /\ shouldPostAccrual(rule, m)
                   /\ \/ recalculationStartDate(rule, from, to) <= rule.start
                      \/ rule.accrual = "monthly" /\ recalculationStartDate(rule, from, to) <= monthStart(m)
    <1> DEFINE payable == {d \in from..to : shouldPostAccrual(rule, d)}
    <1> PICK first : first = recalculationStartDate(rule, from, to)
        OBVIOUS
    <1> SUFFICES /\ first \in Nat \ {0} /\ first <= from
                 /\ \A e \in first..to : shouldPostAccrual(rule, e) => from <= e
                 /\ \A e \in from..to : shouldPostAccrual(rule, e) /\ rule.accrual # "daily" =>
                      \E m \in from..e :
                         /\ shouldPostAccrual(rule, m)
                         /\ first <= rule.start \/ (rule.accrual = "monthly" /\ first <= monthStart(m))
        OBVIOUS
    <1>0. /\ rule.accrual \in AccrualFrequency /\ rule.start \in Nat \ {0} /\ rule.end \in Nat
        OBVIOUS
    <1>1. CASE rule.accrual = "daily" \/ payable = {}
        <2>1. first = from
            BY <1>1 DEF recalculationStartDate
        <2> QED BY <1>1, <2>1
    <1>2. CASE rule.accrual # "daily" /\ payable # {}
        <2>1. payable \in SUBSET Nat
            OBVIOUS
        <2>2. PICK m \in Nat : m = Min(payable) /\ m \in payable /\ \A y \in payable : m <= y
            <3> HIDE DEF payable
            <3> QED BY <1>2, <2>1, MinIsLeast
        <2>3. m \in from..to /\ shouldPostAccrual(rule, m) /\ m \in Nat \ {0}
            BY <2>2
        <2>4. PICK a : a = accrualPeriodStart(rule, m)
            OBVIOUS
        <2>5. first = Min({from, a})
            BY <1>2, <2>2, <2>4 DEF recalculationStartDate
        <2>6. /\ a \in Nat \ {0}
              /\ rule.accrual = "monthly" => monthStart(m) <= a
              /\ a = rule.start \/ (rule.accrual = "monthly" /\ a = monthStart(m))
            <3>1. CASE rule.accrual = "monthly"
                <4> DEFINE T == {rule.start, monthStart(m)}
                <4>1. monthStart(m) \in Int /\ monthStart(m) <= m
                    BY <2>3, MonthOfDay
                <4>2. \E x \in T : \A y \in T : x >= y
                    BY <1>0, <4>1
                <4>3. Max(T) \in T /\ \A y \in T : Max(T) >= y
                    <5> HIDE DEF T
                    <5> QED BY <4>2 DEF Max
                <4>4. a = Max(T)
                    BY <2>4, <3>1 DEF accrualPeriodStart
                <4> QED BY <1>0, <3>1, <4>1, <4>3, <4>4
            <3>2. CASE rule.accrual = "end_of_term"
                BY <1>0, <2>4, <3>2 DEF accrualPeriodStart
            <3> QED BY <1>0, <1>2, <3>1, <3>2 DEF AccrualFrequency
        <2>7. first \in {from, a} /\ first <= from /\ first <= a
            <3>1. {from, a} \in SUBSET Nat /\ {from, a} # {}
                BY <2>6
            <3>2. Min({from, a}) \in {from, a} /\ \A y \in {from, a} : Min({from, a}) <= y
                BY <3>1, MinIsLeast
            <3> QED BY <2>5, <3>2
        <2> HIDE DEF payable
        <2>8. ASSUME NEW e \in first..to, shouldPostAccrual(rule, e), e < from PROVE FALSE
            <3>1. first = a /\ e \in Nat \ {0} /\ a <= e /\ e < m
                BY <2>3, <2>6, <2>7, <2>8
            <3>2. ruleActiveOn(rule, e) /\ ruleActiveOn(rule, m)
                BY <2>3, <2>8 DEF shouldPostAccrual
            <3>3. CASE rule.accrual = "monthly"
                <4>1. monthEnd(e) = monthEnd(m) /\ m <= monthEnd(m) /\ monthEnd(m) \in Nat
                    BY <2>3, <2>6, <3>1, <3>3, MonthOfDay
                <4>2. e = lastActiveDayOfMonth(rule, e)
                    BY <2>8, <3>3 DEF shouldPostAccrual
                <4> QED BY <1>0, <3>1, <3>2, <4>1, <4>2 DEF lastActiveDayOfMonth, ruleActiveOn
            <3>4. CASE rule.accrual = "end_of_term"
                BY <2>3, <2>8, <3>1, <3>4 DEF shouldPostAccrual, isEndOfTerm
            <3> QED BY <1>0, <1>2, <3>3, <3>4 DEF AccrualFrequency
        <2>9. ASSUME NEW e \in from..to, shouldPostAccrual(rule, e)
              PROVE  m \in from..e /\ (first <= rule.start \/ (rule.accrual = "monthly" /\ first <= monthStart(m)))
            <3>1. m <= e
                BY <2>2, <2>9 DEF payable
            <3> QED BY <2>3, <2>6, <2>7, <3>1
        <2> QED BY <2>3, <2>6, <2>7, <2>8, <2>9
    <1> QED BY <1>1, <1>2

-----------------------------------------------------------------------------
(* What the loop of Recalculate posts. *)

\* The interest transaction of an accrual.
RowOf(a) ==
    [id |-> a.tx, account |-> a.account, date |-> a.date, amount |-> a.amount, source |-> "interest"]

\* After day d the loop has posted accruals of the rule with their transactions, at most one for a
\* day, on days on which the rule pays, for days up to that day.
PassOK(s, rule, first, d, fresh) ==
    /\ s = [working |-> s.working, waiting |-> s.waiting, amount |-> s.amount, days |-> s.days,
            rows |-> s.rows, accruals |-> s.accruals]
    /\ s.days \subseteq 1..d
    /\ \A a \in s.accruals :
         /\ a.account = rule.account /\ a.rule = rule.id /\ a.date \in first..d
         /\ a.tx = fresh + a.date /\ a.days \subseteq 1..a.date
         /\ shouldPostAccrual(rule, a.date)
    /\ \A a, b \in s.accruals : a.date = b.date => a = b
    /\ s.rows = {RowOf(a) : a \in s.accruals}

\* One day of the loop keeps PassOK.
LEMMA DayKeeps ==
    ASSUME NEW s, NEW rule, NEW first \in Nat \ {0}, NEW d \in Nat, first <= d, NEW fresh,
           PassOK(s, rule, first, d - 1, fresh)
    PROVE  PassOK(RecalculateDay(s, rule, d, fresh), rule, first, d, fresh)
    <1> PICK n : n = RecalculateDay(s, rule, d, fresh)
        OBVIOUS
    <1> PICK interest : interest = DayInterest(rule, s.working, 0, d)
        OBVIOUS
    <1> PICK amount : amount = s.amount + interest
        OBVIOUS
    <1> PICK days : days = IF interest > 0 THEN s.days \union {d} ELSE s.days
        OBVIOUS
    <1> PICK new : new = AccrualRow(rule, d, amount, days, fresh)
        OBVIOUS
    <1>1. /\ s.days \subseteq 1..(d - 1)
          /\ \A a \in s.accruals :
               /\ a.account = rule.account /\ a.rule = rule.id /\ a.date \in first..(d - 1)
               /\ a.tx = fresh + a.date /\ a.days \subseteq 1..a.date
               /\ shouldPostAccrual(rule, a.date)
          /\ \A a, b \in s.accruals : a.date = b.date => a = b
          /\ s.rows = {RowOf(a) : a \in s.accruals}
        BY DEF PassOK
    <1>2. /\ days \subseteq 1..d
          /\ \A a \in s.accruals : a.date \in first..d /\ a.date # d
          /\ d \in first..d
        BY <1>1
    <1>3. /\ new.account = rule.account /\ new.rule = rule.id /\ new.date = d
          /\ new.tx = fresh + d /\ new.days = days
          /\ RowOf(new) = InterestRow(rule, d, amount, fresh)
        BY DEF AccrualRow, RowOf, InterestRow
    <1>4. CASE ~shouldPostAccrual(rule, d) \/ amount = 0
        <2>1. n = [s EXCEPT !.amount = amount, !.days = days]
            BY <1>4 DEF RecalculateDay
        <2>2. s = [working |-> s.working, waiting |-> s.waiting, amount |-> s.amount, days |-> s.days,
                   rows |-> s.rows, accruals |-> s.accruals]
            BY DEF PassOK
        <2>3. n = [working |-> s.working, waiting |-> s.waiting, amount |-> amount, days |-> days,
                   rows |-> s.rows, accruals |-> s.accruals]
            BY <2>1, <2>2
        <2> QED BY <1>1, <1>2, <2>3 DEF PassOK
    <1>5. CASE ~(~shouldPostAccrual(rule, d) \/ amount = 0)
        <2>1. /\ n = [working |-> n.working, waiting |-> n.waiting, amount |-> n.amount, days |-> n.days,
                     rows |-> n.rows, accruals |-> n.accruals]
              /\ n.days = {} /\ n.rows = s.rows \union {RowOf(new)}
              /\ n.accruals = s.accruals \union {new}
            BY <1>3, <1>5 DEF RecalculateDay
        <2>2. n.rows = {RowOf(a) : a \in n.accruals}
            <3>1. {RowOf(a) : a \in s.accruals \union {new}} = {RowOf(a) : a \in s.accruals} \union {RowOf(new)}
                BY Zenon
            <3>2. s.rows = {RowOf(a) : a \in s.accruals}
                BY <1>1
            <3>3. n.rows = s.rows \union {RowOf(new)} /\ n.accruals = s.accruals \union {new}
                BY <2>1
            <3> QED BY <3>1, <3>2, <3>3, Zenon
        <2>3. \A a \in n.accruals :
                 /\ a.account = rule.account /\ a.rule = rule.id /\ a.date \in first..d
                 /\ a.tx = fresh + a.date /\ a.days \subseteq 1..a.date
                 /\ shouldPostAccrual(rule, a.date)
            BY <1>1, <1>2, <1>3, <1>5, <2>1
        <2>4. \A a, b \in n.accruals : a.date = b.date => a = b
            BY <1>1, <1>2, <1>3, <2>1
        <2> QED BY <2>1, <2>2, <2>3, <2>4 DEF PassOK
    <1> QED BY <1>4, <1>5

\* What the loop has before its first day.
PassStart(rule, txs, accs, from, to, first) ==
    LET base == excludeAccrualTransactions(txs, accs, rule, from, to)
    IN [working |-> PrincipalTransactionsForRuleAt(base, accs, rule, first),
        waiting |-> pendingCapitalizationTransactionsBefore(base, accs, rule, first, to),
        amount |-> 0, days |-> {}, rows |-> {}, accruals |-> {}]

\* The recursive definition of the loop is met by a function, for any range of days.
LEMMA PassDef ==
    ASSUME NEW rule, NEW txs, NEW accs, NEW from, NEW to \in Nat, NEW fresh,
           NEW first \in Nat \ {0}, first = recalculationStartDate(rule, from, to), first <= to
    PROVE  \E h : /\ Recalculate(rule, txs, accs, from, to, fresh) = h[to]
                  /\ h[first - 1] = PassStart(rule, txs, accs, from, to, first)
                  /\ PassOK(h[first - 1], rule, first, first - 1, fresh)
                  /\ \A d \in first..to : h[d] = RecalculateDay(h[d - 1], rule, d, fresh)
    <1> DEFINE start == PassStart(rule, txs, accs, from, to, first)
               Runs(f, m) == /\ f = [d \in (first - 1)..m |-> f[d]] /\ f[first - 1] = start
                             /\ \A d \in first..m : f[d] = RecalculateDay(f[d - 1], rule, d, fresh)
               Bad == {m \in (first - 1)..to : ~ \E f : Runs(f, m)}
    <1>0. PassOK(start, rule, first, first - 1, fresh)
        BY DEF PassOK, PassStart
    <1> HIDE DEF start
    <1>1. Bad = {}
        <2> SUFFICES ASSUME Bad # {} PROVE FALSE
            OBVIOUS
        <2>1. PICK m \in Bad : \A l \in Bad : m <= l
            <3>1. Bad \in SUBSET Nat
                OBVIOUS
            <3> HIDE DEF Bad
            <3> QED BY <3>1, LeastNatural
        <2>2. m # first - 1
            <3>1. Runs([d \in (first - 1)..(first - 1) |-> start], first - 1)
                OBVIOUS
            <3> QED BY <3>1
        <2>3. PICK f : Runs(f, m - 1)
            <3>1. m - 1 \in (first - 1)..to /\ ~(m <= m - 1)
                BY <2>2
            <3>2. m - 1 \notin Bad
                <4> HIDE DEF Bad
                <4> QED BY <2>1, <3>1
            <3> HIDE DEF Runs
            <3> QED BY <3>1, <3>2
        <2> DEFINE g == [d \in (first - 1)..m |->
                           IF d = m THEN RecalculateDay(f[m - 1], rule, m, fresh) ELSE f[d]]
        <2>4. Runs(g, m)
            <3>1. m \in first..to
                BY <2>2
            <3>2. \A d \in (first - 1)..(m - 1) : g[d] = f[d]
                BY <3>1
            <3>3. g[m] = RecalculateDay(f[m - 1], rule, m, fresh) /\ g = [d \in (first - 1)..m |-> g[d]]
                BY <3>1
            <3> HIDE DEF g
            <3>4. g[first - 1] = start
                <4>1. first - 1 \in (first - 1)..(m - 1)
                    BY <3>1
                <4> QED BY <2>3, <3>2, <4>1
            <3>5. \A d \in first..m : g[d] = RecalculateDay(g[d - 1], rule, d, fresh)
                <4> TAKE d \in first..m
                <4>1. d - 1 \in (first - 1)..(m - 1) /\ (d = m \/ d \in first..(m - 1))
                    BY <3>1
                <4>2. g[d - 1] = f[d - 1]
                    BY <3>2, <4>1
                <4>3. CASE d = m
                    BY <3>3, <4>2, <4>3
                <4>4. CASE d \in first..(m - 1)
                    <5>1. d \in (first - 1)..(m - 1) /\ g[d] = f[d]
                        BY <3>1, <3>2, <4>4
                    <5>2. f[d] = RecalculateDay(f[d - 1], rule, d, fresh)
                        BY <2>3, <4>4
                    <5> QED BY <4>2, <5>1, <5>2
                <4> QED BY <4>1, <4>3, <4>4
            <3> QED BY <3>3, <3>4, <3>5
        <2> QED BY <2>1, <2>4
    <1>2. PICK f : Runs(f, to)
        <2>1. to \in (first - 1)..to
            OBVIOUS
        <2> HIDE DEF Runs
        <2> QED BY <1>1, <2>1
    <1>3. f = [d \in (first - 1)..to |-> IF d < first THEN start ELSE RecalculateDay(f[d - 1], rule, d, fresh)]
        <2> DEFINE h == [d \in (first - 1)..to |-> IF d < first THEN start ELSE RecalculateDay(f[d - 1], rule, d, fresh)]
        <2>1. \A d \in (first - 1)..to : f[d] = IF d < first THEN start ELSE RecalculateDay(f[d - 1], rule, d, fresh)
            <3> TAKE d \in (first - 1)..to
            <3>1. CASE d < first
                <4>1. d = first - 1
                    BY <3>1
                <4> QED BY <1>2, <3>1, <4>1
            <3>2. CASE ~(d < first)
                <4>1. d \in first..to
                    BY <3>2
                <4> QED BY <1>2, <3>2, <4>1
            <3> QED BY <3>1, <3>2
        <2>2. f = [d \in (first - 1)..to |-> f[d]]
            BY <1>2
        <2> QED BY <2>1, <2>2
    <1> PICK h : h = RecalculationPass(rule, txs, accs, from, to, fresh)
        OBVIOUS
    <1>4. h = [d \in (first - 1)..to |-> IF d < first THEN start ELSE RecalculateDay(h[d - 1], rule, d, fresh)]
        <2> DEFINE Pass(k) == [d \in (first - 1)..to |->
                                 IF d < first THEN start ELSE RecalculateDay(k[d - 1], rule, d, fresh)]
        <2>1. h = CHOOSE k : k = Pass(k)
            BY DEF RecalculationPass, start, PassStart
        <2>2. f = Pass(f)
            BY <1>3
        <2> HIDE DEF Pass
        <2>3. h = Pass(h)
            BY <2>1, <2>2
        <2> QED BY <2>3 DEF Pass
    <1>5. h[first - 1] = start /\ \A d \in first..to : h[d] = RecalculateDay(h[d - 1], rule, d, fresh)
        BY <1>4
    <1>6. Recalculate(rule, txs, accs, from, to, fresh) = h[to]
        BY DEF Recalculate
    <1>7. PassOK(h[first - 1], rule, first, first - 1, fresh)
        BY <1>0, <1>5
    <1> QED BY <1>5, <1>6, <1>7 DEF start

\* What Recalculate posts, after its last day: PassOK by induction over the days.
LEMMA RecalculatePosts ==
    ASSUME NEW rule \in Rule, NEW txs, NEW accs, NEW from \in Nat \ {0}, NEW to \in Nat, from <= to, NEW fresh
    PROVE  /\ PassOK(Recalculate(rule, txs, accs, from, to, fresh), rule, 1, to, fresh)
           /\ \A a \in Recalculate(rule, txs, accs, from, to, fresh).accruals : a.date \in from..to
    <1> PICK first : first = recalculationStartDate(rule, from, to)
        OBVIOUS
    <1>1. /\ first \in Nat \ {0} /\ first <= from /\ first <= to
          /\ \A e \in first..to : shouldPostAccrual(rule, e) => from <= e
        <2>1. rule.accrual \in AccrualFrequency /\ rule.start \in Nat \ {0} /\ rule.end \in Nat
            BY DEF Rule
        <2> QED BY <2>1, RangeStart
    <1>2. PICK h : /\ Recalculate(rule, txs, accs, from, to, fresh) = h[to]
                   /\ h[first - 1] = PassStart(rule, txs, accs, from, to, first)
                   /\ PassOK(h[first - 1], rule, first, first - 1, fresh)
                   /\ \A d \in first..to : h[d] = RecalculateDay(h[d - 1], rule, d, fresh)
        BY <1>1, PassDef
    <1> DEFINE Bad == {d \in (first - 1)..to : ~PassOK(h[d], rule, first, d, fresh)}
    <1>3. Bad = {}
        <2> SUFFICES ASSUME Bad # {} PROVE FALSE
            OBVIOUS
        <2>1. PICK m \in Bad : \A l \in Bad : m <= l
            <3>1. Bad \in SUBSET Nat
                BY <1>1
            <3> HIDE DEF Bad
            <3> QED BY <3>1, LeastNatural
        <2>2. m \in first..to /\ m \in Nat
            BY <1>1, <1>2
        <2>3. PassOK(h[m - 1], rule, first, m - 1, fresh)
            <3>1. m - 1 \in (first - 1)..to /\ ~(m <= m - 1)
                BY <1>1, <2>2
            <3> QED BY <2>1, <3>1
        <2>4. PassOK(h[m], rule, first, m, fresh)
            <3>1. h[m] = RecalculateDay(h[m - 1], rule, m, fresh)
                BY <1>2, <2>2
            <3> QED BY <1>1, <2>2, <2>3, <3>1, DayKeeps
        <2> QED BY <2>1, <2>4
    <1> PICK s : s = h[to]
        OBVIOUS
    <1>4. s = Recalculate(rule, txs, accs, from, to, fresh)
        BY <1>2
    <1>5. PassOK(s, rule, first, to, fresh)
        <2>1. to \in (first - 1)..to
            BY <1>1
        <2> QED BY <1>3, <2>1
    <1>6. \A a \in s.accruals : a.date \in first..to /\ shouldPostAccrual(rule, a.date)
        BY <1>5 DEF PassOK
    <1>7. \A a \in s.accruals : a.date \in 1..to /\ a.date \in from..to
        BY <1>1, <1>6
    <1>8. PassOK(s, rule, 1, to, fresh)
        BY <1>5, <1>7 DEF PassOK
    <1> QED BY <1>4, <1>7, <1>8

-----------------------------------------------------------------------------
(* What Accrue posts. *)

\* The period of a posting starts with the rule or later, after all payments before its date.
LEMMA PeriodStart ==
    ASSUME NEW rule \in Rule, NEW accs, \A a \in accs : a.date \in Nat,
           NEW d \in Nat, rule.start <= d
    PROVE  /\ nextAccrualPeriodStart(rule, accs, d) \in Nat \ {0}
           /\ \A a \in AccrualsOf(accs, rule) : a.date < d => a.date < nextAccrualPeriodStart(rule, accs, d)
    <1> PICK from : from = nextAccrualPeriodStart(rule, accs, d)
        OBVIOUS
    <1>0. rule.start \in Nat \ {0} /\ \A a \in AccrualsOf(accs, rule) : a.date \in Nat
        BY DEF Rule, AccrualsOf
    <1>1. CASE rule.accrual = "daily"
        <2>1. from = d
            BY <1>1 DEF nextAccrualPeriodStart
        <2> QED BY <1>0, <2>1
    <1>2. CASE rule.accrual # "daily"
        <2> DEFINE T == {rule.start} \union
                        {a.date + 1 : a \in {x \in AccrualsOf(accs, rule) : x.date < d /\ x.date >= rule.start}}
        <2>1. from = Max(T)
            BY <1>2 DEF nextAccrualPeriodStart
        <2>2. T \in SUBSET Nat /\ rule.start \in T /\ \A x \in T : x <= d
            BY <1>0
        <2>3. \A a \in AccrualsOf(accs, rule) : a.date < d /\ a.date >= rule.start => a.date + 1 \in T
            OBVIOUS
        <2> HIDE DEF T
        <2>4. Max(T) \in T /\ \A y \in T : y <= Max(T)
            BY <2>2, MaxIsGreatest
        <2>5. from \in Nat /\ rule.start <= from /\ \A y \in T : y <= from
            BY <2>1, <2>2, <2>4
        <2>6. ASSUME NEW a \in AccrualsOf(accs, rule), a.date < d PROVE a.date < from
            <3>1. CASE a.date >= rule.start
                <4>1. a.date + 1 <= from
                    BY <2>3, <2>5, <2>6, <3>1
                <4> QED BY <1>0, <2>5, <4>1
            <3> QED BY <1>0, <2>5, <3>1
        <2> QED BY <1>0, <2>5, <2>6
    <1> QED BY <1>1, <1>2

\* What Accrue posts pays days up to its date that no earlier payment covers.
LEMMA AccruePosts ==
    ASSUME NEW rule \in Rule, NEW txs, NEW accs, \A a \in accs : a.date \in Nat,
           NEW balance, NEW d \in Nat, Accrue(rule, txs, accs, balance, d).status = "posted"
    PROVE  /\ 1 <= d
           /\ Accrue(rule, txs, accs, balance, d).days \subseteq 1..d
           /\ \A a \in AccrualsOf(accs, rule) : a.date < d =>
                \A e \in Accrue(rule, txs, accs, balance, d).days : a.date < e
    <1> PICK result : result = Accrue(rule, txs, accs, balance, d)
        OBVIOUS
    <1> PICK from : from = nextAccrualPeriodStart(rule, accs, d)
        OBVIOUS
    <1> DEFINE principal == PrincipalTransactionsForRuleAt(txs, accs, rule, d)
               amount == calculateAccrualAmount(rule, principal, balance, from, d)
    <1>1. /\ ruleActiveOn(rule, d)
          /\ result.days = PaidDays(rule, principal, balance, from, d)
        <2>1. CASE ~(rule.active /\ ruleActiveOn(rule, d) /\ shouldPostAccrual(rule, d))
            BY <2>1 DEF Accrue
        <2>2. CASE (rule.active /\ ruleActiveOn(rule, d) /\ shouldPostAccrual(rule, d)) /\ hasInterestAccrual(accs, rule, d)
            BY <2>2 DEF Accrue
        <2>3. CASE (rule.active /\ ruleActiveOn(rule, d) /\ shouldPostAccrual(rule, d)) /\ ~hasInterestAccrual(accs, rule, d) /\ amount <= 0
            BY <2>3 DEF Accrue
        <2>4. CASE (rule.active /\ ruleActiveOn(rule, d) /\ shouldPostAccrual(rule, d)) /\ ~hasInterestAccrual(accs, rule, d) /\ ~(amount <= 0)
            BY <2>4 DEF Accrue
        <2> QED BY <2>1, <2>2, <2>3, <2>4
    <1>2. rule.start \in Nat \ {0} /\ rule.start <= d
        BY <1>1 DEF Rule, ruleActiveOn
    <1>3. /\ from \in Nat \ {0}
          /\ \A a \in AccrualsOf(accs, rule) : a.date < d => a.date < from
        BY <1>2, PeriodStart
    <1>4. result.days \subseteq from..d
        BY <1>1 DEF PaidDays
    <1>5. \A a \in AccrualsOf(accs, rule) : a.date \in Nat
        BY DEF AccrualsOf
    <1> QED BY <1>2, <1>3, <1>4, <1>5

-----------------------------------------------------------------------------
(* One process moves; the others keep what they rely on. *)

\* Only p changes its stage and what it works on.
OnlyMoves(p) ==
    \A q \in Proc \ {p} :
        /\ pc'[q] = pc[q] /\ req'[q] = req[q] /\ target'[q] = target[q] /\ snap'[q] = snap[q]

\* No row is added to an account, and only manual rows leave it.
EntriesKept(a) ==
    EntriesOf(a)' \subseteq EntriesOf(a) /\ \A t \in EntriesOf(a) \ EntriesOf(a)' : t.source = "manual"

\* The rows of an account that another process has locked are left alone, save for withdrawals.
LockedRowsKept(p) ==
    \A a \in Account : rowLock[a] \in Proc \ {p} =>
        /\ rowLock'[a] = rowLock[a] /\ active'[a] = active[a]
        /\ EntriesKept(a) /\ AccrualsIn(a)' = AccrualsIn(a)

\* A rule stays, and changes only together with its version.
RulesKept ==
    \A i \in RuleId : rules[i] # Nobody =>
        \/ rules'[i] = rules[i]
        \/ rules'[i] # Nobody /\ rules'[i].version \in Nat /\ rules[i].version < rules'[i].version

\* A step of p keeps the invariant if it does its own part.
LEMMA StepKeeps ==
    ASSUME InterestInv, NEW p \in Proc, OnlyMoves(p), LockedRowsKept(p), RulesKept,
           TablesOK', ProcessesOK', AccrualsLinked', StageOK(p)'
    PROVE  InterestInv'
    <1> SUFFICES ASSUME NEW q \in Proc, q # p PROVE StageOK(q)'
        BY DEF InterestInv
    <1>1. pc'[q] = pc[q] /\ req'[q] = req[q] /\ target'[q] = target[q] /\ snap'[q] = snap[q]
        BY DEF OnlyMoves
    <1>2. StageOK(q)
        BY DEF InterestInv
    <1>3. (IsCommand(q)' <=> IsCommand(q)) /\ (Lifecycle(q)' <=> Lifecycle(q))
        BY <1>1 DEF IsCommand, Lifecycle, AboutToWrite
    <1> PICK a : a = target[q].account
        OBVIOUS
    <1>4. Lifecycle(q) => /\ rowLock'[a] = q /\ active'[a]
                          /\ EntriesKept(a) /\ AccrualsIn(a)' = AccrualsIn(a)
        <2> HAVE Lifecycle(q)
        <2>1. TargetOK(target[q]) /\ rowLock[a] = q /\ active[a]
            BY <1>2 DEF StageOK, Lifecycle, AboutToWrite
        <2>2. a \in Account /\ rowLock[a] \in Proc \ {p}
            BY <2>1 DEF TargetOK
        <2> QED BY <2>1, <2>2 DEF LockedRowsKept
    <1>5. pc[q] = "update" => UpdateOK(q)'
        <2> HAVE pc[q] = "update"
        <2> PICK new : new = snap[q].rule
            OBVIOUS
        <2>1. /\ new \in Rule /\ req[q].kind = "update_rule" /\ new.id \in RuleId /\ rules[new.id] # Nobody
              /\ new.version <= rules[new.id].version
              /\ new.version = rules[new.id].version => new = Patch(rules[new.id], req[q].set, req[q].row)
            BY <1>2 DEF StageOK, UpdateOK
        <2>2. rules[new.id] \in Rule /\ rules[new.id].version \in Nat /\ new.version \in Nat
            BY <2>1 DEF InterestInv, TablesOK, Rule
        <2>3. \/ rules'[new.id] = rules[new.id]
              \/ rules'[new.id] # Nobody /\ rules'[new.id].version \in Nat /\ rules[new.id].version < rules'[new.id].version
            BY <2>1 DEF RulesKept
        <2>4. /\ rules'[new.id] # Nobody /\ new.version <= rules'[new.id].version
              /\ new.version = rules'[new.id].version => new = Patch(rules'[new.id], req[q].set, req[q].row)
            BY <2>1, <2>2, <2>3
        <2> QED BY <1>1, <2>1, <2>4 DEF UpdateOK
    <1>6. AboutToWrite(q) => Lifecycle(q)
        BY DEF Lifecycle
    <1>8. AboutToWrite(q)' => Covers(snap[q].entries, target[q].account)'
        <2> HAVE AboutToWrite(q)'
        <2>1. AboutToWrite(q)
            BY <1>1, <1>3 DEF AboutToWrite
        <2>2. Covers(snap[q].entries, a) /\ EntriesKept(a)
            BY <1>2, <1>4, <1>6, <2>1 DEF StageOK
        <2>3. /\ EntriesOf(a)' \subseteq snap[q].entries
              /\ \A t \in snap[q].entries \ EntriesOf(a)' : t.source = "manual"
            BY <2>2 DEF Covers, EntriesKept
        <2>4. EntriesOf(target[q].account)' = EntriesOf(a)'
            BY <1>1 DEF EntriesOf
        <2> QED BY <1>1, <2>3, <2>4 DEF Covers
    <1>9. AboutToWrite(q)' => (snap[q].accruals = AccrualsIn(target[q].account))'
        <2> HAVE AboutToWrite(q)'
        <2>1. AboutToWrite(q)
            BY <1>1, <1>3 DEF AboutToWrite
        <2>2. snap[q].accruals = AccrualsIn(a) /\ AccrualsIn(a)' = AccrualsIn(a)
            BY <1>2, <1>4, <1>6, <2>1 DEF StageOK
        <2> QED BY <1>1, <2>2 DEF AccrualsIn
    <1>7. TargetOK(target[q])' <=> TargetOK(target[q])
        BY <1>1 DEF TargetOK
    <1> QED BY <1>1, <1>2, <1>3, <1>4, <1>5, <1>7, <1>8, <1>9 DEF StageOK

\* A step that leaves the tables alone keeps the rows that others have locked, if it gives out no
\* lock that is held.
LEMMA TablesUnchanged ==
    ASSUME InterestInv, NEW p \in Proc, UNCHANGED tables,
           \A a \in Account : rowLock[a] \in Proc \ {p} => rowLock'[a] = rowLock[a]
    PROVE  LockedRowsKept(p) /\ RulesKept /\ AccrualsLinked' /\ (today' \in Nat => TablesOK')
    <1>1. LockedRowsKept(p)
        BY DEF tables, LockedRowsKept, EntriesKept, EntriesOf, AccrualsIn
    <1>2. RulesKept
        BY DEF tables, RulesKept
    <1>3. AccrualsLinked'
        BY DEF tables, InterestInv, AccrualsLinked
    <1>4. today' \in Nat => TablesOK'
        BY DEF tables, InterestInv, TablesOK
    <1> QED BY <1>1, <1>2, <1>3, <1>4

\* A process that is idle, or between two targets of a job, relies on nothing.
LEMMA NothingHeld ==
    ASSUME NEW p \in Proc, pc'[p] = "idle" \/ (pc'[p] = "next" /\ req'[p].kind = "job")
    PROVE  StageOK(p)'
    BY DEF StageOK, Lifecycle, IsCommand, AboutToWrite

\* The end of an operation: COMMIT or ROLLBACK.
LEMMA ReturnKeeps ==
    ASSUME InterestInv, NEW p \in Proc, NEW outcome, Return(p, outcome)
    PROVE  /\ OnlyMoves(p) /\ ProcessesOK' /\ StageOK(p)' /\ today' = today
           /\ \A a \in Account : rowLock[a] \in Proc \ {p} => rowLock'[a] = rowLock[a]
    <1> USE DEF InterestInv, ProcessesOK
    <1>1. /\ pc' \in [Proc -> Stage] /\ DOMAIN req' = Proc /\ DOMAIN target' = Proc /\ DOMAIN snap' = Proc
          /\ todo' = todo /\ today' = today
          /\ snap'[p] = NoSnap /\ \A q \in Proc \ {p} : snap'[q] = snap[q]
          /\ pc'[p] = "idle" \/ (pc'[p] = "next" /\ req'[p].kind = "job")
        <2>1. "idle" \in Stage /\ "next" \in Stage
            BY DEF Stage
        <2> QED BY <2>1 DEF Return
    <1>2. OnlyMoves(p)
        BY DEF Return, OnlyMoves
    <1>3. rowLock' \in [Account -> Proc \union {Nobody}]
        BY DEF Return, Unlocked
    <1>4. \A a \in Account : rowLock[a] \in Proc \ {p} => rowLock'[a] = rowLock[a]
        BY DEF Return, Unlocked
    <1>5. \A q \in Proc : /\ snap'[q] = [rule |-> snap'[q].rule, entries |-> snap'[q].entries, accruals |-> snap'[q].accruals]
                           /\ \A a \in snap'[q].accruals : a.date \in Nat
        <2> TAKE q \in Proc
        <2>1. CASE q = p
            BY <1>1, <2>1 DEF NoSnap
        <2>2. CASE q # p
            BY <1>1, <2>2
        <2> QED BY <2>1, <2>2
    <1>6. ProcessesOK'
        BY <1>1, <1>3, <1>5
    <1>7. StageOK(p)'
        BY <1>1, NothingHeld
    <1> QED BY <1>1, <1>2, <1>4, <1>6, <1>7

\* An operation that ends without a write.
LEMMA ReturnsUnwritten ==
    ASSUME InterestInv, NEW p \in Proc, NEW outcome, Return(p, outcome), UNCHANGED tables
    PROVE  InterestInv'
    <1>1. /\ OnlyMoves(p) /\ ProcessesOK' /\ StageOK(p)' /\ today' = today
          /\ \A a \in Account : rowLock[a] \in Proc \ {p} => rowLock'[a] = rowLock[a]
        BY ReturnKeeps
    <1>2. today' \in Nat
        BY <1>1 DEF InterestInv, TablesOK
    <1>3. LockedRowsKept(p) /\ RulesKept /\ AccrualsLinked' /\ TablesOK'
        BY <1>1, <1>2, TablesUnchanged
    <1> QED BY <1>1, <1>3, StepKeeps

\* The end of a job, and of a process that stops.
LEMMA LeaveKeeps ==
    ASSUME InterestInv, NEW p \in Proc, Leave(p)
    PROVE  InterestInv'
    <1>1. /\ pc' \in [Proc -> Stage] /\ DOMAIN req' = Proc /\ DOMAIN target' = Proc /\ DOMAIN snap' = Proc
          /\ DOMAIN todo' = Proc /\ todo'[p] = {} /\ \A q \in Proc \ {p} : todo'[q] = todo[q]
          /\ snap'[p] = NoSnap /\ \A q \in Proc \ {p} : snap'[q] = snap[q]
          /\ pc'[p] = "idle" /\ today' = today /\ UNCHANGED tables
        <2>1. "idle" \in Stage
            BY DEF Stage
        <2> QED BY <2>1 DEF Leave, InterestInv, ProcessesOK
    <1>2. OnlyMoves(p)
        BY DEF Leave, OnlyMoves, InterestInv, ProcessesOK
    <1>3. /\ rowLock' \in [Account -> Proc \union {Nobody}]
          /\ \A a \in Account : rowLock[a] \in Proc \ {p} => rowLock'[a] = rowLock[a]
        BY DEF Leave, Unlocked, InterestInv, ProcessesOK
    <1>4. \A q \in Proc : /\ snap'[q] = [rule |-> snap'[q].rule, entries |-> snap'[q].entries, accruals |-> snap'[q].accruals]
                           /\ \A a \in snap'[q].accruals : a.date \in Nat
        <2> TAKE q \in Proc
        <2>1. CASE q = p
            BY <1>1, <2>1 DEF NoSnap
        <2>2. CASE q # p
            BY <1>1, <2>2 DEF InterestInv, ProcessesOK
        <2> QED BY <2>1, <2>2
    <1>9. \A q \in Proc : \A t \in todo'[q] : t.rule \in Rule /\ t.date \in Nat
        BY <1>1 DEF InterestInv, ProcessesOK
    <1>5. ProcessesOK'
        <2>1. /\ pc' \in [Proc -> Stage] /\ DOMAIN req' = Proc /\ DOMAIN target' = Proc
              /\ DOMAIN snap' = Proc /\ DOMAIN todo' = Proc
            BY <1>1
        <2>2. rowLock' \in [Account -> Proc \union {Nobody}]
            BY <1>3
        <2> QED BY <2>1, <2>2, <1>4, <1>9, Zenon DEF ProcessesOK
    <1>6. StageOK(p)'
        BY <1>1, NothingHeld
    <1>7. today' \in Nat
        BY <1>1 DEF InterestInv, TablesOK
    <1>8. LockedRowsKept(p) /\ RulesKept /\ AccrualsLinked' /\ TablesOK'
        BY <1>1, <1>3, <1>7, TablesUnchanged
    <1> QED BY <1>2, <1>5, <1>6, <1>8, StepKeeps

-----------------------------------------------------------------------------
(* Starting, and going from one statement to the next. *)

\* What has been read is a rule, transactions and accruals with dates.
SnapOK(s) ==
    /\ s = [rule |-> s.rule, entries |-> s.entries, accruals |-> s.accruals]
    /\ \A a \in s.accruals : a.date \in Nat

\* A process that goes on without a write or a lock given up.
LEMMA MoveKeeps ==
    ASSUME InterestInv, NEW p \in Proc, OnlyMoves(p),
           pc' \in [Proc -> Stage], DOMAIN req' = Proc, DOMAIN target' = Proc, DOMAIN snap' = Proc,
           UNCHANGED <<todo, today>>, UNCHANGED tables, SnapOK(snap'[p]), StageOK(p)',
           rowLock' \in [Account -> Proc \union {Nobody}],
           \A a \in Account : rowLock[a] \in Proc \ {p} => rowLock'[a] = rowLock[a]
    PROVE  InterestInv'
    <1>1. \A q \in Proc : SnapOK(snap'[q])
        <2> TAKE q \in Proc
        <2>1. CASE q = p
            BY <2>1
        <2>2. CASE q # p
            <3>1. snap'[q] = snap[q]
                BY <2>2 DEF OnlyMoves
            <3>2. SnapOK(snap[q])
                BY DEF InterestInv, ProcessesOK, SnapOK
            <3> QED BY <3>1, <3>2
        <2> QED BY <2>1, <2>2
    <1>2. DOMAIN todo' = Proc /\ \A q \in Proc : \A t \in todo'[q] : t.rule \in Rule /\ t.date \in Nat
        BY DEF InterestInv, ProcessesOK
    <1>3. ProcessesOK'
        BY <1>1, <1>2, Zenon DEF ProcessesOK, SnapOK
    <1>4. today' \in Nat
        BY DEF InterestInv, TablesOK
    <1>5. LockedRowsKept(p) /\ RulesKept /\ AccrualsLinked' /\ TablesOK'
        BY <1>4, TablesUnchanged
    <1> QED BY <1>3, <1>5, StepKeeps

\* The start of a request, a command or a job.
LEMMA StartKeeps ==
    ASSUME InterestInv, NEW p \in Proc, NEW r, NEW t, NEW stage \in Stage, Start(p, r, stage, t),
           UNCHANGED tables, StageOK(p)'
    PROVE  InterestInv'
    <1>1. OnlyMoves(p)
        BY DEF Start, OnlyMoves, InterestInv, ProcessesOK
    <1>2. /\ pc' \in [Proc -> Stage] /\ DOMAIN req' = Proc /\ DOMAIN target' = Proc /\ DOMAIN snap' = Proc
          /\ UNCHANGED <<todo, today>> /\ snap'[p] = snap[p] /\ rowLock' = rowLock
        BY DEF Start, InterestInv, ProcessesOK
    <1>3. SnapOK(snap'[p])
        BY <1>2 DEF InterestInv, ProcessesOK, SnapOK
    <1>4. /\ rowLock' \in [Account -> Proc \union {Nobody}]
          /\ \A a \in Account : rowLock[a] \in Proc \ {p} => rowLock'[a] = rowLock[a]
        BY <1>2 DEF InterestInv, ProcessesOK
    <1> QED BY <1>1, <1>2, <1>3, <1>4, MoveKeeps

\* What a request holds right after its start.
LEMMA Started ==
    ASSUME InterestInv, NEW p \in Proc, NEW r, NEW t, NEW stage, Start(p, r, stage, t)
    PROVE  pc'[p] = stage /\ req'[p] = r /\ target'[p] = t
    BY DEF Start, InterestInv, ProcessesOK

\* A request of the API waits for the account's lock with a target.
LEMMA SubmitKeeps ==
    ASSUME InterestInv, NEW p \in Proc, NEW r \in Offered, Submit(p, r)
    PROVE  InterestInv'
    <1>1. PICK t : Start(p, r, "lock", t) /\ TargetOK(t)
        <2>1. today \in Nat
            BY DEF InterestInv, TablesOK
        <2>2. CASE r.kind = "accrue"
            BY <2>1, <2>2, OfferedAssumption DEF Submit, TargetOK, NoDate
        <2>3. CASE r.kind = "recalculate"
            BY <2>1, <2>3, OfferedAssumption DEF Submit, TargetOK, NoDate
        <2> QED BY <2>2, <2>3 DEF Submit
    <1>2. pc'[p] = "lock" /\ req'[p] = r /\ target'[p] = t
        BY <1>1, Started
    <1>3. StageOK(p)'
        <2>1. ~IsCommand(p)'
            BY <1>2 DEF Submit, IsCommand
        <2>2. TargetOK(target[p])'
            BY <1>1, <1>2 DEF TargetOK
        <2> QED BY <1>2, <2>1, <2>2 DEF StageOK, Lifecycle, AboutToWrite
    <1>4. UNCHANGED tables /\ "lock" \in Stage
        BY DEF Submit, Stage
    <1> QED BY <1>1, <1>3, <1>4, StartKeeps

\* A command starts to read with a target.
LEMMA SubmitCommandKeeps ==
    ASSUME InterestInv, NEW p \in Proc, NEW r \in Offered, SubmitCommand(p, r)
    PROVE  InterestInv'
    <1>1. PICK t : Start(p, r, "read_rule", t) /\ TargetOK(t)
        <2>1. today \in Nat
            BY DEF InterestInv, TablesOK
        <2>2. CASE r.kind = "cli_accrue"
            BY <2>1, <2>2, OfferedAssumption DEF SubmitCommand, TargetOK, NoDate
        <2>3. CASE r.kind = "cli_recalculate"
            BY <2>1, <2>3, OfferedAssumption DEF SubmitCommand, TargetOK, NoDate
        <2> QED BY <2>2, <2>3 DEF SubmitCommand
    <1>2. pc'[p] = "read_rule" /\ req'[p] = r /\ target'[p] = t
        BY <1>1, Started
    <1>3. StageOK(p)'
        <2>1. IsCommand(p)'
            BY <1>2 DEF SubmitCommand, IsCommand
        <2>2. TargetOK(target[p])'
            BY <1>1, <1>2 DEF TargetOK
        <2> QED BY <1>2, <2>1, <2>2 DEF StageOK, Lifecycle, AboutToWrite
    <1>4. UNCHANGED tables /\ "read_rule" \in Stage
        BY DEF SubmitCommand, Stage
    <1> QED BY <1>1, <1>3, <1>4, StartKeeps

\* A job fixes its date, or finds its lock taken and exits.
LEMMA StartJobKeeps ==
    ASSUME InterestInv, NEW p \in Proc, NEW r \in Offered, StartJob(p, r)
    PROVE  InterestInv'
    <1>0. today \in Nat /\ r.kind = "job" /\ UNCHANGED tables
        BY DEF InterestInv, TablesOK, StartJob
    <1>1. CASE jobLock[r.frequency] = Nobody
        <2>1. Start(p, r, "list", [date |-> today])
            BY <1>1 DEF StartJob
        <2>2. pc'[p] = "list" /\ req'[p] = r /\ target'[p] = [date |-> today]
            BY <2>1, Started
        <2>3. StageOK(p)'
            <3>1. ~IsCommand(p)' /\ target'[p].date \in Nat
                BY <1>0, <2>2 DEF IsCommand
            <3> QED BY <2>2, <3>1 DEF StageOK, Lifecycle, AboutToWrite
        <2>4. "list" \in Stage
            BY DEF Stage
        <2> QED BY <1>0, <2>1, <2>3, <2>4, StartKeeps
    <1>2. CASE jobLock[r.frequency] # Nobody
        <2>1. UNCHANGED <<today, rowLock>> /\ UNCHANGED control
            BY <1>2 DEF StartJob
        <2> QED BY <1>0, <2>1 DEF tables, control, InterestInv, TablesOK, ProcessesOK, AccrualsLinked,
                 StageOK, Lifecycle, IsCommand, TargetOK, UpdateOK, Covers, EntriesOf, AccrualsIn, AboutToWrite
    <1> QED BY <1>1, <1>2

\* A refusal or a failure of any kind.
LEMMA EndsKeep ==
    ASSUME InterestInv, NEW p \in Proc,
           \/ RefuseArchived(p) \/ RefuseRule(p) \/ SkipAccrual(p) \/ RefuseRecalculation(p)
           \/ RejectUpdate(p) \/ Abort(p) \/ Fail(p)
    PROVE  InterestInv'
    <1>1. Refuse(p) \/ Fail(p)
        BY DEF RefuseArchived, RefuseRule, SkipAccrual, RefuseRecalculation, RejectUpdate, Abort
    <1> QED BY <1>1, ReturnsUnwritten DEF Refuse, Fail

\* The account is locked once nobody else has it, and while it is active.
LEMMA LockAccountKeeps ==
    ASSUME InterestInv, NEW p \in Proc, LockAccount(p)
    PROVE  InterestInv'
    <1> PICK a : a = target[p].account
        OBVIOUS
    <1>1. StageOK(p) /\ pc[p] = "lock" /\ rowLock[a] = Nobody /\ active[a]
        BY DEF LockAccount, InterestInv
    <1>2. TargetOK(target[p]) /\ a \in Account /\ ~IsCommand(p)
        BY <1>1 DEF StageOK, TargetOK
    <1>3. /\ rowLock' = [rowLock EXCEPT ![a] = p] /\ pc' = [pc EXCEPT ![p] = "select"]
          /\ UNCHANGED <<today, req, target, todo, snap>> /\ UNCHANGED tables
        BY DEF LockAccount
    <1>4. /\ pc' \in [Proc -> Stage] /\ pc'[p] = "select" /\ OnlyMoves(p)
          /\ DOMAIN req' = Proc /\ DOMAIN target' = Proc /\ DOMAIN snap' = Proc
        <2>1. "select" \in Stage
            BY DEF Stage
        <2> QED BY <1>3, <2>1 DEF InterestInv, ProcessesOK, OnlyMoves
    <1>5. SnapOK(snap'[p])
        BY <1>3 DEF InterestInv, ProcessesOK, SnapOK
    <1>6. /\ rowLock' \in [Account -> Proc \union {Nobody}] /\ rowLock'[a] = p
          /\ \A b \in Account : rowLock[b] \in Proc \ {p} => rowLock'[b] = rowLock[b]
        BY <1>1, <1>2, <1>3, RulesAssumption DEF InterestInv, ProcessesOK
    <1>7. active'[a]
        BY <1>1, <1>3 DEF tables
    <1>8. StageOK(p)'
        <2>1. ~IsCommand(p)' /\ TargetOK(target[p])' /\ target'[p].account = a
            BY <1>2, <1>3 DEF IsCommand, TargetOK
        <2> QED BY <1>4, <1>6, <1>7, <2>1 DEF StageOK, AboutToWrite
    <1> QED BY <1>3, <1>4, <1>5, <1>6, <1>8, MoveKeeps

\* From one statement to the next, with what was read.
LEMMA GotoKeeps ==
    ASSUME InterestInv, NEW p \in Proc, NEW stage \in Stage, Goto(p, stage),
           DOMAIN snap' = Proc, \A q \in Proc \ {p} : snap'[q] = snap[q], SnapOK(snap'[p]), StageOK(p)'
    PROVE  InterestInv'
    <1>1. /\ pc' \in [Proc -> Stage] /\ DOMAIN req' = Proc /\ DOMAIN target' = Proc /\ OnlyMoves(p)
          /\ UNCHANGED <<todo, today>> /\ UNCHANGED tables
        BY DEF Goto, InterestInv, ProcessesOK, OnlyMoves
    <1>2. /\ rowLock' \in [Account -> Proc \union {Nobody}]
          /\ \A a \in Account : rowLock[a] \in Proc \ {p} => rowLock'[a] = rowLock[a]
        BY DEF Goto, InterestInv, ProcessesOK
    <1> QED BY <1>1, <1>2, MoveKeeps

\* What is kept from one statement to the next.
LEMMA GoesOn ==
    ASSUME InterestInv, NEW p \in Proc, NEW stage, Goto(p, stage)
    PROVE  /\ pc'[p] = stage /\ req' = req /\ target' = target /\ rowLock' = rowLock
           /\ active' = active /\ entries' = entries /\ accruals' = accruals
           /\ (IsCommand(p)' <=> IsCommand(p)) /\ (TargetOK(target[p])' <=> TargetOK(target[p]))
    BY DEF Goto, tables, IsCommand, TargetOK, InterestInv, ProcessesOK

\* A selected rule is a row of the account.
LEMMA SelectedRule ==
    ASSUME InterestInv, NEW t, NEW active0 \in BOOLEAN, NEW r \in selectInterestRule(t, active0)
    PROVE  r \in Rule /\ r.account = t.account
    <1>1. r \in RulesOf(t.account)
        BY DEF selectInterestRule, ActiveRulesOn
    <1> QED BY <1>1 DEF RulesOf, InterestInv, TablesOK

\* SelectRule and ReadRule fill in the rule.
LEMMA SelectKeeps ==
    ASSUME InterestInv, NEW p \in Proc, SelectRule(p) \/ ReadRule(p)
    PROVE  InterestInv'
    <1>0. StageOK(p) /\ SnapOK(snap[p]) /\ DOMAIN snap = Proc
        BY DEF InterestInv, ProcessesOK, SnapOK
    <1>1. CASE ReadRule(p) /\ Fail(p)
        BY <1>1, EndsKeep
    <1>2. ASSUME NEW stage \in {"load", "read_entries"}, Goto(p, stage),
                 NEW r, r \in Rule, r.account = target[p].account, snap' = [snap EXCEPT ![p].rule = r],
                 pc[p] = (IF stage = "load" THEN "select" ELSE "read_rule")
          PROVE  InterestInv'
        <2>1. /\ DOMAIN snap' = Proc /\ \A q \in Proc \ {p} : snap'[q] = snap[q]
              /\ snap'[p] = [rule |-> r, entries |-> snap[p].entries, accruals |-> snap[p].accruals]
            BY <1>0, <1>2 DEF SnapOK
        <2>2. SnapOK(snap'[p]) /\ snap'[p].rule = r
            BY <1>0, <2>1 DEF SnapOK
        <2>3. stage \in Stage
            BY <1>2 DEF Stage
        <2>4. StageOK(p)'
            <3>1. TargetOK(target[p]) /\ (stage = "load" => ~IsCommand(p)) /\ (stage # "load" => IsCommand(p))
                BY <1>0, <1>2 DEF StageOK
            <3>2. stage = "load" => rowLock[target[p].account] = p /\ active[target[p].account]
                BY <1>0, <1>2 DEF StageOK, Lifecycle, AboutToWrite
            <3>3. /\ pc'[p] = stage /\ req' = req /\ target' = target /\ rowLock' = rowLock /\ active' = active
                  /\ (IsCommand(p)' <=> IsCommand(p)) /\ (TargetOK(target[p])' <=> TargetOK(target[p]))
                BY <1>2, GoesOn
            <3>4. CASE stage = "load"
                BY <1>2, <2>2, <3>1, <3>2, <3>3, <3>4 DEF StageOK, AboutToWrite
            <3>5. CASE stage = "read_entries"
                BY <1>2, <2>2, <3>1, <3>3, <3>5 DEF StageOK, Lifecycle, AboutToWrite
            <3> QED BY <3>4, <3>5
        <2> QED BY <1>2, <2>1, <2>2, <2>3, <2>4, GotoKeeps
    <1>3. CASE SelectRule(p)
        <2>1. IsAccrual(target[p]) \in BOOLEAN
            BY DEF IsAccrual
        <2>2. PICK r \in selectInterestRule(target[p], IsAccrual(target[p])) : snap' = [snap EXCEPT ![p].rule = r]
            BY <1>3 DEF SelectRule
        <2>3. r \in Rule /\ r.account = target[p].account
            BY <2>1, <2>2, SelectedRule
        <2>4. pc[p] = "select" /\ Goto(p, "load")
            BY <1>3 DEF SelectRule
        <2> QED BY <1>2, <2>2, <2>3, <2>4
    <1>4. CASE ReadRule(p) /\ ~Fail(p)
        <2>2. PICK r \in selectInterestRule(target[p], FALSE) : snap' = [snap EXCEPT ![p].rule = r]
            BY <1>4 DEF ReadRule
        <2>3. r \in Rule /\ r.account = target[p].account
            BY <2>2, SelectedRule
        <2>4. pc[p] = "read_rule" /\ Goto(p, "read_entries")
            BY <1>4 DEF ReadRule
        <2> QED BY <1>2, <2>2, <2>3, <2>4
    <1> QED BY <1>1, <1>3, <1>4

\* The lifecycle reads transactions and accruals under the lock.
LEMMA LoadSnapshotKeeps ==
    ASSUME InterestInv, NEW p \in Proc, LoadSnapshot(p)
    PROVE  InterestInv'
    <1> PICK a : a = target[p].account
        OBVIOUS
    <1>0. StageOK(p) /\ SnapOK(snap[p]) /\ DOMAIN snap = Proc /\ pc[p] = "load" /\ Goto(p, "write")
        BY DEF InterestInv, ProcessesOK, SnapOK, LoadSnapshot
    <1>1. /\ DOMAIN snap' = Proc /\ \A q \in Proc \ {p} : snap'[q] = snap[q]
          /\ snap'[p] = [rule |-> snap[p].rule, entries |-> EntriesOf(a), accruals |-> AccrualsIn(a)]
        BY <1>0 DEF SnapOK, LoadSnapshot
    <1>2. SnapOK(snap'[p])
        BY <1>1 DEF SnapOK, AccrualsIn, InterestInv, TablesOK
    <1>3. /\ pc'[p] = "write" /\ req' = req /\ target' = target /\ rowLock' = rowLock /\ active' = active
          /\ entries' = entries /\ accruals' = accruals
          /\ (IsCommand(p)' <=> IsCommand(p)) /\ (TargetOK(target[p])' <=> TargetOK(target[p]))
        BY <1>0, GoesOn
    <1>4. StageOK(p)'
        <2>1. TargetOK(target[p]) /\ ~IsCommand(p) /\ snap[p].rule \in Rule /\ snap[p].rule.account = a
            BY <1>0 DEF StageOK
        <2>2. rowLock[a] = p /\ active[a]
            BY <1>0 DEF StageOK, Lifecycle, AboutToWrite
        <2> QED BY <1>1, <1>3, <2>1, <2>2 DEF StageOK, Covers, EntriesOf, AccrualsIn, AboutToWrite
    <1>5. "write" \in Stage
        BY DEF Stage
    <1> QED BY <1>0, <1>1, <1>2, <1>4, <1>5, GotoKeeps

\* A command reads transactions and accruals by two statements and without a lock.
LEMMA ReadsKeep ==
    ASSUME InterestInv, NEW p \in Proc, ReadEntries(p) \/ ReadAccruals(p)
    PROVE  InterestInv'
    <1>0. StageOK(p) /\ SnapOK(snap[p]) /\ DOMAIN snap = Proc
        BY DEF InterestInv, ProcessesOK, SnapOK
    <1>1. PICK stage \in {"read_accruals", "write"} :
             Goto(p, stage) /\ pc[p] = (IF stage = "write" THEN "read_accruals" ELSE "read_entries")
        BY DEF ReadEntries, ReadAccruals
    <1>2. /\ DOMAIN snap' = Proc /\ \A q \in Proc \ {p} : snap'[q] = snap[q]
          /\ snap'[p].rule = snap[p].rule
          /\ SnapOK(snap'[p])
        <2>1. CASE ReadEntries(p)
            <3>1. /\ DOMAIN snap' = Proc /\ \A q \in Proc \ {p} : snap'[q] = snap[q]
                  /\ snap'[p] = [rule |-> snap[p].rule, entries |-> EntriesOf(target[p].account), accruals |-> snap[p].accruals]
                BY <1>0, <2>1 DEF SnapOK, ReadEntries
            <3> QED BY <1>0, <3>1 DEF SnapOK
        <2>2. CASE ReadAccruals(p)
            <3>1. /\ DOMAIN snap' = Proc /\ \A q \in Proc \ {p} : snap'[q] = snap[q]
                  /\ snap'[p] = [rule |-> snap[p].rule, entries |-> snap[p].entries, accruals |-> AccrualsIn(target[p].account)]
                BY <1>0, <2>2 DEF SnapOK, ReadAccruals
            <3> QED BY <3>1 DEF SnapOK, AccrualsIn, InterestInv, TablesOK
        <2> QED BY <2>1, <2>2
    <1>3. /\ pc'[p] = stage /\ req' = req /\ target' = target
          /\ (IsCommand(p)' <=> IsCommand(p)) /\ (TargetOK(target[p])' <=> TargetOK(target[p]))
        BY <1>1, GoesOn
    <1>4. StageOK(p)'
        <2>1. TargetOK(target[p]) /\ IsCommand(p) /\ snap[p].rule \in Rule /\ snap[p].rule.account = target[p].account
            BY <1>0, <1>1 DEF StageOK
        <2> QED BY <1>1, <1>2, <1>3, <2>1 DEF StageOK, Lifecycle, AboutToWrite
    <1>5. stage \in Stage
        BY <1>1 DEF Stage
    <1> QED BY <1>1, <1>2, <1>4, <1>5, GotoKeeps

\* The invariant for a step of a job between its targets, which changes its list.
LEMMA JobMoves ==
    ASSUME InterestInv, NEW p \in Proc, OnlyMoves(p),
           pc' \in [Proc -> Stage], DOMAIN target' = Proc, DOMAIN todo' = Proc,
           \A q \in Proc : \A t \in todo'[q] : t.rule \in Rule /\ t.date \in Nat,
           UNCHANGED <<today, req, snap, rowLock>>, UNCHANGED tables, StageOK(p)'
    PROVE  InterestInv'
    <1>1. ProcessesOK'
        <2>1. DOMAIN req' = Proc /\ DOMAIN snap' = Proc /\ rowLock' \in [Account -> Proc \union {Nobody}]
            BY DEF InterestInv, ProcessesOK
        <2>2. \A q \in Proc : snap'[q] = [rule |-> snap'[q].rule, entries |-> snap'[q].entries, accruals |-> snap'[q].accruals]
            BY DEF InterestInv, ProcessesOK
        <2>3. \A q \in Proc : \A a \in snap'[q].accruals : a.date \in Nat
            BY DEF InterestInv, ProcessesOK
        <2> QED BY <2>1, <2>2, <2>3, Zenon DEF ProcessesOK
    <1>2. today' \in Nat
        BY DEF InterestInv, TablesOK
    <1>3. LockedRowsKept(p) /\ RulesKept /\ AccrualsLinked' /\ TablesOK'
        BY <1>2, TablesUnchanged
    <1> QED BY <1>1, <1>3, StepKeeps

\* The targets of a job are rules with its date.
LEMMA ListTargetsKeeps ==
    ASSUME InterestInv, NEW p \in Proc, ListTargets(p)
    PROVE  InterestInv'
    <1> PICK found : found = JobTargets(req[p].frequency, target[p].date)
        OBVIOUS
    <1>1. StageOK(p) /\ pc[p] = "list" /\ target[p].date \in Nat /\ ~IsCommand(p)
        BY DEF InterestInv, StageOK, ListTargets
    <1>2. \A r \in found : r \in Rule
        BY DEF JobTargets, ActiveRulesOn, RulesOf, InterestInv, TablesOK
    <1>3. /\ todo' = [todo EXCEPT ![p] = {[rule |-> r, date |-> target[p].date] : r \in found}]
          /\ pc' = [pc EXCEPT ![p] = "next"] /\ target' = [target EXCEPT ![p] = Nobody]
          /\ UNCHANGED <<today, req, snap, rowLock>> /\ UNCHANGED tables
        BY DEF ListTargets
    <1>4. \A q \in Proc : \A t \in todo'[q] : t.rule \in Rule /\ t.date \in Nat
        <2> TAKE q \in Proc
        <2>1. CASE q = p
            <3>1. todo'[q] = {[rule |-> r, date |-> target[p].date] : r \in found}
                BY <1>3, <2>1 DEF InterestInv, ProcessesOK
            <3> QED BY <1>1, <1>2, <3>1
        <2>2. CASE q # p
            BY <1>3, <2>2 DEF InterestInv, ProcessesOK
        <2> QED BY <2>1, <2>2
    <1>5. /\ pc' \in [Proc -> Stage] /\ DOMAIN target' = Proc /\ DOMAIN todo' = Proc /\ OnlyMoves(p)
          /\ pc'[p] = "next"
        <2>1. "next" \in Stage
            BY DEF Stage
        <2> QED BY <1>3, <2>1 DEF InterestInv, ProcessesOK, OnlyMoves
    <1>6. StageOK(p)'
        <2>1. ~IsCommand(p)'
            BY <1>1, <1>3 DEF IsCommand
        <2> QED BY <1>5, <2>1 DEF StageOK, Lifecycle, AboutToWrite
    <1> QED BY <1>3, <1>4, <1>5, <1>6, JobMoves

\* A job takes its next target, which locks the account like a request.
LEMMA NextTargetKeeps ==
    ASSUME InterestInv, NEW p \in Proc, NEW t \in todo[p], NextTarget(p, t)
    PROVE  InterestInv'
    <1>1. StageOK(p) /\ pc[p] = "next" /\ ~IsCommand(p) /\ t.rule \in Rule /\ t.date \in Nat
        BY DEF InterestInv, StageOK, NextTarget, ProcessesOK
    <1>2. /\ todo' = [todo EXCEPT ![p] = @ \ {t}]
          /\ UNCHANGED <<today, req, snap, rowLock>> /\ UNCHANGED tables
        BY DEF NextTarget
    <1>3. DOMAIN todo' = Proc /\ \A q \in Proc : \A u \in todo'[q] : u.rule \in Rule /\ u.date \in Nat
        BY <1>2 DEF InterestInv, ProcessesOK
    <1>4. ~IsCommand(p)'
        BY <1>1, <1>2 DEF IsCommand
    <1>5. CASE shouldPostAccrual(t.rule, t.date)
        <2> PICK g : g = [op |-> "accrue", account |-> t.rule.account, rule |-> t.rule.id, date |-> t.date]
            OBVIOUS
        <2>1. target' = [target EXCEPT ![p] = g] /\ pc' = [pc EXCEPT ![p] = "lock"]
            BY <1>5 DEF NextTarget
        <2>2. TargetOK(g)
            BY <1>1 DEF TargetOK, Rule
        <2>3. /\ pc' \in [Proc -> Stage] /\ DOMAIN target' = Proc /\ OnlyMoves(p) /\ pc'[p] = "lock" /\ target'[p] = g
            <3>1. "lock" \in Stage
                BY DEF Stage
            <3> QED BY <1>2, <2>1, <3>1 DEF InterestInv, ProcessesOK, OnlyMoves
        <2>4. TargetOK(target[p])'
            BY <2>2, <2>3 DEF TargetOK
        <2>5. StageOK(p)'
            BY <1>4, <2>3, <2>4 DEF StageOK, Lifecycle, AboutToWrite
        <2> QED BY <1>2, <1>3, <2>3, <2>5, JobMoves
    <1>6. CASE ~shouldPostAccrual(t.rule, t.date)
        <2>1. UNCHANGED <<target, pc>>
            BY <1>6 DEF NextTarget
        <2>2. /\ pc' \in [Proc -> Stage] /\ DOMAIN target' = Proc /\ OnlyMoves(p) /\ pc'[p] = "next"
            BY <1>1, <1>2, <2>1 DEF InterestInv, ProcessesOK, OnlyMoves
        <2>3. StageOK(p)'
            BY <1>4, <2>2 DEF StageOK, Lifecycle, AboutToWrite
        <2> QED BY <1>2, <1>3, <2>2, <2>3, JobMoves
    <1> QED BY <1>5, <1>6

-----------------------------------------------------------------------------
(* Rules. *)

\* The columns of a rule.
Column ==
    {"id", "account", "rate", "promoRate", "promoEnd", "accrual", "capitalization", "dayCount",
     "active", "start", "end", "version"}

\* A patched rule is a rule, with the id, the account and the version of the row.
LEMMA PatchIsRule ==
    ASSUME NEW row \in Rule, NEW new \in Rule, NEW set, set \intersect {"id", "account", "version"} = {}
    PROVE  /\ Patch(row, set, new) \in Rule
           /\ Patch(row, set, new).id = row.id /\ Patch(row, set, new).version = row.version
    <1> PICK merged : merged = [c \in DOMAIN row |-> IF c \in set THEN new[c] ELSE row[c]]
        OBVIOUS
    <1>1. DOMAIN row = Column
        BY DEF Rule, Column
    <1>2. merged \in Rule /\ merged.id = row.id /\ merged.version = row.version
        <2>1. merged = [c \in Column |-> IF c \in set THEN new[c] ELSE row[c]]
            BY <1>1
        <2> QED BY <2>1 DEF Rule, Column
    <1> PICK e, r : Patch(row, set, new) = [merged EXCEPT !.promoEnd = e, !.promoRate = r]
                    /\ e \in Nat /\ r \in Nat
        BY <1>2 DEF Patch, Rule, NoDate
    <1> QED BY <1>2 DEF Rule

\* An update is prepared on a row read without a lock.
LEMMA SubmitUpdateKeeps ==
    ASSUME InterestInv, NEW p \in Proc, NEW r \in Offered, SubmitUpdate(p, r)
    PROVE  InterestInv'
    <1> PICK old : old = rules[r.row.id]
        OBVIOUS
    <1> PICK new : new = Patch(old, r.set, r.row)
        OBVIOUS
    <1>1. r.kind = "update_rule" /\ r.row \in Rule /\ r.row.id \in RuleId /\ old # Nobody
          /\ r.set \intersect {"id", "account", "version"} = {}
        BY OfferedAssumption DEF SubmitUpdate, Rule
    <1>2. old \in Rule /\ old.id = r.row.id
        BY <1>1 DEF InterestInv, TablesOK
    <1>3. new \in Rule /\ new.id = r.row.id /\ new.version = old.version
        BY <1>1, <1>2, PatchIsRule
    <1>4. /\ pc' = [pc EXCEPT ![p] = "update"] /\ req' = [req EXCEPT ![p] = r]
          /\ snap' = [snap EXCEPT ![p].rule = new]
          /\ UNCHANGED <<today, target, todo, rowLock>> /\ UNCHANGED tables
        BY DEF SubmitUpdate
    <1>5. SnapOK(snap[p]) /\ DOMAIN snap = Proc
        BY DEF InterestInv, ProcessesOK, SnapOK
    <1>6. snap'[p] = [rule |-> new, entries |-> snap[p].entries, accruals |-> snap[p].accruals]
        BY <1>4, <1>5 DEF SnapOK
    <1>7. SnapOK(snap'[p]) /\ snap'[p].rule = new
        BY <1>5, <1>6 DEF SnapOK
    <1>8. /\ pc' \in [Proc -> Stage] /\ DOMAIN req' = Proc /\ DOMAIN target' = Proc /\ DOMAIN snap' = Proc
          /\ OnlyMoves(p) /\ pc'[p] = "update" /\ req'[p] = r
        <2>1. "update" \in Stage
            BY DEF Stage
        <2> QED BY <1>4, <1>5, <2>1 DEF InterestInv, ProcessesOK, OnlyMoves
    <1>9. StageOK(p)'
        <2>1. rules' = rules
            BY <1>4 DEF tables
        <2>2. new.version \in Nat
            BY <1>3 DEF Rule
        <2>3. UpdateOK(p)'
            BY <1>1, <1>3, <1>7, <1>8, <2>1, <2>2 DEF UpdateOK
        <2> QED BY <1>8, <2>3 DEF StageOK, Lifecycle, AboutToWrite
    <1>10. /\ rowLock' \in [Account -> Proc \union {Nobody}]
           /\ \A a \in Account : rowLock[a] \in Proc \ {p} => rowLock'[a] = rowLock[a]
        BY <1>4 DEF InterestInv, ProcessesOK
    <1> QED BY <1>4, <1>7, <1>8, <1>9, <1>10, MoveKeeps

\* A step of p that changes nothing of its own and leaves the tables to be looked at.
LEMMA ControlUnchanged ==
    ASSUME InterestInv, NEW p \in Proc, UNCHANGED control, UNCHANGED rowLock,
           LockedRowsKept(p), RulesKept, TablesOK', AccrualsLinked', pc[p] = "idle"
    PROVE  InterestInv'
    <1>1. OnlyMoves(p)
        BY DEF control, OnlyMoves
    <1>2. ProcessesOK'
        BY DEF control, InterestInv, ProcessesOK
    <1>3. StageOK(p)'
        BY NothingHeld DEF control
    <1> QED BY <1>1, <1>2, <1>3, StepKeeps

\* A new rule takes a free id.
LEMMA CreateRuleKeeps ==
    ASSUME InterestInv, NEW p \in Proc, NEW r \in Offered, CreateRule(p, r)
    PROVE  InterestInv'
    <1> PICK new : new = [r.row EXCEPT !.active = TRUE, !.version = 0]
        OBVIOUS
    <1>1. r.row \in Rule /\ rules[r.row.id] = Nobody /\ pc[p] = "idle"
        BY OfferedAssumption DEF CreateRule, Idle
    <1>2. new \in Rule /\ new.id = r.row.id /\ new.id \in RuleId
        BY <1>1 DEF Rule
    <1>3. /\ rules' = [rules EXCEPT ![new.id] = new]
          /\ UNCHANGED <<today, active, entries, accruals, lastId, rowLock>> /\ UNCHANGED control
        BY DEF CreateRule
    <1>4. TablesOK'
        BY <1>2, <1>3 DEF InterestInv, TablesOK
    <1>5. AccrualsLinked'
        BY <1>3 DEF InterestInv, AccrualsLinked
    <1>6. LockedRowsKept(p)
        BY <1>3 DEF LockedRowsKept, EntriesKept, EntriesOf, AccrualsIn
    <1>7. RulesKept
        BY <1>1, <1>2, <1>3 DEF RulesKept, InterestInv, TablesOK
    <1> QED BY <1>1, <1>3, <1>4, <1>5, <1>6, <1>7, ControlUnchanged

\* An update writes the next version of the row it was prepared on.
LEMMA UpdateWrites ==
    ASSUME InterestInv, NEW p \in Proc, CommitUpdate(p)
    PROVE  /\ snap[p].rule \in Rule /\ snap[p].rule.id \in RuleId
           /\ rules[snap[p].rule.id] # Nobody
           /\ snap[p].rule = Patch(rules[snap[p].rule.id], req[p].set, req[p].row)
           /\ snap[p].rule.version = rules[snap[p].rule.id].version
           /\ rules' = [rules EXCEPT ![snap[p].rule.id] = [snap[p].rule EXCEPT !.version = @ + 1]]
    <1>1. StageOK(p) /\ pc[p] = "update"
        BY DEF InterestInv, CommitUpdate
    <1>2. UpdateOK(p)
        BY <1>1 DEF StageOK
    <1> QED BY <1>2 DEF UpdateOK, CommitUpdate, UpdateAccepts

\* An update that is committed.
LEMMA CommitUpdateKeeps ==
    ASSUME InterestInv, NEW p \in Proc, CommitUpdate(p)
    PROVE  InterestInv'
    <1> PICK new : new = snap[p].rule
        OBVIOUS
    <1> PICK next : next = [new EXCEPT !.version = @ + 1]
        OBVIOUS
    <1>1. /\ new \in Rule /\ new.id \in RuleId /\ rules[new.id] # Nobody
          /\ new.version = rules[new.id].version /\ rules' = [rules EXCEPT ![new.id] = next]
        BY UpdateWrites
    <1>2. next \in Rule /\ next.id = new.id /\ next.version = new.version + 1 /\ new.version \in Nat
        BY <1>1 DEF Rule
    <1>3. Return(p, "posted") /\ UNCHANGED <<active, entries, accruals, lastId>>
        BY DEF CommitUpdate
    <1>4. /\ OnlyMoves(p) /\ ProcessesOK' /\ StageOK(p)' /\ today' = today
          /\ \A a \in Account : rowLock[a] \in Proc \ {p} => rowLock'[a] = rowLock[a]
        BY <1>3, ReturnKeeps
    <1>5. TablesOK'
        BY <1>1, <1>2, <1>3, <1>4 DEF InterestInv, TablesOK
    <1>6. AccrualsLinked'
        BY <1>3 DEF InterestInv, AccrualsLinked
    <1>7. LockedRowsKept(p)
        BY <1>3, <1>4 DEF LockedRowsKept, EntriesKept, EntriesOf, AccrualsIn
    <1>8. RulesKept
        <2> SUFFICES ASSUME NEW i \in RuleId, rules[i] # Nobody
                     PROVE  \/ rules'[i] = rules[i]
                            \/ rules'[i] # Nobody /\ rules'[i].version \in Nat /\ rules[i].version < rules'[i].version
            BY DEF RulesKept
        <2>1. CASE i = new.id
            <3>1. rules'[i] = next /\ next # Nobody
                BY <1>1, <1>2, <2>1, RulesAssumption DEF InterestInv, TablesOK
            <3> QED BY <1>1, <1>2, <2>1, <3>1
        <2>2. CASE i # new.id
            BY <1>1, <2>2 DEF InterestInv, TablesOK
        <2> QED BY <2>1, <2>2
    <1> QED BY <1>4, <1>5, <1>6, <1>7, <1>8, StepKeeps

-----------------------------------------------------------------------------
(* The rest of the system. *)

\* A manual posting gets a new id and waits for the account's lock.
LEMMA PostKeeps ==
    ASSUME InterestInv, NEW p \in Proc, NEW r \in Offered, Post(p, r)
    PROVE  InterestInv'
    <1> PICK new : new = [id |-> lastId + 1, account |-> r.account, date |-> r.date, amount |-> r.amount, source |-> "manual"]
        OBVIOUS
    <1>0. rowLock[r.account] = Nobody /\ pc[p] = "idle" /\ lastId \in Nat
        BY DEF Post, Idle, InterestInv, TablesOK
    <1>1. /\ entries' = entries \union {new} /\ lastId' = lastId + 1
          /\ UNCHANGED <<today, active, accruals, rules, rowLock>> /\ UNCHANGED control
        BY DEF Post
    <1>2. \A t \in entries : t.id \in Nat /\ t.id <= lastId /\ t.id # new.id
        BY <1>0 DEF InterestInv, TablesOK
    <1>3. TablesOK'
        <2>1. lastId' \in Nat /\ \A t \in entries' : t.id \in Nat /\ t.id <= lastId'
            BY <1>0, <1>1, <1>2
        <2> QED BY <1>1, <2>1 DEF InterestInv, TablesOK
    <1>4. AccrualsLinked'
        <2>1. new.source # "interest"
            OBVIOUS
        <2> QED BY <1>1, <1>2, <2>1 DEF InterestInv, AccrualsLinked
    <1>5. LockedRowsKept(p)
        <2> SUFFICES ASSUME NEW a \in Account, rowLock[a] \in Proc \ {p} PROVE EntriesOf(a)' = EntriesOf(a)
            BY <1>1 DEF LockedRowsKept, EntriesKept, AccrualsIn
        <2>1. new.account # a
            BY <1>0, RulesAssumption
        <2> QED BY <1>1, <2>1 DEF EntriesOf
    <1>6. RulesKept
        BY <1>1 DEF RulesKept
    <1> QED BY <1>0, <1>1, <1>3, <1>4, <1>5, <1>6, ControlUnchanged

\* A withdrawal takes a manual row away, whoever holds the account's lock.
LEMMA WithdrawKeeps ==
    ASSUME InterestInv, NEW p \in Proc, NEW r \in Offered, Withdraw(p, r)
    PROVE  InterestInv'
    <1>1. PICK t \in entries : t.source = "manual" /\ entries' = entries \ {t}
        BY DEF Withdraw, EntriesOf
    <1>2. /\ pc[p] = "idle"
          /\ UNCHANGED <<today, active, accruals, rules, lastId, rowLock>> /\ UNCHANGED control
        BY DEF Withdraw, Idle
    <1>3. TablesOK'
        BY <1>1, <1>2 DEF InterestInv, TablesOK
    <1>4. AccrualsLinked'
        <2>1. AccrualsLinked
            BY DEF InterestInv
        <2>2. \A a \in accruals : \E u \in entries' :
                 u = [id |-> a.tx, account |-> a.account, date |-> a.date, amount |-> a.amount, source |-> "interest"]
            BY <1>1, <2>1 DEF AccrualsLinked
        <2>3. /\ \A u \in entries' : u.source = "interest" => \E a \in accruals : a.tx = u.id
              /\ \A a, b \in accruals :
                   a.tx = b.tx \/ (a.account = b.account /\ a.rule = b.rule /\ a.date = b.date) => a = b
              /\ \A u, v \in entries' : u.id = v.id => u = v
            BY <1>1, <2>1 DEF AccrualsLinked
        <2> QED BY <1>2, <2>2, <2>3 DEF AccrualsLinked
    <1>5. LockedRowsKept(p)
        <2>1. \A a \in Account : EntriesKept(a)
            BY <1>1 DEF EntriesKept, EntriesOf
        <2> QED BY <1>2, <2>1 DEF LockedRowsKept, AccrualsIn
    <1>6. RulesKept
        BY <1>2 DEF RulesKept
    <1> QED BY <1>2, <1>3, <1>4, <1>5, <1>6, ControlUnchanged

\* An archival waits for the account's lock.
LEMMA ArchiveKeeps ==
    ASSUME InterestInv, NEW p \in Proc, NEW r \in Offered, Archive(p, r)
    PROVE  InterestInv'
    <1>1. /\ rowLock[r.account] = Nobody /\ pc[p] = "idle" /\ active' = [active EXCEPT ![r.account] = FALSE]
          /\ UNCHANGED <<today, entries, accruals, rules, lastId, rowLock>> /\ UNCHANGED control
        BY DEF Archive, Idle
    <1>2. TablesOK'
        BY <1>1 DEF InterestInv, TablesOK
    <1>3. AccrualsLinked'
        BY <1>1 DEF InterestInv, AccrualsLinked
    <1>4. LockedRowsKept(p)
        BY <1>1, RulesAssumption DEF LockedRowsKept, EntriesKept, EntriesOf, AccrualsIn, InterestInv, TablesOK
    <1>5. RulesKept
        BY <1>1 DEF RulesKept
    <1> QED BY <1>1, <1>2, <1>3, <1>4, <1>5, ControlUnchanged

\* The clock, and a step that changes nothing.
LEMMA TickKeeps ==
    ASSUME InterestInv, Tick \/ UNCHANGED vars
    PROVE  InterestInv'
    <1>1. today' \in Nat /\ UNCHANGED rowLock /\ UNCHANGED tables /\ UNCHANGED control
        BY DEF Tick, vars, tables, control, InterestInv, TablesOK
    <1>2. TablesOK' /\ AccrualsLinked'
        BY <1>1 DEF tables, InterestInv, TablesOK, AccrualsLinked
    <1>3. ProcessesOK'
        BY <1>1 DEF control, InterestInv, ProcessesOK
    <1>4. \A q \in Proc : StageOK(q)'
        BY <1>1 DEF tables, control, InterestInv, StageOK, Lifecycle, IsCommand, TargetOK, UpdateOK, Covers, EntriesOf, AccrualsIn, AboutToWrite
    <1> QED BY <1>2, <1>3, <1>4 DEF InterestInv

-----------------------------------------------------------------------------
(* The writes. *)

\* What a process that may write relies on: nobody else has the account's lock.
LEMMA WriterOK ==
    ASSUME InterestInv, NEW p \in Proc, MayWrite(p)
    PROVE  /\ pc[p] = "write" /\ TargetOK(target[p])
           /\ snap[p].rule \in Rule /\ snap[p].rule.account = target[p].account
           /\ target[p].account \in Account /\ rowLock[target[p].account] \notin Proc \ {p}
           /\ \A a \in snap[p].accruals : a.date \in Nat
           /\ lastId \in Nat
           /\ \A t \in entries : t.id \in Nat /\ t.id <= lastId
    <1>1. StageOK(p) /\ pc[p] = "write"
        BY DEF InterestInv, MayWrite
    <1>2. TargetOK(target[p]) /\ snap[p].rule \in Rule /\ snap[p].rule.account = target[p].account
        BY <1>1 DEF StageOK
    <1>3. target[p].account \in Account /\ rowLock[target[p].account] \notin Proc \ {p}
        BY <1>2, RulesAssumption DEF TargetOK, MayWrite
    <1> QED BY <1>1, <1>2, <1>3 DEF InterestInv, ProcessesOK, TablesOK

\* A write to p's own account keeps what others have locked.
LEMMA WriteKeeps ==
    ASSUME InterestInv, NEW p \in Proc, MayWrite(p), Return(p, "posted"), UNCHANGED <<active, rules>>,
           \A b \in Account : b # target[p].account =>
               EntriesOf(b)' = EntriesOf(b) /\ AccrualsIn(b)' = AccrualsIn(b),
           AccrualsLinked', lastId' \in Nat, \A t \in entries' : t.id \in Nat /\ t.id <= lastId',
           \A a \in accruals' : a.date \in Nat /\ a.days \subseteq 1..a.date
    PROVE  InterestInv'
    <1>1. target[p].account \in Account /\ rowLock[target[p].account] \notin Proc \ {p}
        BY WriterOK
    <1>2. /\ OnlyMoves(p) /\ ProcessesOK' /\ StageOK(p)' /\ today' = today
          /\ \A a \in Account : rowLock[a] \in Proc \ {p} => rowLock'[a] = rowLock[a]
        BY ReturnKeeps
    <1>3. TablesOK'
        BY <1>2 DEF InterestInv, TablesOK
    <1>4. LockedRowsKept(p)
        BY <1>1, <1>2 DEF LockedRowsKept, EntriesKept
    <1>5. RulesKept
        BY DEF RulesKept
    <1> QED BY <1>2, <1>3, <1>4, <1>5, StepKeeps

\* A posting: its date is in the term of its rule, and it pays days up to it.
LEMMA PostingOK ==
    ASSUME InterestInv, NEW p \in Proc, PostAccrual(p)
    PROVE  /\ MayWrite(p) /\ target[p].date \in Nat /\ 1 <= target[p].date
           /\ Calculated(p).days \subseteq 1..target[p].date
           /\ \A a \in AccrualsOf(snap[p].accruals, snap[p].rule) : a.date < target[p].date =>
                \A e \in Calculated(p).days : a.date < e
    <1> PICK rule, accs, d : rule = snap[p].rule /\ accs = snap[p].accruals /\ d = target[p].date
        OBVIOUS
    <1>1. MayWrite(p) /\ Calculated(p).status = "posted"
        BY DEF PostAccrual
    <1>2. rule \in Rule /\ d \in Nat /\ \A a \in accs : a.date \in Nat
        BY <1>1, WriterOK DEF TargetOK
    <1>3. PICK txs, balance : Calculated(p) = Accrue(rule, txs, accs, balance, d)
        BY DEF Calculated, LifecycleAccrual, CommandAccrual
    <1>4. /\ 1 <= d /\ Calculated(p).days \subseteq 1..d
          /\ \A a \in AccrualsOf(accs, rule) : a.date < d => \A e \in Calculated(p).days : a.date < e
        BY <1>1, <1>2, <1>3, AccruePosts
    <1> QED BY <1>1, <1>2, <1>4

\* CreateInterestAccrualWithTransaction.
LEMMA PostAccrualKeeps ==
    ASSUME InterestInv, NEW p \in Proc, PostAccrual(p)
    PROVE  InterestInv'
    <1> PICK rule, d, result : rule = snap[p].rule /\ d = target[p].date /\ result = Calculated(p)
        OBVIOUS
    <1> PICK row : row = InterestRow(rule, d, result.amount, lastId)
        OBVIOUS
    <1> PICK new : new = AccrualRow(rule, d, result.amount, result.days, lastId)
        OBVIOUS
    <1>1. /\ MayWrite(p) /\ Return(p, "posted") /\ ~Conflict(rule, d)
          /\ entries' = entries \union {row} /\ accruals' = accruals \union {new}
          /\ lastId' = lastId + d /\ UNCHANGED <<active, rules>>
        BY DEF PostAccrual, InsertAccrual
    <1>2. d \in Nat /\ 1 <= d /\ result.days \subseteq 1..d
        BY PostingOK
    <1>3. /\ rule \in Rule /\ rule.account = target[p].account /\ lastId \in Nat
          /\ \A t \in entries : t.id \in Nat /\ t.id <= lastId
        BY <1>1, WriterOK
    <1>4. /\ row.id = lastId + d /\ row.account = rule.account /\ row.source = "interest"
          /\ new.account = rule.account /\ new.rule = rule.id /\ new.date = d /\ new.tx = lastId + d
          /\ new.days = result.days
          /\ row = [id |-> new.tx, account |-> new.account, date |-> new.date, amount |-> new.amount, source |-> "interest"]
        BY DEF InterestRow, AccrualRow
    <1>5. /\ lastId' \in Nat /\ \A t \in entries' : t.id \in Nat /\ t.id <= lastId'
          /\ \A t \in entries : t.id # row.id
        BY <1>1, <1>2, <1>3, <1>4
    <1>6. \A a \in accruals' : a.date \in Nat /\ a.days \subseteq 1..a.date
        BY <1>1, <1>2, <1>4 DEF InterestInv, TablesOK
    <1>7. \A b \in Account : b # target[p].account => EntriesOf(b)' = EntriesOf(b) /\ AccrualsIn(b)' = AccrualsIn(b)
        BY <1>1, <1>3, <1>4 DEF EntriesOf, AccrualsIn
    <1>8. AccrualsLinked'
        <2>1. AccrualsLinked
            BY DEF InterestInv
        <2>2. \A a \in accruals : \E t \in entries : t.id = a.tx
            BY <2>1 DEF AccrualsLinked
        <2>3. \A a \in accruals : a.tx # new.tx
            BY <1>4, <1>5, <2>2
        <2>4. \A a \in accruals : ~(a.account = new.account /\ a.rule = new.rule /\ a.date = new.date)
            BY <1>1, <1>4 DEF Conflict
        <2>5. \A a \in accruals' : \E t \in entries' :
                 t = [id |-> a.tx, account |-> a.account, date |-> a.date, amount |-> a.amount, source |-> "interest"]
            BY <1>1, <1>4, <2>1 DEF AccrualsLinked
        <2>6. \A t \in entries' : t.source = "interest" => \E a \in accruals' : a.tx = t.id
            BY <1>1, <1>4, <2>1 DEF AccrualsLinked
        <2>7. \A a, b \in accruals' :
                 a.tx = b.tx \/ (a.account = b.account /\ a.rule = b.rule /\ a.date = b.date) => a = b
            BY <1>1, <2>1, <2>3, <2>4 DEF AccrualsLinked
        <2>8. \A t, u \in entries' : t.id = u.id => t = u
            BY <1>1, <1>5, <2>1 DEF AccrualsLinked
        <2> QED BY <2>5, <2>6, <2>7, <2>8 DEF AccrualsLinked
    <1> QED BY <1>1, <1>5, <1>6, <1>7, <1>8, WriteKeeps

\* The range a recalculation replaces, and what it puts in its place.
LEMMA RecalculationOK ==
    ASSUME InterestInv, NEW p \in Proc, PostRecalculation(p)
    PROVE  /\ MayWrite(p) /\ ~IsAccrual(target[p]) /\ FromDate(p) \in Nat \ {0} /\ target[p].to \in Nat
           /\ FromDate(p) <= target[p].to
           /\ \E new :
                /\ PassOK(new, snap[p].rule, 1, target[p].to, lastId)
                /\ \A a \in new.accruals : a.date \in FromDate(p)..target[p].to
                /\ ReplaceRange(snap[p].rule, FromDate(p), target[p].to, new)
    <1> PICK rule, from, to : rule = snap[p].rule /\ from = FromDate(p) /\ to = target[p].to
        OBVIOUS
    <1> PICK new : new = Recalculate(rule, snap[p].entries, snap[p].accruals, from, to, lastId)
        OBVIOUS
    <1>1. MayWrite(p) /\ ~IsAccrual(target[p]) /\ from <= to /\ ReplaceRange(rule, from, to, new)
        BY DEF PostRecalculation
    <1>2. rule \in Rule /\ TargetOK(target[p])
        BY <1>1, WriterOK
    <1>3. rule.start \in Nat \ {0} /\ target[p].from \in Nat /\ to \in Nat
        BY <1>1, <1>2 DEF Rule, TargetOK, IsAccrual
    <1>4. from \in Nat \ {0}
        BY <1>3 DEF FromDate, NoDate
    <1>5. /\ PassOK(new, rule, 1, to, lastId)
          /\ \A a \in new.accruals : a.date \in from..to
        BY <1>1, <1>2, <1>3, <1>4, RecalculatePosts
    <1> QED BY <1>1, <1>3, <1>4, <1>5

\* The transaction of an accrual is the one row with its id.
LEMMA LinkedRow ==
    ASSUME AccrualsLinked, NEW a \in accruals, NEW t \in entries, t.id = a.tx
    PROVE  t = RowOf(a)
    <1>1. RowOf(a) \in entries
        BY DEF AccrualsLinked, RowOf
    <1>2. RowOf(a).id = a.tx
        BY DEF RowOf
    <1> QED BY <1>1, <1>2 DEF AccrualsLinked

\* replaceInterestAccrualRangeWithTransactions.
LEMMA PostRecalculationKeeps ==
    ASSUME InterestInv, NEW p \in Proc, PostRecalculation(p)
    PROVE  InterestInv'
    <1> PICK rule, from, to : rule = snap[p].rule /\ from = FromDate(p) /\ to = target[p].to
        OBVIOUS
    <1>1. /\ MayWrite(p) /\ from \in Nat \ {0} /\ to \in Nat /\ from <= to
          /\ \E new :
               /\ PassOK(new, rule, 1, to, lastId)
               /\ \A a \in new.accruals : a.date \in from..to
               /\ ReplaceRange(rule, from, to, new)
        BY RecalculationOK
    <1>2. PICK new : /\ PassOK(new, rule, 1, to, lastId)
                     /\ \A a \in new.accruals : a.date \in from..to
                     /\ ReplaceRange(rule, from, to, new)
        BY <1>1
    <1> PICK old : old = Replaced(accruals, rule, from, to)
        OBVIOUS
    <1> PICK kept : kept = {t \in entries : \A a \in old : a.tx # t.id}
        OBVIOUS
    <1>3. /\ entries' = kept \union new.rows /\ accruals' = (accruals \ old) \union new.accruals
          /\ lastId' = lastId + to /\ UNCHANGED <<active, rules>> /\ Return(p, "posted")
        BY <1>2 DEF ReplaceRange, PostRecalculation
    <1>4. /\ rule \in Rule /\ rule.account = target[p].account /\ lastId \in Nat
          /\ \A t \in entries : t.id \in Nat /\ t.id <= lastId
        BY <1>1, WriterOK
    <1>5. /\ \A a \in new.accruals :
               /\ a.account = rule.account /\ a.rule = rule.id /\ a.date \in 1..to /\ a.date \in from..to
               /\ a.tx = lastId + a.date /\ a.days \subseteq 1..a.date
          /\ \A a, b \in new.accruals : a.date = b.date => a = b
          /\ new.rows = {RowOf(a) : a \in new.accruals}
        BY <1>2 DEF PassOK
    <1>6. \A a \in accruals : a \in old <=> a.account = rule.account /\ a.rule = rule.id /\ a.date \in from..to
        BY <1>1 DEF Replaced, AccrualsOf, InterestInv, TablesOK
    <1>7. old \subseteq accruals
        BY DEF Replaced, AccrualsOf
    <1>8. AccrualsLinked
        BY DEF InterestInv
    <1>9. \A a \in new.accruals : a.tx \in Nat /\ a.tx <= lastId + to /\ \A t \in entries : t.id # a.tx
        BY <1>1, <1>4, <1>5
    <1>10. \A a \in accruals : \A b \in new.accruals : a.tx # b.tx
        BY <1>8, <1>9 DEF AccrualsLinked
    <1>11. /\ lastId' \in Nat /\ \A t \in entries' : t.id \in Nat /\ t.id <= lastId'
        <2>1. \A a \in new.accruals : RowOf(a).id = a.tx
            BY DEF RowOf
        <2>2. \A t \in new.rows : t.id \in Nat /\ t.id <= lastId + to
            BY <1>5, <1>9, <2>1
        <2>3. \A t \in kept : t.id \in Nat /\ t.id <= lastId + to
            BY <1>1, <1>4
        <2> QED BY <1>1, <1>3, <1>4, <2>2, <2>3
    <1>12. \A a \in accruals' : a.date \in Nat /\ a.days \subseteq 1..a.date
        BY <1>1, <1>3, <1>5 DEF InterestInv, TablesOK
    <1>13. \A b \in Account : b # target[p].account => EntriesOf(b)' = EntriesOf(b) /\ AccrualsIn(b)' = AccrualsIn(b)
        <2> SUFFICES ASSUME NEW b \in Account, b # rule.account
                     PROVE  EntriesOf(b)' = EntriesOf(b) /\ AccrualsIn(b)' = AccrualsIn(b)
            BY <1>4
        <2>1. \A a \in new.accruals : RowOf(a).account = rule.account /\ a.account = rule.account
            BY <1>5 DEF RowOf
        <2>2. \A t \in new.rows : t.account = rule.account
            BY <1>5, <2>1
        <2>3. \A a \in old : a.account = rule.account
            BY <1>6, <1>7
        <2>4. \A t \in entries : t \notin kept => t.account = rule.account
            <3> SUFFICES ASSUME NEW t \in entries, NEW a \in old, a.tx = t.id PROVE t.account = rule.account
                OBVIOUS
            <3>1. t = RowOf(a)
                BY <1>7, <1>8, LinkedRow
            <3> QED BY <2>3, <3>1 DEF RowOf
        <2>5. kept \subseteq entries
            OBVIOUS
        <2>6. EntriesOf(b)' = EntriesOf(b)
            BY <1>3, <2>2, <2>4, <2>5 DEF EntriesOf
        <2>7. AccrualsIn(b)' = AccrualsIn(b)
            BY <1>3, <1>7, <2>1, <2>3 DEF AccrualsIn
        <2> QED BY <2>6, <2>7
    <1>14. AccrualsLinked'
        <2>1. \A a \in accruals' : RowOf(a) \in entries'
            <3> TAKE a \in accruals'
            <3>1. CASE a \in new.accruals
                BY <1>3, <1>5, <3>1
            <3>2. CASE a \in accruals \ old
                <4>1. RowOf(a) \in entries /\ RowOf(a).id = a.tx
                    BY <1>8, <3>2 DEF AccrualsLinked, RowOf
                <4>2. \A b \in old : b.tx # a.tx
                    BY <1>7, <1>8, <3>2 DEF AccrualsLinked
                <4> QED BY <1>3, <4>1, <4>2
            <3> QED BY <1>3, <3>1, <3>2
        <2>2. \A t \in entries' : t.source = "interest" => \E a \in accruals' : a.tx = t.id
            <3> SUFFICES ASSUME NEW t \in entries', t.source = "interest" PROVE \E a \in accruals' : a.tx = t.id
                OBVIOUS
            <3>1. CASE t \in new.rows
                <4>1. PICK a \in new.accruals : t = RowOf(a)
                    BY <1>5, <3>1
                <4> QED BY <1>3, <4>1 DEF RowOf
            <3>2. CASE t \in kept
                <4>1. PICK a \in accruals : a.tx = t.id
                    BY <1>8, <3>2 DEF AccrualsLinked
                <4> QED BY <1>3, <3>2, <4>1
            <3> QED BY <1>3, <3>1, <3>2
        <2>3. \A a, b \in accruals' :
                 a.tx = b.tx \/ (a.account = b.account /\ a.rule = b.rule /\ a.date = b.date) => a = b
            <3> SUFFICES ASSUME NEW a \in accruals', NEW b \in accruals',
                                a.tx = b.tx \/ (a.account = b.account /\ a.rule = b.rule /\ a.date = b.date)
                         PROVE  a = b
                OBVIOUS
            <3>1. CASE a \in accruals \ old /\ b \in accruals \ old
                BY <1>8, <3>1 DEF AccrualsLinked
            <3>2. CASE a \in new.accruals /\ b \in new.accruals
                <4>1. a.date = b.date
                    <5>1. a.date \in Nat /\ b.date \in Nat /\ a.tx = lastId + a.date /\ b.tx = lastId + b.date
                        BY <1>5, <3>2
                    <5>2. CASE a.tx = b.tx
                        <6>1. lastId + a.date = lastId + b.date
                            BY <5>1, <5>2
                        <6> QED BY <1>4, <5>1, <6>1
                    <5>3. CASE a.date = b.date
                        BY <5>3
                    <5> QED BY <5>2, <5>3
                <4> QED BY <1>5, <3>2, <4>1
            <3>3. CASE a \in accruals \ old /\ b \in new.accruals
                BY <1>5, <1>6, <1>10, <3>3
            <3>4. CASE a \in new.accruals /\ b \in accruals \ old
                BY <1>5, <1>6, <1>10, <3>4
            <3> QED BY <1>3, <3>1, <3>2, <3>3, <3>4
        <2>4. \A t, u \in entries' : t.id = u.id => t = u
            <3> SUFFICES ASSUME NEW t \in entries', NEW u \in entries', t.id = u.id PROVE t = u
                OBVIOUS
            <3>1. CASE t \in kept /\ u \in kept
                BY <1>8, <3>1 DEF AccrualsLinked
            <3>2. CASE t \in new.rows /\ u \in new.rows
                <4>1. PICK a \in new.accruals : t = RowOf(a)
                    BY <1>5, <3>2
                <4>2. PICK b \in new.accruals : u = RowOf(b)
                    BY <1>5, <3>2
                <4>3. a.tx = b.tx
                    BY <4>1, <4>2 DEF RowOf
                <4>4. a.date = b.date
                    <5>1. a.date \in Nat /\ b.date \in Nat /\ a.tx = lastId + a.date /\ b.tx = lastId + b.date
                        BY <1>5
                    <5>2. lastId + a.date = lastId + b.date
                        BY <4>3, <5>1
                    <5> QED BY <1>4, <5>1, <5>2
                <4> QED BY <1>5, <4>1, <4>2, <4>4
            <3>3. CASE t \in kept /\ u \in new.rows
                <4>1. PICK b \in new.accruals : u = RowOf(b)
                    BY <1>5, <3>3
                <4> QED BY <1>9, <3>3, <4>1 DEF RowOf
            <3>4. CASE t \in new.rows /\ u \in kept
                <4>1. PICK b \in new.accruals : t = RowOf(b)
                    BY <1>5, <3>4
                <4> QED BY <1>9, <3>4, <4>1 DEF RowOf
            <3> QED BY <1>3, <3>1, <3>2, <3>3, <3>4
        <2> QED BY <2>1, <2>2, <2>3, <2>4 DEF AccrualsLinked, RowOf
    <1> QED BY <1>1, <1>3, <1>11, <1>12, <1>13, <1>14, WriteKeeps

-----------------------------------------------------------------------------
(* The theorems. *)

\* The tables hold the opening balances, with ids up to the last one given out.
LEMMA InitHolds == Init => InterestInv
    <1> SUFFICES ASSUME Init PROVE InterestInv
        OBVIOUS
    <1>1. PICK n \in Account : lastId = n /\ \A a \in Account : a <= n
        BY DEF Init
    <1>2. \A t \in entries : t.id \in Account /\ t.source = "manual" /\ t = [id |-> t.id, account |-> t.id, date |-> 1, amount |-> Opening[t.id], source |-> "manual"]
        BY DEF Init
    <1>3. \A t \in entries : t.id \in Nat /\ t.id <= lastId
        BY <1>1, <1>2, RulesAssumption
    <1>4. TablesOK
        BY <1>1, <1>3, RulesAssumption DEF Init, TablesOK
    <1>5. ProcessesOK
        <2>1. "idle" \in Stage
            BY DEF Stage
        <2> QED BY <2>1 DEF Init, ProcessesOK, NoSnap
    <1>6. AccrualsLinked
        <2>1. accruals = {} /\ \A t \in entries : t.source # "interest"
            BY <1>2 DEF Init
        <2>2. \A t, u \in entries : t.id = u.id => t = u
            BY <1>2
        <2> QED BY <2>1, <2>2 DEF AccrualsLinked
    <1>7. \A p \in Proc : StageOK(p)
        BY DEF Init, StageOK, Lifecycle, AboutToWrite
    <1> QED BY <1>4, <1>5, <1>6, <1>7 DEF InterestInv

\* Every step keeps the invariant.
LEMMA NextKeeps == InterestInv /\ [Next]_vars => InterestInv'
    <1> SUFFICES ASSUME InterestInv, [Next]_vars PROVE InterestInv'
        OBVIOUS
    <1>1. ASSUME NEW p \in Proc, NEW r \in Offered, Request(p, r) PROVE InterestInv'
        BY <1>1, SubmitKeeps, SubmitCommandKeeps, StartJobKeeps, CreateRuleKeeps, SubmitUpdateKeeps,
           PostKeeps, WithdrawKeeps, ArchiveKeeps DEF Request
    <1>2. ASSUME NEW p \in Proc, Wait(p) PROVE InterestInv'
        BY <1>2, LockAccountKeeps, EndsKeep DEF Wait
    <1>3. ASSUME NEW p \in Proc, Write(p) PROVE InterestInv'
        BY <1>3, PostAccrualKeeps, PostRecalculationKeeps, EndsKeep DEF Write
    <1>4. ASSUME NEW p \in Proc, Step(p) PROVE InterestInv'
        <2>1. CASE SelectRule(p) \/ ReadRule(p)
            BY <2>1, SelectKeeps
        <2>2. CASE RefuseRule(p) \/ RejectUpdate(p)
            BY <2>2, EndsKeep
        <2>3. CASE LoadSnapshot(p)
            BY <2>3, LoadSnapshotKeeps
        <2>4. CASE ReadEntries(p) \/ ReadAccruals(p)
            BY <2>4, ReadsKeep
        <2>5. CASE ListTargets(p)
            BY <2>5, ListTargetsKeeps
        <2>6. ASSUME NEW t \in todo[p], NextTarget(p, t) PROVE InterestInv'
            BY <2>6, NextTargetKeeps
        <2>7. CASE FinishJob(p)
            BY <2>7, LeaveKeeps DEF FinishJob
        <2>8. CASE CommitUpdate(p)
            BY <2>8, CommitUpdateKeeps
        <2> QED BY <1>4, <2>1, <2>2, <2>3, <2>4, <2>5, <2>6, <2>7, <2>8 DEF Step
    <1>5. ASSUME NEW p \in Proc, Abort(p) \/ Crash(p) PROVE InterestInv'
        BY <1>5, EndsKeep, LeaveKeeps DEF Crash
    <1>6. CASE Tick \/ UNCHANGED vars
        BY <1>6, TickKeeps
    <1> QED BY <1>1, <1>2, <1>3, <1>4, <1>5, <1>6 DEF Next

\* Tables, locks and what every process has read fit together in every reachable state.
THEOREM InvariantHolds == Spec => []InterestInv
    <1> QED BY InitHolds, NextKeeps, PTL DEF Spec

\* Accruals and interest transactions come and go in pairs, one for a rule and date.
THEOREM AccrualsStayLinked == Spec => []AccrualsLinked
    <1>1. InterestInv => AccrualsLinked
        BY DEF InterestInv
    <1> QED BY <1>1, InvariantHolds, PTL

\* A lifecycle's snapshot holds every row of its account when it writes, and nothing that is
\* gone but manual transactions withdrawn meanwhile; accruals and is_active are as it read them.
THEOREM SnapshotsCover == Spec => []OnlyWithdrawalsEscape
    <1>1. InterestInv => OnlyWithdrawalsEscape
        BY DEF InterestInv, OnlyWithdrawalsEscape, StageOK, Lifecycle
    <1> QED BY <1>1, InvariantHolds, PTL

\* Who changes which table.
LEMMA Writers ==
    ASSUME Next
    PROVE  /\ \/ accruals' = accruals /\ entries \subseteq entries'
              \/ \E p \in Proc : PostAccrual(p) \/ PostRecalculation(p)
              \/ \E p \in Proc, r \in Offered : Withdraw(p, r)
           /\ \/ rules' = rules
              \/ \E p \in Proc : CommitUpdate(p) \/ \E r \in Offered : CreateRule(p, r)
    <1> USE DEF tables
    <1>1. ASSUME NEW p \in Proc, NEW r \in Offered, Request(p, r)
          PROVE  /\ accruals' = accruals /\ (entries \subseteq entries' \/ Withdraw(p, r))
                 /\ rules' = rules \/ CreateRule(p, r)
        BY <1>1 DEF Request, Submit, SubmitCommand, StartJob, CreateRule, SubmitUpdate, Post, Withdraw, Archive
    <1>2. ASSUME NEW p \in Proc, Refuse(p) \/ Fail(p) \/ Leave(p) \/ LockAccount(p)
          PROVE  accruals' = accruals /\ entries' = entries /\ rules' = rules
        BY <1>2 DEF Refuse, Fail, Leave, LockAccount
    <1>3. ASSUME NEW p \in Proc, Wait(p) PROVE accruals' = accruals /\ entries' = entries /\ rules' = rules
        BY <1>2, <1>3 DEF Wait, RefuseArchived
    <1>4. ASSUME NEW p \in Proc, Write(p)
          PROVE  /\ rules' = rules
                 /\ (accruals' = accruals /\ entries' = entries) \/ PostAccrual(p) \/ PostRecalculation(p)
        <2>1. CASE SkipAccrual(p) \/ RefuseRecalculation(p)
            BY <1>2, <2>1 DEF SkipAccrual, RefuseRecalculation
        <2>2. CASE PostAccrual(p)
            BY <2>2 DEF PostAccrual, InsertAccrual
        <2>3. CASE PostRecalculation(p)
            BY <2>3 DEF PostRecalculation, ReplaceRange
        <2> QED BY <1>4, <2>1, <2>2, <2>3 DEF Write
    <1>5. ASSUME NEW p \in Proc, Step(p)
          PROVE  accruals' = accruals /\ entries' = entries /\ (rules' = rules \/ CommitUpdate(p))
        <2>1. CASE RefuseRule(p) \/ RejectUpdate(p) \/ FinishJob(p) \/ (ReadRule(p) /\ Fail(p))
            BY <1>2, <2>1 DEF RefuseRule, RejectUpdate, FinishJob
        <2>2. CASE SelectRule(p) \/ LoadSnapshot(p) \/ (ReadRule(p) /\ ~Fail(p)) \/ ReadEntries(p) \/ ReadAccruals(p)
            <3>1. PICK stage : Goto(p, stage)
                BY <2>2 DEF SelectRule, LoadSnapshot, ReadRule, ReadEntries, ReadAccruals
            <3> QED BY <3>1 DEF Goto
        <2>3. CASE ListTargets(p)
            BY <2>3 DEF ListTargets
        <2>4. ASSUME NEW t \in todo[p], NextTarget(p, t) PROVE accruals' = accruals /\ entries' = entries /\ rules' = rules
            BY <2>4 DEF NextTarget
        <2>5. CASE CommitUpdate(p)
            BY <2>5 DEF CommitUpdate
        <2> QED BY <1>5, <2>1, <2>2, <2>3, <2>4, <2>5 DEF Step
    <1>6. ASSUME NEW p \in Proc, Abort(p) \/ Crash(p)
          PROVE  accruals' = accruals /\ entries' = entries /\ rules' = rules
        BY <1>2, <1>6 DEF Abort, Crash
    <1>7. CASE Tick
        BY <1>7 DEF Tick
    <1> QED BY <1>1, <1>3, <1>4, <1>5, <1>6, <1>7 DEF Next

\* The stage after a write.
LEMMA WriteEndsStage ==
    ASSUME InterestInv, NEW p \in Proc, PostAccrual(p) \/ PostRecalculation(p)
    PROVE  pc[p] = "write" /\ pc'[p] # "write" /\ \A q \in Proc \ {p} : pc'[q] = pc[q]
    BY DEF PostAccrual, PostRecalculation, MayWrite, Return, InterestInv, ProcessesOK

\* A recalculation deletes nothing but interest of its rule dated in its range.
THEOREM OnlyRangesReplaced == Spec => OnlyItsRangeIsReplaced
    <1>1. ASSUME InterestInv, Next, NEW t \in entries \ entries'
          PROVE  \/ t.source = "manual" /\ UNCHANGED <<control, accruals>>
                 \/ \E p \in Proc : /\ pc[p] = "write" /\ pc'[p] # "write" /\ ~IsAccrual(target[p])
                                    /\ t.date \in FromDate(p)..target[p].to
                                    /\ \E a \in accruals : /\ a.tx = t.id /\ a.rule = snap[p].rule.id
                                                           /\ a.account = snap[p].rule.account
        <2>0. ASSUME NEW p \in Proc, NEW r \in Offered, Withdraw(p, r)
              PROVE  t.source = "manual" /\ UNCHANGED <<control, accruals>>
            BY <1>1, <2>0 DEF Withdraw
        <2> SUFFICES ASSUME \A p \in Proc, r \in Offered : ~Withdraw(p, r)
                     PROVE  \E p \in Proc : /\ pc[p] = "write" /\ pc'[p] # "write" /\ ~IsAccrual(target[p])
                                             /\ t.date \in FromDate(p)..target[p].to
                                             /\ \E a \in accruals : /\ a.tx = t.id /\ a.rule = snap[p].rule.id
                                                                    /\ a.account = snap[p].rule.account
            BY <2>0
        <2>1. PICK p \in Proc : PostAccrual(p) \/ PostRecalculation(p)
            BY <1>1, Writers
        <2>2. PostRecalculation(p)
            BY <1>1, <2>1 DEF PostAccrual, InsertAccrual
        <2>3. PICK a \in Replaced(accruals, snap[p].rule, FromDate(p), target[p].to) : a.tx = t.id
            BY <1>1, <2>2 DEF PostRecalculation, ReplaceRange
        <2>4. /\ a \in accruals /\ a.rule = snap[p].rule.id /\ a.account = snap[p].rule.account
              /\ a.date >= FromDate(p) /\ a.date <= target[p].to /\ a.date \in Nat
            BY <1>1, <2>3 DEF Replaced, AccrualsOf, InterestInv, TablesOK
        <2>5. t.date = a.date
            <3>1. t = RowOf(a)
                BY <1>1, <2>3, <2>4, LinkedRow DEF InterestInv
            <3> QED BY <3>1 DEF RowOf
        <2>6. FromDate(p) \in Nat \ {0} /\ target[p].to \in Nat /\ ~IsAccrual(target[p])
            BY <1>1, <2>2, RecalculationOK
        <2>7. t.date \in FromDate(p)..target[p].to
            BY <2>4, <2>5, <2>6
        <2>8. pc[p] = "write" /\ pc'[p] # "write"
            BY <1>1, <2>2, WriteEndsStage
        <2> QED BY <2>3, <2>4, <2>6, <2>7, <2>8
    <1>2. InterestInv /\ [Next]_vars =>
            [\A t \in entries \ entries' :
               \/ t.source = "manual" /\ UNCHANGED <<control, accruals>>
               \/ \E p \in Proc : /\ pc[p] = "write" /\ pc'[p] # "write" /\ ~IsAccrual(target[p])
                                 /\ t.date \in FromDate(p)..target[p].to
                                 /\ \E a \in accruals : /\ a.tx = t.id /\ a.rule = snap[p].rule.id
                                                       /\ a.account = snap[p].rule.account]_vars
        BY <1>1
    <1> QED BY <1>2, InvariantHolds, PTL DEF Spec, OnlyItsRangeIsReplaced

\* No update of a rule is lost.
THEOREM NoRuleUpdateLost == Spec => RuleUpdatesApply
    <1>1. ASSUME InterestInv, Next, NEW i \in RuleId, rules[i] # Nobody, rules'[i] # rules[i]
          PROVE  \E p \in Proc : /\ pc[p] = "update"
                                 /\ rules'[i] = [Patch(rules[i], req[p].set, req[p].row) EXCEPT
                                                   !.version = rules[i].version + 1]
        <2>1. PICK p \in Proc : CommitUpdate(p) \/ \E r \in Offered : CreateRule(p, r)
            BY <1>1, Writers
        <2>2. ASSUME NEW r \in Offered, CreateRule(p, r) PROVE FALSE
            <3> PICK new : new = [r.row EXCEPT !.active = TRUE, !.version = 0]
                OBVIOUS
            <3>1. r.row \in Rule /\ rules[r.row.id] = Nobody /\ rules' = [rules EXCEPT ![new.id] = new]
                BY <2>2, OfferedAssumption DEF CreateRule
            <3>2. new.id = r.row.id
                BY <3>1 DEF Rule
            <3>3. i # new.id
                BY <1>1, <3>1, <3>2
            <3> QED BY <1>1, <3>1, <3>3 DEF InterestInv, TablesOK
        <2>3. CommitUpdate(p)
            BY <2>1, <2>2
        <2> PICK new : new = snap[p].rule
            OBVIOUS
        <2>4. /\ new \in Rule /\ new.id \in RuleId
              /\ new = Patch(rules[new.id], req[p].set, req[p].row) /\ new.version = rules[new.id].version
              /\ rules' = [rules EXCEPT ![new.id] = [new EXCEPT !.version = @ + 1]]
            BY <1>1, <2>3, UpdateWrites
        <2>5. new.id = i
            BY <1>1, <2>4 DEF InterestInv, TablesOK
        <2>6. rules'[i] = [new EXCEPT !.version = new.version + 1]
            <3> PICK next : next = [new EXCEPT !.version = @ + 1]
                OBVIOUS
            <3>1. rules' = [rules EXCEPT ![i] = next] /\ DOMAIN rules = RuleId
                BY <1>1, <2>4, <2>5 DEF InterestInv, TablesOK
            <3>2. rules'[i] = next
                BY <3>1
            <3>3. next = [new EXCEPT !.version = new.version + 1]
                BY <2>4 DEF Rule
            <3> QED BY <3>2, <3>3
        <2>7. pc[p] = "update"
            BY <2>3 DEF CommitUpdate
        <2> QED BY <2>4, <2>5, <2>6, <2>7
    <1>2. InterestInv /\ [Next]_vars =>
            [\A i \in RuleId : rules[i] # Nobody /\ rules'[i] # rules[i] =>
               \E p \in Proc : /\ pc[p] = "update"
                              /\ rules'[i] = [Patch(rules[i], req[p].set, req[p].row) EXCEPT
                                                !.version = rules[i].version + 1]]_vars
        BY <1>1
    <1> QED BY <1>2, InvariantHolds, PTL DEF Spec, RuleUpdatesApply

\* The lifecycle pays no day twice when it goes forward in time.
THEOREM NewDaysPaid == Spec => PaysNewDays
    <1>1. ASSUME InterestInv, Next, NEW new \in accruals' \ accruals,
                 \E p \in Proc : /\ rowLock[new.account] = p /\ pc[p] = "write" /\ pc'[p] # "write"
                                /\ IsAccrual(target[p]),
                 \A a \in PaidBefore(new) : a.date < new.date, NEW a \in PaidBefore(new)
          PROVE  a.days \intersect new.days = {}
        <2>1. PICK q \in Proc : PostAccrual(q) \/ PostRecalculation(q)
            BY <1>1, Writers DEF Withdraw
        <2>2. PICK p \in Proc : rowLock[new.account] = p /\ pc[p] = "write" /\ pc'[p] # "write" /\ IsAccrual(target[p])
            BY <1>1
        <2>3. p = q
            BY <1>1, <2>1, <2>2, WriteEndsStage
        <2>4. PostAccrual(p)
            BY <2>1, <2>2, <2>3 DEF PostRecalculation
        <2> PICK rule, d, result : rule = snap[p].rule /\ d = target[p].date /\ result = Calculated(p)
            OBVIOUS
        <2>5. new = AccrualRow(rule, d, result.amount, result.days, lastId)
            BY <1>1, <2>4 DEF PostAccrual, InsertAccrual
        <2>6. new.account = rule.account /\ new.rule = rule.id /\ new.date = d /\ new.days = result.days
            BY <2>5 DEF AccrualRow
        <2>7. MayWrite(p) /\ rule.account = target[p].account /\ pc[p] = "write" /\ StageOK(p)
            BY <1>1, <2>4, WriterOK, PostingOK DEF InterestInv
        <2>8. ~IsCommand(p)
            BY <2>2, <2>6, <2>7, RulesAssumption DEF MayWrite
        <2>9. snap[p].accruals = AccrualsIn(rule.account)
            BY <2>7, <2>8 DEF StageOK, AboutToWrite
        <2>10. a \in accruals /\ a.account = rule.account /\ a.rule = rule.id /\ a.date < d
            BY <1>1, <2>6 DEF PaidBefore
        <2>11. a \in AccrualsOf(snap[p].accruals, rule)
            BY <2>9, <2>10 DEF AccrualsIn, AccrualsOf
        <2>12. d \in Nat /\ result.days \subseteq 1..d /\ \A e \in result.days : a.date < e
            BY <1>1, <2>4, <2>10, <2>11, PostingOK
        <2>13. a.date \in Nat /\ a.days \subseteq 1..a.date
            BY <1>1, <2>10 DEF InterestInv, TablesOK
        <2> QED BY <2>6, <2>12, <2>13
    <1>2. InterestInv /\ [Next]_vars =>
            [\A new \in accruals' \ accruals :
               (/\ \E p \in Proc : /\ rowLock[new.account] = p /\ pc[p] = "write" /\ pc'[p] # "write"
                                    /\ IsAccrual(target[p])
                /\ \A a \in PaidBefore(new) : a.date < new.date)
               => \A a \in PaidBefore(new) : a.days \intersect new.days = {}]_vars
        BY <1>1
    <1> QED BY <1>2, InvariantHolds, PTL DEF Spec, PaysNewDays

-----------------------------------------------------------------------------
(* Balances.  A balance is a sum over a set, in whatever order its members are taken. *)

\* A finite set of rows with amounts, and the row that the sum takes first.
Amounted(S) == IsFiniteSet(S) /\ \A t \in S : t.amount \in Int

Taken(S) == CHOOSE t \in S : TRUE

\* f is the balance of every subset of S.
Balances(f, S) == f = [s \in SUBSET S |-> IF s = {} THEN 0 ELSE Taken(s).amount + f[s \ {Taken(s)}]]

\* Subsets are smaller and have amounts too.
LEMMA AmountedSubset ==
    ASSUME NEW S, Amounted(S), NEW s \in SUBSET S
    PROVE  /\ Amounted(s) /\ Cardinality(s) \in Nat /\ Cardinality(s) <= Cardinality(S)
           /\ s # {} => Taken(s) \in s /\ Taken(s).amount \in Int
           /\ \A t \in s : Cardinality(s \ {t}) = Cardinality(s) - 1
           /\ Cardinality(s) = 0 <=> s = {}
    <1>1. IsFiniteSet(s) /\ Cardinality(s) <= Cardinality(S)
        BY FS_Subset DEF Amounted
    <1>2. s # {} => Taken(s) \in s
        BY DEF Taken
    <1> QED BY <1>1, <1>2, FS_CardinalityType, FS_RemoveElement, FS_EmptySet DEF Amounted

\* There is a function of balances.
LEMMA BalancesExist ==
    ASSUME NEW S, Amounted(S)
    PROVE  \E f \in [SUBSET S -> Int] : Balances(f, S)
    <1> DEFINE n == Cardinality(S)
               Next1(f, s) == IF s = {} THEN 0 ELSE Taken(s).amount + f[s \ {Taken(s)}]
               Good(f, m) == f \in [SUBSET S -> Int] /\ \A s \in SUBSET S : Cardinality(s) <= m => f[s] = Next1(f, s)
               Bad == {m \in 0..n : ~ \E f : Good(f, m)}
    <1>1. n \in Nat
        BY AmountedSubset
    <1>2. Bad = {}
        <2> SUFFICES ASSUME Bad # {} PROVE FALSE
            OBVIOUS
        <2>1. PICK m \in Bad : \A l \in Bad : m <= l
            <3>1. Bad \in SUBSET Nat
                OBVIOUS
            <3> HIDE DEF Bad
            <3> QED BY <3>1, LeastNatural
        <2>2. m # 0
            <3>1. Good([s \in SUBSET S |-> 0], 0)
                BY AmountedSubset
            <3>2. \E f : Good(f, 0)
                BY <3>1
            <3> HIDE DEF Good
            <3> QED BY <1>1, <2>1, <3>2
        <2>3. m - 1 \in 0..n /\ ~(m <= m - 1) /\ m \in Nat
            BY <1>1, <2>1, <2>2
        <2>4. PICK f : Good(f, m - 1)
            BY <2>1, <2>3
        <2> DEFINE g == [s \in SUBSET S |-> IF Cardinality(s) = m THEN Next1(f, s) ELSE f[s]]
        <2>5. Good(g, m)
            <3>1. \A s \in SUBSET S : f[s] \in Int
                BY <2>4
            <3>2. ASSUME NEW s \in SUBSET S, Cardinality(s) = m
                  PROVE  s # {} /\ Next1(f, s) = Taken(s).amount + f[s \ {Taken(s)}] /\ Next1(f, s) \in Int
                         /\ g[s \ {Taken(s)}] = f[s \ {Taken(s)}]
                <4>1. s # {} /\ Taken(s).amount \in Int /\ s \ {Taken(s)} \in SUBSET S /\ Cardinality(s \ {Taken(s)}) = m - 1
                    BY <2>2, <3>2, AmountedSubset
                <4>2. f[s \ {Taken(s)}] \in Int /\ g[s \ {Taken(s)}] = f[s \ {Taken(s)}]
                    BY <2>3, <3>1, <4>1
                <4> QED BY <4>1, <4>2
            <3>3. \A s \in SUBSET S : g[s] \in Int
                BY <3>1, <3>2
            <3>4. g \in [SUBSET S -> Int]
                BY <3>3
            <3>5. ASSUME NEW s \in SUBSET S, Cardinality(s) <= m PROVE g[s] = Next1(g, s)
                <4>1. CASE Cardinality(s) = m
                    BY <3>2, <4>1
                <4>2. CASE Cardinality(s) # m
                    <5>1. Cardinality(s) <= m - 1 /\ Cardinality(s) \in Nat
                        BY <2>3, <3>5, <4>2, AmountedSubset
                    <5>2. g[s] = f[s] /\ f[s] = Next1(f, s)
                        BY <2>4, <4>2, <5>1
                    <5>3. CASE s = {}
                        BY <5>2, <5>3
                    <5>4. CASE s # {}
                        <6>1. s \ {Taken(s)} \in SUBSET S /\ Cardinality(s \ {Taken(s)}) = Cardinality(s) - 1
                            BY <5>4, AmountedSubset
                        <6>2. g[s \ {Taken(s)}] = f[s \ {Taken(s)}]
                            BY <2>3, <5>1, <6>1
                        <6> QED BY <5>2, <5>4, <6>2
                    <5> QED BY <5>3, <5>4
                <4> QED BY <4>1, <4>2
            <3> HIDE DEF g, Next1
            <3> QED BY <3>4, <3>5
        <2> QED BY <2>1, <2>5
    <1>3. n \in 0..n
        BY <1>1
    <1>4. PICK f : Good(f, n)
        BY <1>2, <1>3
    <1>5. \A s \in SUBSET S : f[s] = Next1(f, s)
        BY <1>4, AmountedSubset
    <1>6. f = [s \in SUBSET S |-> Next1(f, s)] /\ f \in [SUBSET S -> Int]
        BY <1>4, <1>5
    <1>7. Balances(f, S)
        BY <1>6 DEF Balances
    <1> QED BY <1>6, <1>7

\* Two of them agree on the sets they share.
LEMMA BalancesAgree ==
    ASSUME NEW S, Amounted(S), NEW U, Amounted(U), S \subseteq U,
           NEW f, Balances(f, S), NEW g, Balances(g, U), NEW s \in SUBSET S
    PROVE  f[s] = g[s]
    <1> DEFINE D == {c \in Nat : \E u \in SUBSET S : Cardinality(u) = c /\ f[u] # g[u]}
    <1>1. D = {}
        <2> SUFFICES ASSUME D # {} PROVE FALSE
            OBVIOUS
        <2>1. PICK c \in D : \A e \in D : c <= e
            <3>1. D \in SUBSET Nat
                OBVIOUS
            <3> HIDE DEF D
            <3> QED BY <3>1, LeastNatural
        <2>2. PICK u \in SUBSET S : Cardinality(u) = c /\ f[u] # g[u]
            BY <2>1
        <2>3. u \in SUBSET U
            OBVIOUS
        <2>4. /\ f[u] = IF u = {} THEN 0 ELSE Taken(u).amount + f[u \ {Taken(u)}]
              /\ g[u] = IF u = {} THEN 0 ELSE Taken(u).amount + g[u \ {Taken(u)}]
            BY <2>3 DEF Balances
        <2>5. u # {}
            BY <2>2, <2>4
        <2>6. u \ {Taken(u)} \in SUBSET S /\ Cardinality(u \ {Taken(u)}) = c - 1 /\ Cardinality(u \ {Taken(u)}) \in Nat
            BY <2>2, <2>5, AmountedSubset
        <2>7. f[u \ {Taken(u)}] = g[u \ {Taken(u)}]
            BY <2>1, <2>6
        <2> QED BY <2>2, <2>4, <2>7
    <1>2. Cardinality(s) \in Nat
        BY AmountedSubset
    <1> QED BY <1>1, <1>2

\* Balance is the value of such a function.
LEMMA BalanceIsOne ==
    ASSUME NEW S, Amounted(S)
    PROVE  \E f \in [SUBSET S -> Int] : Balances(f, S) /\ Balance(S) = f[S]
    <1> DEFINE Sums(f) == f = [s \in SUBSET S |-> IF s = {} THEN 0 ELSE (CHOOSE x \in s : TRUE).amount + f[s \ {CHOOSE x \in s : TRUE}]]
    <1>1. PICK f \in [SUBSET S -> Int] : Balances(f, S)
        BY BalancesExist
    <1>2. PICK g : g = (CHOOSE e : Sums(e)) /\ Balance(S) = g[S]
        BY DEF Balance, MapThenSumSet, MapThenFoldSet
    <1>3. Sums(f)
        BY <1>1 DEF Balances, Taken
    <1>4. Sums(g)
        <2> HIDE DEF Sums
        <2> QED BY <1>2, <1>3
    <1>5. Balances(g, S)
        BY <1>4 DEF Balances, Taken
    <1>6. S \in SUBSET S
        OBVIOUS
    <1>7. f[S] = g[S]
        BY <1>1, <1>5, <1>6, BalancesAgree
    <1> QED BY <1>1, <1>2, <1>7

\* One step of the sum.
LEMMA BalanceStep ==
    ASSUME NEW S, Amounted(S)
    PROVE  Balance(S) \in Int /\ Balance(S) = IF S = {} THEN 0 ELSE Taken(S).amount + Balance(S \ {Taken(S)})
    <1>1. PICK f \in [SUBSET S -> Int] : Balances(f, S) /\ Balance(S) = f[S]
        BY BalanceIsOne
    <1> DEFINE U == S \ {Taken(S)}
    <1>2. Amounted(U)
        BY AmountedSubset
    <1>3. PICK g \in [SUBSET U -> Int] : Balances(g, U) /\ Balance(U) = g[U]
        BY <1>2, BalanceIsOne
    <1>4. U \subseteq S /\ U \in SUBSET U /\ S \in SUBSET S
        OBVIOUS
    <1>5. g[U] = f[U]
        BY <1>1, <1>2, <1>3, <1>4, BalancesAgree
    <1>6. f[S] = IF S = {} THEN 0 ELSE Taken(S).amount + f[U]
        BY <1>1, <1>4 DEF Balances
    <1> QED BY <1>1, <1>3, <1>5, <1>6

\* A row adds its amount to the balance of the others.
LEMMA BalanceAdds ==
    ASSUME NEW S, Amounted(S), NEW t \in S
    PROVE  Balance(S) = t.amount + Balance(S \ {t}) /\ Balance(S \ {t}) \in Int /\ t.amount \in Int
    <1> DEFINE D == {c \in Nat : \E u \in SUBSET S : Cardinality(u) = c /\ \E x \in u : Balance(u) # x.amount + Balance(u \ {x})}
    <1>1. D = {}
        <2> SUFFICES ASSUME D # {} PROVE FALSE
            OBVIOUS
        <2>1. PICK c \in D : \A e \in D : c <= e
            <3>1. D \in SUBSET Nat
                OBVIOUS
            <3> HIDE DEF D
            <3> QED BY <3>1, LeastNatural
        <2>0. PICK u \in SUBSET S : Cardinality(u) = c /\ \E x \in u : Balance(u) # x.amount + Balance(u \ {x})
            BY <2>1
        <2>2. PICK x \in u : Cardinality(u) = c /\ Balance(u) # x.amount + Balance(u \ {x})
            BY <2>0
        <2> PICK y : y = Taken(u)
            OBVIOUS
        <2>3. y \in u /\ Amounted(u)
            BY <2>2, AmountedSubset
        <2>4. Balance(u) = y.amount + Balance(u \ {y})
            BY <2>3, BalanceStep
        <2>5. x # y
            BY <2>2, <2>4
        <2>6. ASSUME NEW a \in u, NEW b \in u, a # b
              PROVE  Balance(u \ {a}) = b.amount + Balance((u \ {a}) \ {b})
            <3>1. u \ {a} \in SUBSET S /\ Cardinality(u \ {a}) = c - 1 /\ Cardinality(u \ {a}) \in Nat /\ b \in u \ {a}
                BY <2>2, <2>6, AmountedSubset
            <3>2. c \in Nat /\ ~(c <= c - 1)
                BY <2>1
            <3> QED BY <2>1, <3>1, <3>2
        <2>7. Balance(u \ {y}) = x.amount + Balance((u \ {y}) \ {x})
            BY <2>3, <2>5, <2>6
        <2>8. Balance(u \ {x}) = y.amount + Balance((u \ {x}) \ {y})
            BY <2>3, <2>5, <2>6
        <2>9. (u \ {x}) \ {y} = (u \ {y}) \ {x}
            OBVIOUS
        <2>10. x.amount \in Int /\ y.amount \in Int /\ Balance((u \ {y}) \ {x}) \in Int
            <3>1. (u \ {y}) \ {x} \in SUBSET S
                OBVIOUS
            <3> QED BY <2>3, <3>1, AmountedSubset, BalanceStep DEF Amounted
        <2>11. Balance(u) = x.amount + Balance(u \ {x})
            <3> PICK k : k = Balance((u \ {y}) \ {x})
                OBVIOUS
            <3>1. Balance(u) = y.amount + (x.amount + k) /\ Balance(u \ {x}) = y.amount + k /\ k \in Int
                BY <2>4, <2>7, <2>8, <2>9, <2>10
            <3> QED BY <2>10, <3>1
        <2> QED BY <2>2, <2>11
    <1>2. Cardinality(S) \in Nat /\ S \in SUBSET S /\ Amounted(S \ {t})
        BY AmountedSubset
    <1>3. Balance(S) = t.amount + Balance(S \ {t})
        BY <1>1, <1>2
    <1> QED BY <1>2, <1>3, BalanceStep DEF Amounted

-----------------------------------------------------------------------------
(* Sums. *)

\* A running sum starts with 0 and adds one value after the other.
LEMMA RunningSumDef ==
    ASSUME NEW n \in Nat, NEW s \in [1..n -> Int]
    PROVE  /\ RunningSum(s, n) \in [0..n -> Int]
           /\ RunningSum(s, n)[0] = 0
           /\ \A k \in 1..n : RunningSum(s, n)[k] = RunningSum(s, n)[k - 1] + s[k]
    <1> DEFINE Sums(f, m) == /\ f \in [0..m -> Int] /\ f[0] = 0
                             /\ \A k \in 1..m : f[k] = f[k - 1] + s[k]
               Bad == {m \in 0..n : ~ \E f : Sums(f, m)}
    <1>1. Bad = {}
        <2> SUFFICES ASSUME Bad # {} PROVE FALSE
            OBVIOUS
        <2>1. PICK m \in Bad : \A l \in Bad : m <= l
            <3>1. Bad \in SUBSET Nat
                OBVIOUS
            <3> HIDE DEF Bad
            <3> QED BY <3>1, LeastNatural
        <2>2. m # 0
            <3>1. Sums([k \in {0} |-> 0], 0)
                OBVIOUS
            <3> QED BY <3>1
        <2>3. PICK f : Sums(f, m - 1)
            <3>1. m - 1 \in 0..n /\ ~(m <= m - 1)
                BY <2>2
            <3> QED BY <2>1, <3>1
        <2> DEFINE g == [k \in 0..m |-> IF k = m THEN f[m - 1] + s[m] ELSE f[k]]
        <2>4. Sums(g, m)
            <3>1. m \in Nat \ {0} /\ m \in 1..n /\ s[m] \in Int
                BY <2>2
            <3>2. f \in [0..(m - 1) -> Int] /\ f[0] = 0 /\ \A k \in 1..(m - 1) : f[k] = f[k - 1] + s[k]
                BY <2>3
            <3>3. \A k \in 0..(m - 1) : f[k] \in Int /\ g[k] = f[k]
                BY <3>1, <3>2
            <3>4. g[m] = f[m - 1] + s[m] /\ f[m - 1] \in Int
                <4>1. m - 1 \in 0..(m - 1) /\ m \in 0..m
                    BY <3>1
                <4>2. f[m - 1] \in Int
                    BY <3>2, <4>1
                <4> QED BY <4>1, <4>2
            <3>5. g \in [0..m -> Int]
                <4>1. \A k \in 0..m : k = m \/ k \in 0..(m - 1)
                    BY <3>1
                <4>2. \A k \in 0..m : g[k] \in Int
                    <5> TAKE k \in 0..m
                    <5> HIDE DEF g
                    <5>1. CASE k = m
                        BY <3>1, <3>4, <5>1
                    <5>2. CASE k \in 0..(m - 1)
                        BY <3>3, <5>2
                    <5> QED BY <4>1, <5>1, <5>2
                <4>3. g = [k \in 0..m |-> g[k]]
                    OBVIOUS
                <4> HIDE DEF g
                <4> QED BY <4>2, <4>3
            <3>6. \A k \in 1..m : g[k] = g[k - 1] + s[k]
                <4> TAKE k \in 1..m
                <4> HIDE DEF g
                <4>1. CASE k = m
                    BY <3>1, <3>3, <3>4, <4>1
                <4>2. CASE k # m
                    <5>1. k \in 1..(m - 1) /\ k - 1 \in 0..(m - 1) /\ k \in 0..(m - 1)
                        BY <3>1, <4>2
                    <5> QED BY <3>2, <3>3, <5>1
                <4> QED BY <4>1, <4>2
            <3>7. g[0] = 0
                BY <3>1, <3>2, <3>3
            <3> HIDE DEF g
            <3> QED BY <3>5, <3>6, <3>7
        <2> QED BY <2>1, <2>4
    <1>2. PICK f : Sums(f, n)
        <2>1. n \in 0..n
            OBVIOUS
        <2> HIDE DEF Sums
        <2> QED BY <1>1, <2>1
    <1>3. f = [k \in 0..n |-> IF k = 0 THEN 0 ELSE f[k - 1] + s[k]]
        BY <1>2
    <1> DEFINE h == RunningSum(s, n)
    <1>4. h = [k \in 0..n |-> IF k = 0 THEN 0 ELSE h[k - 1] + s[k]]
        BY <1>3 DEF RunningSum
    <1> HIDE DEF h
    <1>5. h[0] = 0 /\ \A k \in 1..n : h[k] = h[k - 1] + s[k]
        BY <1>4
    <1>6. \A k \in 0..n : h[k] = f[k]
        <2> DEFINE D == {k \in 0..n : h[k] # f[k]}
        <2> SUFFICES ASSUME D # {} PROVE FALSE
            OBVIOUS
        <2>1. PICK m \in D : \A l \in D : m <= l
            <3>1. D \in SUBSET Nat
                OBVIOUS
            <3> HIDE DEF D
            <3> QED BY <3>1, LeastNatural
        <2>2. m # 0
            BY <1>2, <1>5
        <2>3. m \in 1..n /\ m - 1 \in 0..n /\ ~(m <= m - 1)
            BY <2>2
        <2>4. h[m - 1] = f[m - 1]
            BY <2>1, <2>3
        <2>5. h[m] = h[m - 1] + s[m] /\ f[m] = f[m - 1] + s[m]
            BY <1>2, <1>5, <2>3
        <2> QED BY <2>1, <2>4, <2>5
    <1>7. h = f
        BY <1>2, <1>4, <1>6
    <1> QED BY <1>2, <1>7 DEF h

\* A sum is an integer; one more value adds itself to it.
LEMMA SumOneMore ==
    ASSUME NEW n \in Nat, NEW s \in [1..n -> Int], NEW t \in [1..(n + 1) -> Int], \A k \in 1..n : t[k] = s[k]
    PROVE  SumTo(s, n) \in Int /\ SumTo(t, n + 1) = SumTo(s, n) + t[n + 1]
    <1> DEFINE S == RunningSum(s, n)
               T == RunningSum(t, n + 1)
    <1>1. S \in [0..n -> Int] /\ S[0] = 0 /\ \A k \in 1..n : S[k] = S[k - 1] + s[k]
        BY RunningSumDef
    <1>2. T \in [0..(n + 1) -> Int] /\ T[0] = 0 /\ \A k \in 1..(n + 1) : T[k] = T[k - 1] + t[k]
        <2>1. n + 1 \in Nat
            OBVIOUS
        <2> QED BY <2>1, RunningSumDef
    <1>3. SumTo(s, n) = S[n] /\ SumTo(t, n + 1) = T[n + 1]
        BY DEF SumTo
    <1> HIDE DEF S, T
    <1>4. T[n] = S[n]
        <2> DEFINE D == {k \in 0..n : T[k] # S[k]}
        <2>1. D = {}
            <3> SUFFICES ASSUME D # {} PROVE FALSE
                OBVIOUS
            <3>1. PICK l \in D : \A k \in D : l <= k
                <4>1. D \in SUBSET Nat
                    OBVIOUS
                <4> HIDE DEF D
                <4> QED BY <4>1, LeastNatural
            <3>2. l # 0
                BY <1>1, <1>2
            <3>3. l \in 1..n /\ l \in 1..(n + 1) /\ l - 1 \in 0..n /\ ~(l <= l - 1)
                BY <3>2
            <3>4. T[l - 1] = S[l - 1]
                BY <3>1, <3>3
            <3> QED BY <1>1, <1>2, <3>1, <3>3, <3>4
        <2> QED BY <2>1
    <1>5. n + 1 \in 1..(n + 1) /\ (n + 1) - 1 = n /\ n \in 0..n
        OBVIOUS
    <1>6. T[n + 1] = T[n] + t[n + 1] /\ S[n] \in Int
        BY <1>1, <1>2, <1>5
    <1> QED BY <1>3, <1>4, <1>6

\* The sum of nothing.
LEMMA SumOfNothing ==
    ASSUME NEW s \in [1..0 -> Int]
    PROVE  SumTo(s, 0) = 0
    <1>1. 0 \in Nat
        OBVIOUS
    <1> QED BY <1>1, RunningSumDef DEF SumTo

\* Values that are the sums of two others have the sum of both sums.
LEMMA SumsAdd ==
    ASSUME NEW n \in Nat, NEW s \in [1..n -> Int], NEW t \in [1..n -> Int], NEW u \in [1..n -> Int],
           \A k \in 1..n : t[k] = s[k] + u[k]
    PROVE  /\ SumTo(t, n) = SumTo(s, n) + SumTo(u, n)
           /\ SumTo(s, n) \in Int /\ SumTo(t, n) \in Int /\ SumTo(u, n) \in Int
    <1> DEFINE S == RunningSum(s, n)
               T == RunningSum(t, n)
               U == RunningSum(u, n)
               D == {k \in 0..n : ~(T[k] = S[k] + U[k])}
    <1>1. S \in [0..n -> Int] /\ S[0] = 0 /\ \A k \in 1..n : S[k] = S[k - 1] + s[k]
        BY RunningSumDef
    <1>2. T \in [0..n -> Int] /\ T[0] = 0 /\ \A k \in 1..n : T[k] = T[k - 1] + t[k]
        BY RunningSumDef
    <1>3. U \in [0..n -> Int] /\ U[0] = 0 /\ \A k \in 1..n : U[k] = U[k - 1] + u[k]
        BY RunningSumDef
    <1>4. SumTo(s, n) = S[n] /\ SumTo(t, n) = T[n] /\ SumTo(u, n) = U[n]
        BY DEF SumTo
    <1> HIDE DEF S, T, U
    <1>5. D = {}
        <2> SUFFICES ASSUME D # {} PROVE FALSE
            OBVIOUS
        <2>1. PICK m \in D : \A l \in D : m <= l
            <3>1. D \in SUBSET Nat
                OBVIOUS
            <3> HIDE DEF D
            <3> QED BY <3>1, LeastNatural
        <2>2. m # 0
            BY <1>1, <1>2, <1>3
        <2>3. m \in 1..n /\ m - 1 \in 0..n /\ ~(m <= m - 1)
            BY <2>2
        <2>4. T[m - 1] = S[m - 1] + U[m - 1]
            BY <2>1, <2>3
        <2>5. /\ S[m] = S[m - 1] + s[m] /\ T[m] = T[m - 1] + t[m] /\ U[m] = U[m - 1] + u[m]
              /\ t[m] = s[m] + u[m] /\ s[m] \in Int /\ t[m] \in Int /\ u[m] \in Int
              /\ S[m - 1] \in Int /\ T[m - 1] \in Int /\ U[m - 1] \in Int
            BY <1>1, <1>2, <1>3, <2>3
        <2>6. T[m] = S[m] + U[m]
            <3>1. T[m - 1] + t[m] = (S[m - 1] + s[m]) + (U[m - 1] + u[m])
                <4>1. PICK a \in Int, b \in Int, x \in Int, y \in Int :
                        a = S[m - 1] /\ b = U[m - 1] /\ x = s[m] /\ y = u[m]
                    BY <2>5
                <4>2. T[m - 1] = a + b /\ t[m] = x + y
                    BY <2>4, <2>5, <4>1
                <4>3. (a + b) + (x + y) = (a + x) + (b + y)
                    OBVIOUS
                <4> QED BY <4>1, <4>2, <4>3
            <3> QED BY <2>5, <3>1
        <2> QED BY <2>1, <2>6
    <1>6. n \in 0..n
        OBVIOUS
    <1>7. T[n] = S[n] + U[n] /\ S[n] \in Int /\ T[n] \in Int /\ U[n] \in Int
        BY <1>1, <1>2, <1>3, <1>5, <1>6
    <1> QED BY <1>4, <1>7

\* Zeros have the sum 0.
LEMMA SumOfZeros ==
    ASSUME NEW n \in Nat, NEW s \in [1..n -> Int], \A k \in 1..n : s[k] = 0
    PROVE  SumTo(s, n) = 0
    <1>1. SumTo(s, n) = SumTo(s, n) + SumTo(s, n) /\ SumTo(s, n) \in Int
        BY SumsAdd
    <1> QED BY <1>1

\* Zeros at the end change no sum.
LEMMA SumTail ==
    ASSUME NEW n \in Nat, NEW m \in Nat, n <= m, NEW s \in [1..n -> Int], NEW t \in [1..m -> Int],
           \A k \in 1..n : t[k] = s[k], \A k \in (n + 1)..m : t[k] = 0
    PROVE  SumTo(t, m) = SumTo(s, n)
    <1> DEFINE S == RunningSum(s, n)
               T == RunningSum(t, m)
               Upto(k) == IF k <= n THEN k ELSE n
               D == {k \in 0..m : T[k] # S[Upto(k)]}
    <1>1. S \in [0..n -> Int] /\ S[0] = 0 /\ \A k \in 1..n : S[k] = S[k - 1] + s[k]
        BY RunningSumDef
    <1>2. T \in [0..m -> Int] /\ T[0] = 0 /\ \A k \in 1..m : T[k] = T[k - 1] + t[k]
        BY RunningSumDef
    <1>3. SumTo(s, n) = S[n] /\ SumTo(t, m) = T[m]
        BY DEF SumTo
    <1> HIDE DEF S, T
    <1>4. D = {}
        <2> SUFFICES ASSUME D # {} PROVE FALSE
            OBVIOUS
        <2>1. PICK l \in D : \A k \in D : l <= k
            <3>1. D \in SUBSET Nat
                OBVIOUS
            <3> HIDE DEF D
            <3> QED BY <3>1, LeastNatural
        <2>2. l # 0
            BY <1>1, <1>2
        <2>3. l \in 1..m /\ l - 1 \in 0..m /\ ~(l <= l - 1)
            BY <2>2
        <2>4. T[l - 1] = S[Upto(l - 1)] /\ T[l] = T[l - 1] + t[l]
            BY <1>2, <2>1, <2>3
        <2>5. CASE l <= n
            <3>1. l \in 1..n /\ Upto(l) = l /\ Upto(l - 1) = l - 1
                BY <2>3, <2>5
            <3> QED BY <1>1, <2>1, <2>4, <3>1
        <2>6. CASE ~(l <= n)
            <3>1. l \in (n + 1)..m /\ Upto(l) = n /\ Upto(l - 1) = n
                BY <2>3, <2>6
            <3>2. t[l] = 0 /\ S[n] \in Int
                BY <1>1, <3>1
            <3> QED BY <2>1, <2>4, <3>1, <3>2
        <2> QED BY <2>5, <2>6
    <1>5. m \in 0..m /\ Upto(m) = n
        OBVIOUS
    <1> QED BY <1>3, <1>4, <1>5

\* A sum of naturals is at least each of them.
LEMMA SumBounds ==
    ASSUME NEW n \in Nat, NEW s \in [1..n -> Nat]
    PROVE  SumTo(s, n) \in Nat /\ \A k \in 1..n : s[k] <= SumTo(s, n)
    <1> DEFINE S == RunningSum(s, n)
               OK(k) == S[k] \in Nat /\ \A j \in 1..k : s[j] <= S[k]
               D == {k \in 0..n : ~OK(k)}
    <1>1. S \in [0..n -> Int] /\ S[0] = 0 /\ \A k \in 1..n : S[k] = S[k - 1] + s[k]
        <2>1. s \in [1..n -> Int]
            OBVIOUS
        <2> QED BY <2>1, RunningSumDef
    <1>2. SumTo(s, n) = S[n]
        BY DEF SumTo
    <1> HIDE DEF S
    <1>3. D = {}
        <2> SUFFICES ASSUME D # {} PROVE FALSE
            OBVIOUS
        <2>1. PICK l \in D : \A k \in D : l <= k
            <3>1. D \in SUBSET Nat
                OBVIOUS
            <3> HIDE DEF D
            <3> QED BY <3>1, LeastNatural
        <2>2. l # 0
            BY <1>1
        <2>3. l \in 1..n /\ l - 1 \in 0..n /\ ~(l <= l - 1)
            BY <2>2
        <2>4. OK(l - 1)
            BY <2>1, <2>3
        <2>5. S[l] = S[l - 1] + s[l] /\ s[l] \in Nat
            BY <1>1, <2>3
        <2>6. ASSUME NEW j \in 1..l PROVE s[j] <= S[l]
            <3>1. CASE j = l
                BY <2>4, <2>5, <3>1
            <3>2. CASE j # l
                <4>1. j \in 1..(l - 1) /\ j \in 1..n
                    BY <2>3, <3>2
                <4>2. s[j] <= S[l - 1] /\ s[j] \in Nat
                    BY <2>4, <4>1
                <4> QED BY <2>4, <2>5, <4>2
            <3> QED BY <3>1, <3>2
        <2>7. OK(l)
            BY <2>4, <2>5, <2>6
        <2> QED BY <2>1, <2>7
    <1>4. n \in 0..n
        OBVIOUS
    <1>5. OK(n)
        BY <1>3, <1>4
    <1> QED BY <1>2, <1>5

\* The values of a group, and of the groups 1..m.
InGroup(v, key, n, x) == [k \in 1..n |-> IF key[k] = x THEN v[k] ELSE 0]
InGroups(v, key, n, m) == [k \in 1..n |-> IF key[k] \in 1..m THEN v[k] ELSE 0]

\* The sum of the sums of the groups 1..m is the sum of the values that are in one of them.
LEMMA GroupedSums ==
    ASSUME NEW n \in Nat, NEW m \in Nat, NEW v \in [1..n -> Int], NEW key \in [1..n -> Int],
           NEW g \in [1..m -> Int],
           \A x \in 1..m : g[x] = SumTo(InGroup(v, key, n, x), n)
    PROVE  SumTo(g, m) = SumTo(InGroups(v, key, n, m), n)
    <1> DEFINE G == RunningSum(g, m)
               Below(x) == InGroups(v, key, n, x)
               At(x) == InGroup(v, key, n, x)
               D == {x \in 0..m : ~(G[x] = SumTo(Below(x), n))}
    <1>1. G \in [0..m -> Int] /\ G[0] = 0 /\ \A x \in 1..m : G[x] = G[x - 1] + g[x]
        BY RunningSumDef
    <1>2. SumTo(g, m) = G[m]
        BY DEF SumTo
    <1>3. \A k \in 1..n : v[k] \in Int /\ key[k] \in Int
        OBVIOUS
    <1>4. ASSUME NEW x \in Int PROVE Below(x) \in [1..n -> Int] /\ At(x) \in [1..n -> Int]
        BY <1>3 DEF InGroups, InGroup
    <1>5. \A x \in 1..m : g[x] = SumTo(At(x), n)
        OBVIOUS
    <1> HIDE DEF G
    <1>6. D = {}
        <2> SUFFICES ASSUME D # {} PROVE FALSE
            OBVIOUS
        <2>1. PICK x \in D : \A y \in D : x <= y
            <3>1. D \in SUBSET Nat
                OBVIOUS
            <3> HIDE DEF D
            <3> QED BY <3>1, LeastNatural
        <2>2. x # 0
            <3>1. \A k \in 1..n : Below(0)[k] = 0
                BY <1>3 DEF InGroups
            <3>2. SumTo(Below(0), n) = 0
                <4>1. Below(0) \in [1..n -> Int]
                    BY <1>4
                <4> HIDE DEF Below
                <4> QED BY <3>1, <4>1, SumOfZeros
            <3> QED BY <1>1, <2>1, <3>2
        <2>3. x \in 1..m /\ x - 1 \in 0..m /\ ~(x <= x - 1) /\ x \in Int /\ x - 1 \in Int
            BY <2>2
        <2>4. G[x - 1] = SumTo(Below(x - 1), n)
            BY <2>1, <2>3
        <2>5. \A k \in 1..n : Below(x)[k] = Below(x - 1)[k] + At(x)[k]
            <3> TAKE k \in 1..n
            <3>1. key[k] \in Int /\ v[k] \in Int
                BY <1>3
            <3>2. key[k] \in 1..x <=> (key[k] \in 1..(x - 1) \/ key[k] = x)
                BY <2>3, <3>1
            <3>3. ~(key[k] \in 1..(x - 1) /\ key[k] = x)
                BY <2>3, <3>1
            <3> QED BY <3>1, <3>2, <3>3 DEF InGroups, InGroup
        <2>6. SumTo(Below(x), n) = SumTo(Below(x - 1), n) + SumTo(At(x), n)
            <3>1. /\ Below(x) \in [1..n -> Int] /\ Below(x - 1) \in [1..n -> Int]
                  /\ At(x) \in [1..n -> Int]
                BY <1>4, <2>3
            <3> HIDE DEF Below, At
            <3> QED BY <2>5, <3>1, SumsAdd
        <2>7. G[x] = G[x - 1] + g[x] /\ g[x] = SumTo(At(x), n)
            BY <1>1, <1>5, <2>3
        <2>8. G[x] = SumTo(Below(x), n)
            <3> HIDE DEF Below, At
            <3> QED BY <2>4, <2>6, <2>7
        <2> QED BY <2>1, <2>8
    <1>7. m \in 0..m
        OBVIOUS
    <1>8. G[m] = SumTo(Below(m), n)
        BY <1>6, <1>7
    <1> QED BY <1>2, <1>8

-----------------------------------------------------------------------------
(* The reference: when a day is paid and joins the balance. *)

\* The fields of a rule.
LEMMA TermTyped ==
    ASSUME NEW r \in Terms
    PROVE  /\ r \in Term /\ r.start \in Nat \ {0} /\ r.end \in Nat /\ r.active = TRUE
           /\ r.accrual \in AccrualFrequency /\ r.capitalization \in CapitalizationFrequency
           /\ r.rate \in Nat /\ r.promoRate \in Nat /\ TermDays \in Nat
    <1>1. r \in Term /\ TermDays \in Nat
        BY TermsAssumption
    <1> QED BY <1>1 DEF Term

\* The days from a day to the end of its month have the same end of the month.
LEMMA SameMonth ==
    ASSUME NEW k \in Nat \ {0}, NEW c \in Nat \ {0}, k <= c, c <= monthEnd(k)
    PROVE  monthEnd(c) = monthEnd(k)
    <1>1. monthEnd(k) \in Nat /\ monthStart(c) \in Int /\ monthStart(c) <= c
        BY MonthOfDay
    <1>2. ~(k < monthStart(c))
        BY <1>1, MonthOfDay
    <1>3. monthStart(c) <= k
        BY <1>1, <1>2
    <1> QED BY <1>3, MonthOfDay

\* A day and the next are in one month unless the first is the month's end.
LEMMA NextDaysMonth ==
    ASSUME NEW d \in Nat \ {0}
    PROVE  MonthOf(d + 1) = MonthOf(d) <=> d < monthEnd(d)
    <1> PICK w \in Nat \ {0} : w = MonthLength
        BY CalendarAssumption
    <1> PICK m, n : m = MonthOf(d) /\ n = MonthOf(d + 1)
        OBVIOUS
    <1>1. m \in Int /\ n \in Int
        BY DEF MonthOf
    <1>2. monthEnd(d) = (m + 1) * w /\ monthEnd(d + 1) = (n + 1) * w
        BY DEF monthEnd, MonthOf
    <1>3. monthEnd(d) \in Nat /\ d + 1 \in Nat \ {0} /\ d + 1 <= monthEnd(d + 1)
        BY MonthOfDay
    <1>4. ASSUME m = n PROVE d < monthEnd(d)
        BY <1>2, <1>3, <1>4
    <1>5. ASSUME d < monthEnd(d) PROVE m = n
        <2>1. monthEnd(d + 1) = monthEnd(d)
            BY <1>3, <1>5, SameMonth
        <2>2. (m - n) * w = 0
            BY <1>1, <1>2, <2>1
        <2> QED BY <1>1, <2>2
    <1> QED BY <1>4, <1>5

\* The term of the reference is when the rule is active.
LEMMA TermIsActive ==
    ASSUME NEW r \in Terms, NEW d \in Nat
    PROVE  InTerm(r, d) <=> ruleActiveOn(r, d)
    BY TermTyped DEF InTerm, ruleActiveOn, NoDate

\* The engine posts on the days on which the reference pays.
LEMMA PostsWhenItPays ==
    ASSUME NEW r \in Terms, NEW d \in Nat \ {0}
    PROVE  PaysOn(r, d) <=> shouldPostAccrual(r, d)
    <1>1. r.start \in Nat \ {0} /\ r.end \in Nat /\ r.accrual \in AccrualFrequency
        BY TermTyped
    <1>2. InTerm(r, d) <=> ruleActiveOn(r, d)
        BY TermIsActive
    <1>3. CASE r.accrual = "monthly"
        <2>1. monthEnd(d) \in Nat /\ d <= monthEnd(d)
            BY MonthOfDay
        <2>2. MonthOf(d + 1) = MonthOf(d) <=> d < monthEnd(d)
            BY NextDaysMonth
        <2>3. InTerm(r, d) => (InTerm(r, d + 1) <=> (r.end = 0 \/ d < r.end))
            BY <1>1 DEF InTerm, NoDate
        <2>4. InTerm(r, d) => (r.end = 0 \/ d <= r.end)
            BY DEF InTerm, NoDate
        <2>5. InTerm(r, d) => (d = lastActiveDayOfMonth(r, d) <=> ~(InTerm(r, d + 1) /\ MonthOf(d + 1) = MonthOf(d)))
            BY <1>1, <2>1, <2>2, <2>3, <2>4 DEF lastActiveDayOfMonth, NoDate
        <2> QED BY <1>2, <1>3, <2>5 DEF PaysOn, shouldPostAccrual
    <1>4. CASE r.accrual = "end_of_term"
        BY <1>1, <1>2, <1>4 DEF PaysOn, shouldPostAccrual, isEndOfTerm, NoDate
    <1>5. CASE r.accrual = "daily"
        BY <1>2, <1>5 DEF PaysOn, shouldPostAccrual
    <1> QED BY <1>1, <1>3, <1>4, <1>5 DEF AccrualFrequency

\* Interest is paid on the first day from d on that the rule posts on.
LEMMA PaidOnFirst ==
    ASSUME NEW r \in Terms, NEW d \in Nat \ {0}
    PROVE  /\ PaidOn(r, d) \in Nat
           /\ PaidOn(r, d) # 0 => PaidOn(r, d) \in d..TermDays /\ shouldPostAccrual(r, PaidOn(r, d))
           /\ \A e \in d..TermDays : shouldPostAccrual(r, e) => PaidOn(r, d) # 0 /\ PaidOn(r, d) <= e
           /\ d <= TermDays => (PaidOn(r, d) = d <=> shouldPostAccrual(r, d))
    <1> DEFINE T == PayDay(r, d)
    <1>0. TermDays \in Nat
        BY TermTyped
    <1>1. T \in SUBSET Nat /\ \A e : e \in T <=> e \in d..TermDays /\ shouldPostAccrual(r, e)
        <2>1. \A e : e \in T <=> e \in d..TermDays /\ PaysOn(r, e)
            BY DEF PayDay
        <2>2. \A e \in d..TermDays : e \in Nat \ {0} /\ (PaysOn(r, e) <=> shouldPostAccrual(r, e))
            BY <1>0, PostsWhenItPays
        <2> HIDE DEF T
        <2> QED BY <2>1, <2>2
    <1>2. PaidOn(r, d) = IF T = {} THEN 0 ELSE Min(T)
        BY DEF PaidOn, NoDate
    <1> HIDE DEF T
    <1>3. CASE T = {}
        BY <1>0, <1>1, <1>2, <1>3
    <1>4. CASE T # {}
        <2>1. Min(T) \in T /\ \A y \in T : Min(T) <= y
            BY <1>1, <1>4, MinIsLeast
        <2>2. PICK p : p = Min(T)
            OBVIOUS
        <2>3. p \in d..TermDays /\ shouldPostAccrual(r, p) /\ PaidOn(r, d) = p /\ p # 0
            BY <1>0, <1>1, <1>2, <1>4, <2>1, <2>2
        <2>4. \A e \in d..TermDays : shouldPostAccrual(r, e) => p <= e
            BY <1>1, <2>1, <2>2
        <2>5. d <= TermDays => (p = d <=> shouldPostAccrual(r, d))
            BY <1>0, <2>3, <2>4
        <2> QED BY <1>0, <2>3, <2>4, <2>5
    <1> QED BY <1>3, <1>4

\* Interest is capitalized on the day of its payment or later.
LEMMA CapitalizedLater ==
    ASSUME NEW r \in Terms, NEW a \in Nat \ {0}
    PROVE  /\ capitalizationDateForAccrual(r, a) \in Nat
           /\ capitalizationDateForAccrual(r, a) # 0 => a <= capitalizationDateForAccrual(r, a)
    <1>1. r.end \in Nat /\ r.capitalization \in CapitalizationFrequency
        BY TermTyped
    <1>2. monthEnd(a) \in Nat /\ a <= monthEnd(a)
        BY MonthOfDay
    <1>3. CASE ~ruleActiveOn(r, a)
        BY <1>3 DEF capitalizationDateForAccrual, NoDate
    <1>4. CASE ruleActiveOn(r, a)
        <2>1. r.end # 0 => a <= r.end
            BY <1>4 DEF ruleActiveOn, NoDate
        <2>2. lastActiveDayOfMonth(r, a) \in Nat /\ a <= lastActiveDayOfMonth(r, a)
            BY <1>1, <1>2, <2>1 DEF lastActiveDayOfMonth, NoDate
        <2> QED BY <1>1, <1>4, <2>1, <2>2 DEF capitalizationDateForAccrual, CapitalizationFrequency, NoDate
    <1> QED BY <1>3, <1>4

\* What a day earns joins the balance when its payment is capitalized.
LEMMA JoinsWithPayment ==
    ASSUME NEW r \in Terms, NEW d \in Nat \ {0}
    PROVE  JoinsOn(r, d) = IF PaidOn(r, d) = 0 THEN 0 ELSE capitalizationDateForAccrual(r, PaidOn(r, d))
    <1> PICK p : p = PaidOn(r, d)
        OBVIOUS
    <1>1. CASE p = 0
        BY <1>1 DEF JoinsOn, NoDate
    <1>2. CASE p # 0
        <2>1. p \in Nat \ {0} /\ ruleActiveOn(r, p)
            BY <1>2, PaidOnFirst DEF shouldPostAccrual
        <2>2. r.end \in Nat /\ r.capitalization \in CapitalizationFrequency
            BY TermTyped
        <2>3. monthEnd(p) \in Nat
            BY <2>1, MonthOfDay
        <2>4. Min({monthEnd(p)} \union ({r.end} \ {0})) = lastActiveDayOfMonth(r, p)
            <3> DEFINE T == {monthEnd(p)} \union ({r.end} \ {0})
            <3>1. T \in SUBSET Nat /\ T # {}
                BY <2>2, <2>3
            <3>2. Min(T) \in T /\ \A y \in T : Min(T) <= y
                <4> HIDE DEF T
                <4> QED BY <3>1, MinIsLeast
            <3>3. PICK x : x = Min(T)
                OBVIOUS
            <3>4. x \in T /\ \A y \in T : x <= y
                BY <3>2, <3>3
            <3>5. x = lastActiveDayOfMonth(r, p)
                BY <2>2, <2>3, <3>4 DEF lastActiveDayOfMonth, NoDate
            <3> QED BY <3>3, <3>5
        <2>5. JoinsOn(r, d) = IF r.capitalization = "none" THEN 0
                              ELSE CASE r.capitalization = "daily" -> p
                                     [] r.capitalization = "monthly" -> lastActiveDayOfMonth(r, p)
                                     [] OTHER -> r.end
            BY <1>2, <2>4 DEF JoinsOn, NoDate
        <2>6. capitalizationDateForAccrual(r, p) =
                CASE r.capitalization = "daily" -> p
                  [] r.capitalization = "monthly" -> lastActiveDayOfMonth(r, p)
                  [] r.capitalization = "end_of_term" -> r.end
                  [] OTHER -> 0
            BY <2>1 DEF capitalizationDateForAccrual, NoDate
        <2> QED BY <1>2, <2>2, <2>5, <2>6 DEF CapitalizationFrequency
    <1> QED BY <1>1, <1>2

\* Between two payments of a rule that does not pay daily, no interest paid before is capitalized.
LEMMA CapitalizedAtPayment ==
    ASSUME NEW r \in Terms, NEW a \in Nat \ {0}, NEW d \in Nat \ {0}, a < d, r.accrual # "daily",
           shouldPostAccrual(r, a), shouldPostAccrual(r, d)
    PROVE  \/ capitalizationDateForAccrual(r, a) = 0
           \/ capitalizationDateForAccrual(r, a) = a
           \/ capitalizationDateForAccrual(r, a) >= d
    <1>1. r.end \in Nat /\ r.capitalization \in CapitalizationFrequency /\ r.accrual \in AccrualFrequency
        BY TermTyped
    <1>2. ruleActiveOn(r, a) /\ ruleActiveOn(r, d) /\ (r.end # 0 => d <= r.end)
        BY DEF shouldPostAccrual, ruleActiveOn, NoDate
    <1>3. r.accrual = "monthly" => a = lastActiveDayOfMonth(r, a)
        BY <1>1 DEF shouldPostAccrual, AccrualFrequency
    <1>4. r.accrual = "end_of_term" => FALSE
        BY <1>1 DEF shouldPostAccrual, isEndOfTerm, AccrualFrequency
    <1> QED BY <1>1, <1>2, <1>3, <1>4 DEF capitalizationDateForAccrual, AccrualFrequency, CapitalizationFrequency, NoDate

\* A day's interest on a positive balance is a natural.
LEMMA DailyInterestTyped ==
    ASSUME NEW r \in Terms, NEW d, NEW b \in Nat
    PROVE  calculateDailyInterestAmount(b, r, d) \in Nat
    <1> DEFINE rate == effectiveRateBps(r, d)
               year == daysInYear(r.dayCount, d)
    <1>1. rate \in Nat
        BY TermTyped DEF effectiveRateBps
    <1>2. year = 365 \/ year = 366
        BY DEF daysInYear
    <1>3. calculateDailyInterestAmount(b, r, d) = (2 * b * rate + 10000 * year) \div (2 * (10000 * year))
        BY DEF calculateDailyInterestAmount
    <1> HIDE DEF rate, year
    <1>4. PICK x \in Nat : x = 2 * b * rate
        BY <1>1
    <1>5. CASE year = 365
        <2>1. (x + 3650000) \div 7300000 \in Nat
            OBVIOUS
        <2> QED BY <1>3, <1>4, <1>5, <2>1
    <1>6. CASE year = 366
        <2>1. (x + 3660000) \div 7320000 \in Nat
            OBVIOUS
        <2> QED BY <1>3, <1>4, <1>6, <2>1
    <1> QED BY <1>2, <1>5, <1>6

\* Half up by one division of the doubled numbers is the nearest whole number.
LEMMA HalvesUp ==
    ASSUME NEW x \in Nat
    PROVE  /\ (2 * x + 3650000) \div 7300000 = Nearest(x, 3650000)
           /\ (2 * x + 3660000) \div 7320000 = Nearest(x, 3660000)
    BY DEF Nearest

\* The engine's interest of an active day is that of the reference.
LEMMA InterestIsDaily ==
    ASSUME NEW r \in Terms, NEW d \in Nat \ {0}, NEW b \in Nat
    PROVE  InterestFor(r, b, d) = calculateDailyInterestAmount(b, r, d)
    <1> PICK rate : rate = effectiveRateBps(r, d)
        OBVIOUS
    <1> PICK year : year = daysInYear(r.dayCount, d)
        OBVIOUS
    <1>1. RateOn(r, d) = rate /\ rate \in Nat
        <2>1. r.promoEnd \in Nat /\ r.promoRate \in Nat /\ r.rate \in Nat
            <3>1. r \in Term
                BY TermTyped
            <3> QED BY <3>1 DEF Term
        <2> QED BY <2>1 DEF RateOn, effectiveRateBps, NoDate
    <1>2. YearOf(r, d) = year /\ (year = 365 \/ year = 366)
        BY DEF YearOf, daysInYear
    <1>3. calculateDailyInterestAmount(b, r, d) = (2 * b * rate + 10000 * year) \div (2 * (10000 * year))
        BY DEF calculateDailyInterestAmount
    <1>4. InterestFor(r, b, d) = Nearest(b * rate, 10000 * year)
        BY <1>1, <1>2 DEF InterestFor
    <1>5. PICK x \in Nat : x = b * rate /\ 2 * x = 2 * b * rate
        BY <1>1
    <1>6. CASE year = 365
        BY <1>3, <1>4, <1>5, <1>6, HalvesUp
    <1>7. CASE year = 366
        BY <1>3, <1>4, <1>5, <1>7, HalvesUp
    <1> QED BY <1>2, <1>6, <1>7

-----------------------------------------------------------------------------
(* The reference: what a day earns, and what is due on a payment date. *)

\* Sums over a set are integers; sums of naturals are at least each of their values.
LEMMA SumOverTyped ==
    ASSUME NEW S, NEW n \in Nat, NEW f, \A k \in 1..n : f[k] \in Int
    PROVE  /\ [k \in 1..n |-> IF k \in S THEN f[k] ELSE 0] \in [1..n -> Int]
           /\ SumOver(S, f, n) \in Int
           /\ (\A k \in 1..n : f[k] \in Nat) =>
                 /\ SumOver(S, f, n) \in Nat
                 /\ \A k \in 1..n : k \in S => f[k] <= SumOver(S, f, n)
    <1> DEFINE s == [k \in 1..n |-> IF k \in S THEN f[k] ELSE 0]
    <1>1. s \in [1..n -> Int] /\ \A k \in 1..n : k \in S => s[k] = f[k]
        OBVIOUS
    <1>2. (\A k \in 1..n : f[k] \in Nat) => s \in [1..n -> Nat]
        OBVIOUS
    <1>3. SumOver(S, f, n) = SumTo(s, n)
        BY DEF SumOver
    <1> HIDE DEF s
    <1>4. SumTo(s, n) \in Int
        <2>1. RunningSum(s, n) \in [0..n -> Int] /\ n \in 0..n
            BY <1>1, RunningSumDef
        <2> QED BY <2>1 DEF SumTo
    <1>5. s \in [1..n -> Nat] => SumTo(s, n) \in Nat /\ \A k \in 1..n : s[k] <= SumTo(s, n)
        BY SumBounds
    <1> QED BY <1>1, <1>2, <1>3, <1>4, <1>5 DEF s

\* Sums of equal values are equal.
LEMMA SameSumOver ==
    ASSUME NEW S, NEW n \in Nat, NEW f, NEW g, \A k \in 1..n : f[k] = g[k]
    PROVE  SumOver(S, f, n) = SumOver(S, g, n)
    <1>1. [k \in 1..n |-> IF k \in S THEN f[k] ELSE 0] = [k \in 1..n |-> IF k \in S THEN g[k] ELSE 0]
        OBVIOUS
    <1> QED BY <1>1 DEF SumOver

\* The balance of day d, when f is what the days before have earned, and what the day earns then.
BalanceOn(r, h, f, d) == SumOver(1..d, h, d) + SumOver(Joined(r, d), f, d - 1)

Earns(r, h, f, d) ==
    IF d = 0 THEN 0
    ELSE IF InTerm(r, d) /\ BalanceOn(r, h, f, d) > 0
         THEN InterestFor(r, BalanceOn(r, h, f, d), d) ELSE 0

\* The manual amounts are integers.
LEMMA HistoryTyped ==
    ASSUME NEW h \in Histories, NEW d \in 1..TermDays
    PROVE  h[d] \in Int /\ TermDays \in Nat
    <1>1. h \in [1..TermDays -> Int] /\ TermDays \in Nat
        BY TermsAssumption
    <1> QED BY <1>1

\* A day earns a natural.
LEMMA EarnsTyped ==
    ASSUME NEW r \in Terms, NEW h \in Histories, NEW d \in 0..TermDays, NEW f, \A k \in 1..(d - 1) : f[k] \in Nat
    PROVE  Earns(r, h, f, d) \in Nat /\ (d # 0 => BalanceOn(r, h, f, d) \in Int)
    <1>1. CASE d = 0
        BY <1>1 DEF Earns
    <1>2. CASE d # 0
        <2>0. TermDays \in Nat
            BY TermTyped
        <2>1. d \in Nat /\ d - 1 \in Nat /\ \A k \in 1..d : k \in 1..TermDays
            BY <1>2, <2>0
        <2>2. \A k \in 1..d : h[k] \in Int
            BY <2>1, HistoryTyped
        <2>3. SumOver(1..d, h, d) \in Int
            BY <2>1, <2>2, SumOverTyped
        <2>4. \A k \in 1..(d - 1) : f[k] \in Int
            OBVIOUS
        <2>5. SumOver(Joined(r, d), f, d - 1) \in Int
            BY <2>1, <2>4, SumOverTyped
        <2>6. BalanceOn(r, h, f, d) \in Int
            BY <2>3, <2>5 DEF BalanceOn
        <2>7. CASE BalanceOn(r, h, f, d) > 0
            <3>1. BalanceOn(r, h, f, d) \in Nat
                BY <2>6, <2>7
            <3>2. InterestFor(r, BalanceOn(r, h, f, d), d) \in Nat
                BY <1>2, <2>1, <3>1, DailyInterestTyped, InterestIsDaily
            <3> QED BY <1>2, <2>6, <3>2 DEF Earns
        <2>8. CASE ~(BalanceOn(r, h, f, d) > 0)
            BY <1>2, <2>6, <2>8 DEF Earns
        <2> QED BY <2>7, <2>8
    <1> QED BY <1>1, <1>2

\* It is what the engine calculates on the balance of the day.
LEMMA EarnsAsCalculated ==
    ASSUME NEW r \in Terms, NEW h \in Histories, NEW d \in 1..TermDays, NEW f, \A k \in 1..(d - 1) : f[k] \in Nat
    PROVE  Earns(r, h, f, d) = IF ruleActiveOn(r, d) /\ BalanceOn(r, h, f, d) > 0
                               THEN calculateDailyInterestAmount(BalanceOn(r, h, f, d), r, d) ELSE 0
    <1>1. TermDays \in Nat
        BY TermTyped
    <1>2. d \in 0..TermDays /\ d \in Nat \ {0}
        BY <1>1
    <1>3. BalanceOn(r, h, f, d) \in Int
        BY <1>2, EarnsTyped
    <1>4. InTerm(r, d) <=> ruleActiveOn(r, d)
        BY <1>2, TermIsActive
    <1>5. BalanceOn(r, h, f, d) > 0 =>
            InterestFor(r, BalanceOn(r, h, f, d), d) = calculateDailyInterestAmount(BalanceOn(r, h, f, d), r, d)
        <2> HAVE BalanceOn(r, h, f, d) > 0
        <2>1. BalanceOn(r, h, f, d) \in Nat
            BY <1>3
        <2> QED BY <1>2, <2>1, InterestIsDaily
    <1> QED BY <1>2, <1>4, <1>5 DEF Earns

\* It depends on the days before it only.
LEMMA EarnsLocally ==
    ASSUME NEW r, NEW h, NEW d \in Nat, NEW f, NEW g, \A k \in 1..(d - 1) : f[k] = g[k]
    PROVE  Earns(r, h, f, d) = Earns(r, h, g, d)
    <1>1. CASE d = 0
        BY <1>1 DEF Earns
    <1>2. CASE d # 0
        <2>1. SumOver(Joined(r, d), f, d - 1) = SumOver(Joined(r, d), g, d - 1)
            <3>1. d - 1 \in Nat
                BY <1>2
            <3> QED BY <3>1, SameSumOver
        <2>2. BalanceOn(r, h, f, d) = BalanceOn(r, h, g, d)
            BY <2>1 DEF BalanceOn
        <2> QED BY <2>2 DEF Earns
    <1> QED BY <1>1, <1>2

\* The days can be given what they earn, one after the other.
LEMMA EarningsExist ==
    ASSUME NEW r \in Terms, NEW h \in Histories
    PROVE  \E f \in [0..TermDays -> Nat] : f = [d \in 0..TermDays |-> Earns(r, h, f, d)]
    <1> DEFINE N == TermDays
               Good(f, m) == f \in [0..N -> Nat] /\ \A d \in 0..m : f[d] = Earns(r, h, f, d)
               Bad == {m \in 0..N : ~ \E f : Good(f, m)}
    <1>1. N \in Nat
        BY TermTyped
    <1>2. Bad = {}
        <2> SUFFICES ASSUME Bad # {} PROVE FALSE
            OBVIOUS
        <2>1. PICK m \in Bad : \A l \in Bad : m <= l
            <3>1. Bad \in SUBSET Nat
                OBVIOUS
            <3> HIDE DEF Bad
            <3> QED BY <3>1, LeastNatural
        <2>2. \E f : f \in [0..N -> Nat] /\ \A d \in 0..(m - 1) : f[d] = Earns(r, h, f, d)
            <3>1. CASE m = 0
                <4>1. [d \in 0..N |-> 0] \in [0..N -> Nat] /\ 0..(m - 1) = {}
                    BY <3>1
                <4> QED BY <4>1
            <3>2. CASE m # 0
                <4>1. m - 1 \in 0..N /\ ~(m <= m - 1)
                    BY <1>1, <2>1, <3>2
                <4> QED BY <2>1, <4>1
            <3> QED BY <3>1, <3>2
        <2>3. PICK f : f \in [0..N -> Nat] /\ \A d \in 0..(m - 1) : f[d] = Earns(r, h, f, d)
            BY <2>2
        <2> DEFINE g == [d \in 0..N |-> IF d = m THEN Earns(r, h, f, m) ELSE f[d]]
        <2>4. m \in 0..N /\ m \in Nat /\ \A k \in 1..(m - 1) : k \in 0..N /\ f[k] \in Nat
            BY <1>1, <2>1, <2>3
        <2>5. Earns(r, h, f, m) \in Nat
            BY <2>4, EarnsTyped
        <2>6. g \in [0..N -> Nat] /\ g[m] = Earns(r, h, f, m) /\ \A d \in 0..N : d # m => g[d] = f[d]
            BY <2>3, <2>4, <2>5
        <2> HIDE DEF g
        <2>7. ASSUME NEW d \in 0..m PROVE g[d] = Earns(r, h, g, d)
            <3>1. d \in Nat /\ d \in 0..N /\ \A k \in 1..(d - 1) : k \in 0..N /\ k # m
                BY <1>1, <2>4
            <3>2. \A k \in 1..(d - 1) : f[k] = g[k]
                BY <2>6, <3>1
            <3>3. Earns(r, h, f, d) = Earns(r, h, g, d)
                BY <3>1, <3>2, EarnsLocally
            <3>4. CASE d = m
                BY <2>6, <3>3, <3>4
            <3>5. CASE d # m
                <4>1. d \in 0..(m - 1)
                    BY <2>4, <3>5
                <4> QED BY <2>3, <2>6, <3>1, <3>3, <3>5, <4>1
            <3> QED BY <3>4, <3>5
        <2>8. Good(g, m)
            BY <2>6, <2>7
        <2> QED BY <2>1, <2>8
    <1>3. N \in 0..N
        BY <1>1
    <1>4. PICK f : Good(f, N)
        BY <1>2, <1>3
    <1>5. f = [d \in 0..N |-> Earns(r, h, f, d)] /\ f \in [0..N -> Nat]
        BY <1>4
    <1> QED BY <1>5

\* Earned is what the days earn, and each earns a natural.
LEMMA EarnedDef ==
    ASSUME NEW r \in Terms, NEW h \in Histories
    PROVE  /\ Earned(r, h) \in [0..TermDays -> Nat]
           /\ \A d \in 0..TermDays : Earned(r, h)[d] = Earns(r, h, Earned(r, h), d)
    <1> DEFINE N == TermDays
               Earnings(f) == f = [d \in 0..N |-> Earns(r, h, f, d)]
    <1>1. N \in Nat
        BY TermTyped
    <1>2. PICK f \in [0..N -> Nat] : Earnings(f)
        BY EarningsExist
    <1>3. PICK e : e = (CHOOSE x : Earnings(x)) /\ Earned(r, h) = e
        BY DEF Earned, Earns, BalanceOn
    <1>4. Earnings(e)
        <2> HIDE DEF Earnings
        <2> QED BY <1>2, <1>3
    <1>5. \A d \in 0..N : f[d] = Earns(r, h, f, d) /\ e[d] = Earns(r, h, e, d)
        BY <1>2, <1>4
    <1> DEFINE D == {d \in 0..N : f[d] # e[d]}
    <1>6. D = {}
        <2> SUFFICES ASSUME D # {} PROVE FALSE
            OBVIOUS
        <2>1. PICK d \in D : \A l \in D : d <= l
            <3>1. D \in SUBSET Nat
                OBVIOUS
            <3> HIDE DEF D
            <3> QED BY <3>1, LeastNatural
        <2>2. d \in Nat /\ \A k \in 1..(d - 1) : k \in 0..N /\ ~(d <= k)
            BY <1>1, <2>1
        <2>3. \A k \in 1..(d - 1) : f[k] = e[k]
            BY <2>1, <2>2
        <2>4. Earns(r, h, f, d) = Earns(r, h, e, d)
            BY <2>2, <2>3, EarnsLocally
        <2> QED BY <1>5, <2>1, <2>4
    <1>7. \A d \in 0..N : e[d] = f[d]
        BY <1>6
    <1>8. e = [d \in 0..N |-> e[d]]
        BY <1>4
    <1>9. e \in [0..N -> Nat]
        BY <1>2, <1>7, <1>8
    <1> HIDE DEF Earnings
    <1> QED BY <1>3, <1>5, <1>9

\* What is due on a date is a natural, the sum of what the days earned that are paid on it.
LEMMA DueIsSum ==
    ASSUME NEW r \in Terms, NEW h \in Histories, NEW d \in 1..TermDays
    PROVE  /\ Due(r, h, d) \in Nat
           /\ \A e \in 1..d : PaidOn(r, e) = d => Earned(r, h)[e] \in Nat /\ Earned(r, h)[e] <= Due(r, h, d)
           /\ PaidOn(r, d) # d => Due(r, h, d) = 0
           /\ \A n \in d..TermDays :
                Due(r, h, d) = SumTo([j \in 1..n |-> IF PaidOn(r, j) = d THEN Earned(r, h)[j] ELSE 0], n)
    <1> DEFINE S == {e \in 1..d : PaidOn(r, e) = d}
    <1>0. TermDays \in Nat /\ d \in Nat
        BY TermsAssumption
    <1>1. PICK E \in [0..TermDays -> Nat] : E = Earned(r, h)
        BY EarnedDef
    <1>2. \A j \in 1..TermDays : E[j] \in Nat
        BY <1>0, <1>1
    <1>3. Due(r, h, d) = SumOver(S, E, d)
        BY <1>1 DEF Due
    <1>4. \A k \in 1..d : E[k] \in Nat /\ E[k] \in Int
        BY <1>0, <1>2
    <1>5. SumOver(S, E, d) \in Nat /\ \A k \in 1..d : k \in S => E[k] <= SumOver(S, E, d)
        <2> HIDE DEF S
        <2> QED BY <1>0, <1>4, SumOverTyped
    <1>6. ASSUME PaidOn(r, d) # d PROVE SumOver(S, E, d) = 0
        <2>1. S = {}
            <3> SUFFICES ASSUME NEW e \in 1..d, PaidOn(r, e) = d PROVE FALSE
                OBVIOUS
            <3>1. shouldPostAccrual(r, d)
                BY <1>0, PaidOnFirst
            <3> QED BY <1>0, <1>6, <3>1, PaidOnFirst
        <2> DEFINE s == [k \in 1..d |-> IF k \in S THEN E[k] ELSE 0]
        <2>2. s \in [1..d -> Int] /\ \A k \in 1..d : s[k] = 0
            BY <2>1
        <2>3. SumTo(s, d) = 0
            <3> HIDE DEF s
            <3> QED BY <1>0, <2>2, SumOfZeros
        <2> QED BY <2>3 DEF SumOver
    <1>7. ASSUME NEW n \in d..TermDays
          PROVE  SumOver(S, E, d) = SumTo([j \in 1..n |-> IF PaidOn(r, j) = d THEN E[j] ELSE 0], n)
        <2> DEFINE s == [k \in 1..d |-> IF k \in S THEN E[k] ELSE 0]
                   t == [j \in 1..n |-> IF PaidOn(r, j) = d THEN E[j] ELSE 0]
        <2>0. n \in Nat /\ d <= n /\ \A j \in 1..n : j \in 1..TermDays
            BY <1>0
        <2>1. s \in [1..d -> Int] /\ t \in [1..n -> Int]
            BY <1>2, <1>4, <2>0
        <2>2. \A k \in 1..d : t[k] = s[k]
            BY <2>0
        <2>3. ASSUME NEW k \in (d + 1)..n PROVE t[k] = 0
            <3>1. k \in Nat \ {0} /\ k \in 1..n /\ ~(k <= d) /\ d # 0
                BY <1>0, <2>0
            <3>2. PaidOn(r, k) # d
                BY <1>0, <3>1, PaidOnFirst
            <3> QED BY <3>1, <3>2
        <2>4. SumTo(t, n) = SumTo(s, d)
            <3> HIDE DEF s, t
            <3> QED BY <1>0, <2>0, <2>1, <2>2, <2>3, SumTail
        <2> QED BY <2>4 DEF SumOver
    <1> QED BY <1>1, <1>3, <1>4, <1>5, <1>6, <1>7

\* The interest paid on k that is in the balance of day e.
Credited(r, h, e, k) ==
    LET c == capitalizationDateForAccrual(r, k)
    IN IF c # 0 /\ c < e THEN Due(r, h, k) ELSE 0

\* The days whose interest has joined the balance have earned what the capitalized payments pay.
LEMMA JoinedIsCredited ==
    ASSUME NEW r \in Terms, NEW h \in Histories, NEW e \in 1..TermDays
    PROVE  SumOver(Joined(r, e), Earned(r, h), e - 1) = SumTo([k \in 1..e |-> Credited(r, h, e, k)], e)
    <1> DEFINE n == e - 1
               Joins(j) == JoinsOn(r, j) # 0 /\ JoinsOn(r, j) < e
               Cap(k) == capitalizationDateForAccrual(r, k)
               key == [j \in 1..n |-> IF Joins(j) THEN PaidOn(r, j) ELSE 0]
               g == [k \in 1..n |-> Credited(r, h, e, k)]
    <1>0. /\ TermDays \in Nat /\ e \in Nat \ {0} /\ n \in Nat /\ n + 1 = e
          /\ \A j \in 1..n : j \in Nat \ {0} /\ j \in 1..TermDays /\ j \in 0..TermDays
        BY TermsAssumption
    <1>1. PICK E \in [0..TermDays -> Nat] : E = Earned(r, h)
        BY EarnedDef
    <1> DEFINE v == [j \in 1..n |-> E[j]]
    <1>2. v \in [1..n -> Int]
        BY <1>0, <1>1
    <1>3. ASSUME NEW j \in 1..n
          PROVE  /\ PaidOn(r, j) \in Nat /\ JoinsOn(r, j) \in Nat
                 /\ Joins(j) => PaidOn(r, j) \in 1..n
                 /\ PaidOn(r, j) # 0 => PaidOn(r, j) \in Nat \ {0} /\ JoinsOn(r, j) = Cap(PaidOn(r, j))
                 /\ PaidOn(r, j) = 0 => JoinsOn(r, j) = 0
        <2>1. j \in Nat \ {0}
            BY <1>0
        <2>2. PaidOn(r, j) \in Nat /\ (PaidOn(r, j) # 0 => PaidOn(r, j) \in Nat \ {0})
            BY <2>1, PaidOnFirst
        <2>3. JoinsOn(r, j) = IF PaidOn(r, j) = 0 THEN 0 ELSE Cap(PaidOn(r, j))
            BY <2>1, JoinsWithPayment
        <2>4. PaidOn(r, j) # 0 => Cap(PaidOn(r, j)) \in Nat /\ (Cap(PaidOn(r, j)) # 0 => PaidOn(r, j) <= Cap(PaidOn(r, j)))
            BY <2>2, CapitalizedLater
        <2> HIDE DEF Cap
        <2> QED BY <1>0, <2>2, <2>3, <2>4
    <1>4. key \in [1..n -> Int]
        BY <1>3
    <1>5. ASSUME NEW k \in 1..n PROVE Due(r, h, k) \in Int /\ Credited(r, h, e, k) \in Int
        BY <1>0, DueIsSum DEF Credited
    <1>6. g \in [1..n -> Int]
        BY <1>5
    <1>7. ASSUME NEW k \in 1..n PROVE g[k] = SumTo(InGroup(v, key, n, k), n)
        <2> DEFINE s == InGroup(v, key, n, k)
        <2>0. k \in 1..TermDays /\ n \in k..TermDays /\ k # 0
            BY <1>0
        <2>1. s \in [1..n -> Int]
            BY <1>2 DEF InGroup
        <2>2. CASE Cap(k) # 0 /\ Cap(k) < e
            <3>1. ASSUME NEW j \in 1..n PROVE s[j] = IF PaidOn(r, j) = k THEN E[j] ELSE 0
                <4>1. key[j] = k <=> PaidOn(r, j) = k
                    BY <1>3, <2>0, <2>2
                <4> QED BY <4>1 DEF InGroup
            <3>2. s = [j \in 1..n |-> IF PaidOn(r, j) = k THEN E[j] ELSE 0]
                <4>1. s = [j \in 1..n |-> s[j]]
                    BY DEF InGroup
                <4> HIDE DEF s
                <4> QED BY <3>1, <4>1
            <3>3. Due(r, h, k) = SumTo(s, n)
                <4> HIDE DEF s
                <4>1. Due(r, h, k) = SumTo([j \in 1..n |-> IF PaidOn(r, j) = k THEN Earned(r, h)[j] ELSE 0], n)
                    BY <2>0, DueIsSum
                <4> QED BY <1>1, <3>2, <4>1
            <3> QED BY <2>2, <3>3 DEF Credited
        <2>3. CASE ~(Cap(k) # 0 /\ Cap(k) < e)
            <3>1. ASSUME NEW j \in 1..n PROVE s[j] = 0
                <4>1. key[j] # k
                    BY <1>3, <2>0, <2>3
                <4> QED BY <4>1 DEF InGroup
            <3>2. SumTo(s, n) = 0
                <4> HIDE DEF s
                <4> QED BY <1>0, <2>1, <3>1, SumOfZeros
            <3> QED BY <2>3, <3>2 DEF Credited
        <2> QED BY <2>2, <2>3
    <1>8. SumTo(g, n) = SumTo(InGroups(v, key, n, n), n)
        <2>1. n \in Nat
            BY <1>0
        <2>2. \A k \in 1..n : g[k] = SumTo(InGroup(v, key, n, k), n)
            BY <1>7
        <2> HIDE DEF g, key, v, n
        <2> QED BY <1>2, <1>4, <1>6, <2>1, <2>2, GroupedSums
    <1>9. InGroups(v, key, n, n) = [j \in 1..n |-> IF j \in Joined(r, e) THEN E[j] ELSE 0]
        <2>1. ASSUME NEW j \in 1..n PROVE key[j] \in 1..n <=> j \in Joined(r, e)
            BY <1>0, <1>3 DEF Joined, NoDate
        <2> QED BY <2>1 DEF InGroups
    <1>10. SumOver(Joined(r, e), E, n) = SumTo(g, n)
        BY <1>8, <1>9 DEF SumOver
    <1>11. SumTo([k \in 1..e |-> Credited(r, h, e, k)], e) = SumTo(g, n)
        <2> DEFINE t == [k \in 1..e |-> Credited(r, h, e, k)]
        <2>1. Credited(r, h, e, e) = 0
            <3>1. Cap(e) \in Nat /\ (Cap(e) # 0 => e <= Cap(e))
                BY <1>0, CapitalizedLater
            <3> HIDE DEF n
            <3> QED BY <1>0, <3>1 DEF Credited
        <2>2. \A k \in 1..e : k \in 1..n \/ k = e
            BY <1>0
        <2>3. t \in [1..e -> Int]
            BY <1>5, <2>1, <2>2
        <2>4. \A k \in 1..n : t[k] = g[k]
            BY <1>0
        <2>5. \A k \in (n + 1)..e : t[k] = 0
            BY <1>0, <2>1
        <2>6. n <= e /\ n \in Nat /\ e \in Nat
            BY <1>0
        <2> HIDE DEF t, g, n
        <2>7. SumTo(t, e) = SumTo(g, n)
            BY <1>6, <2>3, <2>4, <2>5, <2>6, SumTail
        <2> QED BY <2>7 DEF t
    <1> QED BY <1>1, <1>10, <1>11

-----------------------------------------------------------------------------
(* The principal that the tables lead to. *)

\* A row that is not there yet adds its amount.
LEMMA RowAdds ==
    ASSUME NEW S, Amounted(S), NEW t, t \notin S, t.amount \in Int
    PROVE  Amounted(S \union {t}) /\ Balance(S \union {t}) = Balance(S) + t.amount /\ Balance(S) \in Int
    <1> DEFINE U == S \union {t}
    <1>1. Amounted(U)
        BY FS_AddElement DEF Amounted
    <1>2. U \ {t} = S /\ t \in U
        OBVIOUS
    <1> HIDE DEF U
    <1>3. Balance(U) = t.amount + Balance(S) /\ Balance(S) \in Int
        BY <1>1, <1>2, BalanceAdds
    <1> QED BY <1>1, <1>3 DEF U

\* Rows that are not in common add their balances.
LEMMA BalanceUnion ==
    ASSUME NEW S, Amounted(S), NEW U, Amounted(U), S \intersect U = {}
    PROVE  /\ Amounted(S \union U) /\ Balance(S \union U) = Balance(S) + Balance(U)
           /\ Balance(S) \in Int /\ Balance(U) \in Int
    <1> DEFINE OK(u) == Amounted(S \union u) /\ Balance(S \union u) = Balance(S) + Balance(u)
               D == {c \in Nat : \E u \in SUBSET U : Cardinality(u) = c /\ ~OK(u)}
    <1>1. Balance(S) \in Int /\ Balance(U) \in Int
        BY BalanceStep
    <1>2. D = {}
        <2> SUFFICES ASSUME D # {} PROVE FALSE
            OBVIOUS
        <2>1. PICK c \in D : \A e \in D : c <= e
            <3>1. D \in SUBSET Nat
                OBVIOUS
            <3> HIDE DEF D
            <3> QED BY <3>1, LeastNatural
        <2>2. PICK u \in SUBSET U : Cardinality(u) = c /\ ~OK(u)
            BY <2>1
        <2>3. u # {}
            <3>1. OK({})
                <4>1. S \union {} = S
                    OBVIOUS
                <4>2. Amounted({})
                    BY FS_EmptySet DEF Amounted
                <4>3. Balance({}) = 0
                    BY <4>2, BalanceStep
                <4> QED BY <1>1, <4>1, <4>3
            <3> QED BY <2>2, <3>1
        <2>4. PICK t : t \in u
            BY <2>3
        <2> DEFINE w == u \ {t}
        <2>5. w \in SUBSET U /\ Cardinality(w) = c - 1 /\ Cardinality(w) \in Nat /\ Amounted(w) /\ Amounted(u) /\ c \in Nat
            BY <2>1, <2>2, <2>4, AmountedSubset
        <2>6. OK(w)
            <3>1. ~(c <= c - 1)
                BY <2>5
            <3> HIDE DEF w, OK
            <3> QED BY <2>1, <2>5, <3>1
        <2>7. Balance(u) = t.amount + Balance(w) /\ Balance(w) \in Int /\ t.amount \in Int
            BY <2>4, <2>5, BalanceAdds
        <2>8. t \notin S \union w /\ S \union u = (S \union w) \union {t}
            BY <2>4
        <2>9. Amounted((S \union w) \union {t}) /\ Balance((S \union w) \union {t}) = Balance(S \union w) + t.amount
            <3> HIDE DEF w
            <3> QED BY <2>6, <2>7, <2>8, RowAdds
        <2>10. OK(u)
            <3>1. PICK a \in Int, b \in Int, x \in Int : a = Balance(S) /\ b = Balance(w) /\ x = t.amount
                BY <1>1, <2>7
            <3>2. Balance(S \union u) = (a + b) + x /\ Balance(u) = x + b
                BY <2>6, <2>7, <2>8, <2>9, <3>1
            <3>3. (a + b) + x = a + (x + b)
                OBVIOUS
            <3> QED BY <2>8, <2>9, <3>1, <3>2, <3>3
        <2> QED BY <2>2, <2>10
    <1>3. Cardinality(U) \in Nat /\ U \in SUBSET U
        BY AmountedSubset
    <1>4. OK(U)
        BY <1>2, <1>3
    <1> QED BY <1>1, <1>4

\* Of the rows F, one for each day, those of the days C up to e, and the sum of their amounts.
RowsUpTo(F, C, e) == {F[k] : k \in {j \in C : j <= e}}
AmountUpTo(F, C, e) == SumTo([k \in 1..e |-> IF k \in C THEN F[k].amount ELSE 0], e)

\* Their balance is that sum.
LEMMA KeyedBalance ==
    ASSUME NEW N \in Nat, NEW F, NEW C \in SUBSET (1..N), NEW e \in 0..N,
           \A k \in 1..N : F[k].amount \in Int, \A j, k \in 1..N : F[j] = F[k] => j = k
    PROVE  Amounted(RowsUpTo(F, C, e)) /\ Balance(RowsUpTo(F, C, e)) = AmountUpTo(F, C, e)
    <1> DEFINE R(m) == {F[k] : k \in {j \in C : j <= m}}
               v(m) == [k \in 1..m |-> IF k \in C THEN F[k].amount ELSE 0]
               OK(m) == Amounted(R(m)) /\ Balance(R(m)) = SumTo(v(m), m)
               Bad == {m \in 0..N : ~OK(m)}
    <1>1. ASSUME NEW m \in 0..N PROVE v(m) \in [1..m -> Int]
        OBVIOUS
    <1>2. OK(0)
        <2>1. R(0) = {}
            OBVIOUS
        <2>2. Amounted({}) /\ Balance({}) = 0
            <3>1. Amounted({})
                BY FS_EmptySet DEF Amounted
            <3> QED BY <3>1, BalanceStep
        <2>3. SumTo(v(0), 0) = 0
            <3>1. v(0) \in [1..0 -> Int]
                BY <1>1
            <3> HIDE DEF v
            <3> QED BY <3>1, SumOfNothing
        <2> HIDE DEF R, v
        <2> QED BY <2>1, <2>2, <2>3
    <1>3. Bad = {}
        <2> SUFFICES ASSUME Bad # {} PROVE FALSE
            OBVIOUS
        <2>1. PICK m \in Bad : \A l \in Bad : m <= l
            <3>1. Bad \in SUBSET Nat
                OBVIOUS
            <3> HIDE DEF Bad
            <3> QED BY <3>1, LeastNatural
        <2>2. m # 0
            <3> HIDE DEF OK
            <3> QED BY <1>2, <2>1
        <2> DEFINE l == m - 1
        <2>3. m \in 1..N /\ l \in 0..N /\ l \in Nat /\ ~(m <= l) /\ l + 1 = m /\ m \in 0..N
            BY <2>1, <2>2
        <2>4. OK(l)
            <3> HIDE DEF OK, l
            <3> QED BY <2>1, <2>3
        <2>5. SumTo(v(l), l) \in Int /\ SumTo(v(m), m) = SumTo(v(l), l) + (IF m \in C THEN F[m].amount ELSE 0)
            <3>1. v(l) \in [1..l -> Int] /\ v(m) \in [1..(l + 1) -> Int]
                BY <1>1, <2>3
            <3>2. (\A k \in 1..l : v(m)[k] = v(l)[k]) /\ v(m)[m] = IF m \in C THEN F[m].amount ELSE 0
                BY <2>3
            <3>3. SumTo(v(l), l) \in Int /\ SumTo(v(m), l + 1) = SumTo(v(l), l) + v(m)[l + 1]
                <4> HIDE DEF v, l
                <4> QED BY <2>3, <3>1, <3>2, SumOneMore
            <3> HIDE DEF v, l
            <3> QED BY <2>3, <3>2, <3>3
        <2>6. R(m) = IF m \in C THEN R(l) \union {F[m]} ELSE R(l)
            <3>1. \A j \in C : j <= m <=> (j <= l \/ j = m)
                BY <2>3
            <3> HIDE DEF l
            <3> QED BY <2>3, <3>1
        <2>7. F[m] \notin R(l) /\ F[m].amount \in Int
            <3>1. \A j \in C : j <= l => j \in 1..N /\ j # m
                BY <2>3
            <3> HIDE DEF l
            <3> QED BY <2>3, <3>1
        <2> HIDE DEF R, v, l
        <2>8. OK(m)
            <3>1. CASE m \in C
                BY <2>4, <2>5, <2>6, <2>7, <3>1, RowAdds
            <3>2. CASE m \notin C
                BY <2>4, <2>5, <2>6, <3>2
            <3> QED BY <3>1, <3>2
        <2> QED BY <2>1, <2>8
    <1>4. OK(e)
        BY <1>3
    <1> QED BY <1>4 DEF RowsUpTo, AmountUpTo

\* The rows of one day: manual ones, and interest with an id from ids[k] on, the one of the job or
\* of a recalculation.
ManualRow(r, h, k) == [id |-> k, account |-> r.account, date |-> k, amount |-> h[k], source |-> "manual"]
PaymentRow(r, h, ids, k) == InterestRow(r, k, Due(r, h, k), ids[k])
JobIds == [k \in 1..TermDays |-> TermDays]

\* Those up to day e, of the payment dates C.
RowsOf(r, h, ids, C, e) ==
    {ManualRow(r, h, k) : k \in {j \in 1..TermDays : h[j] # 0 /\ j <= e}} \union
    {PaymentRow(r, h, ids, k) : k \in {j \in C : j <= e}}

\* The interest paid up to day n that is capitalized by day d.
Counted(r, h, n, d) == {k \in PaymentDates(r, h, n) : accrualCapitalizedBy(r, k, d)}

\* The tables that TermInv describes.
PaymentsUpTo(r, h, n) == {Payment(r, h, k) : k \in PaymentDates(r, h, n)}
BookUpTo(r, h, n) == Manual(r, h) \union {PaymentRow(r, h, JobIds, k) : k \in PaymentDates(r, h, n)}

\* The transactions that count are those rows.
LEMMA PrincipalIs ==
    ASSUME NEW r \in Terms, NEW h \in Histories, NEW n \in 0..TermDays, NEW d, NEW e
    PROVE  transactionsUpToDate(PrincipalTransactionsForRuleAt(BookUpTo(r, h, n), PaymentsUpTo(r, h, n), r, d), e)
             = RowsOf(r, h, JobIds, Counted(r, h, n, d), e)
    <1> DEFINE N == TermDays
               P == PaymentDates(r, h, n)
               A == PaymentsUpTo(r, h, n)
               B == BookUpTo(r, h, n)
               Free(t) == \A a \in AccrualsOf(A, r) : a.tx = t.id => accrualCapitalizedBy(r, a.date, d)
    <1>1. N \in Nat /\ \A k \in P : k \in Nat \ {0} /\ k \in Int
        BY TermsAssumption DEF PaymentDates
    <1>2. \A k : /\ Payment(r, h, k).account = r.account /\ Payment(r, h, k).rule = r.id
                 /\ Payment(r, h, k).tx = N + k /\ Payment(r, h, k).date = k
        BY DEF Payment, AccrualRow
    <1>3. \A k \in P : PaymentRow(r, h, JobIds, k).id = N + k /\ PaymentRow(r, h, JobIds, k).date = k
        <2>1. \A k \in P : JobIds[k] = N
            BY <1>1, TermsAssumption DEF JobIds, PaymentDates
        <2> QED BY <2>1 DEF PaymentRow, InterestRow
    <1>4. \A k : ManualRow(r, h, k).id = k /\ ManualRow(r, h, k).date = k
        BY DEF ManualRow
    <1>5. \A t : Free(t) <=> \A k \in P : N + k = t.id => accrualCapitalizedBy(r, k, d)
        <2>1. AccrualsOf(A, r) = A
            BY <1>2 DEF AccrualsOf, PaymentsUpTo
        <2>2. A = {Payment(r, h, k) : k \in P}
            BY DEF PaymentsUpTo
        <2> HIDE DEF A, P
        <2>3. \A t : Free(t) <=> \A a \in A : a.tx = t.id => accrualCapitalizedBy(r, a.date, d)
            BY <2>1
        <2>4. ASSUME NEW t PROVE (\A a \in A : a.tx = t.id => accrualCapitalizedBy(r, a.date, d))
                                   <=> \A k \in P : N + k = t.id => accrualCapitalizedBy(r, k, d)
            <3>1. ASSUME \A a \in A : a.tx = t.id => accrualCapitalizedBy(r, a.date, d), NEW k \in P, N + k = t.id
                  PROVE  accrualCapitalizedBy(r, k, d)
                <4>1. Payment(r, h, k) \in A
                    BY <2>2
                <4> QED BY <1>2, <3>1, <4>1
            <3>2. ASSUME \A k \in P : N + k = t.id => accrualCapitalizedBy(r, k, d), NEW a \in A, a.tx = t.id
                  PROVE  accrualCapitalizedBy(r, a.date, d)
                <4>1. PICK k \in P : a = Payment(r, h, k)
                    BY <2>2
                <4> QED BY <1>2, <3>2, <4>1
            <3> QED BY <3>1, <3>2
        <2> QED BY <2>3, <2>4
    <1>6. B = {ManualRow(r, h, k) : k \in {j \in 1..N : h[j] # 0}} \union {PaymentRow(r, h, JobIds, k) : k \in P}
        BY DEF BookUpTo, Manual, ManualRow
    <1>7. ASSUME NEW k \in 1..N PROVE Free(ManualRow(r, h, k))
        <2>1. \A j \in P : N + j # k
            BY <1>1
        <2> HIDE DEF Free, P
        <2> QED BY <1>4, <1>5, <2>1
    <1>8. ASSUME NEW k \in P PROVE Free(PaymentRow(r, h, JobIds, k)) <=> accrualCapitalizedBy(r, k, d)
        <2>1. \A j \in P : N + j = N + k <=> j = k
            BY <1>1
        <2> HIDE DEF Free, P
        <2> QED BY <1>3, <1>5, <2>1
    <1>9. transactionsUpToDate(PrincipalTransactionsForRuleAt(B, A, r, d), e) = {t \in B : Free(t) /\ t.date <= e}
        BY DEF transactionsUpToDate, PrincipalTransactionsForRuleAt
    <1>10. RowsOf(r, h, JobIds, Counted(r, h, n, d), e) =
             {ManualRow(r, h, k) : k \in {j \in 1..N : h[j] # 0 /\ j <= e}} \union
             {PaymentRow(r, h, JobIds, k) : k \in {j \in P : accrualCapitalizedBy(r, j, d) /\ j <= e}}
        BY DEF RowsOf, Counted
    <1> HIDE DEF Free, P, A, B, N
    <1>11. \A t : t \in {x \in B : Free(x) /\ x.date <= e} <=> t \in RowsOf(r, h, JobIds, Counted(r, h, n, d), e)
        <2> TAKE t
        <2>1. ASSUME t \in B, Free(t), t.date <= e PROVE t \in RowsOf(r, h, JobIds, Counted(r, h, n, d), e)
            <3>1. CASE \E k \in 1..N : h[k] # 0 /\ t = ManualRow(r, h, k)
                BY <1>4, <1>10, <2>1, <3>1
            <3>2. CASE \E k \in P : t = PaymentRow(r, h, JobIds, k)
                BY <1>3, <1>8, <1>10, <2>1, <3>2
            <3> QED BY <1>6, <2>1, <3>1, <3>2
        <2>2. ASSUME t \in RowsOf(r, h, JobIds, Counted(r, h, n, d), e) PROVE t \in B /\ Free(t) /\ t.date <= e
            <3>1. CASE \E k \in 1..N : h[k] # 0 /\ k <= e /\ t = ManualRow(r, h, k)
                BY <1>4, <1>6, <1>7, <3>1
            <3>2. CASE \E k \in P : accrualCapitalizedBy(r, k, d) /\ k <= e /\ t = PaymentRow(r, h, JobIds, k)
                BY <1>3, <1>6, <1>8, <3>2
            <3> QED BY <1>10, <2>2, <3>1, <3>2
        <2> QED BY <2>1, <2>2
    <1> QED BY <1>9, <1>11 DEF A, B

\* What the payment of day k adds to them.
Part(r, h, C, k) == IF k \in C THEN Due(r, h, k) ELSE 0

\* The balance of the rows: the manual amounts and the payments that count.
LEMMA RowsBalance ==
    ASSUME NEW r \in Terms, NEW h \in Histories, NEW ids, NEW C \in SUBSET (1..TermDays), NEW e \in 0..TermDays
    PROVE  Balance(RowsOf(r, h, ids, C, e)) =
             SumOver(1..e, h, e) + SumTo([k \in 1..e |-> Part(r, h, C, k)], e)
    <1> DEFINE M == {j \in 1..TermDays : h[j] # 0}
               F == [k \in 1..TermDays |-> ManualRow(r, h, k)]
               G == [k \in 1..TermDays |-> PaymentRow(r, h, ids, k)]
               S == RowsUpTo(F, M, e)
               T == RowsUpTo(G, C, e)
    <1>0. TermDays \in Nat /\ \A k \in 1..e : k \in 1..TermDays
        BY TermsAssumption
    <1>1. \A k \in 1..TermDays : /\ F[k].amount = h[k] /\ F[k].date = k /\ F[k].source = "manual"
                          /\ G[k].amount = Due(r, h, k) /\ G[k].date = k /\ G[k].source = "interest"
        BY DEF ManualRow, PaymentRow, InterestRow
    <1>2. \A k \in 1..TermDays : h[k] \in Int /\ Due(r, h, k) \in Int
        BY HistoryTyped, DueIsSum
    <1>3. RowsOf(r, h, ids, C, e) = S \union T
        BY DEF RowsOf, RowsUpTo
    <1>4. M \in SUBSET (1..TermDays)
        OBVIOUS
    <1>5. S \intersect T = {}
        <2>1. \A s \in S : s.source = "manual"
            BY <1>1 DEF RowsUpTo
        <2>2. \A t \in T : t.source = "interest"
            <3>1. \A k \in C : k \in 1..TermDays
                OBVIOUS
            <3> HIDE DEF G
            <3> QED BY <1>1, <3>1 DEF RowsUpTo
        <2> QED BY <2>1, <2>2
    <1> HIDE DEF F, G, M
    <1>6. Amounted(S) /\ Balance(S) = AmountUpTo(F, M, e)
        <2>1. \A k \in 1..TermDays : F[k].amount \in Int
            BY <1>1, <1>2
        <2>2. \A j, k \in 1..TermDays : F[j] = F[k] => j = k
            BY <1>1
        <2> QED BY <1>0, <1>4, <2>1, <2>2, KeyedBalance
    <1>7. Amounted(T) /\ Balance(T) = AmountUpTo(G, C, e)
        <2>1. \A k \in 1..TermDays : G[k].amount \in Int
            BY <1>1, <1>2
        <2>2. \A j, k \in 1..TermDays : G[j] = G[k] => j = k
            BY <1>1
        <2> QED BY <1>0, <2>1, <2>2, KeyedBalance
    <1>8. [k \in 1..e |-> IF k \in M THEN F[k].amount ELSE 0] = [k \in 1..e |-> IF k \in 1..e THEN h[k] ELSE 0]
        <2>1. \A k \in 1..e : (IF k \in M THEN F[k].amount ELSE 0) = h[k]
            BY <1>0, <1>1 DEF M
        <2> QED BY <2>1
    <1>9. [k \in 1..e |-> IF k \in C THEN G[k].amount ELSE 0] = [k \in 1..e |-> Part(r, h, C, k)]
        <2>1. \A k \in 1..e : (IF k \in C THEN G[k].amount ELSE 0) = Part(r, h, C, k)
            BY <1>0, <1>1 DEF Part
        <2> QED BY <2>1
    <1> HIDE DEF S, T
    <1>10. Balance(S \union T) = Balance(S) + Balance(T)
        BY <1>5, <1>6, <1>7, BalanceUnion
    <1>11. Balance(S) = SumOver(1..e, h, e)
        BY <1>6, <1>8 DEF SumOver, AmountUpTo
    <1> QED BY <1>3, <1>7, <1>9, <1>10, <1>11 DEF AmountUpTo

-----------------------------------------------------------------------------
(* One run of the job. *)

\* A payment date up to n is one that the rule posts on, and something is due on it.
LEMMA PaymentDatesPost ==
    ASSUME NEW r \in Terms, NEW h \in Histories, NEW n \in 0..TermDays, NEW k
    PROVE  k \in PaymentDates(r, h, n) <=> k \in 1..n /\ shouldPostAccrual(r, k) /\ Due(r, h, k) > 0
    <1>1. TermDays \in Nat
        BY TermsAssumption
    <1>2. k \in 1..n => k \in Nat \ {0} /\ k <= TermDays
        BY <1>1
    <1> QED BY <1>2, PaidOnFirst DEF PaymentDates

\* The period of a payment: a day for a daily rule, else the days since the payment before.
LEMMA PeriodOfPayment ==
    ASSUME NEW r \in Terms, NEW h \in Histories, NEW n \in 0..TermDays, NEW d \in 1..TermDays, d = n + 1,
           shouldPostAccrual(r, d), NEW from, from = nextAccrualPeriodStart(r, PaymentsUpTo(r, h, n), d)
    PROVE  /\ from \in 1..d
           /\ r.accrual = "daily" => from = d
           /\ r.accrual # "daily" =>
                /\ \A k \in PaymentDates(r, h, n) : k < from
                /\ from = r.start \/ \E k \in PaymentDates(r, h, n) : from = k + 1
    <1> DEFINE P == PaymentDates(r, h, n)
               A == PaymentsUpTo(r, h, n)
    <1>1. TermDays \in Nat /\ n \in Nat /\ d \in Nat \ {0} /\ n < d
        BY TermsAssumption
    <1>2. CASE r.accrual = "daily"
        BY <1>1, <1>2 DEF nextAccrualPeriodStart
    <1>3. CASE r.accrual # "daily"
        <2> DEFINE T == {r.start} \union {a.date + 1 : a \in {x \in AccrualsOf(A, r) : x.date < d /\ x.date >= r.start}}
        <2>1. from = Max(T)
            BY <1>3 DEF nextAccrualPeriodStart
        <2>2. r.start \in Nat \ {0} /\ r.start <= d
            <3>1. r.start \in Nat \ {0}
                BY TermTyped
            <3> QED BY <3>1 DEF shouldPostAccrual, ruleActiveOn
        <2>3. \A k \in P : k \in Nat \ {0} /\ k < d /\ k >= r.start
            <3> TAKE k \in P
            <3>1. k \in 1..n /\ shouldPostAccrual(r, k)
                BY PaymentDatesPost
            <3> QED BY <1>1, <3>1 DEF shouldPostAccrual, ruleActiveOn
        <2>4. A = {Payment(r, h, k) : k \in P} /\ \A k : Payment(r, h, k).date = k /\ Payment(r, h, k).account = r.account /\ Payment(r, h, k).rule = r.id
            BY DEF PaymentsUpTo, Payment, AccrualRow
        <2> HIDE DEF P, A
        <2>5. AccrualsOf(A, r) = A
            BY <2>4 DEF AccrualsOf
        <2>6. T = {r.start} \union {k + 1 : k \in P}
            <3>1. {x \in AccrualsOf(A, r) : x.date < d /\ x.date >= r.start} = A
                BY <2>3, <2>4, <2>5
            <3>2. {a.date + 1 : a \in A} = {k + 1 : k \in P}
                BY <2>4
            <3> QED BY <3>1, <3>2
        <2> HIDE DEF T
        <2>7. T \in SUBSET Nat /\ T # {} /\ \A x \in T : x <= d /\ x # 0
            <3>1. \A k \in P : k + 1 \in Nat /\ k + 1 <= d /\ k + 1 # 0
                BY <1>1, <2>3
            <3> QED BY <1>1, <2>2, <2>6, <3>1
        <2>8. from \in T /\ \A x \in T : x <= from
            BY <1>1, <2>1, <2>7, MaxIsGreatest
        <2>9. \A k \in P : k < from
            <3> TAKE k \in P
            <3>1. k + 1 \in T
                BY <2>6
            <3> QED BY <2>3, <2>7, <2>8, <3>1
        <2>10. from \in Nat /\ from # 0 /\ from <= d
            BY <2>7, <2>8
        <2>11. from = r.start \/ \E k \in P : from = k + 1
            BY <2>6, <2>8
        <2> QED BY <1>1, <1>3, <2>9, <2>10, <2>11 DEF P
    <1> QED BY <1>2, <1>3

\* Within the period, the interest that Accrue counts as principal is the interest that has joined
\* the balance of each day.
LEMMA CountsWhatJoined ==
    ASSUME NEW r \in Terms, NEW h \in Histories, NEW n \in 0..TermDays, NEW d \in 1..TermDays, d = n + 1,
           shouldPostAccrual(r, d), NEW from, from = nextAccrualPeriodStart(r, PaymentsUpTo(r, h, n), d),
           NEW e \in from..d, NEW k \in 1..e
    PROVE  Part(r, h, Counted(r, h, n, d), k) = Credited(r, h, e, k)
    <1> DEFINE Cap == capitalizationDateForAccrual(r, k)
    <1>1. TermDays \in Nat /\ n \in Nat /\ d \in Nat \ {0} /\ n < d
        BY TermsAssumption
    <1>2. from \in 1..d
        BY PeriodOfPayment
    <1>3. e \in Nat \ {0} /\ e <= d /\ from <= e /\ k \in Nat \ {0} /\ k <= e /\ k \in 1..TermDays
        BY <1>1, <1>2
    <1>4. Cap \in Nat /\ (Cap # 0 => k <= Cap)
        BY <1>3, CapitalizedLater
    <1>5. accrualCapitalizedBy(r, k, d) <=> Cap # 0 /\ Cap < d
        BY <1>1 DEF accrualCapitalizedBy, NoDate
    <1>6. CASE k \in PaymentDates(r, h, n)
        <2>1. k \in 1..n /\ shouldPostAccrual(r, k)
            BY <1>6, PaymentDatesPost
        <2>2. (Cap # 0 /\ Cap < d) <=> (Cap # 0 /\ Cap < e)
            <3>1. CASE r.accrual = "daily"
                <4>1. e = d
                    BY <1>2, <1>3, <3>1, PeriodOfPayment
                <4> QED BY <4>1
            <3>2. CASE r.accrual # "daily"
                <4>1. k < from
                    BY <1>6, <3>2, PeriodOfPayment
                <4>2. Cap = 0 \/ Cap = k \/ Cap >= d
                    BY <1>1, <1>3, <2>1, <3>2, CapitalizedAtPayment
                <4> HIDE DEF Cap
                <4> QED BY <1>1, <1>2, <1>3, <1>4, <4>1, <4>2
            <3> QED BY <3>1, <3>2
        <2> QED BY <1>5, <1>6, <2>2 DEF Part, Counted, Credited
    <1>7. CASE k \notin PaymentDates(r, h, n)
        <2>1. Part(r, h, Counted(r, h, n, d), k) = 0
            BY <1>7 DEF Part, Counted
        <2>2. Due(r, h, k) \in Nat /\ (PaidOn(r, k) # k => Due(r, h, k) = 0)
            BY <1>3, DueIsSum
        <2>3. CASE Due(r, h, k) = 0
            BY <2>1, <2>3 DEF Credited
        <2>4. CASE Due(r, h, k) # 0
            <3>1. PaidOn(r, k) = k /\ Due(r, h, k) > 0
                BY <2>2, <2>4
            <3>2. k \notin 1..n
                BY <1>7, <3>1 DEF PaymentDates
            <3>3. k = e
                BY <1>1, <1>3, <3>2
            <3> HIDE DEF Cap
            <3>4. ~(Cap # 0 /\ Cap < e)
                BY <1>3, <1>4, <3>3
            <3> QED BY <2>1, <3>4 DEF Credited, Cap
        <2> QED BY <2>3, <2>4
    <1> QED BY <1>6, <1>7

\* What Lifecycle.Accrue hands to the engine, and the engine filters once more.
PrincipalAt(r, h, n, d) ==
    PrincipalTransactionsForRuleAt(transactionsUpToDate(BookUpTo(r, h, n), d), PaymentsUpTo(r, h, n), r, d)

\* The principal of a day e up to d.
LEMMA PrincipalOfDay ==
    ASSUME NEW r \in Terms, NEW h \in Histories, NEW n \in 0..TermDays, NEW d \in Nat, NEW e \in Nat, e <= d
    PROVE  /\ PrincipalTransactionsForRuleAt(PrincipalAt(r, h, n, d), PaymentsUpTo(r, h, n), r, d) = PrincipalAt(r, h, n, d)
           /\ transactionsUpToDate(PrincipalAt(r, h, n, d), e) = RowsOf(r, h, JobIds, Counted(r, h, n, d), e)
    <1> DEFINE B == BookUpTo(r, h, n)
               A == PaymentsUpTo(r, h, n)
    <1>1. \A t \in B : t.date \in Nat
        <2>1. \A k \in PaymentDates(r, h, n) : k \in Nat
            BY TermsAssumption DEF PaymentDates
        <2>2. \A k \in 1..TermDays : k \in Nat
            BY TermsAssumption
        <2> QED BY <2>1, <2>2 DEF BookUpTo, Manual, PaymentRow, InterestRow
    <1> HIDE DEF A, B
    <1>2. transactionsUpToDate(PrincipalTransactionsForRuleAt(transactionsUpToDate(B, d), A, r, d), e)
            = transactionsUpToDate(PrincipalTransactionsForRuleAt(B, A, r, d), e)
        <2>1. \A t \in B : t.date <= e => t.date <= d
            BY <1>1
        <2> QED BY <2>1 DEF transactionsUpToDate, PrincipalTransactionsForRuleAt
    <1>3. transactionsUpToDate(PrincipalTransactionsForRuleAt(B, A, r, d), e) = RowsOf(r, h, JobIds, Counted(r, h, n, d), e)
        BY PrincipalIs DEF A, B
    <1>4. PrincipalTransactionsForRuleAt(PrincipalAt(r, h, n, d), A, r, d) = PrincipalAt(r, h, n, d)
        BY DEF PrincipalAt, PrincipalTransactionsForRuleAt, A
    <1> QED BY <1>2, <1>3, <1>4 DEF PrincipalAt, A, B

\* Each day of the period pays what the reference says it earns.
LEMMA DayPaysWhatItEarns ==
    ASSUME NEW r \in Terms, NEW h \in Histories, NEW n \in 0..TermDays, NEW d \in 1..TermDays, d = n + 1,
           shouldPostAccrual(r, d), NEW from, from = nextAccrualPeriodStart(r, PaymentsUpTo(r, h, n), d),
           NEW e \in from..d
    PROVE  DayInterest(r, PrincipalAt(r, h, n, d), Balance(PrincipalAt(r, h, n, d)), e) = Earned(r, h)[e]
    <1> DEFINE Q == PrincipalAt(r, h, n, d)
               E == Earned(r, h)
    <1>1. TermDays \in Nat /\ n \in Nat /\ d \in Nat \ {0} /\ n < d
        BY TermsAssumption
    <1>2. from \in 1..d
        BY PeriodOfPayment
    <1>3. e \in Nat \ {0} /\ e <= d /\ e \in 0..TermDays /\ e \in 1..TermDays
        BY <1>1, <1>2
    <1>4. transactionsUpToDate(Q, e) = RowsOf(r, h, JobIds, Counted(r, h, n, d), e)
        BY <1>1, <1>3, PrincipalOfDay
    <1>5. Balance({}) = 0
        <2>1. Amounted({})
            BY FS_EmptySet DEF Amounted
        <2> QED BY <2>1, BalanceStep
    <1>6. DayBalance(Q, Balance(Q), e) = Balance(RowsOf(r, h, JobIds, Counted(r, h, n, d), e))
        <2> HIDE DEF Q
        <2>1. CASE Q = {}
            <3>1. RowsOf(r, h, JobIds, Counted(r, h, n, d), e) = {}
                BY <1>4, <2>1 DEF transactionsUpToDate
            <3> QED BY <2>1, <3>1 DEF DayBalance
        <2>2. CASE Q # {}
            BY <1>4, <2>2 DEF DayBalance
        <2> QED BY <2>1, <2>2
    <1>7. Balance(RowsOf(r, h, JobIds, Counted(r, h, n, d), e)) = SumOver(1..e, h, e) + SumTo([k \in 1..e |-> Part(r, h, Counted(r, h, n, d), k)], e)
        <2>1. Counted(r, h, n, d) \in SUBSET (1..TermDays)
            BY <1>1 DEF Counted, PaymentDates
        <2> QED BY <1>3, <2>1, RowsBalance
    <1>8. [k \in 1..e |-> Part(r, h, Counted(r, h, n, d), k)] = [k \in 1..e |-> Credited(r, h, e, k)]
        <2>1. \A k \in 1..e : Part(r, h, Counted(r, h, n, d), k) = Credited(r, h, e, k)
            BY CountsWhatJoined
        <2> QED BY <2>1
    <1>9. SumOver(Joined(r, e), E, e - 1) = SumTo([k \in 1..e |-> Credited(r, h, e, k)], e)
        BY <1>3, JoinedIsCredited
    <1>10. DayBalance(Q, Balance(Q), e) = BalanceOn(r, h, E, e)
        BY <1>6, <1>7, <1>8, <1>9 DEF BalanceOn
    <1>11. E[e] = Earns(r, h, E, e)
        BY <1>3, EarnedDef
    <1>13. e \in 1..TermDays /\ \A k \in 1..(e - 1) : E[k] \in Nat
        <2>1. E \in [0..TermDays -> Nat]
            BY <1>1, EarnedDef
        <2>2. \A k \in 1..(e - 1) : k \in 0..TermDays
            BY <1>1, <1>3
        <2> HIDE DEF E
        <2> QED BY <1>3, <2>1, <2>2
    <1> HIDE DEF Q, E
    <1>12. DayInterest(r, Q, Balance(Q), e) = Earns(r, h, E, e)
        BY <1>3, <1>10, <1>13, EarnsAsCalculated DEF DayInterest
    <1> QED BY <1>11, <1>12 DEF Q, E

\* The days of the period that have earned something are those that are paid on its last day.
LEMMA PeriodIsPaid ==
    ASSUME NEW r \in Terms, NEW h \in Histories, NEW n \in 0..TermDays, NEW d \in 1..TermDays, d = n + 1,
           shouldPostAccrual(r, d), NEW from, from = nextAccrualPeriodStart(r, PaymentsUpTo(r, h, n), d),
           NEW k \in 1..d, Earned(r, h)[k] > 0
    PROVE  k >= from <=> PaidOn(r, k) = d
    <1> PICK p : p = PaidOn(r, k)
        OBVIOUS
    <1>1. TermDays \in Nat /\ n \in Nat /\ d \in Nat \ {0} /\ n < d
        BY TermsAssumption
    <1>2. from \in 1..d
        BY PeriodOfPayment
    <1>3. k \in Nat \ {0} /\ k <= d /\ k \in 0..TermDays /\ k \in 1..TermDays /\ d \in k..TermDays /\ k <= TermDays
        BY <1>1
    <1>4. ruleActiveOn(r, k)
        <2>1. Earned(r, h)[k] = Earns(r, h, Earned(r, h), k)
            BY <1>3, EarnedDef
        <2>2. ~ruleActiveOn(r, k) => Earns(r, h, Earned(r, h), k) = 0
            BY <1>3, TermIsActive DEF Earns
        <2> QED BY <2>1, <2>2
    <1>5. p \in Nat /\ p # 0 /\ p <= d /\ p \in k..TermDays /\ shouldPostAccrual(r, p)
        BY <1>3, PaidOnFirst
    <1>6. CASE r.accrual = "daily"
        <2>1. shouldPostAccrual(r, k)
            BY <1>4, <1>6 DEF shouldPostAccrual
        <2>2. p = k
            BY <1>3, <2>1, PaidOnFirst
        <2>3. from = d
            BY <1>6, PeriodOfPayment
        <2> QED BY <1>3, <2>2, <2>3
    <1>7. CASE r.accrual # "daily"
        <2>1. ASSUME k >= from, p # d PROVE FALSE
            <3>1. p \in 1..n /\ p \in 1..TermDays /\ k \in 1..p /\ k <= p
                BY <1>1, <1>3, <1>5, <2>1
            <3>2. Earned(r, h)[k] \in Nat /\ Earned(r, h)[k] <= Due(r, h, p) /\ Due(r, h, p) \in Nat
                BY <3>1, DueIsSum
            <3>3. p \in PaymentDates(r, h, n)
                BY <1>5, <3>1, <3>2, PaymentDatesPost
            <3>4. p < from
                BY <1>7, <3>3, PeriodOfPayment
            <3> QED BY <1>2, <1>3, <1>5, <2>1, <3>1, <3>4
        <2>2. ASSUME k < from, p = d PROVE FALSE
            <3>1. from # r.start
                BY <1>4, <2>2, <1>2, <1>3, TermTyped DEF ruleActiveOn
            <3>2. PICK a \in PaymentDates(r, h, n) : from = a + 1
                BY <1>7, <3>1, PeriodOfPayment
            <3>3. a \in 1..n /\ shouldPostAccrual(r, a)
                BY PaymentDatesPost
            <3>4. a \in k..TermDays /\ a < d
                BY <1>1, <1>3, <2>2, <3>2, <3>3
            <3>5. p <= a
                BY <1>3, <3>3, <3>4, PaidOnFirst
            <3> QED BY <1>1, <2>2, <3>4, <3>5
        <2> QED BY <1>2, <1>3, <2>1, <2>2
    <1> QED BY <1>6, <1>7

\* The days that a payment on d pays.
DaysPaidOn(r, h, d) == {e \in 1..d : PaidOn(r, e) = d /\ Earned(r, h)[e] > 0}

\* The amount and the days of a payment are those of the reference.
LEMMA PaysWhatIsDue ==
    ASSUME NEW r \in Terms, NEW h \in Histories, NEW n \in 0..TermDays, NEW d \in 1..TermDays, d = n + 1,
           shouldPostAccrual(r, d), NEW from, from = nextAccrualPeriodStart(r, PaymentsUpTo(r, h, n), d),
           NEW Q, Q = PrincipalAt(r, h, n, d)
    PROVE  /\ calculateAccrualAmount(r, Q, Balance(Q), from, d) = Due(r, h, d)
           /\ PaidDays(r, Q, Balance(Q), from, d) = DaysPaidOn(r, h, d)
    <1> DEFINE S == {e \in 1..d : PaidOn(r, e) = d}
               I(e) == DayInterest(r, Q, Balance(Q), e)
    <1>1. TermDays \in Nat /\ d \in Nat \ {0}
        BY TermsAssumption
    <1>2. from \in 1..d
        BY PeriodOfPayment
    <1>3. PICK E \in [0..TermDays -> Nat] : E = Earned(r, h)
        BY EarnedDef
    <1>4. \A e \in from..d : I(e) = E[e] /\ e \in 1..d
        BY <1>1, <1>2, <1>3, DayPaysWhatItEarns
    <1>5. \A e \in 1..d : E[e] \in Nat
        BY <1>1, <1>3
    <1>6. \A e \in 1..d : E[e] > 0 => (e >= from <=> e \in S)
        <2> SUFFICES ASSUME NEW e \in 1..d, E[e] > 0 PROVE e >= from <=> PaidOn(r, e) = d
            OBVIOUS
        <2>1. Earned(r, h)[e] > 0
            BY <1>3
        <2> QED BY <2>1, PeriodIsPaid
    <1>7. \A e \in 1..d : e >= from <=> e \in from..d
        BY <1>1, <1>2
    <1> HIDE DEF S, I
    <1>8. [k \in 1..d |-> IF k \in from..d THEN [e \in from..d |-> I(e)][k] ELSE 0]
            = [k \in 1..d |-> IF k \in S THEN E[k] ELSE 0]
        <2>1. ASSUME NEW k \in 1..d
              PROVE  (IF k \in from..d THEN I(k) ELSE 0) = (IF k \in S THEN E[k] ELSE 0)
            <3>1. CASE E[k] > 0
                BY <1>4, <1>6, <1>7, <3>1
            <3>2. CASE ~(E[k] > 0)
                <4>1. E[k] = 0
                    BY <1>5, <3>2
                <4> QED BY <1>4, <4>1
            <3> QED BY <3>1, <3>2
        <2> QED BY <2>1
    <1>9. calculateAccrualAmount(r, Q, Balance(Q), from, d) = SumOver(S, E, d)
        BY <1>8 DEF calculateAccrualAmount, SumOver, I
    <1>10. Due(r, h, d) = SumOver(S, E, d)
        BY <1>3 DEF Due, S
    <1>11. {e \in from..d : I(e) > 0} = {e \in 1..d : e \in S /\ E[e] > 0}
        <2>1. \A e \in from..d : I(e) > 0 => e \in 1..d /\ e \in S /\ E[e] > 0
            BY <1>4, <1>6, <1>7
        <2>2. \A e \in 1..d : e \in S /\ E[e] > 0 => e \in from..d /\ I(e) > 0
            BY <1>4, <1>6, <1>7
        <2> QED BY <1>4, <2>1, <2>2
    <1>12. PaidDays(r, Q, Balance(Q), from, d) = {e \in from..d : I(e) > 0}
        BY DEF PaidDays, I
    <1>13. DaysPaidOn(r, h, d) = {e \in 1..d : e \in S /\ E[e] > 0}
        BY <1>3 DEF DaysPaidOn, S
    <1> QED BY <1>9, <1>10, <1>11, <1>12, <1>13

\* The job of the day after n posts what is due, or nothing if nothing is.
LEMMA AnswerIsDue ==
    ASSUME NEW r \in Terms, NEW h \in Histories, NEW n \in 0..TermDays, NEW d \in 1..TermDays, d = n + 1,
           NEW answer, answer = Answer(r, BookUpTo(r, h, n), PaymentsUpTo(r, h, n), d)
    PROVE  IF d \in PaymentDates(r, h, d)
           THEN answer.status = "posted" /\ answer.amount = Due(r, h, d) /\ answer.days = DaysPaidOn(r, h, d)
           ELSE answer.status # "posted"
    <1> DEFINE A == PaymentsUpTo(r, h, n)
               Q == PrincipalAt(r, h, n, d)
               from == nextAccrualPeriodStart(r, A, d)
               amount == calculateAccrualAmount(r, Q, Balance(Q), from, d)
               days == PaidDays(r, Q, Balance(Q), from, d)
               no(s) == [status |-> s, amount |-> 0, days |-> {}]
    <1>1. TermDays \in Nat /\ n \in Nat /\ d \in Nat \ {0} /\ n < d /\ d \in 0..TermDays /\ d \in 1..d /\ d <= d
        BY TermsAssumption
    <1>2. PrincipalTransactionsForRuleAt(Q, A, r, d) = Q
        BY <1>1, PrincipalOfDay
    <1>3. answer = Accrue(r, Q, A, Balance(Q), d)
        BY DEF Answer, PrincipalAt
    <1>4. r.active
        BY TermTyped
    <1>5. ~hasInterestAccrual(A, r, d)
        <2>1. \A k \in PaymentDates(r, h, n) : k \in 1..n
            BY DEF PaymentDates
        <2>2. \A k : Payment(r, h, k).date = k
            BY DEF Payment, AccrualRow
        <2>3. \A a \in A : a.date # d
            BY <1>1, <2>1, <2>2 DEF PaymentsUpTo
        <2> QED BY <2>3 DEF hasInterestAccrual, AccrualsOf
    <1>6. d \in PaymentDates(r, h, d) <=> shouldPostAccrual(r, d) /\ Due(r, h, d) > 0
        BY <1>1, PaymentDatesPost
    <1>7. Due(r, h, d) \in Nat
        BY DueIsSum
    <1>8. shouldPostAccrual(r, d) => ruleActiveOn(r, d)
        BY DEF shouldPostAccrual
    <1> HIDE DEF A, Q, from
    <1>9. answer = IF ~(ruleActiveOn(r, d) /\ shouldPostAccrual(r, d)) THEN no("rejected")
                   ELSE IF amount <= 0 THEN no("rejected")
                   ELSE [status |-> "posted", amount |-> amount, days |-> days]
        BY <1>2, <1>3, <1>4, <1>5 DEF Accrue, from
    <1> HIDE DEF amount, days
    <1>10. CASE ~shouldPostAccrual(r, d)
        BY <1>6, <1>9, <1>10
    <1>11. CASE shouldPostAccrual(r, d)
        <2>1. amount = Due(r, h, d) /\ days = DaysPaidOn(r, h, d)
            BY <1>11, PaysWhatIsDue DEF amount, days, from, A, Q
        <2> QED BY <1>6, <1>7, <1>8, <1>9, <1>11, <2>1
    <1> QED BY <1>10, <1>11

\* The ids of the job's rows follow those of the manual ones.
LEMMA JobRow ==
    ASSUME NEW r, NEW h, NEW n \in 0..TermDays, NEW k \in PaymentDates(r, h, n)
    PROVE  PaymentRow(r, h, JobIds, k) = InterestRow(r, k, Due(r, h, k), TermDays) /\ k \in 1..TermDays
    <1>1. k \in 1..TermDays
        BY TermsAssumption DEF PaymentDates
    <1> QED BY <1>1 DEF PaymentRow, JobIds

\* TermInv in the words of these lemmas.
LEMMA TermInvIs ==
    TermInv <=> /\ term \in Terms /\ history \in Histories /\ lastRun \in 0..TermDays
                /\ payments = PaymentsUpTo(term, history, lastRun)
                /\ book = BookUpTo(term, history, lastRun)
    <1>1. lastRun \in 0..TermDays =>
            {PaymentRow(term, history, JobIds, k) : k \in PaymentDates(term, history, lastRun)} =
            {InterestRow(term, k, Due(term, history, k), TermDays) : k \in PaymentDates(term, history, lastRun)}
        BY JobRow
    <1> QED BY <1>1 DEF TermInv, PaymentsUpTo, BookUpTo

\* Before the first run there are no payments.
LEMMA TermInitHolds == TermInit => TermInv
    <1> SUFFICES ASSUME TermInit PROVE TermInv
        OBVIOUS
    <1>1. TermDays \in Nat
        BY TermsAssumption
    <1>2. PaymentDates(term, history, 0) = {}
        BY DEF PaymentDates
    <1>3. PaymentsUpTo(term, history, 0) = {} /\ BookUpTo(term, history, 0) = Manual(term, history)
        BY <1>2 DEF PaymentsUpTo, BookUpTo
    <1> QED BY <1>1, <1>3, TermInvIs DEF TermInit

\* A run of the job adds the payment of its day, if there is one.
LEMMA RunKeeps == TermInv /\ [RunJob]_termVars => TermInv'
    <1> SUFFICES ASSUME TermInv, [RunJob]_termVars PROVE TermInv'
        OBVIOUS
    <1>1. CASE UNCHANGED termVars
        BY <1>1 DEF TermInv, termVars
    <1>2. CASE RunJob
        <2> DEFINE N == TermDays
        <2>1. PICK r \in Terms : r = term /\ term' = r
            BY <1>2, TermInvIs DEF RunJob
        <2>2. PICK h \in Histories : h = history /\ history' = h
            BY <1>2, TermInvIs DEF RunJob
        <2>3. PICK n \in 0..N : n = lastRun
            BY TermInvIs
        <2>4. PICK d : d = n + 1 /\ lastRun' = d
            BY <1>2, <2>3 DEF RunJob
        <2>5. d \in 1..N /\ d \in 0..N /\ n \in Nat
            BY <1>2, <2>3, <2>4, TermsAssumption DEF RunJob
        <2>6. payments = PaymentsUpTo(r, h, n) /\ book = BookUpTo(r, h, n)
            BY <2>1, <2>2, <2>3, TermInvIs
        <2>7. PICK answer : answer = Answer(r, BookUpTo(r, h, n), PaymentsUpTo(r, h, n), d)
            OBVIOUS
        <2>8. \/ /\ answer.status = "posted"
                 /\ book' = book \union {InterestRow(r, d, answer.amount, N)}
                 /\ payments' = payments \union {AccrualRow(r, d, answer.amount, answer.days, N)}
              \/ answer.status # "posted" /\ book' = book /\ payments' = payments
            BY <1>2, <2>1, <2>3, <2>4, <2>6, <2>7 DEF RunJob
        <2>9. PaymentDates(r, h, d) = PaymentDates(r, h, n) \union (IF d \in PaymentDates(r, h, d) THEN {d} ELSE {})
            <3>1. 1..d = 1..n \union {d}
                BY <2>4, <2>5
            <3> QED BY <3>1 DEF PaymentDates
        <2>10. payments' = PaymentsUpTo(r, h, d) /\ book' = BookUpTo(r, h, d)
            <3>1. CASE d \in PaymentDates(r, h, d)
                <4>1. answer.status = "posted" /\ answer.amount = Due(r, h, d) /\ answer.days = DaysPaidOn(r, h, d)
                    BY <2>4, <2>5, <2>7, <3>1, AnswerIsDue
                <4>2. InterestRow(r, d, answer.amount, N) = PaymentRow(r, h, JobIds, d)
                    BY <2>5, <3>1, <4>1, JobRow
                <4>3. AccrualRow(r, d, answer.amount, answer.days, N) = Payment(r, h, d)
                    BY <4>1 DEF Payment, DaysPaidOn
                <4>4. book' = book \union {PaymentRow(r, h, JobIds, d)} /\ payments' = payments \union {Payment(r, h, d)}
                    BY <2>8, <4>1, <4>2, <4>3
                <4>5. PICK P, P1 : P = PaymentDates(r, h, n) /\ P1 = PaymentDates(r, h, d) /\ P1 = P \union {d}
                    BY <2>9, <3>1
                <4>6. PaymentsUpTo(r, h, d) = PaymentsUpTo(r, h, n) \union {Payment(r, h, d)}
                    BY <4>5 DEF PaymentsUpTo
                <4>7. BookUpTo(r, h, d) = BookUpTo(r, h, n) \union {PaymentRow(r, h, JobIds, d)}
                    BY <4>5 DEF BookUpTo
                <4> QED BY <2>6, <4>4, <4>6, <4>7
            <3>2. CASE d \notin PaymentDates(r, h, d)
                <4>1. answer.status # "posted"
                    BY <2>4, <2>5, <2>7, <3>2, AnswerIsDue
                <4>2. PaymentDates(r, h, d) = PaymentDates(r, h, n)
                    BY <2>9, <3>2
                <4> QED BY <2>6, <2>8, <4>1, <4>2 DEF PaymentsUpTo, BookUpTo
            <3> QED BY <3>1, <3>2
        <2>11. /\ term' \in Terms /\ history' \in Histories /\ lastRun' \in 0..TermDays
               /\ payments' = PaymentsUpTo(term', history', lastRun')
               /\ book' = BookUpTo(term', history', lastRun')
            BY <2>1, <2>2, <2>4, <2>5, <2>10
        <2>12. {PaymentRow(r, h, JobIds, k) : k \in PaymentDates(r, h, d)} =
               {InterestRow(r, k, Due(r, h, k), TermDays) : k \in PaymentDates(r, h, d)}
            BY <2>5, JobRow
        <2> QED BY <2>1, <2>2, <2>4, <2>11, <2>12 DEF TermInv, PaymentsUpTo, BookUpTo
    <1> QED BY <1>1, <1>2 DEF termVars

\* After every run of the job the tables hold the payments of the reference and nothing else: what
\* Accrue and its helpers answer, day after day, is what the rule's words say, for all rules,
\* histories, month lengths and leap days.
THEOREM TermInvHolds == TermSpec => []TermInv
    BY TermInitHolds, RunKeeps, PTL DEF TermSpec

\* Daily runs post on every payment date exactly what is due, and on no other date anything.
THEOREM AccruesEarned == TermSpec => []AccruesWhatIsEarned
    <1>1. TermInv => AccruesWhatIsEarned
        <2> SUFFICES ASSUME TermInv PROVE AccruesWhatIsEarned
            OBVIOUS
        <2>1. \A d : Payment(term, history, d).date = d /\ Payment(term, history, d).amount = Due(term, history, d)
            BY DEF Payment, AccrualRow
        <2>2. PICK P : P = PaymentDates(term, history, lastRun)
            OBVIOUS
        <2>3. payments = {Payment(term, history, d) : d \in P}
            BY <2>2 DEF TermInv
        <2>4. {<<a.date, a.amount>> : a \in payments} = {<<d, Due(term, history, d)>> : d \in P}
            BY <2>1, <2>3
        <2> QED BY <2>2, <2>4 DEF AccruesWhatIsEarned, Amounts
    <1> QED BY <1>1, TermInvHolds, PTL

\* No day is paid by two payments, and a day that earned something is paid by the payment of its date.
THEOREM DaysPaidOnce == TermSpec => []EveryDayPaidOnce
    <1>1. TermInv => EveryDayPaidOnce
        <2> SUFFICES ASSUME TermInv PROVE EveryDayPaidOnce
            OBVIOUS
        <2>1. PICK r \in Terms : r = term
            BY TermInvIs
        <2>2. PICK h \in Histories : h = history
            BY TermInvIs
        <2>3. PICK n \in 0..TermDays : n = lastRun
            BY TermInvIs
        <2>4. payments = {Payment(r, h, d) : d \in PaymentDates(r, h, n)}
            BY <2>1, <2>2, <2>3 DEF TermInv
        <2>5. \A d : Payment(r, h, d).date = d /\ Payment(r, h, d).days = DaysPaidOn(r, h, d)
            BY DEF Payment, AccrualRow, DaysPaidOn
        <2>6. TermDays \in Nat /\ n \in Nat
            BY TermsAssumption
        <2>7. ASSUME NEW a \in payments, NEW b \in payments, a # b PROVE a.days \intersect b.days = {}
            <3>1. PICK d \in PaymentDates(r, h, n) : a = Payment(r, h, d)
                BY <2>4
            <3>2. PICK e \in PaymentDates(r, h, n) : b = Payment(r, h, e)
                BY <2>4
            <3>3. d # e
                BY <2>7, <3>1, <3>2
            <3> QED BY <2>5, <3>1, <3>2, <3>3 DEF DaysPaidOn
        <2>8. ASSUME NEW d \in 1..n, NEW p, p = PaidOn(r, d), Earned(r, h)[d] > 0, p # 0, p <= n
              PROVE  \E a \in payments : a.date = p /\ d \in a.days
            <3>1. d \in Nat \ {0} /\ d \in 1..TermDays
                BY <2>6
            <3>2. p \in d..TermDays /\ shouldPostAccrual(r, p)
                BY <2>8, <3>1, PaidOnFirst
            <3>3. p \in 1..n /\ p \in 1..TermDays /\ d \in 1..p
                BY <2>6, <2>8, <3>1, <3>2
            <3>4. Earned(r, h)[d] \in Nat /\ Earned(r, h)[d] <= Due(r, h, p) /\ Due(r, h, p) \in Nat
                BY <2>8, <3>3, DueIsSum
            <3>5. p \in PaymentDates(r, h, n)
                BY <2>8, <3>2, <3>3, <3>4, PaymentDatesPost
            <3>6. Payment(r, h, p) \in payments
                BY <2>4, <3>5
            <3>7. d \in DaysPaidOn(r, h, p)
                BY <2>8, <3>3 DEF DaysPaidOn
            <3> QED BY <2>5, <3>6, <3>7
        <2> QED BY <2>1, <2>2, <2>3, <2>7, <2>8 DEF EveryDayPaidOnce, NoDate
    <1> QED BY <1>1, TermInvHolds, PTL

-----------------------------------------------------------------------------
(* Days on which interest is capitalized. *)

\* The last active day of a month is that of its own month.
LEMMA LastActiveDay ==
    ASSUME NEW r \in Terms, NEW k \in Nat \ {0}, ruleActiveOn(r, k)
    PROVE  /\ lastActiveDayOfMonth(r, k) \in Nat \ {0} /\ k <= lastActiveDayOfMonth(r, k)
           /\ lastActiveDayOfMonth(r, k) <= monthEnd(k) /\ ruleActiveOn(r, lastActiveDayOfMonth(r, k))
           /\ lastActiveDayOfMonth(r, lastActiveDayOfMonth(r, k)) = lastActiveDayOfMonth(r, k)
    <1> PICK l : l = lastActiveDayOfMonth(r, k)
        OBVIOUS
    <1>1. monthEnd(k) \in Nat /\ k <= monthEnd(k)
        BY MonthOfDay
    <1>2. r.end \in Nat /\ r.start \in Nat /\ (r.end # 0 => k <= r.end) /\ r.start <= k
        BY TermTyped DEF ruleActiveOn, NoDate
    <1>3. l = IF r.end # 0 /\ r.end < monthEnd(k) THEN r.end ELSE monthEnd(k)
        BY DEF lastActiveDayOfMonth, NoDate
    <1>4. l \in Nat \ {0} /\ k <= l /\ l <= monthEnd(k) /\ (r.end # 0 => l <= r.end) /\ r.start <= l
        BY <1>1, <1>2, <1>3
    <1>5. monthEnd(l) = monthEnd(k)
        BY <1>4, SameMonth
    <1>6. lastActiveDayOfMonth(r, l) = l
        BY <1>3, <1>5 DEF lastActiveDayOfMonth, NoDate
    <1>7. ruleActiveOn(r, l)
        BY <1>2, <1>4 DEF ruleActiveOn, NoDate
    <1> QED BY <1>4, <1>6, <1>7

\* Interest is capitalized on days that capitalize.
LEMMA CapitalizationDay ==
    ASSUME NEW r \in Terms, NEW k \in Nat \ {0}, ruleActiveOn(r, k), capitalizationDateForAccrual(r, k) # 0
    PROVE  shouldCapitalizeOn(r, capitalizationDateForAccrual(r, k))
    <1> PICK c : c = capitalizationDateForAccrual(r, k)
        OBVIOUS
    <1>1. r.capitalization \in CapitalizationFrequency
        BY TermTyped
    <1>2. c = CASE r.capitalization = "daily" -> k
                [] r.capitalization = "monthly" -> lastActiveDayOfMonth(r, k)
                [] r.capitalization = "end_of_term" -> r.end
                [] OTHER -> 0
        BY DEF capitalizationDateForAccrual, NoDate
    <1>3. CASE r.capitalization = "monthly"
        <2>1. c = lastActiveDayOfMonth(r, c)
            BY <1>2, <1>3, LastActiveDay
        <2> QED BY <1>3, <2>1 DEF shouldCapitalizeOn
    <1>4. CASE r.capitalization = "daily"
        BY <1>4 DEF shouldCapitalizeOn
    <1>5. CASE r.capitalization = "end_of_term"
        BY <1>2, <1>5 DEF shouldCapitalizeOn, isEndOfTerm, NoDate
    <1>6. CASE r.capitalization = "none"
        BY <1>2, <1>6
    <1> QED BY <1>1, <1>3, <1>4, <1>5, <1>6 DEF CapitalizationFrequency

\* All interest that waits on a day that capitalizes is capitalized on it.
LEMMA WaitingIsCapitalized ==
    ASSUME NEW r \in Terms, NEW k \in Nat \ {0}, NEW e \in Nat \ {0}, k <= e, ruleActiveOn(r, k), ruleActiveOn(r, e),
           r.capitalization \notin {"none", "daily"}, shouldCapitalizeOn(r, e),
           capitalizationDateForAccrual(r, k) = 0 \/ capitalizationDateForAccrual(r, k) >= e
    PROVE  capitalizationDateForAccrual(r, k) = e
    <1> PICK c : c = capitalizationDateForAccrual(r, k)
        OBVIOUS
    <1>1. r.capitalization \in CapitalizationFrequency /\ r.end \in Nat
        BY TermTyped
    <1>2. CASE r.capitalization = "monthly"
        <2>1. c = lastActiveDayOfMonth(r, k) /\ e = lastActiveDayOfMonth(r, e)
            BY <1>2 DEF capitalizationDateForAccrual, shouldCapitalizeOn
        <2>2. c \in Nat \ {0} /\ c <= monthEnd(k)
            BY <2>1, LastActiveDay
        <2>3. monthEnd(k) \in Nat
            BY MonthOfDay
        <2>4. monthEnd(e) = monthEnd(k)
            BY <2>2, <2>3, SameMonth
        <2> QED BY <2>1, <2>4 DEF lastActiveDayOfMonth
    <1>3. CASE r.capitalization = "end_of_term"
        BY <1>3 DEF capitalizationDateForAccrual, shouldCapitalizeOn, isEndOfTerm
    <1> QED BY <1>1, <1>2, <1>3 DEF CapitalizationFrequency

\* The days before the start of the loop that a payment in it pays are not active.
LEMMA NothingBeforeStart ==
    ASSUME NEW r \in Terms, NEW from \in 1..TermDays, NEW to \in 1..TermDays, from <= to,
           NEW first, first = recalculationStartDate(r, from, to),
           NEW e \in first..to, shouldPostAccrual(r, e), NEW j \in Nat \ {0}, j < first, PaidOn(r, j) = e
    PROVE  ~ruleActiveOn(r, j)
    <1> SUFFICES ASSUME ruleActiveOn(r, j) PROVE FALSE
        OBVIOUS
    <1>0. /\ TermDays \in Nat /\ from \in Nat \ {0} /\ to \in Nat /\ r.start \in Nat \ {0} /\ r.end \in Nat
          /\ r.accrual \in AccrualFrequency
        <2>1. TermDays \in Nat
            BY TermsAssumption
        <2>2. r.start \in Nat \ {0} /\ r.end \in Nat /\ r.accrual \in AccrualFrequency
            BY TermTyped
        <2> QED BY <2>1, <2>2
    <1>1. first \in Nat \ {0} /\ first <= from /\ from <= e
        BY <1>0, RangeStart
    <1>2. \A x \in j..TermDays : shouldPostAccrual(r, x) => e <= x
        BY PaidOnFirst
    <1>3. e \in Nat /\ j < e /\ e <= to /\ to <= TermDays
        BY <1>0, <1>1
    <1>4. r.accrual # "daily"
        <2> SUFFICES ASSUME r.accrual = "daily" PROVE FALSE
            OBVIOUS
        <2>1. shouldPostAccrual(r, j)
            BY DEF shouldPostAccrual
        <2> QED BY <1>0, <1>2, <1>3, <2>1
    <1>5. e \in from..to
        BY <1>0, <1>1, <1>3
    <1>6. PICK m \in from..e : /\ shouldPostAccrual(r, m)
                               /\ first <= r.start \/ (r.accrual = "monthly" /\ first <= monthStart(m))
        BY <1>0, <1>4, <1>5, RangeStart
    <1>7. m = e
        <2>1. m \in j..TermDays
            BY <1>0, <1>1, <1>3
        <2> QED BY <1>0, <1>2, <1>3, <1>6, <2>1
    <1>8. j >= r.start /\ (r.end # 0 => e <= r.end)
        BY <1>6, <1>7 DEF ruleActiveOn, shouldPostAccrual, NoDate
    <1>9. r.accrual = "monthly" /\ j < monthStart(e)
        <2>1. monthStart(e) \in Int
            BY <1>0, <1>1, <1>3, MonthOfDay
        <2> QED BY <1>0, <1>1, <1>6, <1>7, <1>8, <2>1
    <1> PICK l : l = lastActiveDayOfMonth(r, j)
        OBVIOUS
    <1>10. monthEnd(j) < e /\ monthEnd(j) \in Nat
        <2>1. e \in Nat \ {0}
            BY <1>0, <1>1, <1>3
        <2>2. monthEnd(j) < monthStart(e) /\ monthStart(e) <= e /\ monthStart(e) \in Int /\ monthEnd(j) \in Nat
            BY <1>9, <2>1, MonthOfDay
        <2> QED BY <1>3, <2>2
    <1>11. l \in Nat \ {0} /\ j <= l /\ l <= monthEnd(j) /\ ruleActiveOn(r, l) /\ l = lastActiveDayOfMonth(r, l)
        BY LastActiveDay
    <1>12. shouldPostAccrual(r, l)
        BY <1>9, <1>11 DEF shouldPostAccrual
    <1>13. l \in j..TermDays /\ l < e
        BY <1>0, <1>3, <1>10, <1>11
    <1> QED BY <1>2, <1>3, <1>12, <1>13

-----------------------------------------------------------------------------
(* The loop of Recalculate over days that the job has run for. *)

\* A range of the past, after n runs, and the day on which its recalculation starts.
PastRange(r, h, n, from, to, first) ==
    /\ r \in Terms /\ h \in Histories /\ n \in 0..TermDays /\ to \in 1..n /\ from \in 1..to
    /\ first = recalculationStartDate(r, from, to)

\* Every capitalization comes with a payment.
CapitalizationsPay(r, h, n) ==
    \A k \in PaymentDates(r, h, n) :
        LET c == capitalizationDateForAccrual(r, k) IN c # 0 /\ c <= n => c \in PaymentDates(r, h, n)

\* Rows from the range on are those of the recalculation.
PassIds(from) == [k \in 1..TermDays |-> IF k < from THEN TermDays ELSE 2 * TermDays]

\* After day e of the loop: the payments that are principal, those that wait to be, those the loop
\* has posted, and the days it has not paid yet.
CapitalizedUpTo(r, h, n, e) ==
    {k \in PaymentDates(r, h, n) :
        capitalizationDateForAccrual(r, k) # 0 /\ capitalizationDateForAccrual(r, k) <= e}

WaitingAt(r, h, n, to, first, e) ==
    {k \in PaymentDates(r, h, n) :
        LET c == capitalizationDateForAccrual(r, k)
        IN k <= e /\ (c = 0 \/ c > e) /\ (k < first => c # 0 /\ c <= to)}

PostedIn(r, h, n, first, e) == {k \in PaymentDates(r, h, n) : first <= k /\ k <= e}

Unpaid(r, first, e) == {j \in first..e : PaidOn(r, j) = 0 \/ PaidOn(r, j) > e}

\* The state of the loop after day e.
PassIs(s, r, h, n, from, to, first, e) ==
    /\ s = [working |-> s.working, waiting |-> s.waiting, amount |-> s.amount, days |-> s.days,
            rows |-> s.rows, accruals |-> s.accruals]
    /\ s.working = RowsOf(r, h, PassIds(from), CapitalizedUpTo(r, h, n, e), TermDays)
    /\ r.capitalization \notin {"none", "daily"} =>
         s.waiting = {PaymentRow(r, h, PassIds(from), k) : k \in WaitingAt(r, h, n, to, first, e)}
    /\ s.amount = SumOver(Unpaid(r, first, e), Earned(r, h), e)
    /\ s.rows = {PaymentRow(r, h, PassIds(from), k) : k \in PostedIn(r, h, n, first, e)}
    /\ Amounts(s.accruals) = {<<k, Due(r, h, k)>> : k \in PostedIn(r, h, n, first, e)}

\* The numbers of a range.
LEMMA PastRangeTyped ==
    ASSUME NEW r, NEW h, NEW n, NEW from, NEW to, NEW first, PastRange(r, h, n, from, to, first)
    PROVE  /\ r \in Terms /\ h \in Histories /\ TermDays \in Nat /\ n \in 0..TermDays
           /\ from \in Nat \ {0} /\ to \in Nat \ {0} /\ first \in Nat \ {0}
           /\ first <= from /\ from <= to /\ to <= n /\ n <= TermDays
           /\ \A e \in first..to : shouldPostAccrual(r, e) => from <= e
    <1>1. TermDays \in Nat /\ r \in Terms /\ h \in Histories /\ n \in 0..TermDays
        BY TermsAssumption DEF PastRange
    <1>2. from \in Nat \ {0} /\ to \in Nat \ {0} /\ from <= to /\ to <= n /\ n <= TermDays
        BY <1>1 DEF PastRange
    <1>3. r.accrual \in AccrualFrequency /\ r.start \in Nat \ {0} /\ r.end \in Nat
        BY <1>1, TermTyped
    <1>4. first \in Nat \ {0} /\ first <= from /\ \A e \in first..to : shouldPostAccrual(r, e) => from <= e
        BY <1>2, <1>3, RangeStart DEF PastRange
    <1> QED BY <1>1, <1>2, <1>4

\* A payment date of the past is a day on which the rule is active.
LEMMA PaymentDateTyped ==
    ASSUME NEW r \in Terms, NEW h \in Histories, NEW n \in 0..TermDays, NEW k \in PaymentDates(r, h, n)
    PROVE  /\ k \in 1..TermDays /\ k \in Nat \ {0} /\ k <= n /\ ruleActiveOn(r, k) /\ shouldPostAccrual(r, k)
           /\ capitalizationDateForAccrual(r, k) \in Nat
           /\ capitalizationDateForAccrual(r, k) # 0 => k <= capitalizationDateForAccrual(r, k)
    <1>1. k \in 1..n /\ shouldPostAccrual(r, k)
        BY PaymentDatesPost
    <1>2. k \in 1..TermDays /\ k \in Nat \ {0} /\ k <= n
        BY <1>1, TermsAssumption
    <1>3. ruleActiveOn(r, k)
        BY <1>1 DEF shouldPostAccrual
    <1> QED BY <1>1, <1>2, <1>3, CapitalizedLater

\* On the principal of the loop a day earns what the reference says.
LEMMA PassDayEarns ==
    ASSUME NEW r, NEW h, NEW n, NEW from, NEW to, NEW first, PastRange(r, h, n, from, to, first),
           NEW e \in first..to, NEW W, W = RowsOf(r, h, PassIds(from), CapitalizedUpTo(r, h, n, e - 1), TermDays)
    PROVE  DayInterest(r, W, 0, e) = Earned(r, h)[e]
    <1> DEFINE C == CapitalizedUpTo(r, h, n, e - 1)
               ids == PassIds(from)
               E == Earned(r, h)
    <1>1. /\ r \in Terms /\ h \in Histories /\ TermDays \in Nat /\ n \in 0..TermDays
          /\ first \in Nat \ {0} /\ to \in Nat \ {0} /\ to <= n /\ n <= TermDays
        BY PastRangeTyped
    <1>2. e \in Nat \ {0} /\ e <= n /\ e \in 1..TermDays /\ e \in 0..TermDays /\ e <= TermDays
        BY <1>1
    <1>3. \A k \in C : k \in 1..TermDays
        BY <1>1, PaymentDateTyped DEF CapitalizedUpTo
    <1>4. transactionsUpToDate(W, e) = RowsOf(r, h, ids, C, e)
        <2> DEFINE M0 == {j \in 1..TermDays : h[j] # 0 /\ j <= TermDays}
                   M1 == {j \in 1..TermDays : h[j] # 0 /\ j <= e}
                   C0 == {j \in C : j <= TermDays}
                   C1 == {j \in C : j <= e}
        <2>1. W = {ManualRow(r, h, k) : k \in M0} \union {PaymentRow(r, h, ids, k) : k \in C0}
            BY DEF RowsOf
        <2>2. RowsOf(r, h, ids, C, e) = {ManualRow(r, h, k) : k \in M1} \union {PaymentRow(r, h, ids, k) : k \in C1}
            BY DEF RowsOf
        <2>3. \A k : ManualRow(r, h, k).date = k /\ PaymentRow(r, h, ids, k).date = k
            BY DEF ManualRow, PaymentRow, InterestRow
        <2>4. M1 = {j \in M0 : j <= e} /\ C1 = {j \in C0 : j <= e}
            <3> HIDE DEF C
            <3> QED BY <1>1, <1>2, <1>3
        <2> HIDE DEF M0, M1, C0, C1, ids
        <2> QED BY <2>1, <2>2, <2>3, <2>4 DEF transactionsUpToDate
    <1>5. Balance({}) = 0
        <2>1. Amounted({})
            BY FS_EmptySet DEF Amounted
        <2> QED BY <2>1, BalanceStep
    <1>6. DayBalance(W, 0, e) = Balance(RowsOf(r, h, ids, C, e))
        <2>1. CASE W = {}
            <3>1. RowsOf(r, h, ids, C, e) = {}
                BY <1>4, <2>1 DEF transactionsUpToDate
            <3> QED BY <1>5, <2>1, <3>1 DEF DayBalance
        <2>2. CASE W # {}
            BY <1>4, <2>2 DEF DayBalance
        <2> QED BY <2>1, <2>2
    <1>7. Balance(RowsOf(r, h, ids, C, e)) = SumOver(1..e, h, e) + SumTo([k \in 1..e |-> Part(r, h, C, k)], e)
        <2>1. C \in SUBSET (1..TermDays)
            BY <1>3
        <2> HIDE DEF C, ids
        <2> QED BY <1>1, <1>2, <2>1, RowsBalance
    <1>8. [k \in 1..e |-> Part(r, h, C, k)] = [k \in 1..e |-> Credited(r, h, e, k)]
        <2>1. ASSUME NEW k \in 1..e PROVE Part(r, h, C, k) = Credited(r, h, e, k)
            <3> PICK c : c = capitalizationDateForAccrual(r, k)
                OBVIOUS
            <3>1. k \in 1..n /\ k \in 1..TermDays /\ k \in Nat \ {0}
                BY <1>1, <1>2
            <3>2. c \in Nat
                BY <1>1, <3>1, CapitalizedLater
            <3>3. c # 0 /\ c <= e - 1 <=> c # 0 /\ c < e
                BY <1>2, <3>2
            <3>4. CASE k \in PaymentDates(r, h, n)
                <4>1. k \in C <=> c # 0 /\ c < e
                    BY <3>3, <3>4 DEF CapitalizedUpTo
                <4> QED BY <4>1 DEF Part, Credited
            <3>5. CASE k \notin PaymentDates(r, h, n)
                <4>1. Due(r, h, k) \in Nat /\ (PaidOn(r, k) # k => Due(r, h, k) = 0)
                    BY <1>1, <3>1, DueIsSum
                <4>2. Due(r, h, k) = 0
                    BY <3>1, <3>5, <4>1 DEF PaymentDates
                <4> QED BY <4>2 DEF Part, Credited
            <3> QED BY <3>4, <3>5
        <2> QED BY <2>1
    <1>9. SumOver(Joined(r, e), E, e - 1) = SumTo([k \in 1..e |-> Credited(r, h, e, k)], e)
        BY <1>1, <1>2, JoinedIsCredited
    <1>10. DayBalance(W, 0, e) = BalanceOn(r, h, E, e)
        BY <1>6, <1>7, <1>8, <1>9 DEF BalanceOn
    <1>11. E[e] = Earns(r, h, E, e)
        BY <1>1, <1>2, EarnedDef
    <1>13. e \in 1..TermDays /\ \A k \in 1..(e - 1) : E[k] \in Nat
        <2>1. E \in [0..TermDays -> Nat]
            BY <1>1, EarnedDef
        <2>2. \A k \in 1..(e - 1) : k \in 0..TermDays
            BY <1>1, <1>2
        <2> HIDE DEF E
        <2> QED BY <1>1, <1>2, <2>1, <2>2
    <1> HIDE DEF E
    <1>12. DayInterest(r, W, 0, e) = Earns(r, h, E, e)
        BY <1>1, <1>2, <1>10, <1>13, EarnsAsCalculated DEF DayInterest
    <1> QED BY <1>11, <1>12 DEF E

\* What the loop has accrued is due when the rule pays, and is carried on when it does not.
LEMMA PassAmount ==
    ASSUME NEW r, NEW h, NEW n, NEW from, NEW to, NEW first, PastRange(r, h, n, from, to, first),
           NEW e \in first..to, NEW v, v = SumOver(Unpaid(r, first, e - 1), Earned(r, h), e - 1) + Earned(r, h)[e]
    PROVE  /\ shouldPostAccrual(r, e) => v = Due(r, h, e) /\ SumOver(Unpaid(r, first, e), Earned(r, h), e) = 0
           /\ ~shouldPostAccrual(r, e) => v = SumOver(Unpaid(r, first, e), Earned(r, h), e)
    <1> DEFINE U == Unpaid(r, first, e - 1)
    <1>1. /\ r \in Terms /\ h \in Histories /\ TermDays \in Nat
          /\ first \in Nat \ {0} /\ to \in Nat \ {0} /\ to <= TermDays /\ from \in Nat \ {0} /\ from <= to
        BY PastRangeTyped
    <1>2. e \in Nat \ {0} /\ e \in 1..TermDays /\ e - 1 \in Nat /\ (e - 1) + 1 = e /\ first <= e /\ e <= TermDays
        BY <1>1
    <1>3. PICK E \in [0..TermDays -> Nat] : E = Earned(r, h)
        BY <1>1, EarnedDef
    <1>4. \A k \in 1..e : E[k] \in Nat /\ E[k] \in Int
        BY <1>1, <1>2, <1>3
    <1>5. \A j \in first..e : /\ j \in Nat \ {0} /\ j \in 1..e /\ PaidOn(r, j) \in Nat /\ (PaidOn(r, j) # 0 => j <= PaidOn(r, j))
                              /\ shouldPostAccrual(r, e) => PaidOn(r, j) # 0 /\ PaidOn(r, j) <= e
                              /\ ~shouldPostAccrual(r, e) => PaidOn(r, j) # e
        <2> TAKE j \in first..e
        <2>1. j \in Nat \ {0} /\ j \in 1..e /\ e \in j..TermDays
            BY <1>1, <1>2
        <2>2. /\ PaidOn(r, j) \in Nat
              /\ PaidOn(r, j) # 0 => PaidOn(r, j) \in j..TermDays /\ shouldPostAccrual(r, PaidOn(r, j))
              /\ shouldPostAccrual(r, e) => PaidOn(r, j) # 0 /\ PaidOn(r, j) <= e
            BY <1>1, <2>1, PaidOnFirst
        <2> PICK p : p = PaidOn(r, j)
            OBVIOUS
        <2>3. p # 0 => j <= p
            BY <1>1, <2>1, <2>2
        <2>4. ~shouldPostAccrual(r, e) => p # e
            BY <1>2, <2>2
        <2> QED BY <2>1, <2>2, <2>3, <2>4
    <1>6. v = SumOver(U \union {e}, E, e)
        <2> DEFINE s == [k \in 1..(e - 1) |-> IF k \in U THEN E[k] ELSE 0]
                   t == [k \in 1..e |-> IF k \in U \union {e} THEN E[k] ELSE 0]
        <2>1. \A k \in 1..(e - 1) : k \in 1..e /\ k # e
            BY <1>2
        <2>2. s \in [1..(e - 1) -> Int] /\ t \in [1..e -> Int] /\ (\A k \in 1..(e - 1) : t[k] = s[k]) /\ t[e] = E[e]
            BY <1>2, <1>4, <2>1
        <2>3. v = SumTo(s, e - 1) + E[e] /\ SumOver(U \union {e}, E, e) = SumTo(t, e)
            BY <1>3 DEF SumOver
        <2> PICK m \in Nat : m = e - 1
            BY <1>2
        <2> HIDE DEF s, t
        <2>4. SumTo(t, m + 1) = SumTo(s, m) + t[m + 1]
            BY <1>2, <2>2, SumOneMore
        <2> QED BY <1>2, <2>2, <2>3, <2>4
    <1>7. \A j : j \in U \union {e} <=> j \in first..e /\ (j = e \/ PaidOn(r, j) = 0 \/ PaidOn(r, j) >= e)
        <2>1. \A j \in first..e : j # e <=> j \in first..(e - 1)
            BY <1>1, <1>2
        <2>2. ASSUME NEW j \in first..(e - 1) PROVE j \in first..e /\ (PaidOn(r, j) > e - 1 <=> PaidOn(r, j) >= e)
            <3>1. j \in first..e
                BY <1>1, <1>2
            <3>2. PaidOn(r, j) \in Nat
                BY <1>5, <3>1
            <3> QED BY <1>2, <3>1, <3>2
        <2>3. e \in first..e
            BY <1>1, <1>2
        <2> QED BY <2>1, <2>2, <2>3 DEF Unpaid
    <1> HIDE DEF U
    <1>8. CASE shouldPostAccrual(r, e)
        <2> DEFINE S == {j \in 1..e : PaidOn(r, j) = e}
        <2>1. \A j \in first..e : j \in U \union {e} <=> PaidOn(r, j) = e
            <3>1. PaidOn(r, e) = e
                BY <1>1, <1>2, <1>8, PaidOnFirst
            <3>2. ASSUME NEW j \in first..e PROVE j \in U \union {e} <=> PaidOn(r, j) = e
                <4>1. PaidOn(r, j) \in Nat /\ PaidOn(r, j) # 0 /\ PaidOn(r, j) <= e
                    BY <1>5, <1>8
                <4>2. PaidOn(r, j) >= e <=> PaidOn(r, j) = e
                    BY <1>2, <4>1
                <4> QED BY <1>7, <3>1, <4>1, <4>2
            <3> QED BY <3>2
        <2>2. \A j \in 1..e : (IF j \in U \union {e} THEN E[j] ELSE 0) = (IF j \in S THEN E[j] ELSE 0)
            <3> TAKE j \in 1..e
            <3>1. CASE j \in first..e
                BY <2>1, <3>1
            <3>2. CASE j \notin first..e
                <4>1. j < first /\ j \in Nat \ {0} /\ j \in 0..TermDays
                    BY <1>1, <1>2, <3>2
                <4>2. j \notin U \union {e}
                    BY <1>7, <3>2
                <4>3. PaidOn(r, j) = e => E[j] = 0
                    <5> SUFFICES ASSUME PaidOn(r, j) = e PROVE E[j] = 0
                        OBVIOUS
                    <5>1. from \in 1..TermDays /\ to \in 1..TermDays /\ first = recalculationStartDate(r, from, to)
                        BY <1>1 DEF PastRange
                    <5>2. ~ruleActiveOn(r, j)
                        BY <1>1, <1>8, <4>1, <5>1, NothingBeforeStart
                    <5>3. E[j] = Earns(r, h, E, j)
                        BY <1>1, <1>3, <4>1, EarnedDef
                    <5>4. ~InTerm(r, j)
                        BY <1>1, <4>1, <5>2, TermIsActive
                    <5> QED BY <5>3, <5>4 DEF Earns
                <4> QED BY <4>2, <4>3
            <3> QED BY <3>1, <3>2
        <2>3. SumOver(U \union {e}, E, e) = SumOver(S, E, e)
            <3>1. [k \in 1..e |-> IF k \in U \union {e} THEN E[k] ELSE 0] = [k \in 1..e |-> IF k \in S THEN E[k] ELSE 0]
                <4> HIDE DEF S
                <4> QED BY <2>2
            <3> QED BY <3>1 DEF SumOver
        <2>4. v = Due(r, h, e)
            BY <1>3, <1>6, <2>3 DEF Due
        <2>5. SumOver(Unpaid(r, first, e), E, e) = 0
            <3>1. Unpaid(r, first, e) = {}
                <4>1. \A j \in first..e : PaidOn(r, j) # 0 /\ ~(PaidOn(r, j) > e)
                    BY <1>2, <1>5, <1>8
                <4> QED BY <4>1 DEF Unpaid
            <3> DEFINE z == [k \in 1..e |-> IF k \in {} THEN E[k] ELSE 0]
            <3>2. z \in [1..e -> Int] /\ \A k \in 1..e : z[k] = 0
                OBVIOUS
            <3>3. SumTo(z, e) = 0
                <4> HIDE DEF z
                <4> QED BY <1>2, <3>2, SumOfZeros
            <3> QED BY <3>1, <3>3 DEF SumOver
        <2> QED BY <1>3, <1>8, <2>4, <2>5
    <1>9. CASE ~shouldPostAccrual(r, e)
        <2>1. U \union {e} = Unpaid(r, first, e)
            <3>1. ASSUME NEW j \in first..e PROVE (j = e \/ PaidOn(r, j) = 0 \/ PaidOn(r, j) >= e) <=> (PaidOn(r, j) = 0 \/ PaidOn(r, j) > e)
                <4>1. PaidOn(r, j) \in Nat /\ PaidOn(r, j) # e /\ (PaidOn(r, j) # 0 => j <= PaidOn(r, j)) /\ j \in Nat
                    BY <1>5, <1>9
                <4> QED BY <1>2, <4>1
            <3> QED BY <1>7, <3>1 DEF Unpaid
        <2> QED BY <1>3, <1>6, <1>9, <2>1
    <1> QED BY <1>8, <1>9

\* A day without a payment capitalizes nothing.
LEMMA NoPaymentSets ==
    ASSUME NEW r, NEW h, NEW n, NEW from, NEW to, NEW first, PastRange(r, h, n, from, to, first),
           CapitalizationsPay(r, h, n), NEW e \in first..to, e \notin PaymentDates(r, h, n)
    PROVE  /\ CapitalizedUpTo(r, h, n, e) = CapitalizedUpTo(r, h, n, e - 1)
           /\ WaitingAt(r, h, n, to, first, e) = WaitingAt(r, h, n, to, first, e - 1)
           /\ PostedIn(r, h, n, first, e) = PostedIn(r, h, n, first, e - 1)
    <1> DEFINE P == PaymentDates(r, h, n)
               c(k) == capitalizationDateForAccrual(r, k)
    <1>1. /\ r \in Terms /\ h \in Histories /\ TermDays \in Nat /\ n \in 0..TermDays
          /\ first \in Nat \ {0} /\ to \in Nat \ {0} /\ to <= n
        BY PastRangeTyped
    <1>2. e \in Nat \ {0} /\ e <= n
        BY <1>1
    <1>3. \A k \in P : k \in Nat /\ c(k) \in Nat
        BY <1>1, PaymentDateTyped
    <1>4. \A k \in P : k # e /\ c(k) # e
        BY <1>2 DEF CapitalizationsPay
    <1> HIDE DEF P, c
    <1>5. \A k \in P : /\ k <= e <=> k <= e - 1
                       /\ c(k) <= e <=> c(k) <= e - 1
                       /\ c(k) > e <=> c(k) > e - 1
        BY <1>2, <1>3, <1>4
    <1>6. {k \in P : c(k) # 0 /\ c(k) <= e} = {k \in P : c(k) # 0 /\ c(k) <= e - 1}
        BY <1>5
    <1>7. {k \in P : k <= e /\ (c(k) = 0 \/ c(k) > e) /\ (k < first => c(k) # 0 /\ c(k) <= to)} =
          {k \in P : k <= e - 1 /\ (c(k) = 0 \/ c(k) > e - 1) /\ (k < first => c(k) # 0 /\ c(k) <= to)}
        BY <1>5
    <1>8. {k \in P : first <= k /\ k <= e} = {k \in P : first <= k /\ k <= e - 1}
        BY <1>5
    <1> QED BY <1>6, <1>7, <1>8 DEF CapitalizedUpTo, WaitingAt, PostedIn, P, c

\* A day with a payment capitalizes it and what waits, or lets it wait with the others.
LEMMA PaymentSets ==
    ASSUME NEW r, NEW h, NEW n, NEW from, NEW to, NEW first, PastRange(r, h, n, from, to, first),
           NEW e \in first..to, e \in PaymentDates(r, h, n)
    PROVE  /\ PostedIn(r, h, n, first, e) = PostedIn(r, h, n, first, e - 1) \union {e}
           /\ r.capitalization = "daily" =>
                CapitalizedUpTo(r, h, n, e) = CapitalizedUpTo(r, h, n, e - 1) \union {e}
           /\ shouldCapitalizeOn(r, e) /\ r.capitalization # "daily" =>
                /\ CapitalizedUpTo(r, h, n, e) =
                     CapitalizedUpTo(r, h, n, e - 1) \union WaitingAt(r, h, n, to, first, e - 1) \union {e}
                /\ WaitingAt(r, h, n, to, first, e) = {}
           /\ ~shouldCapitalizeOn(r, e) =>
                /\ CapitalizedUpTo(r, h, n, e) = CapitalizedUpTo(r, h, n, e - 1)
                /\ WaitingAt(r, h, n, to, first, e) = WaitingAt(r, h, n, to, first, e - 1) \union {e}
    <1> DEFINE P == PaymentDates(r, h, n)
               c(k) == capitalizationDateForAccrual(r, k)
               Due1(k) == k < first => c(k) # 0 /\ c(k) <= to
    <1>1. /\ r \in Terms /\ h \in Histories /\ TermDays \in Nat /\ n \in 0..TermDays
          /\ first \in Nat \ {0} /\ to \in Nat \ {0} /\ to <= n
        BY PastRangeTyped
    <1>2. e \in Nat \ {0} /\ e <= to /\ first <= e /\ e \in P
        BY <1>1
    <1>3. \A k \in P : k \in Nat \ {0} /\ ruleActiveOn(r, k) /\ c(k) \in Nat /\ (c(k) # 0 => k <= c(k))
        BY <1>1, PaymentDateTyped
    <1>4. \A k \in P : c(k) # 0 => shouldCapitalizeOn(r, c(k))
        BY <1>1, <1>3, CapitalizationDay
    <1>5. \A k \in P : r.capitalization = "daily" => c(k) = k
        BY <1>3 DEF capitalizationDateForAccrual
    <1>6. ASSUME shouldCapitalizeOn(r, e), r.capitalization # "daily", NEW k \in P, k <= e, c(k) = 0 \/ c(k) >= e
          PROVE  c(k) = e
        <2>1. r.capitalization # "none"
            <3>1. r.capitalization = "none" => ~shouldCapitalizeOn(r, e)
                BY DEF shouldCapitalizeOn
            <3> QED BY <1>6, <3>1
        <2> QED BY <1>1, <1>2, <1>3, <1>6, <2>1, WaitingIsCapitalized
    <1>7. /\ CapitalizedUpTo(r, h, n, e) = {k \in P : c(k) # 0 /\ c(k) <= e}
          /\ CapitalizedUpTo(r, h, n, e - 1) = {k \in P : c(k) # 0 /\ c(k) <= e - 1}
          /\ WaitingAt(r, h, n, to, first, e) = {k \in P : k <= e /\ (c(k) = 0 \/ c(k) > e) /\ Due1(k)}
          /\ WaitingAt(r, h, n, to, first, e - 1) = {k \in P : k <= e - 1 /\ (c(k) = 0 \/ c(k) > e - 1) /\ Due1(k)}
        BY DEF CapitalizedUpTo, WaitingAt
    <1>8. PostedIn(r, h, n, first, e) = PostedIn(r, h, n, first, e - 1) \union {e}
        <2>1. \A k \in P : k <= e <=> (k <= e - 1 \/ k = e)
            BY <1>2, <1>3
        <2> HIDE DEF P
        <2>2. {k \in P : first <= k /\ k <= e} = {k \in P : first <= k /\ k <= e - 1} \union {e}
            BY <1>2, <2>1
        <2> QED BY <2>2 DEF PostedIn, P
    <1>9. \A k \in P : /\ c(k) <= e <=> (c(k) <= e - 1 \/ c(k) = e)
                       /\ c(k) > e - 1 <=> (c(k) > e \/ c(k) = e)
                       /\ k <= e <=> (k <= e - 1 \/ k = e)
        <2> HIDE DEF c, P
        <2> QED BY <1>2, <1>3
    <1> HIDE DEF P, c
    <1>10. ASSUME r.capitalization = "daily"
           PROVE  {k \in P : c(k) # 0 /\ c(k) <= e} = {k \in P : c(k) # 0 /\ c(k) <= e - 1} \union {e}
        <2>1. \A k \in P : c(k) = e <=> k = e
            BY <1>5, <1>10
        <2> QED BY <1>2, <1>9, <2>1
    <1>11. ASSUME shouldCapitalizeOn(r, e), r.capitalization # "daily"
           PROVE  /\ {k \in P : c(k) # 0 /\ c(k) <= e} = {k \in P : c(k) # 0 /\ c(k) <= e - 1}
                       \union {k \in P : k <= e - 1 /\ (c(k) = 0 \/ c(k) > e - 1) /\ Due1(k)} \union {e}
                  /\ {k \in P : k <= e /\ (c(k) = 0 \/ c(k) > e) /\ Due1(k)} = {}
        <2>1. \A k \in P : k <= e /\ (c(k) = 0 \/ c(k) >= e) => c(k) = e
            BY <1>6, <1>11
        <2>2. c(e) = e
            BY <1>2, <1>3, <2>1
        <2>3. ASSUME NEW k \in P, k <= e, c(k) = 0 \/ c(k) > e PROVE FALSE
            <3>1. c(k) = 0 \/ c(k) >= e
                BY <1>2, <1>3, <2>3
            <3>2. c(k) = e
                BY <2>1, <2>3, <3>1
            <3> QED BY <1>2, <2>3, <3>2
        <2>4. ASSUME NEW k \in P, c(k) # 0, c(k) <= e, ~(c(k) <= e - 1), k # e
              PROVE  k <= e - 1 /\ c(k) > e - 1 /\ Due1(k)
            <3>1. c(k) = e
                BY <1>9, <2>4
            <3>2. k <= e
                BY <1>3, <2>4, <3>1
            <3> QED BY <1>2, <1>9, <2>4, <3>1, <3>2
        <2>5. ASSUME NEW k \in P, k <= e - 1, c(k) = 0 \/ c(k) > e - 1 PROVE c(k) # 0 /\ c(k) <= e
            <3>1. k <= e /\ (c(k) = 0 \/ c(k) >= e)
                BY <1>2, <1>3, <2>5
            <3> QED BY <1>2, <2>1, <3>1
        <2>6. ASSUME NEW k \in P, c(k) <= e - 1 PROVE c(k) <= e
            BY <1>9, <2>6
        <2>7. c(e) # 0 /\ c(e) <= e
            BY <1>2, <2>2
        <2> HIDE DEF Due1
        <2> QED BY <1>2, <2>3, <2>4, <2>5, <2>6, <2>7
    <1>12. ASSUME ~shouldCapitalizeOn(r, e)
           PROVE  /\ {k \in P : c(k) # 0 /\ c(k) <= e} = {k \in P : c(k) # 0 /\ c(k) <= e - 1}
                  /\ {k \in P : k <= e /\ (c(k) = 0 \/ c(k) > e) /\ Due1(k)} =
                       {k \in P : k <= e - 1 /\ (c(k) = 0 \/ c(k) > e - 1) /\ Due1(k)} \union {e}
        <2>1. \A k \in P : c(k) # e
            BY <1>2, <1>4, <1>12
        <2>2. c(e) = 0 \/ c(e) > e
            <3>1. c(e) # e /\ c(e) \in Nat /\ (c(e) # 0 => e <= c(e))
                BY <1>2, <1>3, <2>1
            <3> QED BY <1>2, <3>1
        <2>3. Due1(e)
            BY <1>1, <1>2
        <2> HIDE DEF Due1
        <2> QED BY <1>2, <1>9, <2>1, <2>2, <2>3
    <1> QED BY <1>7, <1>8, <1>10, <1>11, <1>12

\* One more day of payments adds its rows.
LEMMA RowsUnion ==
    ASSUME NEW r, NEW h, NEW ids, NEW C \in SUBSET (1..TermDays), NEW X \in SUBSET (1..TermDays)
    PROVE  RowsOf(r, h, ids, C \union X, TermDays) =
             RowsOf(r, h, ids, C, TermDays) \union {PaymentRow(r, h, ids, k) : k \in X}
    <1>1. \A k \in 1..TermDays : k <= TermDays
        BY TermsAssumption
    <1> QED BY <1>1 DEF RowsOf

\* Days of payments are days of the term.
LEMMA PassSetsTyped ==
    ASSUME NEW r \in Terms, NEW h \in Histories, NEW n \in 0..TermDays, NEW to, NEW first, NEW e
    PROVE  /\ CapitalizedUpTo(r, h, n, e) \in SUBSET (1..TermDays)
           /\ WaitingAt(r, h, n, to, first, e) \in SUBSET (1..TermDays)
           /\ PostedIn(r, h, n, first, e) \in SUBSET (1..TermDays)
    <1>1. PaymentDates(r, h, n) \in SUBSET (1..TermDays)
        BY PaymentDateTyped
    <1> QED BY <1>1 DEF CapitalizedUpTo, WaitingAt, PostedIn

\* A day of the loop.
LEMMA PassDay ==
    ASSUME NEW r, NEW h, NEW n, NEW from, NEW to, NEW first, PastRange(r, h, n, from, to, first),
           CapitalizationsPay(r, h, n), NEW e \in first..to, NEW s, PassIs(s, r, h, n, from, to, first, e - 1)
    PROVE  PassIs(RecalculateDay(s, r, e, 2 * TermDays), r, h, n, from, to, first, e)
    <1> DEFINE ids == PassIds(from)
               C0 == CapitalizedUpTo(r, h, n, e - 1)
               C1 == CapitalizedUpTo(r, h, n, e)
               W0 == WaitingAt(r, h, n, to, first, e - 1)
               W1 == WaitingAt(r, h, n, to, first, e)
               P0 == PostedIn(r, h, n, first, e - 1)
               P1 == PostedIn(r, h, n, first, e)
               Rows(X) == {PaymentRow(r, h, ids, k) : k \in X}
               t == RecalculateDay(s, r, e, 2 * TermDays)
    <1>1. /\ r \in Terms /\ h \in Histories /\ TermDays \in Nat /\ n \in 0..TermDays
          /\ from \in Nat \ {0} /\ to \in Nat \ {0} /\ first \in Nat \ {0} /\ to <= n /\ n <= TermDays
          /\ (shouldPostAccrual(r, e) => from <= e)
        BY PastRangeTyped
    <1>2. e \in Nat \ {0} /\ e \in 1..n /\ e \in 1..TermDays
        BY <1>1
    <1>3. /\ s = [working |-> s.working, waiting |-> s.waiting, amount |-> s.amount, days |-> s.days,
                  rows |-> s.rows, accruals |-> s.accruals]
          /\ s.working = RowsOf(r, h, ids, C0, TermDays)
          /\ r.capitalization \notin {"none", "daily"} => s.waiting = Rows(W0)
          /\ s.amount = SumOver(Unpaid(r, first, e - 1), Earned(r, h), e - 1)
          /\ s.rows = Rows(P0)
          /\ Amounts(s.accruals) = {<<k, Due(r, h, k)>> : k \in P0}
        BY DEF PassIs
    <1>4. DayInterest(r, s.working, 0, e) = Earned(r, h)[e]
        BY <1>3, PassDayEarns
    <1>5. PICK v : v = s.amount + Earned(r, h)[e]
        OBVIOUS
    <1>6. /\ shouldPostAccrual(r, e) => v = Due(r, h, e) /\ SumOver(Unpaid(r, first, e), Earned(r, h), e) = 0
          /\ ~shouldPostAccrual(r, e) => v = SumOver(Unpaid(r, first, e), Earned(r, h), e)
        BY <1>3, <1>5, PassAmount
    <1>7. e \in PaymentDates(r, h, n) <=> ~(~shouldPostAccrual(r, e) \/ v = 0)
        <2>1. e \in PaymentDates(r, h, n) <=> shouldPostAccrual(r, e) /\ Due(r, h, e) > 0
            BY <1>1, <1>2, PaymentDatesPost
        <2>2. Due(r, h, e) \in Nat
            BY <1>1, <1>2, DueIsSum
        <2> QED BY <1>6, <2>1, <2>2
    <1>8. PICK days : days = IF Earned(r, h)[e] > 0 THEN s.days \union {e} ELSE s.days
        OBVIOUS
    <1>9. PICK row : row = InterestRow(r, e, v, 2 * TermDays)
        OBVIOUS
    <1>10. t = IF ~shouldPostAccrual(r, e) \/ v = 0 THEN [s EXCEPT !.amount = v, !.days = days]
               ELSE [working |-> CASE r.capitalization = "daily" -> s.working \union {row}
                                   [] r.capitalization # "daily" /\ shouldCapitalizeOn(r, e)
                                        -> s.working \union s.waiting \union {row}
                                   [] OTHER -> s.working,
                     waiting |-> CASE r.capitalization \in {"none", "daily"} -> s.waiting
                                   [] r.capitalization \notin {"none", "daily"} /\ shouldCapitalizeOn(r, e) -> {}
                                   [] OTHER -> s.waiting \union {row},
                     amount |-> 0, days |-> {},
                     rows |-> s.rows \union {row},
                     accruals |-> s.accruals \union {AccrualRow(r, e, v, days, 2 * TermDays)}]
        BY <1>4, <1>5, <1>8, <1>9 DEF RecalculateDay
    <1>11. C0 \in SUBSET (1..TermDays) /\ W0 \in SUBSET (1..TermDays) /\ {e} \in SUBSET (1..TermDays)
        BY <1>1, <1>2, PassSetsTyped
    <1> HIDE DEF t
    <1>12. CASE e \notin PaymentDates(r, h, n)
        <2>1. C1 = C0 /\ W1 = W0 /\ P1 = P0
            BY <1>12, NoPaymentSets
        <2>2. t = [s EXCEPT !.amount = v, !.days = days]
            BY <1>7, <1>10, <1>12
        <2>3. t = [working |-> s.working, waiting |-> s.waiting, amount |-> v, days |-> days,
                   rows |-> s.rows, accruals |-> s.accruals]
            BY <1>3, <2>2
        <2>4. v = SumOver(Unpaid(r, first, e), Earned(r, h), e)
            BY <1>6, <1>7, <1>12
        <2>5. /\ t.working = s.working /\ t.waiting = s.waiting /\ t.amount = v /\ t.rows = s.rows /\ t.accruals = s.accruals
              /\ t = [working |-> t.working, waiting |-> t.waiting, amount |-> t.amount, days |-> t.days,
                      rows |-> t.rows, accruals |-> t.accruals]
            BY <2>3
        <2>6. PassIs(t, r, h, n, from, to, first, e)
            <3> HIDE DEF C0, C1, W0, W1, P0, P1, ids
            <3>1. t.working = RowsOf(r, h, ids, C1, TermDays) /\ t.rows = Rows(P1)
                BY <1>3, <2>1, <2>5
            <3>2. r.capitalization \notin {"none", "daily"} => t.waiting = Rows(W1)
                BY <1>3, <2>1, <2>5
            <3>3. Amounts(t.accruals) = {<<k, Due(r, h, k)>> : k \in P1}
                BY <1>3, <2>1, <2>5
            <3> QED BY <2>4, <2>5, <3>1, <3>2, <3>3 DEF PassIs, C1, W1, P1, ids
        <2> QED BY <2>6 DEF t
    <1>13. CASE e \in PaymentDates(r, h, n)
        <2>1. shouldPostAccrual(r, e) /\ v = Due(r, h, e) /\ SumOver(Unpaid(r, first, e), Earned(r, h), e) = 0 /\ from <= e
            BY <1>1, <1>6, <1>7, <1>13
        <2>2. row = PaymentRow(r, h, ids, e)
            <3>1. ids[e] = 2 * TermDays
                BY <1>1, <1>2, <2>1 DEF PassIds
            <3> QED BY <1>9, <2>1, <3>1 DEF PaymentRow
        <2>3. PICK acc : acc = AccrualRow(r, e, v, days, 2 * TermDays)
            OBVIOUS
        <2>4. /\ t = [working |-> t.working, waiting |-> t.waiting, amount |-> t.amount, days |-> t.days,
                      rows |-> t.rows, accruals |-> t.accruals]
              /\ t.amount = 0 /\ t.rows = s.rows \union {row} /\ t.accruals = s.accruals \union {acc}
              /\ t.working = CASE r.capitalization = "daily" -> s.working \union {row}
                               [] r.capitalization # "daily" /\ shouldCapitalizeOn(r, e)
                                    -> s.working \union s.waiting \union {row}
                               [] OTHER -> s.working
              /\ t.waiting = CASE r.capitalization \in {"none", "daily"} -> s.waiting
                               [] r.capitalization \notin {"none", "daily"} /\ shouldCapitalizeOn(r, e) -> {}
                               [] OTHER -> s.waiting \union {row}
            BY <1>7, <1>10, <1>13, <2>3
        <2>5. /\ P1 = P0 \union {e}
              /\ r.capitalization = "daily" => C1 = C0 \union {e}
              /\ shouldCapitalizeOn(r, e) /\ r.capitalization # "daily" => C1 = (C0 \union W0) \union {e} /\ W1 = {}
              /\ ~shouldCapitalizeOn(r, e) => C1 = C0 /\ W1 = W0 \union {e}
            BY <1>13, PaymentSets
        <2> HIDE DEF C0, C1, W0, W1, P0, P1, ids
        <2>6. \A X : Rows(X \union {e}) = Rows(X) \union {row}
            BY <2>2
        <2>7. Rows({e}) = {row} /\ Rows({}) = {}
            BY <2>2
        <2>8. t.rows = Rows(P1)
            BY <1>3, <2>4, <2>5, <2>6
        <2>9. Amounts(t.accruals) = {<<k, Due(r, h, k)>> : k \in P1}
            <3>1. acc.date = e /\ acc.amount = Due(r, h, e)
                BY <2>1, <2>3 DEF AccrualRow
            <3>2. Amounts(s.accruals \union {acc}) = Amounts(s.accruals) \union {<<e, Due(r, h, e)>>}
                BY <3>1 DEF Amounts
            <3>3. {<<k, Due(r, h, k)>> : k \in P0 \union {e}} = {<<k, Due(r, h, k)>> : k \in P0} \union {<<e, Due(r, h, e)>>}
                OBVIOUS
            <3> QED BY <1>3, <2>4, <2>5, <3>2, <3>3
        <2>10. t.working = RowsOf(r, h, ids, C1, TermDays)
            <3>1. RowsOf(r, h, ids, C0 \union {e}, TermDays) = s.working \union {row}
                BY <1>3, <1>11, <2>7, RowsUnion
            <3>2. CASE r.capitalization = "daily"
                BY <2>4, <2>5, <3>1, <3>2
            <3>3. CASE r.capitalization # "daily" /\ shouldCapitalizeOn(r, e)
                <4>1. r.capitalization \notin {"none", "daily"}
                    BY <3>3 DEF shouldCapitalizeOn
                <4>2. RowsOf(r, h, ids, C0 \union W0, TermDays) = s.working \union s.waiting
                    BY <1>3, <1>11, <4>1, RowsUnion
                <4>3. C0 \union W0 \in SUBSET (1..TermDays)
                    BY <1>11
                <4>4. RowsOf(r, h, ids, (C0 \union W0) \union {e}, TermDays) = (s.working \union s.waiting) \union {row}
                    BY <1>11, <2>7, <4>2, <4>3, RowsUnion
                <4> QED BY <2>4, <2>5, <3>3, <4>4
            <3>4. CASE r.capitalization # "daily" /\ ~shouldCapitalizeOn(r, e)
                BY <1>3, <2>4, <2>5, <3>4
            <3> QED BY <3>2, <3>3, <3>4
        <2>11. r.capitalization \notin {"none", "daily"} => t.waiting = Rows(W1)
            BY <1>3, <2>4, <2>5, <2>6, <2>7
        <2>12. PassIs(t, r, h, n, from, to, first, e)
            BY <2>1, <2>4, <2>8, <2>9, <2>10, <2>11 DEF PassIs, C1, W1, P1, ids
        <2> QED BY <2>12 DEF t
    <1> QED BY <1>12, <1>13

\* The tables that a recalculation reads: manual rows, and the payments K with their interest.
RowsRead(r, h, K) == Manual(r, h) \union {PaymentRow(r, h, JobIds, k) : k \in K}
PaymentsRead(r, h, K) == {Payment(r, h, k) : k \in K}

\* Of those rows, the ones of manual amounts have no accrual, and the others have their own.
LEMMA ReadsLinked ==
    ASSUME NEW r \in Terms, NEW h \in Histories, NEW n \in 0..TermDays, NEW K \in SUBSET PaymentDates(r, h, n),
           NEW A, A = PaymentsRead(r, h, K)
    PROVE  /\ AccrualsOf(A, r) = A
           /\ \A a \in A : a.date \in K /\ a = Payment(r, h, a.date)
           /\ \A k \in K : Payment(r, h, k) \in A /\ Payment(r, h, k).date = k
           /\ \A k \in 1..TermDays : \A a \in A : a.tx # ManualRow(r, h, k).id
           /\ \A k \in K : \A a \in A : a.tx = PaymentRow(r, h, JobIds, k).id <=> a.date = k
    <1>1. TermDays \in Nat /\ \A k \in K : k \in Nat \ {0} /\ JobIds[k] = TermDays
        <2>1. \A k \in K : k \in 1..TermDays /\ k \in Nat \ {0}
            BY PaymentDateTyped
        <2> QED BY <2>1, TermsAssumption DEF JobIds
    <1>2. \A k : /\ Payment(r, h, k).account = r.account /\ Payment(r, h, k).rule = r.id
                 /\ Payment(r, h, k).tx = TermDays + k /\ Payment(r, h, k).date = k
        BY DEF Payment, AccrualRow
    <1>3. AccrualsOf(A, r) = A
        BY <1>2 DEF AccrualsOf, PaymentsRead
    <1>4. \A a \in A : a.date \in K /\ a = Payment(r, h, a.date) /\ a.tx = TermDays + a.date
        BY <1>2 DEF PaymentsRead
    <1>5. \A k \in K : Payment(r, h, k) \in A /\ Payment(r, h, k).date = k
        BY <1>2 DEF PaymentsRead
    <1>6. \A k \in 1..TermDays : \A a \in A : a.tx # ManualRow(r, h, k).id
        <2>1. \A k \in 1..TermDays : ManualRow(r, h, k).id = k
            BY DEF ManualRow
        <2>2. \A k \in 1..TermDays : \A j \in K : TermDays + j # k
            BY <1>1
        <2> QED BY <1>4, <2>1, <2>2
    <1>7. \A k \in K : \A a \in A : a.tx = PaymentRow(r, h, JobIds, k).id <=> a.date = k
        <2>1. \A k \in K : PaymentRow(r, h, JobIds, k).id = TermDays + k
            BY <1>1 DEF PaymentRow, InterestRow
        <2>2. \A j, k \in K : TermDays + j = TermDays + k <=> j = k
            BY <1>1
        <2> QED BY <1>4, <2>1, <2>2
    <1> QED BY <1>3, <1>4, <1>5, <1>6, <1>7

\* What the recalculation leaves of them, what is principal and what waits on the first day.
LEMMA StartRows ==
    ASSUME NEW r \in Terms, NEW h \in Histories, NEW n \in 0..TermDays, NEW K \in SUBSET PaymentDates(r, h, n),
           NEW from, NEW to, NEW first, NEW A, NEW base, A = PaymentsRead(r, h, K),
           base = excludeAccrualTransactions(RowsRead(r, h, K), A, r, from, to)
    PROVE  /\ PrincipalTransactionsForRuleAt(base, A, r, first) =
                Manual(r, h) \union
                {PaymentRow(r, h, JobIds, k) :
                    k \in {j \in K : ~(j >= from /\ j <= to) /\ accrualCapitalizedBy(r, j, first)}}
           /\ r.capitalization \notin {"none", "daily"} =>
                pendingCapitalizationTransactionsBefore(base, A, r, first, to) =
                {PaymentRow(r, h, JobIds, k) :
                    k \in {j \in K : LET c == capitalizationDateForAccrual(r, j)
                                     IN ~(j >= from /\ j <= to) /\ j < first /\ c # 0 /\ c >= first /\ c <= to}}
    <1> DEFINE M == {j \in 1..TermDays : h[j] # 0}
               Row(k) == PaymentRow(r, h, JobIds, k)
               Hand(k) == ManualRow(r, h, k)
               In(k) == k >= from /\ k <= to
               cap(k) == accrualCapitalizedBy(r, k, first)
               Waits(k) == LET c == capitalizationDateForAccrual(r, k)
                          IN k < first /\ c # 0 /\ c >= first /\ c <= to
    <1>1. /\ AccrualsOf(A, r) = A
          /\ \A a \in A : a.date \in K /\ a = Payment(r, h, a.date)
          /\ \A k \in K : Payment(r, h, k) \in A /\ Payment(r, h, k).date = k
          /\ \A k \in 1..TermDays : \A a \in A : a.tx # Hand(k).id
          /\ \A k \in K : \A a \in A : a.tx = Row(k).id <=> a.date = k
        BY ReadsLinked
    <1>2. Manual(r, h) = {Hand(k) : k \in M}
        BY DEF Manual, ManualRow
    <1>3. Replaced(A, r, from, to) = {a \in A : In(a.date)}
        BY <1>1 DEF Replaced
    <1>4. base = {t \in RowsRead(r, h, K) : \A a \in A : In(a.date) => a.tx # t.id}
        BY <1>3 DEF excludeAccrualTransactions
    <1>5. PrincipalTransactionsForRuleAt(base, A, r, first) = {t \in base : \A a \in A : a.tx = t.id => cap(a.date)}
        BY <1>1 DEF PrincipalTransactionsForRuleAt
    <1>6. r.capitalization \notin {"none", "daily"} =>
            pendingCapitalizationTransactionsBefore(base, A, r, first, to) =
              {t \in base : \E a \in A : a.tx = t.id /\ Waits(a.date)}
        BY <1>1 DEF pendingCapitalizationTransactionsBefore, NoDate
    <1>7. RowsRead(r, h, K) = {Hand(k) : k \in M} \union {Row(k) : k \in K}
        BY <1>2 DEF RowsRead
    <1> HIDE DEF Row, Hand, In, cap, Waits
    <1>8. base = {Hand(k) : k \in M} \union {Row(k) : k \in {j \in K : ~In(j)}}
        <2>1. ASSUME NEW k \in M PROVE \A a \in A : In(a.date) => a.tx # Hand(k).id
            BY <1>1
        <2>2. ASSUME NEW k \in K PROVE (\A a \in A : In(a.date) => a.tx # Row(k).id) <=> ~In(k)
            BY <1>1
        <2> HIDE DEF M
        <2> QED BY <1>4, <1>7, <2>1, <2>2
    <1>9. {t \in base : \A a \in A : a.tx = t.id => cap(a.date)} =
            {Hand(k) : k \in M} \union {Row(k) : k \in {j \in K : ~In(j) /\ cap(j)}}
        <2>1. ASSUME NEW k \in M PROVE \A a \in A : a.tx = Hand(k).id => cap(a.date)
            BY <1>1
        <2>2. ASSUME NEW k \in K PROVE (\A a \in A : a.tx = Row(k).id => cap(a.date)) <=> cap(k)
            BY <1>1
        <2> HIDE DEF M
        <2> QED BY <1>8, <2>1, <2>2
    <1>10. {t \in base : \E a \in A : a.tx = t.id /\ Waits(a.date)} = {Row(k) : k \in {j \in K : ~In(j) /\ Waits(j)}}
        <2>1. ASSUME NEW k \in M PROVE ~ \E a \in A : a.tx = Hand(k).id /\ Waits(a.date)
            BY <1>1
        <2>2. ASSUME NEW k \in K PROVE (\E a \in A : a.tx = Row(k).id /\ Waits(a.date)) <=> Waits(k)
            BY <1>1
        <2> HIDE DEF M
        <2> QED BY <1>8, <2>1, <2>2
    <1>11. r.capitalization \notin {"none", "daily"} =>
             pendingCapitalizationTransactionsBefore(base, A, r, first, to) = {Row(k) : k \in {j \in K : ~In(j) /\ Waits(j)}}
        BY <1>6, <1>10
    <1>12. PrincipalTransactionsForRuleAt(base, A, r, first) =
             Manual(r, h) \union {Row(k) : k \in {j \in K : ~In(j) /\ cap(j)}}
        BY <1>2, <1>5, <1>9
    <1> QED BY <1>11, <1>12 DEF Row, In, cap, Waits

\* So the loop starts with the principal and with what waits on the day before its first.
LEMMA PassStarts ==
    ASSUME NEW r, NEW h, NEW n, NEW from, NEW to, NEW first, PastRange(r, h, n, from, to, first),
           NEW K \in SUBSET PaymentDates(r, h, n), \A k \in PaymentDates(r, h, n) : k < from => k \in K
    PROVE  PassIs(PassStart(r, RowsRead(r, h, K), PaymentsRead(r, h, K), from, to, first), r, h, n, from, to, first, first - 1)
    <1> DEFINE P == PaymentDates(r, h, n)
               c(k) == capitalizationDateForAccrual(r, k)
               ids == PassIds(from)
               A == PaymentsRead(r, h, K)
               base == excludeAccrualTransactions(RowsRead(r, h, K), A, r, from, to)
               s == PassStart(r, RowsRead(r, h, K), A, from, to, first)
               C == CapitalizedUpTo(r, h, n, first - 1)
               W == WaitingAt(r, h, n, to, first, first - 1)
               CS == {j \in K : ~(j >= from /\ j <= to) /\ accrualCapitalizedBy(r, j, first)}
               WS == {j \in K : ~(j >= from /\ j <= to) /\ j < first /\ c(j) # 0 /\ c(j) >= first /\ c(j) <= to}
    <1>1. /\ r \in Terms /\ h \in Histories /\ TermDays \in Nat /\ n \in 0..TermDays
          /\ from \in Nat \ {0} /\ to \in Nat \ {0} /\ first \in Nat \ {0} /\ first <= from /\ from <= to
        BY PastRangeTyped
    <1>2. \A k \in P : k \in Nat \ {0} /\ k \in 1..TermDays /\ c(k) \in Nat /\ (c(k) # 0 => k <= c(k))
        BY <1>1, PaymentDateTyped
    <1>3. /\ s = [working |-> s.working, waiting |-> s.waiting, amount |-> s.amount, days |-> s.days,
                  rows |-> s.rows, accruals |-> s.accruals]
          /\ s.working = PrincipalTransactionsForRuleAt(base, A, r, first)
          /\ s.waiting = pendingCapitalizationTransactionsBefore(base, A, r, first, to)
          /\ s.amount = 0 /\ s.rows = {} /\ s.accruals = {}
        BY DEF PassStart
    <1>4. /\ s.working = Manual(r, h) \union {PaymentRow(r, h, JobIds, k) : k \in CS}
          /\ r.capitalization \notin {"none", "daily"} => s.waiting = {PaymentRow(r, h, JobIds, k) : k \in WS}
        BY <1>1, <1>3, StartRows
    <1>5. CS = C
        <2>1. \A k \in P : accrualCapitalizedBy(r, k, first) <=> c(k) # 0 /\ c(k) < first
            BY <1>1 DEF accrualCapitalizedBy, NoDate
        <2>2. C = {k \in P : c(k) # 0 /\ c(k) <= first - 1}
            BY DEF CapitalizedUpTo
        <2> HIDE DEF P, c, C
        <2>3. ASSUME NEW k \in P, c(k) # 0, c(k) < first PROVE k \in K /\ ~(k >= from) /\ c(k) <= first - 1
            <3>1. k < from
                BY <1>1, <1>2, <2>3
            <3>2. k \in K
                BY <2>3, <3>1 DEF P
            <3> QED BY <1>1, <1>2, <2>3, <3>1, <3>2
        <2>4. ASSUME NEW k \in P, c(k) <= first - 1 PROVE c(k) < first
            BY <1>1, <1>2, <2>4
        <2>5. K \in SUBSET P
            BY DEF P
        <2> QED BY <2>1, <2>2, <2>3, <2>4, <2>5
    <1>6. WS = W
        <2>1. W = {k \in P : k <= first - 1 /\ (c(k) = 0 \/ c(k) > first - 1) /\ (k < first => c(k) # 0 /\ c(k) <= to)}
            BY DEF WaitingAt
        <2> HIDE DEF P, c, W
        <2>2. ASSUME NEW k \in P PROVE (k < first <=> k <= first - 1) /\ (c(k) >= first <=> c(k) > first - 1)
            BY <1>1, <1>2
        <2>3. ASSUME NEW k \in P, k < first PROVE k \in K /\ ~(k >= from)
            <3>1. k < from
                BY <1>1, <1>2, <2>3
            <3>2. k \in K
                BY <2>3, <3>1 DEF P
            <3> QED BY <1>1, <1>2, <3>1, <3>2
        <2>4. K \in SUBSET P
            BY DEF P
        <2> QED BY <2>1, <2>2, <2>3, <2>4
    <1>7. C \in SUBSET (1..TermDays) /\ W \in SUBSET (1..TermDays)
        BY <1>1, PassSetsTyped
    <1>8. \A k \in C \union W : PaymentRow(r, h, JobIds, k) = PaymentRow(r, h, ids, k)
        <2>1. \A k \in C \union W : k < first
            <3>1. \A k \in C : k \in P /\ c(k) # 0 /\ c(k) <= first - 1
                BY DEF CapitalizedUpTo
            <3>2. \A k \in W : k \in P /\ k <= first - 1
                BY DEF WaitingAt
            <3> HIDE DEF C, W, P, c
            <3> QED BY <1>1, <1>2, <3>1, <3>2
        <2>2. \A k \in C \union W : k \in 1..TermDays /\ k < from
            BY <1>1, <1>7, <2>1
        <2> HIDE DEF C, W
        <2>3. \A k \in C \union W : JobIds[k] = ids[k]
            BY <2>2 DEF JobIds, PassIds
        <2> QED BY <2>3 DEF PaymentRow
    <1>9. RowsOf(r, h, ids, C, TermDays) = Manual(r, h) \union {PaymentRow(r, h, ids, k) : k \in C}
        <2>1. \A k \in 1..TermDays : k <= TermDays
            BY <1>1
        <2>2. {j \in C : j <= TermDays} = C
            BY <1>7, <2>1
        <2>3. {j \in 1..TermDays : h[j] # 0 /\ j <= TermDays} = {j \in 1..TermDays : h[j] # 0}
            BY <2>1
        <2> HIDE DEF C, ids
        <2> QED BY <2>2, <2>3 DEF RowsOf, Manual, ManualRow
    <1>10. PostedIn(r, h, n, first, first - 1) = {}
        <2> HIDE DEF P
        <2>1. \A k \in P : ~(first <= k /\ k <= first - 1)
            BY <1>1, <1>2
        <2> QED BY <2>1 DEF PostedIn, P
    <1>11. SumOver(Unpaid(r, first, first - 1), Earned(r, h), first - 1) = 0
        <2>1. Unpaid(r, first, first - 1) = {}
            <3>1. first..(first - 1) = {}
                BY <1>1
            <3> QED BY <3>1 DEF Unpaid
        <2> PICK m \in Nat : m = first - 1
            BY <1>1
        <2> DEFINE z == [k \in 1..m |-> IF k \in {} THEN Earned(r, h)[k] ELSE 0]
        <2>2. z \in [1..m -> Int] /\ \A k \in 1..m : z[k] = 0
            OBVIOUS
        <2>3. SumTo(z, m) = 0
            <3> HIDE DEF z
            <3> QED BY <2>2, SumOfZeros
        <2>4. SumOver({}, Earned(r, h), m) = 0
            BY <2>3 DEF SumOver
        <2> QED BY <2>1, <2>4
    <1> HIDE DEF s, C, W, CS, WS, ids
    <1>12. s.working = RowsOf(r, h, ids, C, TermDays)
        BY <1>4, <1>5, <1>8, <1>9
    <1>13. r.capitalization \notin {"none", "daily"} => s.waiting = {PaymentRow(r, h, ids, k) : k \in W}
        BY <1>4, <1>6, <1>8
    <1>14. s.rows = {PaymentRow(r, h, ids, k) : k \in PostedIn(r, h, n, first, first - 1)}
        BY <1>3, <1>10
    <1>15. Amounts(s.accruals) = {<<k, Due(r, h, k)>> : k \in PostedIn(r, h, n, first, first - 1)}
        BY <1>3, <1>10 DEF Amounts
    <1>16. PassIs(s, r, h, n, from, to, first, first - 1)
        BY <1>3, <1>11, <1>12, <1>13, <1>14, <1>15 DEF PassIs, C, W, ids
    <1> QED BY <1>16 DEF s

\* The payments of a range.
PaidIn(r, h, n, from, to) == {k \in PaymentDates(r, h, n) : from <= k /\ k <= to}

\* What a recalculation posts for a range of the past, whatever payments of the range and of later
\* days it finds: those of the job.
LEMMA PassEnds ==
    ASSUME NEW r, NEW h, NEW n, NEW from, NEW to, NEW first, PastRange(r, h, n, from, to, first),
           CapitalizationsPay(r, h, n),
           NEW K \in SUBSET PaymentDates(r, h, n), \A k \in PaymentDates(r, h, n) : k < from => k \in K,
           NEW s, s = Recalculate(r, RowsRead(r, h, K), PaymentsRead(r, h, K), from, to, 2 * TermDays)
    PROVE  /\ s.rows = {PaymentRow(r, h, PassIds(from), k) : k \in PaidIn(r, h, n, from, to)}
           /\ Amounts(s.accruals) = {<<k, Due(r, h, k)>> : k \in PaidIn(r, h, n, from, to)}
    <1> DEFINE B == RowsRead(r, h, K)
               A == PaymentsRead(r, h, K)
               OK(f, d) == PassIs(f[d], r, h, n, from, to, first, d)
    <1>1. /\ r \in Terms /\ h \in Histories /\ TermDays \in Nat /\ n \in 0..TermDays
          /\ from \in Nat \ {0} /\ to \in Nat \ {0} /\ first \in Nat \ {0} /\ first <= from /\ from <= to /\ first <= to
          /\ \A e \in first..to : shouldPostAccrual(r, e) => from <= e
        BY PastRangeTyped
    <1>2. first = recalculationStartDate(r, from, to)
        BY DEF PastRange
    <1>3. PICK f : /\ s = f[to]
                   /\ f[first - 1] = PassStart(r, B, A, from, to, first)
                   /\ \A d \in first..to : f[d] = RecalculateDay(f[d - 1], r, d, 2 * TermDays)
        <2> HIDE DEF B, A
        <2>1. to \in Nat /\ first \in Nat \ {0} /\ first <= to
            BY <1>1
        <2>2. \E g : /\ Recalculate(r, B, A, from, to, 2 * TermDays) = g[to]
                     /\ g[first - 1] = PassStart(r, B, A, from, to, first)
                     /\ PassOK(g[first - 1], r, first, first - 1, 2 * TermDays)
                     /\ \A d \in first..to : g[d] = RecalculateDay(g[d - 1], r, d, 2 * TermDays)
            BY <1>2, <2>1, PassDef
        <2>3. s = Recalculate(r, B, A, from, to, 2 * TermDays)
            BY DEF B, A
        <2> QED BY <2>2, <2>3
    <1>4. OK(f, first - 1)
        BY <1>3, PassStarts
    <1> DEFINE Bad == {d \in (first - 1)..to : ~OK(f, d)}
    <1>5. Bad = {}
        <2> SUFFICES ASSUME Bad # {} PROVE FALSE
            OBVIOUS
        <2>1. PICK m \in Bad : \A l \in Bad : m <= l
            <3>1. Bad \in SUBSET Nat
                BY <1>1
            <3> HIDE DEF Bad
            <3> QED BY <3>1, LeastNatural
        <2> HIDE DEF OK
        <2>2. m \in first..to /\ m \in Nat
            BY <1>1, <1>4, <2>1
        <2>3. OK(f, m - 1)
            <3>1. m - 1 \in (first - 1)..to /\ ~(m <= m - 1)
                BY <1>1, <2>2
            <3> QED BY <2>1, <3>1
        <2>4. OK(f, m)
            <3>1. f[m] = RecalculateDay(f[m - 1], r, m, 2 * TermDays)
                BY <1>3, <2>2
            <3> QED BY <2>2, <2>3, <3>1, PassDay DEF OK
        <2> QED BY <2>1, <2>4
    <1>6. PassIs(s, r, h, n, from, to, first, to)
        <2>1. to \in (first - 1)..to
            BY <1>1
        <2>2. OK(f, to)
            <3> HIDE DEF OK
            <3> QED BY <1>5, <2>1
        <2> QED BY <1>3, <2>2
    <1>7. PostedIn(r, h, n, first, to) = PaidIn(r, h, n, from, to)
        <2>1. \A k \in PaymentDates(r, h, n) : k \in Nat /\ shouldPostAccrual(r, k)
            BY <1>1, PaymentDateTyped
        <2>2. \A k \in PaymentDates(r, h, n) : first <= k /\ k <= to <=> from <= k /\ k <= to
            <3> TAKE k \in PaymentDates(r, h, n)
            <3>1. first <= k /\ k <= to => from <= k
                BY <1>1, <2>1
            <3>2. from <= k => first <= k
                BY <1>1, <2>1
            <3> QED BY <3>1, <3>2
        <2> QED BY <2>2 DEF PostedIn, PaidIn
    <1> QED BY <1>6, <1>7 DEF PassIs

\* The payments that the range replaces.
LEMMA ReplacedAmounts ==
    ASSUME NEW r, NEW h, NEW n, NEW from, NEW to
    PROVE  Amounts(Replaced(PaymentsUpTo(r, h, n), r, from, to)) = {<<k, Due(r, h, k)>> : k \in PaidIn(r, h, n, from, to)}
    <1>1. \A k : /\ Payment(r, h, k).account = r.account /\ Payment(r, h, k).rule = r.id
                 /\ Payment(r, h, k).date = k /\ Payment(r, h, k).amount = Due(r, h, k)
        BY DEF Payment, AccrualRow
    <1> PICK P : P = PaymentDates(r, h, n)
        OBVIOUS
    <1>2. Replaced(PaymentsUpTo(r, h, n), r, from, to) = {Payment(r, h, k) : k \in {j \in P : from <= j /\ j <= to}}
        <2>1. Replaced(PaymentsUpTo(r, h, n), r, from, to) =
                {a \in {Payment(r, h, k) : k \in P} : a.account = r.account /\ a.rule = r.id /\ from <= a.date /\ a.date <= to}
            BY DEF Replaced, AccrualsOf, PaymentsUpTo
        <2> QED BY <1>1, <2>1
    <1>3. {<<a.date, a.amount>> : a \in {Payment(r, h, k) : k \in {j \in P : from <= j /\ j <= to}}} =
            {<<k, Due(r, h, k)>> : k \in {j \in P : from <= j /\ j <= to}}
        BY <1>1
    <1> QED BY <1>2, <1>3 DEF Amounts, PaidIn

\* The interest of the days C, and its sum up to day e.
InterestOf(r, h, ids, C) == {PaymentRow(r, h, ids, k) : k \in C}
PartSum(r, h, C, e) == SumTo([k \in 1..e |-> Part(r, h, C, k)], e)

\* The rows of payments are as many as their days, and have their amounts.
LEMMA PaymentsBalance ==
    ASSUME NEW r \in Terms, NEW h \in Histories, NEW C \in SUBSET (1..TermDays), NEW e \in 0..TermDays,
           \A k \in C : k <= e, NEW ids
    PROVE  /\ Balance(InterestOf(r, h, ids, C)) = PartSum(r, h, C, e)
           /\ Balance(PaymentsRead(r, h, C)) = PartSum(r, h, C, e)
    <1> DEFINE F == [k \in 1..TermDays |-> PaymentRow(r, h, ids, k)]
               G == [k \in 1..TermDays |-> Payment(r, h, k)]
    <1>1. TermDays \in Nat /\ \A k \in 1..e : k \in 1..TermDays
        BY TermsAssumption
    <1>2. \A k \in 1..TermDays : /\ F[k].amount = Due(r, h, k) /\ F[k].date = k
                                 /\ G[k].amount = Due(r, h, k) /\ G[k].date = k
        BY DEF PaymentRow, InterestRow, Payment, AccrualRow
    <1>3. \A k \in 1..TermDays : Due(r, h, k) \in Int
        BY DueIsSum
    <1>4. {j \in C : j <= e} = C
        OBVIOUS
    <1>5. RowsUpTo(F, C, e) = InterestOf(r, h, ids, C) /\ RowsUpTo(G, C, e) = PaymentsRead(r, h, C)
        BY <1>4 DEF RowsUpTo, InterestOf, PaymentsRead
    <1> HIDE DEF F, G
    <1>6. Balance(RowsUpTo(F, C, e)) = AmountUpTo(F, C, e)
        <2>1. \A k \in 1..TermDays : F[k].amount \in Int
            BY <1>2, <1>3
        <2>2. \A j, k \in 1..TermDays : F[j] = F[k] => j = k
            BY <1>2
        <2> QED BY <1>1, <2>1, <2>2, KeyedBalance
    <1>7. Balance(RowsUpTo(G, C, e)) = AmountUpTo(G, C, e)
        <2>1. \A k \in 1..TermDays : G[k].amount \in Int
            BY <1>2, <1>3
        <2>2. \A j, k \in 1..TermDays : G[j] = G[k] => j = k
            BY <1>2
        <2> QED BY <1>1, <2>1, <2>2, KeyedBalance
    <1>8. \A k \in 1..e : /\ (IF k \in C THEN F[k].amount ELSE 0) = Part(r, h, C, k)
                          /\ (IF k \in C THEN G[k].amount ELSE 0) = Part(r, h, C, k)
        BY <1>1, <1>2 DEF Part
    <1>9. /\ [k \in 1..e |-> IF k \in C THEN F[k].amount ELSE 0] = [k \in 1..e |-> Part(r, h, C, k)]
          /\ [k \in 1..e |-> IF k \in C THEN G[k].amount ELSE 0] = [k \in 1..e |-> Part(r, h, C, k)]
        BY <1>8
    <1> QED BY <1>5, <1>6, <1>7, <1>9 DEF AmountUpTo, PartSum

\* Payments of different days add up.
LEMMA PartsAdd ==
    ASSUME NEW r \in Terms, NEW h \in Histories, NEW C, NEW D, NEW U, NEW e \in 0..TermDays,
           \A k : k \in U <=> k \in C \/ k \in D, \A k \in C : k \notin D
    PROVE  /\ PartSum(r, h, U, e) = PartSum(r, h, C, e) + PartSum(r, h, D, e)
           /\ PartSum(r, h, C, e) \in Int /\ PartSum(r, h, D, e) \in Int
    <1> DEFINE t == [k \in 1..e |-> Part(r, h, U, k)]
               s == [k \in 1..e |-> Part(r, h, C, k)]
               u == [k \in 1..e |-> Part(r, h, D, k)]
    <1>1. e \in Nat /\ \A k \in 1..e : k \in 1..TermDays
        BY TermsAssumption
    <1>2. \A k \in 1..e : Due(r, h, k) \in Int
        BY <1>1, DueIsSum
    <1>3. \A k \in 1..e : /\ Part(r, h, U, k) = Part(r, h, C, k) + Part(r, h, D, k)
                          /\ Part(r, h, U, k) \in Int /\ Part(r, h, C, k) \in Int /\ Part(r, h, D, k) \in Int
        BY <1>2 DEF Part
    <1>4. t \in [1..e -> Int] /\ s \in [1..e -> Int] /\ u \in [1..e -> Int] /\ \A k \in 1..e : t[k] = s[k] + u[k]
        BY <1>3
    <1> HIDE DEF t, s, u
    <1>5. SumTo(t, e) = SumTo(s, e) + SumTo(u, e) /\ SumTo(s, e) \in Int /\ SumTo(u, e) \in Int
        BY <1>1, <1>4, SumsAdd
    <1> QED BY <1>5 DEF t, s, u, PartSum

\* Nor is anything lost among three.
LEMMA ThreePartsAdd ==
    ASSUME NEW r \in Terms, NEW h \in Histories, NEW e \in 0..TermDays, NEW C, NEW W, NEW D, NEW U,
           U = (C \union W) \union D, C \intersect W = {}, (C \union W) \intersect D = {}
    PROVE  /\ PartSum(r, h, U, e) = PartSum(r, h, C, e) + PartSum(r, h, W, e) + PartSum(r, h, D, e)
           /\ PartSum(r, h, C, e) \in Int /\ PartSum(r, h, W, e) \in Int /\ PartSum(r, h, D, e) \in Int
    <1> PICK K : K = C \union W
        OBVIOUS
    <1>1. /\ PartSum(r, h, K, e) = PartSum(r, h, C, e) + PartSum(r, h, W, e)
          /\ PartSum(r, h, C, e) \in Int /\ PartSum(r, h, W, e) \in Int
        <2>1. (\A k : k \in K <=> k \in C \/ k \in W) /\ \A k \in C : k \notin W
            OBVIOUS
        <2>2. PartSum(r, h, C, e) \in Int
            BY <2>1, PartsAdd
        <2>3. PartSum(r, h, W, e) \in Int
            BY <2>1, PartsAdd
        <2>4. PartSum(r, h, K, e) = PartSum(r, h, C, e) + PartSum(r, h, W, e)
            BY <2>1, PartsAdd
        <2> QED BY <2>2, <2>3, <2>4
    <1>2. /\ PartSum(r, h, U, e) = PartSum(r, h, K, e) + PartSum(r, h, D, e)
          /\ PartSum(r, h, K, e) \in Int /\ PartSum(r, h, D, e) \in Int
        <2>1. (\A k : k \in U <=> k \in K \/ k \in D) /\ \A k \in K : k \notin D
            OBVIOUS
        <2>2. PartSum(r, h, K, e) \in Int
            BY <2>1, PartsAdd
        <2>3. PartSum(r, h, D, e) \in Int
            BY <2>1, PartsAdd
        <2>4. PartSum(r, h, U, e) = PartSum(r, h, K, e) + PartSum(r, h, D, e)
            BY <2>1, PartsAdd
        <2> QED BY <2>2, <2>3, <2>4
    <1> QED BY <1>1, <1>2

\* A forecast, from the payments before its range, of the balance after it: that of the tables, but
\* for what still waits to be capitalized.
LEMMA ForecastBalances ==
    ASSUME NEW r, NEW h, NEW n, NEW from, NEW to, NEW first, PastRange(r, h, n, from, to, first),
           CapitalizationsPay(r, h, n), NEW m, m = from - 1, NEW F,
           F = Forecast(r, BookUpTo(r, h, m), PaymentsUpTo(r, h, m), from, to - from + 1, 2 * TermDays)
    PROVE  /\ Amounts(F.accruals) = {<<k, Due(r, h, k)>> : k \in PaidIn(r, h, n, from, to)}
           /\ F.balance = Balance(transactionsUpToDate(BookUpTo(r, h, n), to))
                            - Balance({a \in PaymentsUpTo(r, h, m) : ~accrualCapitalizedBy(r, a.date, to)})
    <1> DEFINE P == PaymentDates(r, h, n)
               K == PaymentDates(r, h, m)
               D == PaidIn(r, h, n, from, to)
               C == Counted(r, h, m, to)
               W == {k \in K : ~accrualCapitalizedBy(r, k, to)}
               Q == {k \in P : k <= to}
               V(X) == PartSum(r, h, X, to)
               hand == SumOver(1..to, h, to)
    <1>1. /\ r \in Terms /\ h \in Histories /\ TermDays \in Nat /\ n \in 0..TermDays
          /\ from \in Nat \ {0} /\ to \in Nat \ {0} /\ from <= to /\ to <= n /\ n <= TermDays
        BY PastRangeTyped
    <1>2. m \in 0..TermDays /\ to \in 0..TermDays /\ m <= n /\ m \in Nat /\ n \in Nat
        BY <1>1
    <1>3. K = {k \in P : k < from} /\ P \in SUBSET (1..TermDays)
        <2>1. \A k : k \in 1..m <=> k \in 1..n /\ k < from
            BY <1>1, <1>2
        <2>2. \A k \in 1..n : k \in 1..TermDays
            BY <1>1
        <2> QED BY <2>1, <2>2 DEF PaymentDates
    <1>4. BookUpTo(r, h, m) = RowsRead(r, h, K) /\ PaymentsUpTo(r, h, m) = PaymentsRead(r, h, K)
        BY DEF BookUpTo, RowsRead, PaymentsUpTo, PaymentsRead
    <1>5. PICK s : s = Recalculate(r, BookUpTo(r, h, m), PaymentsUpTo(r, h, m), from, to, 2 * TermDays)
        OBVIOUS
    <1>6. s.rows = {PaymentRow(r, h, PassIds(from), k) : k \in D} /\ Amounts(s.accruals) = {<<k, Due(r, h, k)>> : k \in D}
        <2>1. K \in SUBSET P /\ \A k \in P : k < from => k \in K
            BY <1>3
        <2> HIDE DEF K, P, D
        <2> QED BY <1>4, <1>5, <2>1, PassEnds DEF P, D
    <1>7. PICK p : p = transactionsUpToDate(PrincipalTransactionsForRuleAt(BookUpTo(r, h, m), PaymentsUpTo(r, h, m), r, to), to)
        OBVIOUS
    <1>8. F.accruals = s.accruals /\ F.balance = Balance(p) + Balance(s.rows)
        <2>1. from + (to - from + 1) - 1 = to
            BY <1>1
        <2> QED BY <1>5, <1>7, <2>1 DEF Forecast
    <1>9. p = RowsOf(r, h, JobIds, C, to)
        BY <1>1, <1>2, <1>7, PrincipalIs
    <1>10. /\ C \in SUBSET (1..TermDays) /\ W \in SUBSET (1..TermDays) /\ D \in SUBSET (1..TermDays)
           /\ C \union W \in SUBSET (1..TermDays) /\ Q \in SUBSET (1..TermDays)
        BY <1>3 DEF Counted, PaidIn
    <1>11. C \intersect W = {} /\ C \union W = K /\ K \intersect D = {} /\ Q = K \union D
        <2>1. C = {k \in K : accrualCapitalizedBy(r, k, to)}
            BY DEF Counted
        <2>2. D = {k \in P : from <= k /\ k <= to}
            BY DEF PaidIn
        <2>3. \A k \in P : (k < from <=> ~(from <= k)) /\ (k < from => k <= to)
            BY <1>1, <1>3
        <2> HIDE DEF C, D, K, P
        <2> QED BY <1>3, <2>1, <2>2, <2>3
    <1>12. Balance(p) = hand + V(C)
        <2> HIDE DEF C
        <2> QED BY <1>1, <1>2, <1>9, <1>10, RowsBalance DEF PartSum
    <1>13. Balance(s.rows) = V(D)
        <2>1. \A k \in D : k <= to
            BY DEF PaidIn
        <2>2. s.rows = InterestOf(r, h, PassIds(from), D)
            BY <1>6 DEF InterestOf
        <2> HIDE DEF D
        <2>3. r \in Terms /\ h \in Histories /\ to \in 0..TermDays /\ D \in SUBSET (1..TermDays)
            BY <1>1, <1>2, <1>10
        <2>4. Balance(InterestOf(r, h, PassIds(from), D)) = PartSum(r, h, D, to)
            BY <2>1, <2>3, PaymentsBalance
        <2> QED BY <2>2, <2>4
    <1>14. Balance({a \in PaymentsUpTo(r, h, m) : ~accrualCapitalizedBy(r, a.date, to)}) = V(W)
        <2>1. \A k : Payment(r, h, k).date = k
            BY DEF Payment, AccrualRow
        <2>2. PaymentsUpTo(r, h, m) = {Payment(r, h, k) : k \in K}
            BY DEF PaymentsUpTo
        <2>3. {a \in PaymentsUpTo(r, h, m) : ~accrualCapitalizedBy(r, a.date, to)} = PaymentsRead(r, h, W)
            <3> HIDE DEF K
            <3> QED BY <2>1, <2>2 DEF PaymentsRead
        <2>4. \A k \in W : k <= to
            <3>1. \A k \in W : k \in 1..TermDays /\ k < from
                BY <1>3
            <3> HIDE DEF W
            <3> QED BY <1>1, <3>1
        <2> HIDE DEF W
        <2>5. r \in Terms /\ h \in Histories /\ to \in 0..TermDays /\ W \in SUBSET (1..TermDays)
            BY <1>1, <1>2, <1>10
        <2>6. /\ Balance(InterestOf(r, h, JobIds, W)) = PartSum(r, h, W, to)
              /\ Balance(PaymentsRead(r, h, W)) = PartSum(r, h, W, to)
            BY <2>4, <2>5, PaymentsBalance
        <2> QED BY <2>3, <2>6
    <1>15. Balance(transactionsUpToDate(BookUpTo(r, h, n), to)) = hand + V(Q)
        <2> DEFINE M == {j \in 1..TermDays : h[j] # 0}
        <2>1. BookUpTo(r, h, n) = {ManualRow(r, h, k) : k \in M} \union {PaymentRow(r, h, JobIds, k) : k \in P}
            BY DEF BookUpTo, Manual, ManualRow
        <2>2. \A k : ManualRow(r, h, k).date = k /\ PaymentRow(r, h, JobIds, k).date = k
            BY DEF ManualRow, PaymentRow, InterestRow
        <2>3. RowsOf(r, h, JobIds, Q, to) =
                {ManualRow(r, h, k) : k \in {j \in M : j <= to}} \union {PaymentRow(r, h, JobIds, k) : k \in Q}
            <3>1. {j \in 1..TermDays : h[j] # 0 /\ j <= to} = {j \in M : j <= to} /\ {j \in Q : j <= to} = Q
                OBVIOUS
            <3> HIDE DEF Q, M
            <3> QED BY <3>1 DEF RowsOf
        <2>4. transactionsUpToDate(BookUpTo(r, h, n), to) = RowsOf(r, h, JobIds, Q, to)
            <3> HIDE DEF P, M
            <3> QED BY <2>1, <2>2, <2>3 DEF transactionsUpToDate
        <2> HIDE DEF Q
        <2> QED BY <1>1, <1>2, <1>10, <2>4, RowsBalance DEF PartSum
    <1> HIDE DEF C, W, D, K, P, Q
    <1>16. V(Q) = V(C) + V(W) + V(D) /\ V(C) \in Int /\ V(W) \in Int /\ V(D) \in Int
        <2>1. Q = (C \union W) \union D /\ C \intersect W = {} /\ (C \union W) \intersect D = {}
            BY <1>11
        <2>2. r \in Terms /\ h \in Histories /\ to \in 0..TermDays
            BY <1>1, <1>2
        <2> QED BY <2>1, <2>2, ThreePartsAdd
    <1>18. hand \in Int
        <2>1. \A k \in 1..to : h[k] \in Int
            <3>1. \A k \in 1..to : k \in 1..TermDays
                BY <1>1
            <3> QED BY <1>1, <3>1, HistoryTyped
        <2> QED BY <1>1, <2>1, SumOverTyped
    <1> HIDE DEF V, hand
    <1>19. (hand + V(C)) + V(D) = (hand + V(Q)) - V(W)
        BY <1>16, <1>18
    <1> QED BY <1>6, <1>8, <1>12, <1>13, <1>14, <1>15, <1>19 DEF D

\* When every capitalization comes with a payment, a recalculation of any part of the past posts
\* what the job has posted, and a forecast made before it had foretold it, with its balance: the
\* loop over days, which carries the principal and what waits from day to day, and Accrue, which
\* reads them from the tables, agree for every rule, history, calendar and range.
THEOREM RecalculationsConfirm == TermSpec => []RecalculationConfirms
    <1>1. TermInv => RecalculationConfirms
        <2> SUFFICES ASSUME TermInv, EveryCapitalizationPays,
                            NEW to \in 1..lastRun, NEW from \in 1..to
                     PROVE  LET known == {a \in payments : a.date < from}
                                visible == {t \in book : t.date < from \/ t.source = "manual"}
                                forecast == Forecast(term, visible, known, from, to - from + 1, 2 * TermDays)
                                waiting == {a \in known : ~accrualCapitalizedBy(term, a.date, to)}
                            IN /\ Amounts(Recalculate(term, book, payments, from, to, 2 * TermDays).accruals)
                                    = Amounts(Replaced(payments, term, from, to))
                               /\ Amounts(forecast.accruals) = Amounts(Replaced(payments, term, from, to))
                               /\ forecast.balance = Balance(transactionsUpToDate(book, to))
                                                       - MapThenSumSet(LAMBDA a : a.amount, waiting)
            BY DEF RecalculationConfirms
        <2>1. PICK r \in Terms : r = term
            BY TermInvIs
        <2>2. PICK h \in Histories : h = history
            BY TermInvIs
        <2>3. PICK n \in 0..TermDays : n = lastRun
            BY TermInvIs
        <2>4. payments = PaymentsUpTo(r, h, n) /\ book = BookUpTo(r, h, n)
            BY <2>1, <2>2, <2>3, TermInvIs
        <2>5. TermDays \in Nat /\ n \in Nat /\ to \in Nat \ {0} /\ from \in Nat \ {0} /\ from <= to /\ to <= n
            BY <2>3, TermsAssumption
        <2>6. PICK first : first = recalculationStartDate(r, from, to)
            OBVIOUS
        <2>7. PastRange(r, h, n, from, to, first)
            BY <2>3, <2>6 DEF PastRange
        <2>8. \A k : /\ Payment(r, h, k).account = r.account /\ Payment(r, h, k).rule = r.id
                     /\ Payment(r, h, k).date = k
            BY DEF Payment, AccrualRow
        <2> PICK P : P = PaymentDates(r, h, n)
            OBVIOUS
        <2>9. payments = {Payment(r, h, k) : k \in P} /\ \A k \in P : k \in 1..n /\ k \in Nat
            BY <2>4, <2>5 DEF PaymentsUpTo, PaymentDates
        <2>10. CapitalizationsPay(r, h, n)
            <3>1. ASSUME NEW k \in P, NEW c, c = capitalizationDateForAccrual(r, k), c # 0, c <= n
                  PROVE  c \in P
                <4>1. Payment(r, h, k) \in payments
                    BY <2>9
                <4>2. hasInterestAccrual(payments, r, c)
                    BY <2>1, <2>3, <2>8, <3>1, <4>1 DEF EveryCapitalizationPays, NoDate
                <4>3. PICK a \in payments : a.date = c
                    BY <4>2 DEF hasInterestAccrual, AccrualsOf
                <4> QED BY <2>8, <2>9, <4>3
            <3> QED BY <3>1 DEF CapitalizationsPay
        <2>11. PICK m : m = from - 1
            OBVIOUS
        <2>12. PaymentDates(r, h, m) = {k \in P : k < from}
            <3>1. \A k : k \in 1..m <=> k \in 1..n /\ k < from
                BY <2>5, <2>11
            <3> QED BY <3>1 DEF PaymentDates
        <2>13. {a \in payments : a.date < from} = PaymentsUpTo(r, h, m)
            BY <2>8, <2>9, <2>12 DEF PaymentsUpTo
        <2>14. {t \in book : t.date < from \/ t.source = "manual"} = BookUpTo(r, h, m)
            <3>1. \A t \in Manual(r, h) : t.source = "manual"
                BY DEF Manual
            <3>2. \A k : PaymentRow(r, h, JobIds, k).date = k /\ PaymentRow(r, h, JobIds, k).source = "interest"
                BY DEF PaymentRow, InterestRow
            <3>3. book = Manual(r, h) \union {PaymentRow(r, h, JobIds, k) : k \in P}
                BY <2>4 DEF BookUpTo
            <3>4. BookUpTo(r, h, m) = Manual(r, h) \union {PaymentRow(r, h, JobIds, k) : k \in {j \in P : j < from}}
                BY <2>12 DEF BookUpTo
            <3> QED BY <3>1, <3>2, <3>3, <3>4
        <2>15. Amounts(Replaced(payments, r, from, to)) = {<<k, Due(r, h, k)>> : k \in PaidIn(r, h, n, from, to)}
            BY <2>4, ReplacedAmounts
        <2>16. Amounts(Recalculate(r, book, payments, from, to, 2 * TermDays).accruals) =
                 {<<k, Due(r, h, k)>> : k \in PaidIn(r, h, n, from, to)}
            <3>1. book = RowsRead(r, h, P) /\ payments = PaymentsRead(r, h, P)
                BY <2>4 DEF BookUpTo, PaymentsUpTo, RowsRead, PaymentsRead
            <3>2. P \in SUBSET PaymentDates(r, h, n) /\ \A k \in PaymentDates(r, h, n) : k < from => k \in P
                OBVIOUS
            <3> QED BY <2>7, <2>10, <3>1, <3>2, PassEnds
        <2>17. PICK F : F = Forecast(r, BookUpTo(r, h, m), PaymentsUpTo(r, h, m), from, to - from + 1, 2 * TermDays)
            OBVIOUS
        <2>18. /\ Amounts(F.accruals) = {<<k, Due(r, h, k)>> : k \in PaidIn(r, h, n, from, to)}
               /\ F.balance = Balance(transactionsUpToDate(BookUpTo(r, h, n), to))
                                - Balance({a \in PaymentsUpTo(r, h, m) : ~accrualCapitalizedBy(r, a.date, to)})
            BY <2>7, <2>10, <2>11, <2>17, ForecastBalances
        <2>19. \A X : MapThenSumSet(LAMBDA a : a.amount, X) = Balance(X)
            BY DEF Balance
        <2> QED BY <2>1, <2>4, <2>13, <2>14, <2>15, <2>16, <2>17, <2>18, <2>19
    <1> QED BY <1>1, TermInvHolds, PTL
=============================================================================
