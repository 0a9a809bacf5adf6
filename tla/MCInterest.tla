----------------------------- MODULE MCInterest -----------------------------
(* A small instance of Interest and of InterestTerm, which know the same months: a behaviour *)
(* is about one of them.  A month has two days.                                             *)
EXTENDS Interest, InterestTerm, TLC

VARIABLE scenario \* "requests" (Interest) or "term" (InterestTerm)

-----------------------------------------------------------------------------
(* The requests of Interest.  The rate doubles a balance in a day, so that compounding shows *)
(* with small amounts.                                                                      *)

MCRule(i, a, accrual, capitalization, start, end) ==
    [id |-> i, account |-> a, rate |-> 365 * 10000, promoRate |-> 0, promoEnd |-> NoDate,
     accrual |-> accrual, capitalization |-> capitalization, dayCount |-> "actual_365",
     active |-> TRUE, start |-> start, end |-> end, version |-> 0]

\* Account 1: a monthly rule up to day 3, a daily one on day 4, and an id for another rule.
\* Account 2: a daily rule without an end.
MCRules ==
    [i \in RuleId |-> CASE i = 1 -> MCRule(1, 1, "monthly", "monthly", 1, 3)
                       [] i = 2 -> MCRule(2, 1, "daily", "daily", 4, 4)
                       [] i = 3 -> MCRule(3, 2, "daily", "daily", 1, NoDate)
                       [] OTHER -> Nobody]

MCOpening == [a \in Account |-> a]

PostOn(a, d, amount) == [kind |-> "post", account |-> a, date |-> d, amount |-> amount]
AccrueOn(a, i, d) == [kind |-> "accrue", account |-> a, rule |-> i, date |-> d]
RecalculateOn(a, i, from, to) ==
    [kind |-> "recalculate", account |-> a, rule |-> i, from |-> from, to |-> to]
CliAccrue(a, i) == [kind |-> "cli_accrue", account |-> a, rule |-> i]
CliRecalculate(a, i, from, to) ==
    [kind |-> "cli_recalculate", account |-> a, rule |-> i, from |-> from, to |-> to]
Job(f) == [kind |-> "job", frequency |-> f]
CreateOf(row) == [kind |-> "create_rule", row |-> row]
UpdateOf(row, set) == [kind |-> "update_rule", row |-> row, set |-> set]
WithdrawFrom(a) == [kind |-> "withdraw", account |-> a]
ArchiveOf(a) == [kind |-> "archive", account |-> a]

\* The API, commands, jobs and rule maintenance.
InterestRequests ==
    LET r == MCRule(1, 1, "monthly", "monthly", 1, 3)
    IN {PostOn(1, 2, 1), WithdrawFrom(1), ArchiveOf(2), Job("daily"), Job("monthly"),
        AccrueOn(1, Nobody, NoDate), AccrueOn(1, 1, 3), AccrueOn(1, 2, 4), AccrueOn(1, 4, NoDate),
        RecalculateOn(1, 1, 2, 4), RecalculateOn(1, 1, 3, 2),
        CliAccrue(1, 1), CliAccrue(1, 4), CliRecalculate(1, 1, NoDate, 4),
        UpdateOf([r EXCEPT !.rate = 2], {"rate"}), UpdateOf([r EXCEPT !.active = FALSE], {"active"}),
        CreateOf(MCRule(4, 1, "daily", "none", 5, NoDate))}

-----------------------------------------------------------------------------
(* All kinds of rules on five days, with postings on the first four.  A balance earns half of it *)
(* a day, so that odd balances are rounded.                                                      *)

MCTerms ==
    {[id |-> 1, account |-> 1, rate |-> 365 * 5000, promoRate |-> p, promoEnd |-> IF p = 0 THEN NoDate ELSE 3,
      accrual |-> a, capitalization |-> c, dayCount |-> "actual_365", active |-> TRUE,
      start |-> s, end |-> e, version |-> 0] :
        p \in {0, 365 * 10000}, a \in AccrualFrequency, c \in CapitalizationFrequency,
        s \in {1, 2}, e \in {NoDate, 3, TermDays}}

MCHistories == {h \in [1..TermDays -> {-3, 0, 3}] : h[TermDays] = 0}

-----------------------------------------------------------------------------
\* Where only requests are served, the term is one that nothing happens to.
NoTerm ==
    /\ term = CHOOSE r \in Terms : TRUE
    /\ history = [d \in 1..TermDays |-> 0]
    /\ lastRun = 0 /\ payments = {} /\ book = {}

MCInit ==
    /\ Init
    /\ \/ scenario = "term" /\ TermInit
       \/ scenario = "requests" /\ NoTerm

MCNext ==
    \/ scenario = "term" /\ RunJob /\ UNCHANGED <<vars, scenario>>
    \/ scenario = "requests" /\ Next /\ UNCHANGED <<termVars, scenario>>

MCSpec == MCInit /\ [][MCNext]_<<vars, termVars, scenario>> /\ Fairness
=============================================================================
