------------------------------ MODULE Interest ------------------------------
(***************************************************************************)
(* Interest rules and accruals under concurrent use.  The HTTP API and the *)
(* jobs post interest through InterestLifecycle, which locks the account   *)
(* row, reads the rule, the transactions and the accruals by statements of *)
(* one READ COMMITTED transaction, calculates and writes.  The commands of *)
(* the CLI read without a lock and lock only to write.  Rules change under *)
(* a version check and without the account's lock.  Jobs run one at a time *)
(* by name and visit their accounts one after the other.                   *)
(***************************************************************************)
EXTENDS InterestEngine, Sequences

CONSTANTS
    Proc,          \* requests, commands and job runs at the same time
    Account,       \* accounts
    RuleId,        \* interest rules
    InitialRules,  \* the rules that exist at the start
    Opening,       \* the balance of each account at the start, posted on day 1
    Offered,       \* what clients, operators and the scheduler ask for
    LastDay,       \* bound: the last day the clock reaches
    MaxAmount,     \* bound: the largest amount of a manual transaction
    MaxRequests,   \* bound: how many requests are started in a behaviour
    Nobody         \* no process, no rule, no request

Entry == [id : Nat, account : Account, date : Nat, amount : Int, source : {"manual", "interest"}]

Accrual == [account : Account, rule : RuleId, date : Nat, amount : Nat, tx : Nat, days : SUBSET Nat]

Rule ==
    [id : RuleId, account : Account, rate : Nat \ {0}, promoRate : Nat, promoEnd : Nat,
     accrual : AccrualFrequency, capitalization : CapitalizationFrequency,
     dayCount : DayCountConvention, active : BOOLEAN, start : Nat \ {0}, end : Nat, version : Nat]

ASSUME RulesAssumption ==
    /\ InitialRules \in [RuleId -> Rule \union {Nobody}] /\ Nobody \notin Rule
    /\ Account \subseteq Nat \ {0} /\ Opening \in [Account -> Nat]
    /\ LastDay \in Nat /\ MaxAmount \in Nat /\ MaxRequests \in Nat
    /\ \A i \in RuleId : InitialRules[i] # Nobody => InitialRules[i].id = i
    /\ Nobody \notin Proc

\* A request for interest names an account and a range; one that changes a rule names columns of
\* its own, and the id, the account and the version are not among them.
ASSUME OfferedAssumption ==
    \A r \in Offered :
        /\ r.kind \in {"accrue", "recalculate", "cli_accrue", "cli_recalculate", "post", "withdraw", "archive"} =>
             r.account \in Account
        /\ r.kind = "accrue" => r.date \in Nat
        /\ r.kind \in {"recalculate", "cli_recalculate"} => r.from \in Nat /\ r.to \in Nat
        /\ r.kind \in {"create_rule", "update_rule"} => r.row \in Rule
        /\ r.kind = "update_rule" => r.set \intersect {"id", "account", "version"} = {}

VARIABLES
    today,      \* the day the clock shows
    active,     \* accounts.is_active
    entries,    \* table transactions: the rows that affect balances
    accruals,   \* table interest_accruals
    rules,      \* table interest_rules
    lastId,     \* the last transaction id given out
    pc, req,    \* the stage of a process and what it was asked for
    target,     \* the account, rule and dates it works on
    todo,       \* job: the targets left
    tally,      \* job: targets scanned, posted, skipped and failed
    snap,       \* the rule, transactions and accruals it has read
    rowLock,    \* the holder of each account row's FOR UPDATE lock
    jobLock,    \* the holder of each job's advisory lock
    started     \* requests so far

tables == <<active, entries, accruals, rules, lastId>>
control == <<pc, req, target, todo, tally, snap>>
vars == <<today, active, entries, accruals, rules, lastId, pc, req, target, todo, tally, snap,
          rowLock, jobLock, started>>

-----------------------------------------------------------------------------
(* Starting and finishing. *)

NoSnap == [rule |-> Nobody, entries |-> {}, accruals |-> {}]
NoTally == [scanned |-> 0, posted |-> 0, skipped |-> 0, failed |-> 0]

Idle(p) == pc[p] = "idle" /\ started < MaxRequests

Start(p, r, stage, t) ==
    /\ pc' = [pc EXCEPT ![p] = stage]
    /\ req' = [req EXCEPT ![p] = r]
    /\ target' = [target EXCEPT ![p] = t]
    /\ started' = started + 1
    /\ UNCHANGED <<today, todo, tally, snap, rowLock>>

Goto(p, stage) ==
    /\ pc' = [pc EXCEPT ![p] = stage]
    /\ UNCHANGED <<today, req, target, todo, tally, rowLock, jobLock, started>>
    /\ UNCHANGED tables

Unlocked(p) == [a \in Account |-> IF rowLock[a] = p THEN Nobody ELSE rowLock[a]]

\* COMMIT or ROLLBACK of the current operation; a job goes on to its next target.
Return(p, outcome) ==
    /\ rowLock' = Unlocked(p)
    /\ snap' = [snap EXCEPT ![p] = NoSnap]
    /\ target' = [target EXCEPT ![p] = Nobody]
    /\ IF req[p].kind = "job"
       THEN /\ pc' = [pc EXCEPT ![p] = "next"]
            /\ tally' = [tally EXCEPT ![p][outcome] = @ + 1]
            /\ UNCHANGED req
       ELSE /\ pc' = [pc EXCEPT ![p] = "idle"]
            /\ req' = [req EXCEPT ![p] = Nobody]
            /\ UNCHANGED tally
    /\ UNCHANGED <<today, todo, jobLock, started>>

\* A validation error; a job counts its target as skipped.
Refuse(p) == Return(p, "skipped") /\ UNCHANGED tables

\* Any other error.
Fail(p) == Return(p, "failed") /\ UNCHANGED tables

-----------------------------------------------------------------------------
(* InterestLifecycle: one account, under its lock. *)

IsAccrual(t) == t.op = "accrue"

\* accrueInterest and recalculateInterest: missing dates are today.
Submit(p, r) ==
    /\ Idle(p) /\ r.kind \in {"accrue", "recalculate"}
    /\ LET or(d) == IF d = NoDate THEN today ELSE d
       IN Start(p, r, "lock",
                IF r.kind = "accrue"
                THEN [op |-> "accrue", account |-> r.account, rule |-> r.rule, date |-> or(r.date)]
                ELSE [op |-> "recalculate", account |-> r.account, rule |-> r.rule,
                      date |-> or(r.to), from |-> r.from, to |-> or(r.to)])
    /\ UNCHANGED jobLock
    /\ UNCHANGED tables

\* Mutant: the snapshot is read without a lock.
LockAccountNot(p) ==
    /\ pc[p] = "lock" /\ rowLock[target[p].account] = Nobody /\ active[target[p].account]
    /\ Goto(p, "select") /\ UNCHANGED snap

\* lockAccountForUser: SELECT ... FOR UPDATE, then the is_active check.
LockAccount(p) ==
    /\ pc[p] = "lock" /\ rowLock[target[p].account] = Nobody /\ active[target[p].account]
    /\ rowLock' = [rowLock EXCEPT ![target[p].account] = p]
    /\ pc' = [pc EXCEPT ![p] = "select"]
    /\ UNCHANGED <<today, req, target, todo, tally, snap, jobLock, started>>
    /\ UNCHANGED tables

RefuseArchived(p) ==
    /\ pc[p] = "lock" /\ rowLock[target[p].account] = Nobody /\ ~active[target[p].account]
    /\ Fail(p)

RulesOf(a) == {rules[i] : i \in {j \in RuleId : rules[j] # Nobody /\ rules[j].account = a}}

ActiveRulesOn(a, d) == {r \in RulesOf(a) : r.active /\ ruleActiveOn(r, d)}

\* The rule a target selects, as a set of at most one: by id, or the latest active one.
selectInterestRule(t, requireActive) ==
    IF t.rule # Nobody
    THEN {r \in RulesOf(t.account) : /\ r.id = t.rule
                                     /\ requireActive => r.active /\ ruleActiveOn(r, t.date)}
    ELSE {r \in ActiveRulesOn(t.account, t.date) :
             \A q \in ActiveRulesOn(t.account, t.date) : q.start <= r.start}

SelectRule(p) ==
    /\ pc[p] = "select"
    /\ \E r \in selectInterestRule(target[p], IsAccrual(target[p])) :
         snap' = [snap EXCEPT ![p].rule = r]
    /\ Goto(p, "load")

\* An unknown rule is an error, an inactive one a validation error.
RefuseRule(p) ==
    /\ pc[p] = "select"
    /\ selectInterestRule(target[p], IsAccrual(target[p])) = {}
    /\ IF selectInterestRule(target[p], FALSE) = {} THEN Fail(p) ELSE Refuse(p)

EntriesOf(a) == {t \in entries : t.account = a}
AccrualsIn(a) == {x \in accruals : x.account = a}

LoadSnapshot(p) ==
    /\ pc[p] = "load"
    /\ snap' = [snap EXCEPT ![p].entries = EntriesOf(target[p].account),
                            ![p].accruals = AccrualsIn(target[p].account)]
    /\ Goto(p, "write")

-----------------------------------------------------------------------------
(* What is calculated from a snapshot, and how it is written. *)

\* Lifecycle.Accrue passes the principal up to the date, and its balance.
LifecycleAccrual(s, d) ==
    LET principal == PrincipalTransactionsForRuleAt(transactionsUpToDate(s.entries, d),
                                                    s.accruals, s.rule, d)
    IN Accrue(s.rule, principal, s.accruals, Balance(principal), d)

\* The command passes all transactions (the principal if nothing is capitalized), and the
\* whole balance of the date.
CommandAccrual(s, d) ==
    LET txs == IF s.rule.capitalization = "none"
               THEN PrincipalTransactionsForRuleAt(s.entries, s.accruals, s.rule, NoDate)
               ELSE s.entries
    IN Accrue(s.rule, txs, s.accruals, Balance(transactionsUpToDate(s.entries, d)), d)

IsCommand(p) == req[p].kind \in {"cli_accrue", "cli_recalculate"}

Calculated(p) ==
    IF IsCommand(p) THEN CommandAccrual(snap[p], target[p].date)
                    ELSE LifecycleAccrual(snap[p], target[p].date)

\* The transaction that writes: the lifecycle holds the lock, a command waits for it.
MayWrite(p) ==
    /\ pc[p] = "write"
    /\ rowLock[target[p].account] = IF IsCommand(p) THEN Nobody ELSE p

\* UNIQUE (account_id, accrual_date, rule_id)
Conflict(rule, d) == \E a \in accruals : a.account = rule.account /\ a.rule = rule.id /\ a.date = d

\* Mutant: the interest is posted and its accrual is not.
InsertUnlinked(rule, d, amount, days) ==
    /\ entries' = entries \union {InterestRow(rule, d, amount, lastId)}
    /\ lastId' = lastId + d
    /\ UNCHANGED <<accruals, active, rules>>

\* CreateInterestAccrualWithTransaction: both rows or none.
InsertAccrual(rule, d, amount, days) ==
    /\ entries' = entries \union {InterestRow(rule, d, amount, lastId)}
    /\ accruals' = accruals \union {AccrualRow(rule, d, amount, days, lastId)}
    /\ lastId' = lastId + d
    /\ UNCHANGED <<active, rules>>

PostAccrual(p) ==
    LET rule == snap[p].rule
        d == target[p].date
        result == Calculated(p)
    IN /\ MayWrite(p) /\ IsAccrual(target[p])
       /\ result.status = "posted" /\ ~Conflict(rule, d)
       /\ InsertAccrual(rule, d, result.amount, result.days)
       /\ Return(p, "posted")

\* Skipped by the engine or by the unique key, or rejected: nothing is written.
SkipAccrual(p) ==
    /\ MayWrite(p) /\ IsAccrual(target[p])
    /\ Calculated(p).status # "posted" \/ Conflict(snap[p].rule, target[p].date)
    /\ Refuse(p)

\* ReplaceInterestAccrualRangeWithTransactions: delete by date, then insert.
ReplaceRange(rule, from, to, new) ==
    LET old == Replaced(accruals, rule, from, to)
    IN /\ entries' = {t \in entries : \A a \in old : a.tx # t.id} \union new.rows
       /\ accruals' = (accruals \ old) \union new.accruals
       /\ lastId' = lastId + to
       /\ UNCHANGED <<active, rules>>

\* A range without a first day starts with the rule.
FromDate(p) == IF target[p].from = NoDate THEN snap[p].rule.start ELSE target[p].from

PostRecalculation(p) ==
    LET rule == snap[p].rule
        to == target[p].to
    IN /\ MayWrite(p) /\ ~IsAccrual(target[p])
       /\ FromDate(p) <= to
       /\ ReplaceRange(rule, FromDate(p), to,
                       Recalculate(rule, snap[p].entries, snap[p].accruals, FromDate(p), to, lastId))
       /\ Return(p, "posted")

RefuseRecalculation(p) ==
    /\ MayWrite(p) /\ ~IsAccrual(target[p]) /\ FromDate(p) > target[p].to
    /\ Refuse(p)

-----------------------------------------------------------------------------
(* Commands of the CLI: three reads without a lock. *)

SubmitCommand(p, r) ==
    /\ Idle(p) /\ r.kind \in {"cli_accrue", "cli_recalculate"}
    /\ Start(p, r, "read_rule",
             IF r.kind = "cli_accrue"
             THEN [op |-> "accrue", account |-> r.account, rule |-> r.rule, date |-> today]
             ELSE [op |-> "recalculate", account |-> r.account, rule |-> r.rule, date |-> today,
                   from |-> r.from, to |-> IF r.to = NoDate THEN today ELSE r.to])
    /\ UNCHANGED jobLock
    /\ UNCHANGED tables

ReadRule(p) ==
    /\ pc[p] = "read_rule"
    /\ \/ /\ \E r \in selectInterestRule(target[p], FALSE) : snap' = [snap EXCEPT ![p].rule = r]
          /\ Goto(p, "read_entries")
       \/ selectInterestRule(target[p], FALSE) = {} /\ Fail(p)

ReadEntries(p) ==
    /\ pc[p] = "read_entries"
    /\ snap' = [snap EXCEPT ![p].entries = EntriesOf(target[p].account)]
    /\ Goto(p, "read_accruals")

ReadAccruals(p) ==
    /\ pc[p] = "read_accruals"
    /\ snap' = [snap EXCEPT ![p].accruals = AccrualsIn(target[p].account)]
    /\ Goto(p, "write")

-----------------------------------------------------------------------------
(* Jobs. *)

\* pg_try_advisory_xact_lock by job name; a second run exits "already running".
StartJob(p, r) ==
    /\ Idle(p) /\ r.kind = "job"
    /\ IF jobLock[r.frequency] = Nobody
       THEN /\ jobLock' = [jobLock EXCEPT ![r.frequency] = p]
            /\ Start(p, r, "list", [date |-> today])
       ELSE /\ started' = started + 1
            /\ UNCHANGED <<today, rowLock, jobLock>>
            /\ UNCHANGED control
    /\ UNCHANGED tables

\* ListActiveForAccrual, then the latest rule of every account.
JobTargets(frequency, d) ==
    LET due(a) == {r \in ActiveRulesOn(a, d) : r.accrual = frequency}
    IN {r \in UNION {due(a) : a \in {b \in Account : active[b]}} :
           \A q \in due(r.account) : q.start <= r.start}

\* The run's date is fixed here; target keeps it until the first target replaces it.
ListTargets(p) ==
    LET found == JobTargets(req[p].frequency, target[p].date)
    IN /\ pc[p] = "list"
       /\ todo' = [todo EXCEPT ![p] = {[rule |-> r, date |-> target[p].date] : r \in found}]
       /\ tally' = [tally EXCEPT ![p].scanned = Cardinality(found)]
       /\ pc' = [pc EXCEPT ![p] = "next"]
       /\ target' = [target EXCEPT ![p] = Nobody]
       /\ UNCHANGED <<today, req, snap, rowLock, jobLock, started>>
       /\ UNCHANGED tables

\* Mutant: a target that is not payable is never taken off the list.
NextTargetAgain(p, t) ==
    /\ pc[p] = "next"
    /\ todo' = IF shouldPostAccrual(t.rule, t.date) THEN [todo EXCEPT ![p] = @ \ {t}] ELSE todo
    /\ IF shouldPostAccrual(t.rule, t.date)
       THEN /\ target' = [target EXCEPT ![p] = [op |-> "accrue", account |-> t.rule.account,
                                                rule |-> t.rule.id, date |-> t.date]]
            /\ pc' = [pc EXCEPT ![p] = "lock"]
            /\ UNCHANGED tally
       ELSE /\ tally' = [tally EXCEPT ![p].skipped = 1]
            /\ UNCHANGED <<target, pc>>
    /\ UNCHANGED <<today, req, snap, rowLock, jobLock, started>>
    /\ UNCHANGED tables

\* The next target, in any order; one that is not payable on the date is skipped.
NextTarget(p, t) ==
    /\ pc[p] = "next"
    /\ todo' = [todo EXCEPT ![p] = @ \ {t}]
    /\ IF shouldPostAccrual(t.rule, t.date)
       THEN /\ target' = [target EXCEPT ![p] = [op |-> "accrue", account |-> t.rule.account,
                                                rule |-> t.rule.id, date |-> t.date]]
            /\ pc' = [pc EXCEPT ![p] = "lock"]
            /\ UNCHANGED tally
       ELSE /\ tally' = [tally EXCEPT ![p].skipped = @ + 1]
            /\ UNCHANGED <<target, pc>>
    /\ UNCHANGED <<today, req, snap, rowLock, jobLock, started>>
    /\ UNCHANGED tables

\* Back to no job: the advisory lock ends with its transaction.
Leave(p) ==
    /\ pc' = [pc EXCEPT ![p] = "idle"]
    /\ req' = [req EXCEPT ![p] = Nobody]
    /\ target' = [target EXCEPT ![p] = Nobody]
    /\ todo' = [todo EXCEPT ![p] = {}]
    /\ tally' = [tally EXCEPT ![p] = NoTally]
    /\ snap' = [snap EXCEPT ![p] = NoSnap]
    /\ rowLock' = Unlocked(p)
    /\ jobLock' = [f \in AccrualFrequency |-> IF jobLock[f] = p THEN Nobody ELSE jobLock[f]]
    /\ UNCHANGED <<today, started>>
    /\ UNCHANGED tables

FinishJob(p) == pc[p] = "next" /\ todo[p] = {} /\ Leave(p)

-----------------------------------------------------------------------------
(* Rules. *)

Overlap(r, q) ==
    /\ r.account = q.account /\ r.active /\ q.active
    /\ r.end # NoDate => q.start <= r.end
    /\ q.end # NoDate => r.start <= q.end

\* EXCLUDE (account_id WITH =, daterange(start_date, end_date) WITH &&) WHERE (is_active)
OverlapsAnother(r) == \E i \in RuleId \ {r.id} : rules[i] # Nobody /\ Overlap(r, rules[i])

validateInterestRuleConfiguration(r) ==
    /\ r.rate > 0
    /\ (r.promoRate = 0) = (r.promoEnd = NoDate)
    /\ r.end # NoDate => r.end >= r.start
    /\ r.promoEnd # NoDate => r.promoEnd >= r.start

CreateRule(p, r) ==
    /\ Idle(p) /\ r.kind = "create_rule" /\ rules[r.row.id] = Nobody
    /\ LET new == [r.row EXCEPT !.active = TRUE, !.version = 0]
       IN /\ validateInterestRuleConfiguration(new) /\ ~OverlapsAnother(new)
          /\ rules' = [rules EXCEPT ![new.id] = new]
    /\ started' = started + 1
    /\ UNCHANGED <<today, active, entries, accruals, lastId, rowLock, jobLock>>
    /\ UNCHANGED control

\* The columns in set come from the request, the others from the row read; to clear one
\* column of the promo rate is to clear both.
Patch(row, set, new) ==
    LET merged == [c \in DOMAIN row |-> IF c \in set THEN new[c] ELSE row[c]]
    IN [merged EXCEPT
           !.promoEnd = IF {"promoRate", "promoEnd"} \intersect set = {"promoRate"} /\ new.promoRate = 0
                        THEN NoDate ELSE @,
           !.promoRate = IF "promoEnd" \in set /\ new.promoEnd = NoDate THEN 0 ELSE @]

\* UpdateForUser patches a row read without a lock.
SubmitUpdate(p, r) ==
    /\ Idle(p) /\ r.kind = "update_rule" /\ rules[r.row.id] # Nobody
    /\ LET new == Patch(rules[r.row.id], r.set, r.row)
       IN /\ validateInterestRuleConfiguration(new)
          /\ pc' = [pc EXCEPT ![p] = "update"]
          /\ req' = [req EXCEPT ![p] = r]
          /\ snap' = [snap EXCEPT ![p].rule = new]
    /\ started' = started + 1
    /\ UNCHANGED <<today, target, todo, tally, rowLock, jobLock>>
    /\ UNCHANGED tables

\* Mutant: the version is not compared.
UpdateAcceptsStale(new) == ~OverlapsAnother(new)

UpdateAccepts(new) == rules[new.id].version = new.version /\ ~OverlapsAnother(new)

CommitUpdate(p) ==
    /\ pc[p] = "update" /\ UpdateAccepts(snap[p].rule)
    /\ rules' = [rules EXCEPT ![snap[p].rule.id] = [snap[p].rule EXCEPT !.version = @ + 1]]
    /\ Return(p, "posted")
    /\ UNCHANGED <<active, entries, accruals, lastId>>

RejectUpdate(p) == pc[p] = "update" /\ ~UpdateAccepts(snap[p].rule) /\ Fail(p)

-----------------------------------------------------------------------------
(* The rest of the system. *)

\* A manual posting and an archival: each holds the account's lock for itself.  A reversal is a
\* posting too: the foreign key of the row it inserts waits for the lock.
Post(p, r) ==
    /\ Idle(p) /\ r.kind = "post" /\ rowLock[r.account] = Nobody /\ active[r.account]
    /\ r.date <= today /\ r.amount <= MaxAmount
    /\ entries' = entries \union {[id |-> lastId + 1, account |-> r.account, date |-> r.date,
                                   amount |-> r.amount, source |-> "manual"]}
    /\ lastId' = lastId + 1
    /\ started' = started + 1
    /\ UNCHANGED <<today, active, accruals, rules, rowLock, jobLock>>
    /\ UNCHANGED control

\* CancelForUser and SoftDeleteForUser lock the transaction's row, not the account's, and ask
\* nothing of the account: the row no longer affects balances.
Withdraw(p, r) ==
    /\ Idle(p) /\ r.kind = "withdraw"
    /\ \E t \in EntriesOf(r.account) : t.source = "manual" /\ entries' = entries \ {t}
    /\ started' = started + 1
    /\ UNCHANGED <<today, active, accruals, rules, lastId, rowLock, jobLock>>
    /\ UNCHANGED control

Archive(p, r) ==
    /\ Idle(p) /\ r.kind = "archive" /\ rowLock[r.account] = Nobody
    /\ active' = [active EXCEPT ![r.account] = FALSE]
    /\ started' = started + 1
    /\ UNCHANGED <<today, entries, accruals, rules, lastId, rowLock, jobLock>>
    /\ UNCHANGED control

\* A statement fails or its context ends: the operation is rolled back.
Abort(p) ==
    /\ pc[p] \in {"lock", "select", "load", "read_rule", "read_entries", "read_accruals", "write", "update"}
    /\ Fail(p)

\* The process stops.
Crash(p) == pc[p] # "idle" /\ Leave(p)

Tick ==
    /\ today < LastDay
    /\ today' = today + 1
    /\ UNCHANGED <<rowLock, jobLock, started>>
    /\ UNCHANGED tables
    /\ UNCHANGED control

Init ==
    /\ today = 1
    /\ active = [a \in Account |-> TRUE]
    /\ entries = {[id |-> a, account |-> a, date |-> 1, amount |-> Opening[a], source |-> "manual"] :
                     a \in {b \in Account : Opening[b] > 0}}
    /\ accruals = {}
    /\ \E n \in Account : lastId = n /\ \A a \in Account : a <= n
    /\ rules = InitialRules
    /\ pc = [p \in Proc |-> "idle"]
    /\ req = [p \in Proc |-> Nobody]
    /\ target = [p \in Proc |-> Nobody]
    /\ todo = [p \in Proc |-> {}]
    /\ tally = [p \in Proc |-> NoTally]
    /\ snap = [p \in Proc |-> NoSnap]
    /\ rowLock = [a \in Account |-> Nobody]
    /\ jobLock = [f \in AccrualFrequency |-> Nobody]
    /\ started = 0

Request(p, r) ==
    \/ Submit(p, r)
    \/ SubmitCommand(p, r)
    \/ StartJob(p, r)
    \/ CreateRule(p, r)
    \/ SubmitUpdate(p, r)
    \/ Post(p, r)
    \/ Withdraw(p, r)
    \/ Archive(p, r)

Wait(p) == LockAccount(p) \/ RefuseArchived(p)

Write(p) ==
    \/ PostAccrual(p)
    \/ SkipAccrual(p)
    \/ PostRecalculation(p)
    \/ RefuseRecalculation(p)

Step(p) ==
    \/ SelectRule(p)
    \/ RefuseRule(p)
    \/ LoadSnapshot(p)
    \/ ReadRule(p)
    \/ ReadEntries(p)
    \/ ReadAccruals(p)
    \/ ListTargets(p)
    \/ \E t \in todo[p] : NextTarget(p, t)
    \/ FinishJob(p)
    \/ CommitUpdate(p)
    \/ RejectUpdate(p)

Next ==
    \/ \E p \in Proc :
         \/ \E r \in Offered : Request(p, r)
         \/ Wait(p)
         \/ Write(p)
         \/ Step(p)
         \/ Abort(p)
         \/ Crash(p)
    \/ Tick

Spec == Init /\ [][Next]_vars

\* A process that may write again and again does, or fails: strong fairness of Write(p) with
\* its enabling condition, MayWrite(p), written out.
WriteEnds(p) == ([]<>MayWrite(p)) => ([]<><<pc[p] = "write" /\ pc'[p] # "write">>_vars)

\* Lock waiters are served; a process that can go on does.
Fairness == \A p \in Proc : SF_vars(Wait(p)) /\ WriteEnds(p) /\ WF_vars(Step(p))

FairSpec == Spec /\ Fairness

-----------------------------------------------------------------------------
(* Properties. *)

Target ==
    [op : {"accrue"}, account : Account, rule : RuleId \union {Nobody}, date : Nat] \union
    [op : {"recalculate"}, account : Account, rule : RuleId \union {Nobody}, date : Nat,
     from : Nat, to : Nat] \union
    [date : Nat]

Stage == {"idle", "lock", "select", "load", "read_rule", "read_entries", "read_accruals", "write",
          "list", "next", "update"}

\* Every table and every process holds values of its type: what the rows of migrations 000006
\* and 000033 and the Go structures can hold.
TypeOK ==
    /\ today \in Nat /\ started \in Nat /\ lastId \in Nat
    /\ active \in [Account -> BOOLEAN]
    /\ \A t \in entries : t \in Entry /\ t.id <= lastId
    /\ \A a \in accruals : a \in Accrual
    /\ rules \in [RuleId -> Rule \union {Nobody}]
    /\ pc \in [Proc -> Stage]
    /\ req \in [Proc -> Offered \union {Nobody}]
    /\ \A p \in Proc :
         /\ target[p] \in Target \union {Nobody}
         /\ tally[p] \in [scanned : Nat, posted : Nat, skipped : Nat, failed : Nat]
         /\ snap[p].rule \in Rule \union {Nobody}
    /\ rowLock \in [Account -> Proc \union {Nobody}]
    /\ jobLock \in [AccrualFrequency -> Proc \union {Nobody}]

\* Every accrual has its own interest transaction, of the same account, date and amount, and
\* every interest transaction has its accrual: CreateInterestAccrualWithTransaction and
\* ReplaceInterestAccrualRangeWithTransactions write and delete them together.  And a rule pays
\* an account once for a date, whoever posts: the API, a job and a command that calculated at the
\* same time, or one that calculated long ago.
AccrualsLinked ==
    /\ \A a \in accruals : \E t \in entries :
         t = [id |-> a.tx, account |-> a.account, date |-> a.date, amount |-> a.amount,
              source |-> "interest"]
    /\ \A t \in entries : t.source = "interest" => \E a \in accruals : a.tx = t.id
    /\ \A a, b \in accruals :
         a.tx = b.tx \/ (a.account = b.account /\ a.rule = b.rule /\ a.date = b.date) => a = b
    /\ \A t, u \in entries : t.id = u.id => t = u

\* A lifecycle that has calculated and is about to write.
AboutToWrite(p) == pc[p] = "write" /\ ~IsCommand(p)

\* What was read holds all rows of the account, and besides them only manual ones.
Covers(read, a) == EntriesOf(a) \subseteq read /\ \A t \in read \ EntriesOf(a) : t.source = "manual"

\* While a lifecycle calculates, no transaction of its account is added, no interest comes or
\* goes, no accrual changes and the account is not archived: postings, archivals, commands and
\* other requests wait for the account lock of WithAccountInterestLock.  What it writes counts
\* every row the account has; all that can change under it is that the owner withdraws a manual
\* transaction it has counted.
OnlyWithdrawalsEscape ==
    \A p \in Proc : AboutToWrite(p) =>
        /\ Covers(snap[p].entries, target[p].account)
        /\ snap[p].accruals = AccrualsIn(target[p].account)
        /\ active[target[p].account]

\* The accruals that an account already has of the rule that pays again.
PaidBefore(new) == {a \in accruals : a.account = new.account /\ a.rule = new.rule}

\* Accrue posts no day twice: interest that the lifecycle posts for a date after all earlier
\* payments of the rule pays days that none of them paid (nextAccrualPeriodStart).
PaysNewDays ==
    [][\A new \in accruals' \ accruals :
         (/\ \E p \in Proc : /\ rowLock[new.account] = p /\ pc[p] = "write" /\ pc'[p] # "write"
                              /\ IsAccrual(target[p])
          /\ \A a \in PaidBefore(new) : a.date < new.date)
         => \A a \in PaidBefore(new) : a.days \intersect new.days = {}]_vars

\* A recalculation deletes nothing but interest of its rule dated in its range: manual
\* transactions and the interest of other rules and dates stay
\* (replaceInterestAccrualRangeWithTransactions deletes by account, rule and date).  A manual
\* row goes only by a step of its own, in which no lifecycle, job or command moves.
OnlyItsRangeIsReplaced ==
    [][\A t \in entries \ entries' :
         \/ t.source = "manual" /\ UNCHANGED <<control, accruals>>
         \/ \E p \in Proc : /\ pc[p] = "write" /\ pc'[p] # "write" /\ ~IsAccrual(target[p])
                           /\ t.date \in FromDate(p)..target[p].to
                           /\ \E a \in accruals : /\ a.tx = t.id /\ a.rule = snap[p].rule.id
                                                 /\ a.account = snap[p].rule.account]_vars

\* No update of a rule is lost: what an update leaves is the current row, with the columns of
\* its request replaced, also when two updates read the same version
\* (InterestRuleRepository.Update compares versions under the row lock).
RuleUpdatesApply ==
    [][\A i \in RuleId : rules[i] # Nobody /\ rules'[i] # rules[i] =>
         \E p \in Proc : /\ pc[p] = "update"
                        /\ rules'[i] = [Patch(rules[i], req[p].set, req[p].row) EXCEPT
                                          !.version = rules[i].version + 1]]_vars

\* Every request, command and job comes to its end, whatever holds the locks it waits for.
RequestsReturn == \A p \in Proc : pc[p] # "idle" ~> pc[p] = "idle"

-----------------------------------------------------------------------------
(* The inductive invariant behind the theorems of InterestProofs. *)

Lifecycle(p) == pc[p] \in {"select", "load"} \/ AboutToWrite(p)

\* Ids are given out once, interest pays no day after its date, and a rule is found by its id.
TablesOK ==
    /\ today \in Nat /\ lastId \in Nat /\ active \in [Account -> BOOLEAN]
    /\ \A t \in entries : t.id \in Nat /\ t.id <= lastId
    /\ \A a \in accruals : a.date \in Nat /\ a.days \subseteq 1..a.date
    /\ rules \in [RuleId -> Rule \union {Nobody}]
    /\ \A i \in RuleId : rules[i] # Nobody => rules[i].id = i

ProcessesOK ==
    /\ pc \in [Proc -> Stage]
    /\ DOMAIN req = Proc /\ DOMAIN target = Proc /\ DOMAIN snap = Proc /\ DOMAIN todo = Proc
    /\ rowLock \in [Account -> Proc \union {Nobody}]
    /\ \A p \in Proc : snap[p] = [rule |-> snap[p].rule, entries |-> snap[p].entries, accruals |-> snap[p].accruals]
    /\ \A p \in Proc : \A a \in snap[p].accruals : a.date \in Nat
    /\ \A p \in Proc : \A t \in todo[p] : t.rule \in Rule /\ t.date \in Nat

\* The target of a posting, once it is known.
TargetOK(t) ==
    /\ t.op \in {"accrue", "recalculate"} /\ t.account \in Account /\ t.date \in Nat
    /\ t.op = "recalculate" => t.from \in Nat /\ t.to \in Nat

\* An update that was prepared on the current version is a patch of the current row.
UpdateOK(p) ==
    LET new == snap[p].rule
        old == rules[new.id]
    IN /\ new \in Rule /\ req[p].kind = "update_rule" /\ new.id \in RuleId /\ old # Nobody
       /\ new.version <= old.version
       /\ new.version = old.version => new = Patch(old, req[p].set, req[p].row)

\* What a process relies on at each of its stages.
StageOK(p) ==
    /\ pc[p] \in {"lock", "select", "load", "list", "next"} => ~IsCommand(p)
    /\ pc[p] \in {"lock", "select", "load", "read_rule", "read_entries", "read_accruals", "write"} => TargetOK(target[p])
    /\ pc[p] \in {"load", "read_entries", "read_accruals", "write"} =>
         snap[p].rule \in Rule /\ snap[p].rule.account = target[p].account
    /\ pc[p] \in {"read_rule", "read_entries", "read_accruals"} => IsCommand(p)
    /\ pc[p] = "list" => target[p].date \in Nat
    /\ pc[p] = "update" => UpdateOK(p)
    /\ Lifecycle(p) => rowLock[target[p].account] = p /\ active[target[p].account]
    /\ AboutToWrite(p) =>
         /\ Covers(snap[p].entries, target[p].account)
         /\ snap[p].accruals = AccrualsIn(target[p].account)

InterestInv == TablesOK /\ ProcessesOK /\ AccrualsLinked /\ \A p \in Proc : StageOK(p)
=============================================================================
