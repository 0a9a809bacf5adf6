---------------------------- MODULE LegacyImport ----------------------------
(***************************************************************************)
(* The one-time import of deposits from the JSON file of the predecessor.  *)
(* An import takes the entries of its file one by one.  A deposit that is  *)
(* not known by its legacy id is created in one transaction; a known one   *)
(* is repaired: its missing rule and its missing initial balance are added *)
(* by statements that each commit alone.  Imports are stopped by timeouts  *)
(* and crashes, run again, and overlap when the last statement of a        *)
(* stopped one is still under way; the users of the server and its first   *)
(* set-up go on beside them.  Amounts are whole units, an entry carries    *)
(* the set of its fields that do not parse, and the counters of the report *)
(* that are only printed are left out.                                     *)
(***************************************************************************)
EXTENDS Sums, Sequences, FiniteSets

CONSTANTS
    Proc,        \* imports under way at the same time
    Id,          \* legacy ids
    Offered,     \* imports: the contents of the file, and whether an owner is named
    Opening,     \* the databases an import may meet: [user |-> ..., accounts |-> ...]
    None,        \* no row, no import
    MaxImports   \* bound: imports started in a behaviour

\* Fields that may not parse.  An entry without an id has the field "id" here.
Field == {"id", "start", "type", "name", "rule"}
Deposit == [id : Id, amount : Int, bad : SUBSET Field]
InitialRow == [amount : Nat \ {0}, status : {"confirmed", "cancelled"}]
RuleStart == {"opening", "later"}
Account == [owned : BOOLEAN, rules : SUBSET RuleStart, initial : Seq(InitialRow)]

ASSUME OfferedAssumption == \A r \in Offered : r.owner \in BOOLEAN /\ r.file \in Seq(Deposit)

ASSUME NoneAssumption == None \notin Account /\ \A ids \in SUBSET Id : None # ids

\* Before the first import no deposit has come twice, and accounts are created for their owner.
ASSUME OpeningAssumption ==
    \A db \in Opening :
        /\ db.user \in BOOLEAN /\ db.accounts \in [Id -> Account \union {None}]
        /\ \A d \in Id : db.accounts[d] # None =>
             Len(db.accounts[d].initial) <= 1 /\ (db.user => db.accounts[d].owned)

VARIABLES
    user,       \* whether table users has its row
    claimed,    \* the accounts that the open transaction of Setup has claimed; None when none is open
    accounts,   \* tables accounts, interest_rules and transactions, by the unique legacy_id
    pc,         \* the stage of an import
    run,        \* its file, its place in it, whether it was given an owner, and its report so far
    pending,    \* the owner that its uncommitted INSERT into accounts has found
    contested,  \* history: ids that two imports repaired at the same time
    overtaken,  \* history: ids whose import without an owner overlapped the transaction of Setup
    started     \* imports so far

vars == <<user, claimed, accounts, pc, run, pending, contested, overtaken, started>>

Entry(p) == run[p].file[run[p].at]
Row(p) == accounts[Entry(p).id]

-----------------------------------------------------------------------------
(* ImportLegacyDeposits: resolve the owner, read the file, and go through it. *)

Goto(p, stage) == pc' = [pc EXCEPT ![p] = stage]

ImportLegacyDeposits(p, r) ==
    /\ pc[p] = "idle" /\ started < MaxImports /\ started' = started + 1
    /\ run' = [run EXCEPT ![p] = [file |-> r.file, at |-> 1, owner |-> r.owner,
                                  source |-> 0, migrated |-> 0, errors |-> FALSE]]
    /\ Goto(p, "owner") /\ UNCHANGED <<user, claimed, accounts, pending, contested, overtaken>>

Leave(p) ==
    /\ pc' = [pc EXCEPT ![p] = "idle"] /\ run' = [run EXCEPT ![p] = None]
    /\ pending' = [pending EXCEPT ![p] = None]
    /\ UNCHANGED <<user, claimed, accounts, contested, overtaken, started>>

\* An owner that is named has to exist.  Nobody is named for the only user, nor before there is one.
resolveOwnerUserID(p) ==
    /\ pc[p] = "owner"
    /\ \/ (run[p].owner => user) /\ Goto(p, "next")
          /\ UNCHANGED <<user, claimed, accounts, run, pending, contested, overtaken, started>>
       \/ run[p].owner /\ ~user /\ Leave(p)

Finished(p) == pc[p] = "next" /\ run[p].at > Len(run[p].file)

\* Mutant: a deposit that failed is not held against the report.
BalancesEqual(r) == r.source = r.migrated

BalanceMatchesSource(r) == r.source = r.migrated /\ ~r.errors

Report(p) == Finished(p) /\ Leave(p)

\* migrateDeposit up to its first statement.
BeginDeposit(p) ==
    /\ pc[p] = "next" /\ ~Finished(p)
    /\ LET e == Entry(p)
           refused == "id" \in e.bad \/ e.amount < 0
       IN /\ run' = [run EXCEPT ![p].source = @ + e.amount,
                                ![p].errors = @ \/ refused,
                                ![p].at = @ + (IF refused THEN 1 ELSE 0)]
          /\ Goto(p, IF refused THEN "next" ELSE "lookup")
    /\ UNCHANGED <<user, claimed, accounts, pending, contested, overtaken, started>>

\* What migrateDeposit returned is added to the report.
Migrated(p, balance) ==
    /\ run' = [run EXCEPT ![p].migrated = @ + balance, ![p].at = @ + 1]
    /\ Goto(p, "next") /\ pending' = [pending EXCEPT ![p] = None]

Failed(p) ==
    /\ run' = [run EXCEPT ![p].errors = TRUE, ![p].at = @ + 1]
    /\ Goto(p, "next") /\ pending' = [pending EXCEPT ![p] = None]

Repair == {"rules", "addRule", "transactions", "addTransaction"}

GetByLegacyID(p) ==
    /\ pc[p] = "lookup"
    /\ \/ /\ Row(p) # None /\ "start" \notin Entry(p).bad
          /\ contested' = contested \union
                {Entry(q).id : q \in {q \in Proc : pc[q] \in Repair /\ Entry(q).id = Entry(p).id}}
          /\ Goto(p, "rules") /\ UNCHANGED <<run, pending>>
       \/ /\ Row(p) # None /\ "start" \in Entry(p).bad
          /\ Failed(p) /\ UNCHANGED contested
       \/ /\ Row(p) = None /\ Entry(p).bad = {}
          /\ Goto(p, "insert") /\ UNCHANGED <<run, pending, contested>>
       \/ /\ Row(p) = None /\ Entry(p).bad # {}
          /\ Failed(p) /\ UNCHANGED contested
    /\ UNCHANGED <<user, claimed, accounts, overtaken, started>>

-----------------------------------------------------------------------------
(* CreateMigratedDeposit: account, rule and initial balance in one transaction. *)

\* Mutant: an import without a named owner leaves the account to Setup.
OwnerAsNamed(p) == run[p].owner

\* COALESCE($3, the id of the only user), as the INSERT finds the table users.
Owner(p) == run[p].owner \/ user

\* The unique index makes an INSERT wait for another open one of the same legacy id.
insertAccount(p) ==
    /\ pc[p] = "insert" /\ Row(p) = None
    /\ \A q \in Proc \ {p} : pc[q] = "commit" => Entry(q).id # Entry(p).id
    /\ pending' = [pending EXCEPT ![p] = Owner(p)]
    /\ overtaken' = overtaken \union (IF claimed # None THEN {Entry(p).id} ELSE {})
    /\ Goto(p, "commit") /\ UNCHANGED <<user, claimed, accounts, run, contested, started>>

LegacyIDTaken(p) ==
    /\ pc[p] = "insert" /\ Row(p) # None
    /\ Failed(p) /\ UNCHANGED <<user, claimed, accounts, contested, overtaken, started>>

\* CHECK (amount > 0) for every type but adjustment.
AmountAccepted(amount) == amount > 0

Initial(p) == [amount |-> Entry(p).amount, status |-> "confirmed"]

CommitMigrated(p) ==
    accounts' = [accounts EXCEPT ![Entry(p).id] =
                   [owned |-> pending[p], rules |-> {"opening"}, initial |-> <<Initial(p)>>]]

\* The answer to the COMMIT may be lost: then the deposit is there and the report has an error.
CreateMigratedDeposit(p) ==
    /\ pc[p] = "commit"
    /\ \/ AmountAccepted(Entry(p).amount) /\ CommitMigrated(p)
          /\ (Migrated(p, Entry(p).amount) \/ Failed(p))
       \/ ~AmountAccepted(Entry(p).amount) /\ UNCHANGED accounts /\ Failed(p)
    /\ UNCHANGED <<user, claimed, contested, overtaken, started>>

-----------------------------------------------------------------------------
(* migrateExistingDeposit: each statement by itself. *)

ListRules(p) ==
    /\ pc[p] = "rules"
    /\ \/ Row(p).rules # {} /\ Goto(p, "transactions") /\ UNCHANGED <<run, pending>>
       \/ Row(p).rules = {} /\ "rule" \notin Entry(p).bad /\ Goto(p, "addRule") /\ UNCHANGED <<run, pending>>
       \/ Row(p).rules = {} /\ "rule" \in Entry(p).bad /\ Failed(p)
    /\ UNCHANGED <<user, claimed, accounts, contested, overtaken, started>>

\* Unique (account_id, accrual_frequency, start_date) for active rules.
CreateMissingRule(p) ==
    /\ pc[p] = "addRule"
    /\ \/ /\ "opening" \notin Row(p).rules
          /\ accounts' = [accounts EXCEPT ![Entry(p).id].rules = @ \union {"opening"}]
          /\ Goto(p, "transactions") /\ UNCHANGED <<run, pending>>
       \/ "opening" \in Row(p).rules /\ UNCHANGED accounts /\ Failed(p)
    /\ UNCHANGED <<user, claimed, contested, overtaken, started>>

\* Mutant: a cancelled initial balance is not seen.
ConfirmedInitialBalance(rows) == SelectSeq(rows, LAMBDA row : row.status = "confirmed")

\* By type and description, whatever the status.
legacyInitialBalanceFromTransactions(rows) == rows

Total(rows) == SumTo([i \in 1..Len(rows) |-> rows[i].amount], Len(rows))

ListTransactions(p) ==
    LET found == legacyInitialBalanceFromTransactions(Row(p).initial)
    IN /\ pc[p] = "transactions"
       /\ \/ found = <<>> /\ Goto(p, "addTransaction") /\ UNCHANGED <<run, pending>>
          \/ found # <<>> /\ Migrated(p, Total(found))
       /\ UNCHANGED <<user, claimed, accounts, contested, overtaken, started>>

CreateMissingInitialBalance(p) ==
    /\ pc[p] = "addTransaction"
    /\ \/ /\ AmountAccepted(Entry(p).amount)
          /\ accounts' = [accounts EXCEPT ![Entry(p).id].initial = Append(@, Initial(p))]
          /\ (Migrated(p, Entry(p).amount) \/ Failed(p))
       \/ ~AmountAccepted(Entry(p).amount) /\ UNCHANGED accounts /\ Failed(p)
    /\ UNCHANGED <<user, claimed, contested, overtaken, started>>

-----------------------------------------------------------------------------
(* What goes wrong, and who else writes. *)

\* A statement fails before it has done anything; the import goes on with the next deposit.
StatementFails(p) ==
    /\ pc[p] \in {"lookup", "insert", "commit"} \union Repair
    /\ Failed(p) /\ UNCHANGED <<user, claimed, accounts, contested, overtaken, started>>

\* The timeout, a signal or a crash: the open transaction is rolled back and nothing is reported.
Stop(p) == pc[p] # "idle" /\ Leave(p)

\* UserRepository.Setup: the user is inserted and claims every account that has no owner yet.
\* Until the COMMIT nobody else sees either.
claimUnownedAccounts ==
    /\ ~user /\ claimed = None
    /\ claimed' = {d \in Id : accounts[d] # None /\ ~accounts[d].owned}
    /\ overtaken' = {Entry(p).id : p \in {p \in Proc : pc[p] = "commit" /\ ~pending[p]}}
    /\ UNCHANGED <<user, accounts, pc, run, pending, contested, started>>

CommitSetup ==
    /\ claimed # None /\ user' = TRUE /\ claimed' = None
    /\ accounts' = [d \in Id |-> IF d \in claimed THEN [accounts[d] EXCEPT !.owned = TRUE] ELSE accounts[d]]
    /\ UNCHANGED <<pc, run, pending, contested, overtaken, started>>

SetupFails ==
    claimed # None /\ claimed' = None /\ overtaken' = {}
    /\ UNCHANGED <<user, accounts, pc, run, pending, contested, started>>

\* The owner cancels an imported initial balance; the row stays.
CancelInitialBalance(d) ==
    /\ accounts[d] # None /\ accounts[d].owned
    /\ \E i \in DOMAIN accounts[d].initial :
         /\ accounts[d].initial[i].status = "confirmed"
         /\ accounts' = [accounts EXCEPT ![d].initial[i].status = "cancelled"]
    /\ UNCHANGED <<user, claimed, pc, run, pending, contested, overtaken, started>>

AddRule(d, start) ==
    /\ accounts[d] # None /\ accounts[d].owned /\ start \notin accounts[d].rules
    /\ accounts' = [accounts EXCEPT ![d].rules = @ \union {start}]
    /\ UNCHANGED <<user, claimed, pc, run, pending, contested, overtaken, started>>

Init ==
    /\ \E db \in Opening : user = db.user /\ accounts = db.accounts
    /\ claimed = None
    /\ pc = [p \in Proc |-> "idle"] /\ run = [p \in Proc |-> None] /\ pending = [p \in Proc |-> None]
    /\ contested = {} /\ overtaken = {} /\ started = 0

Step(p) ==
    \/ \E r \in Offered : ImportLegacyDeposits(p, r)
    \/ resolveOwnerUserID(p) \/ BeginDeposit(p) \/ Report(p)
    \/ GetByLegacyID(p) \/ insertAccount(p) \/ LegacyIDTaken(p) \/ CreateMigratedDeposit(p)
    \/ ListRules(p) \/ CreateMissingRule(p) \/ ListTransactions(p) \/ CreateMissingInitialBalance(p)
    \/ StatementFails(p) \/ Stop(p)

Next ==
    \/ \E p \in Proc : Step(p)
    \/ claimUnownedAccounts \/ CommitSetup \/ SetupFails
    \/ \E d \in Id : CancelInitialBalance(d) \/ \E start \in RuleStart : AddRule(d, start)

Spec == Init /\ [][Next]_vars

-----------------------------------------------------------------------------
(* Properties. *)

Working == {"lookup", "insert", "commit"} \union Repair
Stage == {"idle", "owner", "next"} \union Working

\* The report of an import, and its place in the file.
RunOK(r) ==
    /\ r = [file |-> r.file, at |-> r.at, owner |-> r.owner, source |-> r.source,
            migrated |-> r.migrated, errors |-> r.errors]
    /\ r.file \in Seq(Deposit) /\ r.at \in Nat \ {0}

\* Tables and imports hold values of their types; an import at work on an entry has one.
TypeOK ==
    /\ user \in BOOLEAN /\ claimed \in (SUBSET Id) \union {None} /\ accounts \in [Id -> Account \union {None}]
    /\ pc \in [Proc -> Stage] /\ DOMAIN run = Proc /\ pending \in [Proc -> BOOLEAN \union {None}]
    /\ \A p \in Proc :
         /\ pc[p] # "idle" => RunOK(run[p])
         /\ pc[p] \in Working => run[p].at <= Len(run[p].file)
         /\ pc[p] = "commit" => pending[p] \in BOOLEAN
    /\ contested \subseteq Id /\ overtaken \subseteq Id /\ started \in Nat

\* The import is idempotent by legacy id: however often it is stopped, repeated with the same or
\* another file, or overlaps with another one, a deposit has one initial balance at most, also
\* after its owner has cancelled it.  Only two imports that repair the same half-migrated account
\* at once may double it: migrateExistingDeposit lists and inserts in two statements.
DepositOnce ==
    \A d \in Id : accounts[d] # None /\ Len(accounts[d].initial) > 1 => d \in contested

\* What the first n entries of a file ask for, and what was recorded for them.
Listed(f, n) == SumTo([i \in 1..n |-> f[i].amount], n)
Recorded(f, n) == SumTo([i \in 1..n |-> Total(accounts[f[i].id].initial)], n)

\* They have their account, a rule and an initial balance; nobody repaired one of them twice.
Complete(f, n) ==
    \A i \in 1..n :
        accounts[f[i].id] # None /\ accounts[f[i].id].rules # {} /\ accounts[f[i].id].initial # <<>>

Uncontested(f, n) == \A i \in 1..n : f[i].id \notin contested

\* A report that says that the balances match is true when it is given: every entry of the file has
\* its account, a rule and an initial balance, and these add up to the amounts of the file.  A lost
\* answer, a zero amount or a deposit that was refused never hides behind equal sums.
MatchIsTrue ==
    \A p \in Proc :
        Finished(p) /\ BalanceMatchesSource(run[p]) =>
            LET f == run[p].file
            IN /\ Complete(f, Len(f))
               /\ Uncontested(f, Len(f)) => Recorded(f, Len(f)) = Listed(f, Len(f))

\* No imported account stays without an owner once there is a user ("setup will claim unowned
\* accounts"): an INSERT after Setup finds the user, and Setup claims what was committed before.
\* The one way out is a deposit whose transaction overlapped that of Setup.
ImportedAccountsOwned ==
    \A d \in Id : user /\ accounts[d] # None /\ ~accounts[d].owned => d \in overtaken

-----------------------------------------------------------------------------
(* The inductive invariants behind the theorems of LegacyImportProofs. *)

\* An uncommitted INSERT is the only one of its id, of which there is no row yet.
InsertsInv ==
    \A p \in Proc : pc[p] = "commit" =>
        Row(p) = None /\ \A q \in Proc \ {p} : pc[q] = "commit" => Entry(q).id # Entry(p).id

\* A repair has its row, and what it has found missing is missing unless another one repairs too.
RepairsInv ==
    \A p \in Proc : pc[p] \in Repair =>
        /\ Row(p) # None
        /\ \A q \in Proc \ {p} : pc[q] \in Repair /\ Entry(q).id = Entry(p).id => Entry(p).id \in contested
        /\ pc[p] = "addTransaction" => Row(p).initial = <<>> \/ Entry(p).id \in contested

\* From the claim of Setup on, an account without an owner is claimed or was overtaken, and so is
\* one that is about to be committed without an owner.
OwnersInv ==
    /\ claimed # None => ~user /\ \A d \in claimed : accounts[d] # None
    /\ user \/ claimed # None =>
         /\ \A d \in Id : accounts[d] # None /\ ~accounts[d].owned =>
              d \in overtaken \/ (claimed # None /\ d \in claimed)
         /\ \A p \in Proc : pc[p] = "commit" /\ ~pending[p] => Entry(p).id \in overtaken

ImportInv == TypeOK /\ InsertsInv /\ RepairsInv /\ OwnersInv /\ DepositOnce

\* A report without an error holds the amounts of the entries begun and the balances of those done,
\* which are still complete.
Accounted(r, begun, done) ==
    /\ done <= Len(r.file)
    /\ ~r.errors =>
         /\ r.source = Listed(r.file, begun) /\ Complete(r.file, done)
         /\ Uncontested(r.file, done) => r.migrated = Recorded(r.file, done)

ReportsInv ==
    \A p \in Proc :
        /\ pc[p] # "idle" => Accounted(run[p], IF pc[p] \in Working THEN run[p].at ELSE run[p].at - 1, run[p].at - 1)
        /\ pc[p] \in {"transactions", "addTransaction"} => Row(p).rules # {}
=============================================================================
