------------------------------ MODULE Planning ------------------------------
(***************************************************************************)
(* Financial goals and category limits: rows that are read, patched and    *)
(* written back under a version.  An update reads its row without a lock,  *)
(* replaces the columns of the request, validates the result and writes    *)
(* the whole row if the version is still the one it read.  Names, dates    *)
(* and the owner are left out; an amount fits a currency when it is a      *)
(* multiple of the currency's Unit, the smallest amount it can express.    *)
(***************************************************************************)
EXTENDS Integers

CONSTANTS
    Proc,       \* requests in flight at the same time
    Account, Category, Currency,
    Unit,       \* the smallest amount of a currency
    Amount,     \* amounts that clients send
    GoalPatch,  \* the updates of goals that clients send: some columns of a row
    LimitPatch, \* the updates of limits
    GoalId, LimitId,
    Nobody,     \* no row, no request
    MaxRequests \* bound: requests started in a behaviour

ASSUME PlanningAssumption ==
    /\ Unit \in [Currency -> Nat \ {0}] /\ Amount \subseteq Int /\ MaxRequests \in Nat

Status == {"active", "completed", "archived"}
Goal == [account : Account, amount : Int, currency : Currency, status : Status, version : Nat]
Limit == [category : Category, amount : Int, currency : Currency, active : BOOLEAN, version : Nat]

ASSUME NobodyAssumption == Nobody \notin Goal /\ Nobody \notin Limit

\* A request names columns of its own; the version and a goal's currency are not among them.
ASSUME PatchAssumption ==
    /\ \A patch \in GoalPatch :
         /\ DOMAIN patch \subseteq {"account", "amount", "status"}
         /\ "account" \in DOMAIN patch => patch.account \in Account
         /\ "amount" \in DOMAIN patch => patch.amount \in Int
         /\ "status" \in DOMAIN patch => patch.status \in Status
    /\ \A patch \in LimitPatch :
         /\ DOMAIN patch \subseteq {"category", "amount", "currency", "active"}
         /\ "category" \in DOMAIN patch => patch.category \in Category
         /\ "amount" \in DOMAIN patch => patch.amount \in Int
         /\ "currency" \in DOMAIN patch => patch.currency \in Currency
         /\ "active" \in DOMAIN patch => patch.active \in BOOLEAN

VARIABLES
    currency,  \* accounts.currency
    goals,     \* table financial_goals
    limits,    \* table category_limits
    pc, req,   \* the stage of a request and what it asks for
    draft,     \* the row it has built
    started    \* requests so far

vars == <<currency, goals, limits, pc, req, draft, started>>
tables == <<currency, goals, limits>>

-----------------------------------------------------------------------------
\* IsPositive and ValidateCurrencyScale.
Valid(amount, c) == amount > 0 /\ amount % Unit[c] = 0

Start(p, r, stage, row) ==
    /\ pc[p] = "idle" /\ started < MaxRequests /\ started' = started + 1
    /\ pc' = [pc EXCEPT ![p] = stage] /\ req' = [req EXCEPT ![p] = r] /\ draft' = [draft EXCEPT ![p] = row]
    /\ UNCHANGED tables

Build(p, stage, row) ==
    /\ pc' = [pc EXCEPT ![p] = stage] /\ draft' = [draft EXCEPT ![p] = row]
    /\ UNCHANGED <<req, started>> /\ UNCHANGED tables

Return(p) ==
    /\ pc' = [pc EXCEPT ![p] = "idle"] /\ req' = [req EXCEPT ![p] = Nobody]
    /\ draft' = [draft EXCEPT ![p] = Nobody] /\ UNCHANGED started

\* A validation error, a conflict, a failed statement or a client that is gone.
Refuse(p) == pc[p] # "idle" /\ Return(p) /\ UNCHANGED tables

-----------------------------------------------------------------------------
(* Financial goals: the currency is that of the account, when it was read. *)

CreateGoal(p, g, a, amount) ==
    /\ goals[g] = Nobody /\ Valid(amount, currency[a])
    /\ Start(p, [kind |-> "create_goal", id |-> g], "insert",
             [account |-> a, amount |-> amount, currency |-> currency[a], status |-> "active", version |-> 0])

InsertGoal(p) ==
    /\ pc[p] = "insert" /\ req[p].kind = "create_goal" /\ goals[req[p].id] = Nobody
    /\ goals' = [goals EXCEPT ![req[p].id] = draft[p]]
    /\ Return(p) /\ UNCHANGED <<currency, limits>>

UpdateGoal(p, g, patch) ==
    /\ goals[g] # Nobody
    /\ Start(p, [kind |-> "update_goal", id |-> g, patch |-> patch], "patch", goals[g])

\* The columns of the request replace those of the row.
Patch(row, patch) == [c \in DOMAIN row |-> IF c \in DOMAIN patch THEN patch[c] ELSE row[c]]

\* A new account brings its currency.
PatchGoal(goal, patch, cur) ==
    IF "account" \in DOMAIN patch THEN [Patch(goal, patch) EXCEPT !.currency = cur] ELSE Patch(goal, patch)

\* Mutant: only a new amount is validated.
GoalAcceptsAccount(goal, patch) == "amount" \in DOMAIN patch => Valid(goal.amount, goal.currency)

GoalAccepts(goal, patch) ==
    DOMAIN patch \intersect {"amount", "account"} # {} => Valid(goal.amount, goal.currency)

ValidateGoal(p) ==
    LET new == PatchGoal(draft[p], req[p].patch, currency[req[p].patch.account])
    IN /\ pc[p] = "patch" /\ req[p].kind = "update_goal" /\ GoalAccepts(new, req[p].patch)
       /\ Build(p, "write", new)

\* Mutant: the version is not compared.
UnchangedAssumed(row, read) == TRUE

\* WHERE id = $8 AND version = $10
SameVersion(row, read) == row.version = read.version

WriteGoal(p) ==
    LET g == req[p].id
    IN /\ pc[p] = "write" /\ req[p].kind = "update_goal" /\ SameVersion(goals[g], draft[p])
       /\ goals' = [goals EXCEPT ![g] = [draft[p] EXCEPT !.version = goals[g].version + 1]]
       /\ Return(p) /\ UNCHANGED <<currency, limits>>

-----------------------------------------------------------------------------
(* Category limits: one for a category and a currency. *)

\* UNIQUE (owner_user_id, category_id, currency)
Taken(i, limit) ==
    \E j \in LimitId \ {i} : /\ limits[j] # Nobody
                             /\ limits[j].category = limit.category /\ limits[j].currency = limit.currency

CreateLimit(p, i, limit) ==
    /\ limits[i] = Nobody /\ Valid(limit.amount, limit.currency)
    /\ Start(p, [kind |-> "create_limit", id |-> i], "insert", limit)

InsertLimit(p) ==
    /\ pc[p] = "insert" /\ req[p].kind = "create_limit" /\ limits[req[p].id] = Nobody
    /\ ~Taken(req[p].id, draft[p])
    /\ limits' = [limits EXCEPT ![req[p].id] = draft[p]]
    /\ Return(p) /\ UNCHANGED <<currency, goals>>

UpdateLimit(p, i, patch) ==
    /\ limits[i] # Nobody
    /\ Start(p, [kind |-> "update_limit", id |-> i, patch |-> patch], "patch", limits[i])

LimitAccepts(limit, patch) ==
    DOMAIN patch \intersect {"amount", "currency"} # {} => Valid(limit.amount, limit.currency)

ValidateLimit(p) ==
    LET new == Patch(draft[p], req[p].patch)
    IN /\ pc[p] = "patch" /\ req[p].kind = "update_limit" /\ LimitAccepts(new, req[p].patch)
       /\ Build(p, "write", new)

WriteLimit(p) ==
    LET i == req[p].id
    IN /\ pc[p] = "write" /\ req[p].kind = "update_limit" /\ SameVersion(limits[i], draft[p])
       /\ ~Taken(i, draft[p])
       /\ limits' = [limits EXCEPT ![i] = [draft[p] EXCEPT !.version = limits[i].version + 1]]
       /\ Return(p) /\ UNCHANGED <<currency, goals>>

-----------------------------------------------------------------------------
\* An account without transactions gets another currency (module Ledger).
UpdateAccount(a, c) ==
    /\ currency' = [currency EXCEPT ![a] = c]
    /\ UNCHANGED <<goals, limits, pc, req, draft, started>>

Init ==
    /\ currency \in [Account -> Currency]
    /\ goals = [g \in GoalId |-> Nobody] /\ limits = [i \in LimitId |-> Nobody]
    /\ pc = [p \in Proc |-> "idle"] /\ req = [p \in Proc |-> Nobody] /\ draft = [p \in Proc |-> Nobody]
    /\ started = 0

GoalRequest(p) ==
    \E g \in GoalId : \/ \E a \in Account, x \in Amount : CreateGoal(p, g, a, x)
                      \/ \E patch \in GoalPatch : UpdateGoal(p, g, patch)

LimitRequest(p) ==
    \E i \in LimitId :
        \/ \E k \in Category, x \in Amount, c \in Currency :
             CreateLimit(p, i, [category |-> k, amount |-> x, currency |-> c, active |-> TRUE, version |-> 0])
        \/ \E patch \in LimitPatch : UpdateLimit(p, i, patch)

Step(p) ==
    \/ GoalRequest(p) \/ InsertGoal(p) \/ ValidateGoal(p) \/ WriteGoal(p)
    \/ LimitRequest(p) \/ InsertLimit(p) \/ ValidateLimit(p) \/ WriteLimit(p)
    \/ Refuse(p)

Next == (\E p \in Proc : Step(p)) \/ \E a \in Account, c \in Currency : UpdateAccount(a, c)

Spec == Init /\ [][Next]_vars

-----------------------------------------------------------------------------
(* Properties. *)

\* Tables and requests hold values of their types.
TypeOK ==
    /\ currency \in [Account -> Currency]
    /\ goals \in [GoalId -> Goal \union {Nobody}] /\ limits \in [LimitId -> Limit \union {Nobody}]
    /\ pc \in [Proc -> {"idle", "insert", "patch", "write"}] /\ DOMAIN req = Proc /\ DOMAIN draft = Proc
    /\ started \in Nat

\* A goal's target and a limit's amount are positive and fit the currency beside them, although
\* amount, account and currency come in separate requests, only some of which are validated
\* (FinancialGoalService.Update, CategoryLimitService.Update).
AmountsFit ==
    /\ \A g \in GoalId : goals[g] # Nobody => Valid(goals[g].amount, goals[g].currency)
    /\ \A i \in LimitId : limits[i] # Nobody => Valid(limits[i].amount, limits[i].currency)

\* No update is lost: a write changes the row as it is, not as it was read, in nothing but the
\* columns of its request, also when two updates read the same row (version = version + 1).
UpdatesApply ==
    [][/\ \A g \in GoalId : goals[g] # Nobody /\ goals'[g] # goals[g] =>
            \E p \in Proc : /\ pc[p] = "write" /\ req[p].kind = "update_goal" /\ req[p].id = g
                            /\ \E c \in Currency :
                                 goals'[g] = [PatchGoal(goals[g], req[p].patch, c)
                                                EXCEPT !.version = goals[g].version + 1]
       /\ \A i \in LimitId : limits[i] # Nobody /\ limits'[i] # limits[i] =>
            \E p \in Proc : /\ pc[p] = "write" /\ req[p].kind = "update_limit" /\ req[p].id = i
                            /\ limits'[i] = [Patch(limits[i], req[p].patch)
                                               EXCEPT !.version = limits[i].version + 1]]_vars

-----------------------------------------------------------------------------
(* The inductive invariant behind the theorems of PlanningProofs. *)

\* A draft is the row it was read from, patched or not yet, unless the row has a later version.
GoalDraft(p) ==
    LET row == goals[req[p].id]
    IN /\ row # Nobody /\ draft[p].version <= row.version
       /\ draft[p].version = row.version =>
            IF pc[p] = "patch" THEN draft[p] = row
            ELSE \E c \in Currency : draft[p] = PatchGoal(row, req[p].patch, c)

LimitDraft(p) ==
    LET row == limits[req[p].id]
    IN /\ row # Nobody /\ draft[p].version <= row.version
       /\ draft[p].version = row.version =>
            draft[p] = IF pc[p] = "patch" THEN row ELSE Patch(row, req[p].patch)

\* What a request brings to the table is valid and comes from the row it names.
GoalRequestOK(p) ==
    /\ req[p].id \in GoalId /\ draft[p] \in Goal /\ Valid(draft[p].amount, draft[p].currency)
    /\ pc[p] \in {"patch", "write"} => req[p].patch \in GoalPatch /\ GoalDraft(p)

LimitRequestOK(p) ==
    /\ req[p].id \in LimitId /\ draft[p] \in Limit /\ Valid(draft[p].amount, draft[p].currency)
    /\ pc[p] \in {"patch", "write"} => req[p].patch \in LimitPatch /\ LimitDraft(p)

RequestOK(p) ==
    /\ req[p].kind \in (IF pc[p] = "insert" THEN {"create_goal", "create_limit"} ELSE {"update_goal", "update_limit"})
    /\ req[p].kind \in {"create_goal", "update_goal"} => GoalRequestOK(p)
    /\ req[p].kind \in {"create_limit", "update_limit"} => LimitRequestOK(p)

PlanningInv ==
    /\ TypeOK
    /\ \A p \in Proc : pc[p] # "idle" => RequestOK(p)
    /\ AmountsFit
=============================================================================
