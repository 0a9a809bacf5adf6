--------------------------- MODULE PlanningProofs ---------------------------
(***************************************************************************)
(* Proofs about Planning for every number of requests, goals, limits,      *)
(* currencies and patches.  PlanningInv is shown inductive: a draft is the *)
(* row of its version, so the write that compares versions applies the     *)
(* patch to the row as it is.                                              *)
(***************************************************************************)
EXTENDS Planning, TLAPS

-----------------------------------------------------------------------------
(* Patches. *)

\* A patched goal is a goal of the same version; a column it does not name stays.
LEMMA PatchedColumns ==
    ASSUME NEW goal \in Goal, NEW patch \in GoalPatch
    PROVE  /\ Patch(goal, patch) \in Goal /\ Patch(goal, patch).version = goal.version
           /\ Patch(goal, patch).currency = goal.currency
           /\ "amount" \notin DOMAIN patch => Patch(goal, patch).amount = goal.amount
    <1>1. DOMAIN goal = {"account", "amount", "currency", "status", "version"}
        BY DEF Goal
    <1>2. "version" \notin DOMAIN patch /\ "currency" \notin DOMAIN patch
        BY PatchAssumption
    <1> DEFINE new == Patch(goal, patch)
    <1>3. new = [account  |-> IF "account" \in DOMAIN patch THEN patch.account ELSE goal.account,
                 amount   |-> IF "amount" \in DOMAIN patch THEN patch.amount ELSE goal.amount,
                 currency |-> goal.currency,
                 status   |-> IF "status" \in DOMAIN patch THEN patch.status ELSE goal.status,
                 version  |-> goal.version]
        BY <1>1, <1>2 DEF Patch
    <1> QED BY <1>3, PatchAssumption DEF Goal

\* A goal that is accepted is valid, whether it was validated again or not.
LEMMA PatchedGoal ==
    ASSUME NEW goal \in Goal, NEW patch \in GoalPatch, NEW cur, "account" \in DOMAIN patch => cur \in Currency,
           Valid(goal.amount, goal.currency), GoalAccepts(PatchGoal(goal, patch, cur), patch)
    PROVE  /\ PatchGoal(goal, patch, cur) \in Goal
           /\ PatchGoal(goal, patch, cur).version = goal.version
           /\ Valid(PatchGoal(goal, patch, cur).amount, PatchGoal(goal, patch, cur).currency)
    <1> DEFINE new == Patch(goal, patch)
    <1>1. /\ new \in Goal /\ new.version = goal.version /\ new.currency = goal.currency
          /\ "amount" \notin DOMAIN patch => new.amount = goal.amount
        BY PatchedColumns
    <1> HIDE DEF new
    <1>2. CASE "account" \in DOMAIN patch
        <2>1. PatchGoal(goal, patch, cur) = [new EXCEPT !.currency = cur]
            BY <1>2 DEF PatchGoal, new
        <2>2. [new EXCEPT !.currency = cur] \in Goal /\ [new EXCEPT !.currency = cur].version = goal.version
            BY <1>1, <1>2 DEF Goal
        <2>3. DOMAIN patch \intersect {"amount", "account"} # {}
            BY <1>2
        <2> QED BY <2>1, <2>2, <2>3 DEF GoalAccepts
    <1>3. CASE "account" \notin DOMAIN patch
        <2>1. PatchGoal(goal, patch, cur) = new
            BY <1>3 DEF PatchGoal, new
        <2>2. CASE "amount" \in DOMAIN patch
            <3>1. DOMAIN patch \intersect {"amount", "account"} # {}
                BY <2>2
            <3> QED BY <1>1, <2>1, <3>1 DEF GoalAccepts
        <2>3. CASE "amount" \notin DOMAIN patch
            BY <1>1, <2>1, <2>3
        <2> QED BY <2>2, <2>3
    <1> QED BY <1>2, <1>3

\* So is a limit.
LEMMA PatchedLimit ==
    ASSUME NEW limit \in Limit, NEW patch \in LimitPatch,
           Valid(limit.amount, limit.currency), LimitAccepts(Patch(limit, patch), patch)
    PROVE  /\ Patch(limit, patch) \in Limit /\ Patch(limit, patch).version = limit.version
           /\ Valid(Patch(limit, patch).amount, Patch(limit, patch).currency)
    <1>1. DOMAIN limit = {"category", "amount", "currency", "active", "version"}
        BY DEF Limit
    <1>2. "version" \notin DOMAIN patch
        BY PatchAssumption
    <1> DEFINE new == Patch(limit, patch)
    <1>3. new = [category |-> IF "category" \in DOMAIN patch THEN patch.category ELSE limit.category,
                 amount   |-> IF "amount" \in DOMAIN patch THEN patch.amount ELSE limit.amount,
                 currency |-> IF "currency" \in DOMAIN patch THEN patch.currency ELSE limit.currency,
                 active   |-> IF "active" \in DOMAIN patch THEN patch.active ELSE limit.active,
                 version  |-> limit.version]
        BY <1>1, <1>2 DEF Patch
    <1>4. new \in Limit /\ new.version = limit.version
        BY <1>3, PatchAssumption DEF Limit
    <1>5. /\ "amount" \notin DOMAIN patch => new.amount = limit.amount
          /\ "currency" \notin DOMAIN patch => new.currency = limit.currency
        BY <1>3
    <1> HIDE DEF new
    <1>6. CASE DOMAIN patch \intersect {"amount", "currency"} # {}
        BY <1>4, <1>6 DEF LimitAccepts, new
    <1>7. CASE DOMAIN patch \intersect {"amount", "currency"} = {}
        <2>1. new.amount = limit.amount /\ new.currency = limit.currency
            BY <1>5, <1>7
        <2> QED BY <1>4, <2>1 DEF new
    <1> QED BY <1>6, <1>7

-----------------------------------------------------------------------------
(* What a step of p leaves to the others. *)

\* Rows stay, and change only with their version.
RowsAdvance ==
    /\ \A g \in GoalId : goals[g] # Nobody =>
         goals'[g] # Nobody /\ (goals'[g] = goals[g] \/ goals[g].version < goals'[g].version)
    /\ \A i \in LimitId : limits[i] # Nobody =>
         limits'[i] # Nobody /\ (limits'[i] = limits[i] \/ limits[i].version < limits'[i].version)

\* The tables keep their types.
TablesTyped ==
    /\ currency' \in [Account -> Currency]
    /\ goals' \in [GoalId -> Goal \union {Nobody}] /\ limits' \in [LimitId -> Limit \union {Nobody}]

\* Only p moves.
OnlyMoves(p) ==
    /\ pc' \in [Proc -> {"idle", "insert", "patch", "write"}] /\ DOMAIN req' = Proc /\ DOMAIN draft' = Proc
    /\ \A q \in Proc \ {p} : pc'[q] = pc[q] /\ req'[q] = req[q] /\ draft'[q] = draft[q]
    /\ started' \in Nat

\* A request that does not move keeps what it relies on: its draft is of the row's version or
\* of an earlier one.
LEMMA DraftStays ==
    ASSUME PlanningInv, RowsAdvance, TablesTyped, NEW q \in Proc, pc[q] # "idle",
           pc'[q] = pc[q], req'[q] = req[q], draft'[q] = draft[q]
    PROVE  RequestOK(q)'
    <1>1. RequestOK(q)
        BY DEF PlanningInv
    <1>2. ASSUME GoalRequestOK(q) PROVE GoalRequestOK(q)'
        <2>1. PICK g \in GoalId : g = req[q].id
            BY <1>2 DEF GoalRequestOK
        <2>2. draft[q].version \in Nat
            BY <1>2 DEF GoalRequestOK, Goal
        <2>3. ASSUME pc[q] \in {"patch", "write"} PROVE GoalDraft(q)'
            <3>1. /\ goals[g] # Nobody /\ draft[q].version <= goals[g].version
                  /\ draft[q].version = goals[g].version =>
                       IF pc[q] = "patch" THEN draft[q] = goals[g]
                       ELSE \E c \in Currency : draft[q] = PatchGoal(goals[g], req[q].patch, c)
                BY <1>2, <2>1, <2>3 DEF GoalRequestOK, GoalDraft
            <3>2. goals[g] \in Goal /\ goals'[g] \in Goal /\ goals'[g] # Nobody
                BY <3>1 DEF PlanningInv, TypeOK, TablesTyped, RowsAdvance
            <3>3. goals[g].version \in Nat /\ goals'[g].version \in Nat
                BY <3>2 DEF Goal
            <3>4. CASE goals'[g] = goals[g]
                <4>1. GoalDraft(q)' =
                        /\ goals'[g] # Nobody /\ draft[q].version <= goals'[g].version
                        /\ draft[q].version = goals'[g].version =>
                             IF pc[q] = "patch" THEN draft[q] = goals'[g]
                             ELSE \E c \in Currency : draft[q] = PatchGoal(goals'[g], req[q].patch, c)
                    BY <2>1 DEF GoalDraft, PatchGoal, Patch
                <4> QED BY <3>1, <3>4, <4>1
            <3>5. CASE goals[g].version < goals'[g].version
                <4>1. draft[q].version <= goals'[g].version /\ draft[q].version # goals'[g].version
                    BY <2>2, <3>1, <3>3, <3>5
                <4> QED BY <2>1, <3>2, <4>1 DEF GoalDraft
            <3> QED BY <3>1, <3>4, <3>5 DEF RowsAdvance
        <2> QED BY <1>2, <2>3 DEF GoalRequestOK, Valid
    <1>3. ASSUME LimitRequestOK(q) PROVE LimitRequestOK(q)'
        <2>1. PICK i \in LimitId : i = req[q].id
            BY <1>3 DEF LimitRequestOK
        <2>2. draft[q].version \in Nat
            BY <1>3 DEF LimitRequestOK, Limit
        <2>3. ASSUME pc[q] \in {"patch", "write"} PROVE LimitDraft(q)'
            <3>1. /\ limits[i] # Nobody /\ draft[q].version <= limits[i].version
                  /\ draft[q].version = limits[i].version =>
                       draft[q] = IF pc[q] = "patch" THEN limits[i] ELSE Patch(limits[i], req[q].patch)
                BY <1>3, <2>1, <2>3 DEF LimitRequestOK, LimitDraft
            <3>2. limits[i] \in Limit /\ limits'[i] \in Limit /\ limits'[i] # Nobody
                BY <3>1 DEF PlanningInv, TypeOK, TablesTyped, RowsAdvance
            <3>3. limits[i].version \in Nat /\ limits'[i].version \in Nat
                BY <3>2 DEF Limit
            <3>4. CASE limits'[i] = limits[i]
                BY <2>1, <3>1, <3>4 DEF LimitDraft, Patch
            <3>5. CASE limits[i].version < limits'[i].version
                <4>1. draft[q].version <= limits'[i].version /\ draft[q].version # limits'[i].version
                    BY <2>2, <3>1, <3>3, <3>5
                <4> QED BY <2>1, <3>2, <4>1 DEF LimitDraft
            <3> QED BY <3>1, <3>4, <3>5 DEF RowsAdvance
        <2> QED BY <1>3, <2>3 DEF LimitRequestOK, Valid
    <1> QED BY <1>1, <1>2, <1>3 DEF RequestOK

\* A step of one request keeps the invariant when it keeps its own part of it.
LEMMA StepKeeps ==
    ASSUME PlanningInv, NEW p \in Proc, RowsAdvance, TablesTyped, OnlyMoves(p),
           pc'[p] # "idle" => RequestOK(p)', AmountsFit'
    PROVE  PlanningInv'
    <1>1. TypeOK'
        BY DEF TypeOK, TablesTyped, OnlyMoves
    <1>2. \A q \in Proc \ {p} : pc'[q] # "idle" => RequestOK(q)'
        BY DraftStays DEF OnlyMoves
    <1> QED BY <1>1, <1>2 DEF PlanningInv

\* Where the tables do not change, so does nothing that is asked of them.
LEMMA SameTables ==
    ASSUME PlanningInv, UNCHANGED <<currency, goals, limits>>
    PROVE  RowsAdvance /\ TablesTyped /\ AmountsFit'
    BY DEF PlanningInv, TypeOK, RowsAdvance, TablesTyped, AmountsFit, Valid

\* A request returns.
LEMMA ReturnMoves ==
    ASSUME PlanningInv, NEW p \in Proc, Return(p)
    PROVE  OnlyMoves(p) /\ pc'[p] = "idle"
    BY DEF Return, PlanningInv, TypeOK, OnlyMoves

\* A request starts.
LEMMA StartMoves ==
    ASSUME PlanningInv, NEW p \in Proc, NEW r, NEW stage \in {"insert", "patch"}, NEW row, Start(p, r, stage, row)
    PROVE  /\ OnlyMoves(p) /\ pc'[p] = stage /\ req'[p] = r /\ draft'[p] = row
           /\ UNCHANGED <<currency, goals, limits>>
    BY DEF Start, PlanningInv, TypeOK, OnlyMoves, tables

\* A request has built the row it will write.
LEMMA BuildMoves ==
    ASSUME PlanningInv, NEW p \in Proc, NEW row, Build(p, "write", row)
    PROVE  /\ OnlyMoves(p) /\ pc'[p] = "write" /\ req' = req /\ draft'[p] = row
           /\ UNCHANGED <<currency, goals, limits>>
    BY DEF Build, PlanningInv, TypeOK, OnlyMoves, tables

-----------------------------------------------------------------------------
(* Goals. *)

\* A goal request arrives: a new goal is valid, an update starts from the row as it is.
LEMMA GoalRequestKeeps ==
    ASSUME PlanningInv, NEW p \in Proc, GoalRequest(p)
    PROVE  PlanningInv'
    <1>1. ASSUME NEW g \in GoalId, NEW a \in Account, NEW x \in Amount, CreateGoal(p, g, a, x)
          PROVE  PlanningInv'
        <2> DEFINE row == [account |-> a, amount |-> x, currency |-> currency[a], status |-> "active", version |-> 0]
        <2>1. /\ OnlyMoves(p) /\ pc'[p] = "insert" /\ req'[p] = [kind |-> "create_goal", id |-> g]
              /\ draft'[p] = row /\ UNCHANGED <<currency, goals, limits>>
            BY <1>1, StartMoves DEF CreateGoal
        <2>2. row \in Goal /\ row.amount = x /\ row.currency = currency[a]
            BY PlanningAssumption DEF Goal, Status, PlanningInv, TypeOK
        <2>3. Valid(row.amount, row.currency)
            BY <1>1, <2>2 DEF CreateGoal
        <2> HIDE DEF row
        <2>4. req'[p].kind = "create_goal" /\ req'[p].id = g
            BY <2>1
        <2>5. RequestOK(p)'
            BY <2>1, <2>2, <2>3, <2>4 DEF RequestOK, GoalRequestOK, Valid
        <2> QED BY <2>1, <2>5, SameTables, StepKeeps
    <1>2. ASSUME NEW g \in GoalId, NEW patch \in GoalPatch, UpdateGoal(p, g, patch)
          PROVE  PlanningInv'
        <2>1. /\ OnlyMoves(p) /\ pc'[p] = "patch" /\ draft'[p] = goals[g]
              /\ req'[p] = [kind |-> "update_goal", id |-> g, patch |-> patch]
              /\ UNCHANGED <<currency, goals, limits>>
            BY <1>2, StartMoves DEF UpdateGoal
        <2>2. /\ goals[g] # Nobody /\ goals[g] \in Goal /\ Valid(goals[g].amount, goals[g].currency)
            BY <1>2 DEF UpdateGoal, PlanningInv, TypeOK, AmountsFit
        <2>3. req'[p].kind = "update_goal" /\ req'[p].id = g /\ req'[p].patch = patch
            BY <2>1
        <2>4. GoalDraft(p)'
            <3>1. goals[g].version \in Nat
                BY <2>2 DEF Goal
            <3> QED BY <2>1, <2>2, <2>3, <3>1 DEF GoalDraft
        <2>5. RequestOK(p)'
            BY <2>1, <2>2, <2>3, <2>4 DEF RequestOK, GoalRequestOK, Valid
        <2> QED BY <2>1, <2>5, SameTables, StepKeeps
    <1> QED BY <1>1, <1>2 DEF GoalRequest

\* A new goal is inserted where there is none.
LEMMA InsertGoalKeeps ==
    ASSUME PlanningInv, NEW p \in Proc, InsertGoal(p)
    PROVE  PlanningInv'
    <1>1. /\ pc[p] = "insert" /\ req[p].id \in GoalId /\ goals[req[p].id] = Nobody /\ draft[p] \in Goal
          /\ Valid(draft[p].amount, draft[p].currency)
        BY DEF InsertGoal, PlanningInv, RequestOK, GoalRequestOK
    <1>2. PICK g \in GoalId : g = req[p].id
        BY <1>1
    <1>3. PICK row \in Goal : row = draft[p]
        BY <1>1
    <1>4. /\ goals'[g] = row /\ \A h \in GoalId : h # g => goals'[h] = goals[h]
          /\ goals' \in [GoalId -> Goal \union {Nobody}] /\ UNCHANGED <<currency, limits>>
        BY <1>2, <1>3 DEF InsertGoal, PlanningInv, TypeOK
    <1>5. RowsAdvance
        BY <1>1, <1>2, <1>4 DEF RowsAdvance
    <1>6. TablesTyped
        BY <1>4 DEF TablesTyped, PlanningInv, TypeOK
    <1>7. AmountsFit'
        BY <1>1, <1>3, <1>4 DEF PlanningInv, AmountsFit, Valid
    <1>8. OnlyMoves(p) /\ pc'[p] = "idle"
        BY ReturnMoves DEF InsertGoal
    <1> QED BY <1>5, <1>6, <1>7, <1>8, StepKeeps

\* The row that was read is patched and validated.
LEMMA ValidateGoalKeeps ==
    ASSUME PlanningInv, NEW p \in Proc, ValidateGoal(p)
    PROVE  PlanningInv'
    <1>1. /\ pc[p] = "patch" /\ req[p].kind = "update_goal" /\ req[p].id \in GoalId /\ req[p].patch \in GoalPatch
          /\ draft[p] \in Goal /\ Valid(draft[p].amount, draft[p].currency) /\ GoalDraft(p)
        BY DEF ValidateGoal, PlanningInv, RequestOK, GoalRequestOK
    <1>2. PICK cur : cur = currency[req[p].patch.account]
        OBVIOUS
    <1>3. "account" \in DOMAIN req[p].patch => cur \in Currency
        BY <1>1, <1>2, PatchAssumption DEF PlanningInv, TypeOK
    <1>4. PICK new : new = PatchGoal(draft[p], req[p].patch, cur)
        OBVIOUS
    <1>5. GoalAccepts(new, req[p].patch) /\ Build(p, "write", new)
        BY <1>2, <1>4 DEF ValidateGoal
    <1>6. new \in Goal /\ new.version = draft[p].version /\ Valid(new.amount, new.currency)
        BY <1>1, <1>3, <1>4, <1>5, PatchedGoal
    <1>7. /\ OnlyMoves(p) /\ pc'[p] = "write" /\ req' = req /\ draft'[p] = new
          /\ UNCHANGED <<currency, goals, limits>>
        BY <1>5, BuildMoves
    <1>8. PICK row : row = goals[req[p].id]
        OBVIOUS
    <1>9. /\ row # Nobody /\ draft[p].version <= row.version
          /\ draft[p].version = row.version => draft[p] = row
        BY <1>1, <1>8 DEF GoalDraft
    <1>10. ASSUME new.version = row.version
           PROVE  \E c \in Currency : new = PatchGoal(row, req[p].patch, c)
        <2>1. new = PatchGoal(row, req[p].patch, cur)
            BY <1>4, <1>6, <1>9, <1>10
        <2>2. CASE "account" \in DOMAIN req[p].patch
            BY <1>3, <2>1, <2>2
        <2>3. CASE "account" \notin DOMAIN req[p].patch
            <3>1. draft[p].currency \in Currency
                BY <1>1 DEF Goal
            <3>2. \A c : PatchGoal(row, req[p].patch, c) = Patch(row, req[p].patch)
                BY <2>3 DEF PatchGoal
            <3> QED BY <2>1, <3>1, <3>2
        <2> QED BY <2>2, <2>3
    <1>11. GoalDraft(p)'
        <2>1. goals'[req'[p].id] = row /\ req'[p].patch = req[p].patch
            BY <1>7, <1>8
        <2> QED BY <1>6, <1>7, <1>9, <1>10, <2>1 DEF GoalDraft, PatchGoal, Patch
    <1>12. RequestOK(p)'
        BY <1>1, <1>6, <1>7, <1>11 DEF RequestOK, GoalRequestOK, Valid
    <1> QED BY <1>7, <1>12, SameTables, StepKeeps

\* The write is of the row's version and raises it.
LEMMA WriteGoalKeeps ==
    ASSUME PlanningInv, NEW p \in Proc, WriteGoal(p)
    PROVE  PlanningInv'
    <1>1. /\ pc[p] = "write" /\ req[p].id \in GoalId /\ draft[p] \in Goal
          /\ Valid(draft[p].amount, draft[p].currency) /\ goals[req[p].id] # Nobody
        BY DEF WriteGoal, PlanningInv, RequestOK, GoalRequestOK, GoalDraft
    <1>2. PICK g \in GoalId : g = req[p].id
        BY <1>1
    <1>3. goals[g] \in Goal /\ goals[g].version \in Nat
        BY <1>1, <1>2 DEF PlanningInv, TypeOK, Goal
    <1>4. PICK v \in Nat : v = goals[g].version + 1
        BY <1>3
    <1>5. PICK row : row = [draft[p] EXCEPT !.version = v]
        OBVIOUS
    <1>6. /\ row \in Goal /\ row.version = v /\ row.amount = draft[p].amount /\ row.currency = draft[p].currency
        BY <1>1, <1>5 DEF Goal
    <1>7. /\ goals'[g] = row /\ \A h \in GoalId : h # g => goals'[h] = goals[h]
          /\ goals' \in [GoalId -> Goal \union {Nobody}] /\ UNCHANGED <<currency, limits>>
        BY <1>2, <1>4, <1>5, <1>6 DEF WriteGoal, PlanningInv, TypeOK
    <1>8. RowsAdvance
        <2>1. row # Nobody /\ goals[g].version < row.version
            BY <1>3, <1>4, <1>6, NobodyAssumption
        <2> QED BY <1>7, <2>1 DEF RowsAdvance
    <1>9. TablesTyped
        BY <1>7 DEF TablesTyped, PlanningInv, TypeOK
    <1>10. AmountsFit'
        BY <1>1, <1>6, <1>7 DEF PlanningInv, AmountsFit, Valid
    <1>11. OnlyMoves(p) /\ pc'[p] = "idle"
        BY ReturnMoves DEF WriteGoal
    <1> QED BY <1>8, <1>9, <1>10, <1>11, StepKeeps

-----------------------------------------------------------------------------
(* Limits. *)

\* A limit request arrives: a new limit is valid, an update starts from the row as it is.
LEMMA LimitRequestKeeps ==
    ASSUME PlanningInv, NEW p \in Proc, LimitRequest(p)
    PROVE  PlanningInv'
    <1>1. ASSUME NEW i \in LimitId, NEW k \in Category, NEW x \in Amount, NEW c \in Currency,
                 CreateLimit(p, i, [category |-> k, amount |-> x, currency |-> c, active |-> TRUE, version |-> 0])
          PROVE  PlanningInv'
        <2> DEFINE row == [category |-> k, amount |-> x, currency |-> c, active |-> TRUE, version |-> 0]
        <2>1. /\ OnlyMoves(p) /\ pc'[p] = "insert" /\ req'[p] = [kind |-> "create_limit", id |-> i]
              /\ draft'[p] = row /\ UNCHANGED <<currency, goals, limits>>
            BY <1>1, StartMoves DEF CreateLimit
        <2>2. row \in Limit
            BY PlanningAssumption DEF Limit
        <2>3. Valid(row.amount, row.currency)
            BY <1>1 DEF CreateLimit
        <2> HIDE DEF row
        <2>4. req'[p].kind = "create_limit" /\ req'[p].id = i
            BY <2>1
        <2>5. RequestOK(p)'
            BY <2>1, <2>2, <2>3, <2>4 DEF RequestOK, LimitRequestOK, Valid
        <2> QED BY <2>1, <2>5, SameTables, StepKeeps
    <1>2. ASSUME NEW i \in LimitId, NEW patch \in LimitPatch, UpdateLimit(p, i, patch)
          PROVE  PlanningInv'
        <2>1. /\ OnlyMoves(p) /\ pc'[p] = "patch" /\ draft'[p] = limits[i]
              /\ req'[p] = [kind |-> "update_limit", id |-> i, patch |-> patch]
              /\ UNCHANGED <<currency, goals, limits>>
            BY <1>2, StartMoves DEF UpdateLimit
        <2>2. /\ limits[i] # Nobody /\ limits[i] \in Limit /\ Valid(limits[i].amount, limits[i].currency)
            BY <1>2 DEF UpdateLimit, PlanningInv, TypeOK, AmountsFit
        <2>3. req'[p].kind = "update_limit" /\ req'[p].id = i /\ req'[p].patch = patch
            BY <2>1
        <2>4. LimitDraft(p)'
            <3>1. limits[i].version \in Nat
                BY <2>2 DEF Limit
            <3> QED BY <2>1, <2>2, <2>3, <3>1 DEF LimitDraft
        <2>5. RequestOK(p)'
            BY <2>1, <2>2, <2>3, <2>4 DEF RequestOK, LimitRequestOK, Valid
        <2> QED BY <2>1, <2>5, SameTables, StepKeeps
    <1> QED BY <1>1, <1>2 DEF LimitRequest

\* A new limit is inserted where there is none.
LEMMA InsertLimitKeeps ==
    ASSUME PlanningInv, NEW p \in Proc, InsertLimit(p)
    PROVE  PlanningInv'
    <1>1. /\ pc[p] = "insert" /\ req[p].id \in LimitId /\ limits[req[p].id] = Nobody /\ draft[p] \in Limit
          /\ Valid(draft[p].amount, draft[p].currency)
        BY DEF InsertLimit, PlanningInv, RequestOK, LimitRequestOK
    <1>2. PICK i \in LimitId : i = req[p].id
        BY <1>1
    <1>3. PICK row \in Limit : row = draft[p]
        BY <1>1
    <1>4. /\ limits'[i] = row /\ \A h \in LimitId : h # i => limits'[h] = limits[h]
          /\ limits' \in [LimitId -> Limit \union {Nobody}] /\ UNCHANGED <<currency, goals>>
        BY <1>2, <1>3 DEF InsertLimit, PlanningInv, TypeOK
    <1>5. RowsAdvance
        BY <1>1, <1>2, <1>4 DEF RowsAdvance
    <1>6. TablesTyped
        BY <1>4 DEF TablesTyped, PlanningInv, TypeOK
    <1>7. AmountsFit'
        BY <1>1, <1>3, <1>4 DEF PlanningInv, AmountsFit, Valid
    <1>8. OnlyMoves(p) /\ pc'[p] = "idle"
        BY ReturnMoves DEF InsertLimit
    <1> QED BY <1>5, <1>6, <1>7, <1>8, StepKeeps

\* The row that was read is patched and validated.
LEMMA ValidateLimitKeeps ==
    ASSUME PlanningInv, NEW p \in Proc, ValidateLimit(p)
    PROVE  PlanningInv'
    <1>1. /\ pc[p] = "patch" /\ req[p].kind = "update_limit" /\ req[p].id \in LimitId
          /\ req[p].patch \in LimitPatch /\ draft[p] \in Limit
          /\ Valid(draft[p].amount, draft[p].currency) /\ LimitDraft(p)
        BY DEF ValidateLimit, PlanningInv, RequestOK, LimitRequestOK
    <1>2. PICK new : new = Patch(draft[p], req[p].patch)
        OBVIOUS
    <1>3. LimitAccepts(new, req[p].patch) /\ Build(p, "write", new)
        BY <1>2 DEF ValidateLimit
    <1>4. new \in Limit /\ new.version = draft[p].version /\ Valid(new.amount, new.currency)
        BY <1>1, <1>2, <1>3, PatchedLimit
    <1>5. /\ OnlyMoves(p) /\ pc'[p] = "write" /\ req' = req /\ draft'[p] = new
          /\ UNCHANGED <<currency, goals, limits>>
        BY <1>3, BuildMoves
    <1>6. PICK row : row = limits[req[p].id]
        OBVIOUS
    <1>7. /\ row # Nobody /\ draft[p].version <= row.version
          /\ draft[p].version = row.version => draft[p] = row
        BY <1>1, <1>6 DEF LimitDraft
    <1>8. LimitDraft(p)'
        <2>1. limits'[req'[p].id] = row /\ req'[p].patch = req[p].patch
            BY <1>5, <1>6
        <2> QED BY <1>2, <1>4, <1>5, <1>7, <2>1 DEF LimitDraft, Patch
    <1>9. RequestOK(p)'
        BY <1>1, <1>4, <1>5, <1>8 DEF RequestOK, LimitRequestOK, Valid
    <1> QED BY <1>5, <1>9, SameTables, StepKeeps

\* The write is of the row's version and raises it.
LEMMA WriteLimitKeeps ==
    ASSUME PlanningInv, NEW p \in Proc, WriteLimit(p)
    PROVE  PlanningInv'
    <1>1. /\ pc[p] = "write" /\ req[p].id \in LimitId /\ draft[p] \in Limit
          /\ Valid(draft[p].amount, draft[p].currency) /\ limits[req[p].id] # Nobody
        BY DEF WriteLimit, PlanningInv, RequestOK, LimitRequestOK, LimitDraft
    <1>2. PICK i \in LimitId : i = req[p].id
        BY <1>1
    <1>3. limits[i] \in Limit /\ limits[i].version \in Nat
        BY <1>1, <1>2 DEF PlanningInv, TypeOK, Limit
    <1>4. PICK v \in Nat : v = limits[i].version + 1
        BY <1>3
    <1>5. PICK row : row = [draft[p] EXCEPT !.version = v]
        OBVIOUS
    <1>6. /\ row \in Limit /\ row.version = v /\ row.amount = draft[p].amount /\ row.currency = draft[p].currency
        BY <1>1, <1>5 DEF Limit
    <1>7. /\ limits'[i] = row /\ \A h \in LimitId : h # i => limits'[h] = limits[h]
          /\ limits' \in [LimitId -> Limit \union {Nobody}] /\ UNCHANGED <<currency, goals>>
        BY <1>2, <1>4, <1>5, <1>6 DEF WriteLimit, PlanningInv, TypeOK
    <1>8. RowsAdvance
        <2>1. row # Nobody /\ limits[i].version < row.version
            BY <1>3, <1>4, <1>6, NobodyAssumption
        <2> QED BY <1>7, <2>1 DEF RowsAdvance
    <1>9. TablesTyped
        BY <1>7 DEF TablesTyped, PlanningInv, TypeOK
    <1>10. AmountsFit'
        BY <1>1, <1>6, <1>7 DEF PlanningInv, AmountsFit, Valid
    <1>11. OnlyMoves(p) /\ pc'[p] = "idle"
        BY ReturnMoves DEF WriteLimit
    <1> QED BY <1>8, <1>9, <1>10, <1>11, StepKeeps

-----------------------------------------------------------------------------
(* The invariant of the specification. *)

\* An account's currency is nobody's draft.
LEMMA CurrencyKeeps ==
    ASSUME PlanningInv, UNCHANGED <<goals, limits, pc, req, draft, started>>, currency' \in [Account -> Currency]
    PROVE  PlanningInv'
    <1>1. RowsAdvance /\ TablesTyped /\ AmountsFit'
        BY DEF PlanningInv, TypeOK, RowsAdvance, TablesTyped, AmountsFit, Valid
    <1>2. \A q \in Proc : pc'[q] # "idle" => RequestOK(q)'
        BY <1>1, DraftStays
    <1>3. TypeOK'
        BY <1>1 DEF PlanningInv, TypeOK, TablesTyped
    <1> QED BY <1>1, <1>2, <1>3 DEF PlanningInv

\* Initially the tables are empty.
LEMMA InitHolds == Init => PlanningInv
    BY DEF Init, PlanningInv, TypeOK, AmountsFit

\* Every step keeps the invariant.
LEMMA NextKeeps == PlanningInv /\ [Next]_vars => PlanningInv'
    <1>1. ASSUME PlanningInv, NEW p \in Proc, Refuse(p) PROVE PlanningInv'
        <2>1. UNCHANGED <<currency, goals, limits>> /\ OnlyMoves(p) /\ pc'[p] = "idle"
            BY <1>1, ReturnMoves DEF Refuse, tables
        <2> QED BY <1>1, <2>1, SameTables, StepKeeps
    <1>2. ASSUME PlanningInv, NEW p \in Proc, Step(p) PROVE PlanningInv'
        BY <1>1, <1>2, GoalRequestKeeps, InsertGoalKeeps, ValidateGoalKeeps, WriteGoalKeeps,
           LimitRequestKeeps, InsertLimitKeeps, ValidateLimitKeeps, WriteLimitKeeps DEF Step
    <1>3. ASSUME PlanningInv, NEW a \in Account, NEW c \in Currency, UpdateAccount(a, c) PROVE PlanningInv'
        BY <1>3, CurrencyKeeps DEF UpdateAccount, PlanningInv, TypeOK
    <1>4. ASSUME PlanningInv, UNCHANGED vars PROVE PlanningInv'
        BY <1>4, CurrencyKeeps DEF vars, PlanningInv, TypeOK
    <1> QED BY <1>2, <1>3, <1>4 DEF Next

\* Drafts and rows agree in every reachable state.
THEOREM InvariantHolds == Spec => []PlanningInv
    BY InitHolds, NextKeeps, PTL DEF Spec

\* Targets and limits stay positive and fit their currency (FinancialGoalService.Update,
\* CategoryLimitService.Update), whatever requests change amount, account and currency.
THEOREM AmountsAlwaysFit == Spec => []AmountsFit
    <1>1. PlanningInv => AmountsFit
        BY DEF PlanningInv
    <1> QED BY <1>1, InvariantHolds, PTL

-----------------------------------------------------------------------------
(* What no step may do. *)

\* The steps that write goals.
LEMMA GoalWriters ==
    ASSUME PlanningInv, Next, NEW g \in GoalId, goals[g] # Nobody, goals'[g] # goals[g]
    PROVE  \E p \in Proc : WriteGoal(p) /\ req[p].id = g
    <1>0. goals \in [GoalId -> Goal \union {Nobody}]
        BY DEF PlanningInv, TypeOK
    <1>1. ASSUME NEW p \in Proc, InsertGoal(p) PROVE FALSE
        BY <1>0, <1>1 DEF InsertGoal
    <1>2. ASSUME NEW p \in Proc, WriteGoal(p) PROVE req[p].id = g
        BY <1>0, <1>2 DEF WriteGoal
    <1>3. ASSUME NEW p \in Proc, Step(p), ~InsertGoal(p), ~WriteGoal(p) PROVE UNCHANGED goals
        BY <1>3 DEF Step, GoalRequest, CreateGoal, UpdateGoal, ValidateGoal, LimitRequest, CreateLimit,
                    UpdateLimit, InsertLimit, ValidateLimit, WriteLimit, Refuse, Start, Build, tables
    <1> QED BY <1>1, <1>2, <1>3 DEF Next, UpdateAccount

\* The steps that write limits.
LEMMA LimitWriters ==
    ASSUME PlanningInv, Next, NEW i \in LimitId, limits[i] # Nobody, limits'[i] # limits[i]
    PROVE  \E p \in Proc : WriteLimit(p) /\ req[p].id = i
    <1>0. limits \in [LimitId -> Limit \union {Nobody}]
        BY DEF PlanningInv, TypeOK
    <1>1. ASSUME NEW p \in Proc, InsertLimit(p) PROVE FALSE
        BY <1>0, <1>1 DEF InsertLimit
    <1>2. ASSUME NEW p \in Proc, WriteLimit(p) PROVE req[p].id = i
        BY <1>0, <1>2 DEF WriteLimit
    <1>3. ASSUME NEW p \in Proc, Step(p), ~InsertLimit(p), ~WriteLimit(p) PROVE UNCHANGED limits
        BY <1>3 DEF Step, GoalRequest, CreateGoal, UpdateGoal, InsertGoal, ValidateGoal, WriteGoal, LimitRequest,
                    CreateLimit, UpdateLimit, ValidateLimit, Refuse, Start, Build, tables
    <1> QED BY <1>1, <1>2, <1>3 DEF Next, UpdateAccount

\* No update of a goal or a limit is lost: the version that the write compares is that of the row
\* the draft was patched from.
THEOREM NoUpdateLost == Spec => UpdatesApply
    <1>1. ASSUME PlanningInv, Next, NEW g \in GoalId, goals[g] # Nobody, goals'[g] # goals[g]
          PROVE  \E p \in Proc : /\ pc[p] = "write" /\ req[p].kind = "update_goal" /\ req[p].id = g
                                 /\ \E c \in Currency :
                                      goals'[g] = [PatchGoal(goals[g], req[p].patch, c)
                                                     EXCEPT !.version = goals[g].version + 1]
        <2>1. PICK p \in Proc : WriteGoal(p) /\ req[p].id = g
            BY <1>1, GoalWriters
        <2>2. /\ pc[p] = "write" /\ req[p].kind = "update_goal" /\ goals[g].version = draft[p].version
              /\ goals'[g] = [draft[p] EXCEPT !.version = goals[g].version + 1]
            BY <1>1, <2>1 DEF WriteGoal, SameVersion, PlanningInv, TypeOK
        <2>3. GoalDraft(p)
            BY <1>1, <2>2 DEF PlanningInv, RequestOK, GoalRequestOK
        <2>4. PICK c \in Currency : draft[p] = PatchGoal(goals[g], req[p].patch, c)
            BY <2>1, <2>2, <2>3 DEF GoalDraft
        <2>5. goals'[g] = [PatchGoal(goals[g], req[p].patch, c) EXCEPT !.version = goals[g].version + 1]
            BY <2>2, <2>4
        <2> QED BY <2>1, <2>2, <2>5, Zenon
    <1>2. ASSUME PlanningInv, Next, NEW i \in LimitId, limits[i] # Nobody, limits'[i] # limits[i]
          PROVE  \E p \in Proc : /\ pc[p] = "write" /\ req[p].kind = "update_limit" /\ req[p].id = i
                                 /\ limits'[i] = [Patch(limits[i], req[p].patch)
                                                    EXCEPT !.version = limits[i].version + 1]
        <2>1. PICK p \in Proc : WriteLimit(p) /\ req[p].id = i
            BY <1>2, LimitWriters
        <2>2. /\ pc[p] = "write" /\ req[p].kind = "update_limit" /\ limits[i].version = draft[p].version
              /\ limits'[i] = [draft[p] EXCEPT !.version = limits[i].version + 1]
            BY <1>2, <2>1 DEF WriteLimit, SameVersion, PlanningInv, TypeOK
        <2>3. LimitDraft(p)
            BY <1>2, <2>2 DEF PlanningInv, RequestOK, LimitRequestOK
        <2>4. draft[p] = Patch(limits[i], req[p].patch)
            BY <2>1, <2>2, <2>3 DEF LimitDraft
        <2> QED BY <2>1, <2>2, <2>4
    <1>3. PlanningInv /\ [Next]_vars =>
            [/\ \A g \in GoalId : goals[g] # Nobody /\ goals'[g] # goals[g] =>
                  \E p \in Proc : /\ pc[p] = "write" /\ req[p].kind = "update_goal" /\ req[p].id = g
                                  /\ \E c \in Currency :
                                       goals'[g] = [PatchGoal(goals[g], req[p].patch, c)
                                                      EXCEPT !.version = goals[g].version + 1]
             /\ \A i \in LimitId : limits[i] # Nobody /\ limits'[i] # limits[i] =>
                  \E p \in Proc : /\ pc[p] = "write" /\ req[p].kind = "update_limit" /\ req[p].id = i
                                  /\ limits'[i] = [Patch(limits[i], req[p].patch)
                                                     EXCEPT !.version = limits[i].version + 1]]_vars
        BY <1>1, <1>2
    <1> QED BY <1>3, InvariantHolds, PTL DEF Spec, UpdatesApply
=============================================================================
