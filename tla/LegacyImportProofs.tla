------------------------- MODULE LegacyImportProofs -------------------------
(***************************************************************************)
(* Proofs about LegacyImport for every number of imports, files of every   *)
(* length, and every opening of the database that meets OpeningAssumption. *)
(* ImportInv is shown inductive: an uncommitted INSERT is alone with its   *)
(* id, a repair has its row, and an account without an owner is one that   *)
(* Setup has claimed or whose transaction overlapped that of Setup.  With  *)
(* it ReportsInv is: what a report counts is what is recorded, for every   *)
(* entry that its import has taken.                                        *)
(***************************************************************************)
EXTENDS LegacyImport, NaturalsInduction, WellFoundedInduction, TLAPS

\* p alone moves, to a stage that has what it needs.
OnlyMoves(p) ==
    /\ pc' \in [Proc -> Stage] /\ DOMAIN run' = Proc /\ pending' \in [Proc -> BOOLEAN \union {None}]
    /\ \A q \in Proc \ {p} : pc'[q] = pc[q] /\ run'[q] = run[q] /\ pending'[q] = pending[q]
    /\ pc'[p] # "idle" => RunOK(run'[p])
    /\ pc'[p] \in Working => run'[p].at <= Len(run'[p].file)
    /\ pc'[p] = "commit" => pending'[p] \in BOOLEAN
    /\ started' \in Nat

\* Accounts keep their owner and, but for the id that p repairs, their initial balance; a new one
\* is the one that p commits.
RowsKept(p) ==
    /\ accounts' \in [Id -> Account \union {None}]
    /\ \A d \in Id : accounts[d] # None =>
         /\ accounts'[d] # None /\ accounts'[d].owned = accounts[d].owned
         /\ accounts'[d].initial = accounts[d].initial \/ (pc[p] = "addTransaction" /\ d = Entry(p).id)
    /\ \A d \in Id : accounts[d] = None /\ accounts'[d] # None =>
         pc[p] = "commit" /\ d = Entry(p).id /\ accounts'[d].owned = pending[p]

\* Setup stands still, and the histories grow.
HistoriesGrow ==
    /\ user' = user /\ claimed' = claimed
    /\ contested \subseteq contested' /\ contested' \subseteq Id
    /\ overtaken \subseteq overtaken' /\ overtaken' \subseteq Id

\* What p's own next stage asks for.
OwnPart(p) ==
    /\ pc'[p] = "commit" =>
         /\ Row(p)' = None
         /\ \A q \in Proc \ {p} : pc[q] = "commit" => Entry(q).id # Entry(p)'.id
         /\ ~pending'[p] /\ (user \/ claimed # None) => Entry(p)'.id \in overtaken'
    /\ pc'[p] \in Repair =>
         /\ Row(p)' # None
         /\ \A q \in Proc \ {p} : pc[q] \in Repair /\ Entry(q).id = Entry(p)'.id => Entry(q).id \in contested'
         /\ pc'[p] = "addTransaction" => Row(p)'.initial = <<>> \/ Entry(p)'.id \in contested'

\* An import at work has an entry of its file, and thus an id.
LEMMA EntryTyped ==
    ASSUME TypeOK, NEW p \in Proc, pc[p] \in Working
    PROVE  /\ RunOK(run[p]) /\ Entry(p) \in Deposit /\ Entry(p).id \in Id
           /\ run[p].at \in DOMAIN run[p].file
    <1>1. pc[p] # "idle" /\ run[p].at <= Len(run[p].file)
        BY DEF TypeOK, Working, Repair
    <1>2. RunOK(run[p])
        BY <1>1 DEF TypeOK
    <1>3. run[p].at \in DOMAIN run[p].file /\ run[p].file \in Seq(Deposit)
        BY <1>1, <1>2 DEF RunOK
    <1>4. run[p].file[run[p].at] \in Deposit
        BY <1>3
    <1> QED BY <1>2, <1>3, <1>4 DEF Entry, Deposit

\* A step of one import keeps the invariant if it keeps the rows of the others and meets its own
\* next stage.
LEMMA StepKeeps ==
    ASSUME ImportInv, NEW p \in Proc, OnlyMoves(p), RowsKept(p), HistoriesGrow, OwnPart(p), DepositOnce'
    PROVE  ImportInv'
    <1>1. TypeOK /\ InsertsInv /\ RepairsInv /\ OwnersInv
        BY DEF ImportInv
    <1>2. TypeOK'
        BY <1>1 DEF TypeOK, OnlyMoves, RowsKept, HistoriesGrow
    <1>3. \A q \in Proc \ {p} : pc'[q] = pc[q] /\ Entry(q)' = Entry(q) /\ pending'[q] = pending[q]
        BY DEF OnlyMoves, Entry
    <1>4. \A q \in Proc : pc[q] \in Working => Entry(q).id \in Id
        BY <1>1, EntryTyped
    <1>5. \A q \in Proc : pc'[q] \in Working => Entry(q)'.id \in Id
        <2> SUFFICES ASSUME NEW q \in Proc, pc'[q] \in Working PROVE Entry(q)'.id \in Id
            OBVIOUS
        <2>1. pc'[q] # "idle" /\ run'[q].at <= Len(run'[q].file)
            BY <1>2 DEF TypeOK, Working, Repair
        <2>2. RunOK(run'[q])
            BY <1>2, <2>1 DEF TypeOK
        <2>3. run'[q].file[run'[q].at] \in Deposit
            BY <2>1, <2>2 DEF RunOK
        <2> QED BY <2>3 DEF Entry, Deposit
    <1>6. InsertsInv'
        <2> SUFFICES ASSUME NEW q \in Proc, pc'[q] = "commit"
                     PROVE  Row(q)' = None /\ \A r \in Proc \ {q} : pc'[r] = "commit" => Entry(r)'.id # Entry(q)'.id
            BY DEF InsertsInv
        <2>1. CASE q = p
            BY <1>3, <2>1 DEF OwnPart
        <2>2. CASE q # p
            <3>1. pc[q] = "commit" /\ Entry(q)' = Entry(q) /\ pc[q] \in Working
                BY <1>3, <2>2 DEF Working
            <3>2. accounts[Entry(q).id] = None /\ Entry(q).id \in Id
                BY <1>1, <1>4, <3>1 DEF InsertsInv, Row
            <3>3. accounts'[Entry(q).id] = None
                BY <1>1, <2>2, <3>1, <3>2 DEF RowsKept, InsertsInv
            <3>4. ASSUME NEW r \in Proc \ {q}, pc'[r] = "commit" PROVE Entry(r)'.id # Entry(q)'.id
                <4>1. CASE r = p
                    BY <2>2, <3>1, <3>4, <4>1 DEF OwnPart
                <4>2. CASE r # p
                    BY <1>1, <1>3, <3>1, <3>4, <4>2 DEF InsertsInv
                <4> QED BY <4>1, <4>2
            <3> QED BY <3>1, <3>3, <3>4 DEF Row
        <2> QED BY <2>1, <2>2
    <1>7. RepairsInv'
        <2> SUFFICES ASSUME NEW q \in Proc, pc'[q] \in Repair
                     PROVE  /\ Row(q)' # None
                            /\ \A r \in Proc \ {q} : pc'[r] \in Repair /\ Entry(r)'.id = Entry(q)'.id => Entry(q)'.id \in contested'
                            /\ pc'[q] = "addTransaction" => Row(q)'.initial = <<>> \/ Entry(q)'.id \in contested'
            BY DEF RepairsInv
        <2>1. CASE q = p
            BY <1>3, <2>1 DEF OwnPart
        <2>2. CASE q # p
            <3>1. pc[q] \in Repair /\ pc'[q] = pc[q] /\ Entry(q)' = Entry(q) /\ pc[q] \in Working
                BY <1>3, <2>2 DEF Working
            <3>2. accounts[Entry(q).id] # None /\ Entry(q).id \in Id
                BY <1>1, <1>4, <3>1 DEF RepairsInv, Row
            <3>3. accounts'[Entry(q).id] # None
                BY <3>2 DEF RowsKept
            <3>4. ASSUME NEW r \in Proc \ {q}, pc'[r] \in Repair, Entry(r)'.id = Entry(q)'.id
                  PROVE  Entry(q)'.id \in contested'
                <4>1. CASE r = p
                    BY <2>2, <3>1, <3>4, <4>1 DEF OwnPart
                <4>2. CASE r # p
                    <5>1. pc[r] \in Repair /\ Entry(r).id = Entry(q).id
                        BY <1>3, <3>1, <3>4, <4>2
                    <5>2. Entry(q).id \in contested
                        BY <1>1, <3>1, <3>4, <5>1 DEF RepairsInv
                    <5> QED BY <3>1, <5>2 DEF HistoriesGrow
                <4> QED BY <4>1, <4>2
            <3>5. ASSUME pc'[q] = "addTransaction"
                  PROVE  accounts'[Entry(q).id].initial = <<>> \/ Entry(q).id \in contested'
                <4>1. accounts[Entry(q).id].initial = <<>> \/ Entry(q).id \in contested
                    BY <1>1, <3>1, <3>5 DEF RepairsInv, Row
                <4>2. CASE Entry(q).id \in contested
                    BY <4>2 DEF HistoriesGrow
                <4>3. CASE accounts'[Entry(q).id].initial = accounts[Entry(q).id].initial
                    BY <4>1, <4>3 DEF HistoriesGrow
                <4>4. CASE pc[p] = "addTransaction" /\ Entry(q).id = Entry(p).id
                    <5>1. pc[p] \in Repair
                        BY <4>4 DEF Repair
                    <5>2. Entry(q).id \in contested
                        BY <1>1, <2>2, <3>1, <4>4, <5>1 DEF RepairsInv
                    <5> QED BY <4>2, <5>2
                <4> QED BY <3>2, <4>2, <4>3, <4>4 DEF RowsKept
            <3> QED BY <3>1, <3>3, <3>4, <3>5 DEF Row
        <2> QED BY <2>1, <2>2
    <1>8. OwnersInv'
        <2>1. user' = user /\ claimed' = claimed
            BY DEF HistoriesGrow
        <2>2. ASSUME claimed # None PROVE ~user /\ \A d \in claimed : accounts'[d] # None
            <3>1. claimed \subseteq Id
                BY <1>1, <2>2 DEF TypeOK
            <3> QED BY <1>1, <2>2, <3>1 DEF OwnersInv, RowsKept
        <2>3. ASSUME user \/ claimed # None, NEW d \in Id, accounts'[d] # None, ~accounts'[d].owned
              PROVE  d \in overtaken' \/ (claimed # None /\ d \in claimed)
            <3>1. CASE accounts[d] # None
                <4>1. ~accounts[d].owned
                    BY <2>3, <3>1 DEF RowsKept
                <4> QED BY <1>1, <2>3, <3>1, <4>1 DEF OwnersInv, HistoriesGrow
            <3>2. CASE accounts[d] = None
                <4>1. pc[p] = "commit" /\ d = Entry(p).id /\ ~pending[p]
                    BY <2>3, <3>2 DEF RowsKept
                <4> QED BY <1>1, <2>3, <4>1 DEF OwnersInv, HistoriesGrow
            <3> QED BY <3>1, <3>2
        <2>4. ASSUME user \/ claimed # None, NEW q \in Proc, pc'[q] = "commit", ~pending'[q]
              PROVE  Entry(q)'.id \in overtaken'
            <3>1. CASE q = p
                BY <2>4, <3>1 DEF OwnPart
            <3>2. CASE q # p
                <4>1. pc[q] = "commit" /\ ~pending[q] /\ Entry(q)' = Entry(q)
                    BY <1>3, <2>4, <3>2
                <4> QED BY <1>1, <2>4, <4>1 DEF OwnersInv, HistoriesGrow
            <3> QED BY <3>1, <3>2
        <2> QED BY <2>1, <2>2, <2>3, <2>4 DEF OwnersInv
    <1> QED BY <1>2, <1>6, <1>7, <1>8 DEF ImportInv

-----------------------------------------------------------------------------
(* Moves. *)

\* What the stages are.
LEMMA Stages ==
    /\ {"idle", "owner", "next", "lookup", "insert", "commit", "rules", "addRule", "transactions", "addTransaction"} \subseteq Stage
    /\ Repair = {"rules", "addRule", "transactions", "addTransaction"}
    /\ Working = {"lookup", "insert", "commit", "rules", "addRule", "transactions", "addTransaction"}
    BY DEF Stage, Working, Repair

\* An import that is over leaves nothing behind.
LEMMA LeaveMoves ==
    ASSUME TypeOK, NEW p \in Proc, Leave(p)
    PROVE  OnlyMoves(p) /\ pc'[p] = "idle"
    <1>1. pc'[p] = "idle" /\ pc' \in [Proc -> Stage]
        BY Stages DEF TypeOK, Leave
    <1> QED BY <1>1, Stages DEF TypeOK, Leave, OnlyMoves

\* A deposit that failed is passed over.
LEMMA FailedMoves ==
    ASSUME TypeOK, NEW p \in Proc, pc[p] \in Working, Failed(p), started' = started
    PROVE  OnlyMoves(p) /\ pc'[p] = "next"
    <1>1. RunOK(run[p])
        BY EntryTyped
    <1>2. run'[p] = [file |-> run[p].file, at |-> run[p].at + 1, owner |-> run[p].owner, source |-> run[p].source,
                     migrated |-> run[p].migrated, errors |-> TRUE]
        BY <1>1 DEF RunOK, Failed, TypeOK
    <1>3. RunOK(run'[p])
        BY <1>1, <1>2 DEF RunOK
    <1>4. pc'[p] = "next" /\ pc' \in [Proc -> Stage]
        BY Stages DEF TypeOK, Failed, Goto
    <1> QED BY <1>3, <1>4, Stages DEF TypeOK, Failed, Goto, OnlyMoves

\* So is one that succeeded, whatever is added to the report.
LEMMA MigratedMoves ==
    ASSUME TypeOK, NEW p \in Proc, pc[p] \in Working, NEW balance, Migrated(p, balance), started' = started
    PROVE  OnlyMoves(p) /\ pc'[p] = "next"
    <1>1. RunOK(run[p])
        BY EntryTyped
    <1>2. run'[p] = [file |-> run[p].file, at |-> run[p].at + 1, owner |-> run[p].owner, source |-> run[p].source,
                     migrated |-> run[p].migrated + balance, errors |-> run[p].errors]
        BY <1>1 DEF RunOK, Migrated, TypeOK
    <1>3. RunOK(run'[p])
        BY <1>1, <1>2 DEF RunOK
    <1>4. pc'[p] = "next" /\ pc' \in [Proc -> Stage]
        BY Stages DEF TypeOK, Migrated, Goto
    <1> QED BY <1>3, <1>4, Stages DEF TypeOK, Migrated, Goto, OnlyMoves

\* To go on with the same deposit needs nothing new.
LEMMA GotoMoves ==
    ASSUME TypeOK, NEW p \in Proc, pc[p] \in Working, NEW stage \in Working \ {"commit"}, Goto(p, stage),
           UNCHANGED <<run, pending, started>>
    PROVE  OnlyMoves(p) /\ pc'[p] = stage /\ Entry(p)' = Entry(p)
    <1>1. RunOK(run[p]) /\ run[p].at <= Len(run[p].file)
        BY EntryTyped DEF TypeOK
    <1>2. pc'[p] = stage /\ pc' \in [Proc -> Stage]
        BY DEF TypeOK, Goto, Stage
    <1> QED BY <1>1, <1>2 DEF TypeOK, Goto, OnlyMoves, Entry

\* A step without writes, to a stage that owns nothing, keeps the invariant.
LEMMA QuietKeeps ==
    ASSUME ImportInv, NEW p \in Proc, OnlyMoves(p), UNCHANGED <<user, claimed, accounts, contested, overtaken>>,
           pc'[p] \notin Repair, pc'[p] # "commit"
    PROVE  ImportInv'
    <1>1. RowsKept(p) /\ HistoriesGrow
        BY DEF ImportInv, TypeOK, RowsKept, HistoriesGrow
    <1>2. OwnPart(p)
        BY DEF OwnPart
    <1>3. DepositOnce'
        BY DEF ImportInv, DepositOnce
    <1> QED BY <1>1, <1>2, <1>3, StepKeeps

\* The first steps of an import, its end, and everything that fails before it has written.
LEMMA QuietStepsKeep ==
    ASSUME ImportInv, NEW p \in Proc,
           \/ \E r \in Offered : ImportLegacyDeposits(p, r)
           \/ resolveOwnerUserID(p) \/ BeginDeposit(p) \/ Report(p)
           \/ LegacyIDTaken(p) \/ StatementFails(p) \/ Stop(p)
    PROVE  ImportInv'
    <1>1. TypeOK
        BY DEF ImportInv
    <1>2. ASSUME NEW r \in Offered, ImportLegacyDeposits(p, r)
          PROVE  ImportInv'
        <2>1. pc'[p] = "owner" /\ pc' \in [Proc -> Stage]
            BY <1>1, <1>2, Stages DEF TypeOK, ImportLegacyDeposits, Goto
        <2>2. run'[p] = [file |-> r.file, at |-> 1, owner |-> r.owner, source |-> 0, migrated |-> 0, errors |-> FALSE]
            BY <1>1, <1>2 DEF TypeOK, ImportLegacyDeposits
        <2>3. RunOK(run'[p])
            <3>1. run'[p].file \in Seq(Deposit) /\ run'[p].at \in Nat \ {0}
                BY <2>2, OfferedAssumption
            <3>2. run'[p] = [file |-> run'[p].file, at |-> run'[p].at, owner |-> run'[p].owner, source |-> run'[p].source,
                             migrated |-> run'[p].migrated, errors |-> run'[p].errors]
                BY <2>2
            <3> QED BY <3>1, <3>2 DEF RunOK
        <2>4. started' \in Nat /\ UNCHANGED <<user, claimed, accounts, contested, overtaken>>
            BY <1>1, <1>2 DEF TypeOK, ImportLegacyDeposits
        <2>5. OnlyMoves(p)
            BY <1>1, <1>2, <2>1, <2>3, <2>4, Stages DEF TypeOK, ImportLegacyDeposits, Goto, OnlyMoves
        <2> QED BY <2>1, <2>4, <2>5, Stages, QuietKeeps
    <1>3. ASSUME resolveOwnerUserID(p)
          PROVE  ImportInv'
        <2>1. CASE Leave(p)
            <3>1. UNCHANGED <<user, claimed, accounts, contested, overtaken>>
                BY <2>1 DEF Leave
            <3> QED BY <1>1, <2>1, <3>1, LeaveMoves, Stages, QuietKeeps
        <2>2. CASE Goto(p, "next") /\ UNCHANGED <<user, claimed, accounts, run, pending, contested, overtaken, started>>
            <3>1. pc'[p] = "next" /\ pc' \in [Proc -> Stage] /\ pc[p] # "idle"
                BY <1>1, <1>3, <2>2, Stages DEF TypeOK, Goto, resolveOwnerUserID
            <3>2. OnlyMoves(p)
                BY <1>1, <2>2, <3>1, Stages DEF TypeOK, Goto, OnlyMoves
            <3> QED BY <2>2, <3>1, <3>2, Stages, QuietKeeps
        <2> QED BY <1>3, <2>1, <2>2 DEF resolveOwnerUserID
    <1>4. ASSUME BeginDeposit(p)
          PROVE  ImportInv'
        <2> PICK refused \in BOOLEAN : refused = ("id" \in Entry(p).bad \/ Entry(p).amount < 0)
            OBVIOUS
        <2>1. /\ pc[p] = "next" /\ ~(run[p].at > Len(run[p].file))
              /\ run' = [run EXCEPT ![p].source = @ + Entry(p).amount, ![p].errors = @ \/ refused,
                                    ![p].at = @ + (IF refused THEN 1 ELSE 0)]
              /\ Goto(p, IF refused THEN "next" ELSE "lookup")
              /\ UNCHANGED <<user, claimed, accounts, pending, contested, overtaken, started>>
            BY <1>4 DEF BeginDeposit, Finished
        <2>2. RunOK(run[p])
            BY <1>1, <2>1 DEF TypeOK
        <2>3. run'[p] = [file |-> run[p].file, at |-> run[p].at + (IF refused THEN 1 ELSE 0), owner |-> run[p].owner,
                         source |-> run[p].source + Entry(p).amount, migrated |-> run[p].migrated,
                         errors |-> run[p].errors \/ refused]
            BY <1>1, <2>1, <2>2 DEF TypeOK, RunOK
        <2>4. RunOK(run'[p]) /\ (~refused => run'[p].at <= Len(run'[p].file))
            <3>1. run[p].file \in Seq(Deposit) /\ run[p].at \in Nat \ {0}
                BY <2>2 DEF RunOK
            <3>2. run'[p].file = run[p].file /\ run'[p].at = run[p].at + (IF refused THEN 1 ELSE 0)
                BY <2>3
            <3>3. run'[p] = [file |-> run'[p].file, at |-> run'[p].at, owner |-> run'[p].owner, source |-> run'[p].source,
                             migrated |-> run'[p].migrated, errors |-> run'[p].errors]
                BY <2>3
            <3>4. RunOK(run'[p])
                BY <3>1, <3>2, <3>3 DEF RunOK
            <3>5. ~refused => run'[p].at <= Len(run'[p].file)
                BY <2>1, <3>1, <3>2
            <3> QED BY <3>4, <3>5
        <2>5. pc' \in [Proc -> Stage] /\ pc'[p] = (IF refused THEN "next" ELSE "lookup")
            BY <1>1, <2>1, Stages DEF TypeOK, Goto
        <2>6. OnlyMoves(p)
            BY <1>1, <2>1, <2>4, <2>5, Stages DEF TypeOK, Goto, OnlyMoves
        <2> QED BY <2>1, <2>5, <2>6, Stages, QuietKeeps
    <1>5. ASSUME Report(p) \/ Stop(p)
          PROVE  ImportInv'
        <2>1. Leave(p)
            BY <1>5 DEF Report, Stop
        <2>2. UNCHANGED <<user, claimed, accounts, contested, overtaken>>
            BY <2>1 DEF Leave
        <2> QED BY <1>1, <2>1, <2>2, LeaveMoves, Stages, QuietKeeps
    <1>6. ASSUME LegacyIDTaken(p) \/ StatementFails(p)
          PROVE  ImportInv'
        <2>1. /\ pc[p] \in Working /\ Failed(p)
              /\ UNCHANGED <<user, claimed, accounts, contested, overtaken, started>>
            BY <1>6, Stages DEF LegacyIDTaken, StatementFails
        <2>2. OnlyMoves(p) /\ pc'[p] = "next"
            BY <1>1, <2>1, FailedMoves
        <2> QED BY <2>1, <2>2, Stages, QuietKeeps
    <1> QED BY <1>2, <1>3, <1>4, <1>5, <1>6

-----------------------------------------------------------------------------
(* Deposits that are known, and new ones. *)

\* A repair goes on with its row.
LEMMA RepairGoes ==
    ASSUME ImportInv, NEW p \in Proc, pc[p] \in Repair, NEW stage \in Repair, Goto(p, stage),
           UNCHANGED <<user, claimed, accounts, run, pending, contested, overtaken, started>>,
           stage = "addTransaction" => Row(p).initial = <<>>
    PROVE  ImportInv'
    <1>1. TypeOK /\ RepairsInv
        BY DEF ImportInv
    <1>2. pc[p] \in Working /\ stage \in Working \ {"commit"}
        BY Stages
    <1>3. OnlyMoves(p) /\ pc'[p] = stage /\ Entry(p)' = Entry(p)
        BY <1>1, <1>2, GotoMoves
    <1>4. RowsKept(p) /\ HistoriesGrow /\ DepositOnce'
        BY DEF ImportInv, TypeOK, RowsKept, HistoriesGrow, DepositOnce
    <1>5. OwnPart(p)
        <2>1. pc'[p] # "commit"
            BY <1>2, <1>3
        <2>2. Row(p)' = Row(p)
            BY <1>3 DEF Row
        <2>3. /\ Row(p) # None
              /\ \A q \in Proc \ {p} : pc[q] \in Repair /\ Entry(q).id = Entry(p).id => Entry(p).id \in contested
            BY <1>1 DEF RepairsInv
        <2> QED BY <1>3, <2>1, <2>2, <2>3 DEF OwnPart
    <1> QED BY <1>3, <1>4, <1>5, StepKeeps

\* GetByLegacyID marks the id when another import repairs it already.
LEMMA LookupKeeps ==
    ASSUME ImportInv, NEW p \in Proc, GetByLegacyID(p)
    PROVE  ImportInv'
    <1>1. TypeOK
        BY DEF ImportInv
    <1>2. pc[p] \in Working /\ UNCHANGED <<user, claimed, accounts, overtaken, started>>
        BY Stages DEF GetByLegacyID
    <1>3. CASE Failed(p) /\ UNCHANGED contested
        <2>1. OnlyMoves(p) /\ pc'[p] = "next"
            BY <1>1, <1>2, <1>3, FailedMoves
        <2> QED BY <1>2, <1>3, <2>1, Stages, QuietKeeps
    <1>4. CASE Goto(p, "insert") /\ UNCHANGED <<run, pending, contested>>
        <2>1. "insert" \in Working \ {"commit"}
            BY Stages
        <2>2. OnlyMoves(p) /\ pc'[p] = "insert"
            BY <1>1, <1>2, <1>4, <2>1, GotoMoves
        <2> QED BY <1>2, <1>4, <2>2, Stages, QuietKeeps
    <1>5. CASE /\ Row(p) # None
               /\ contested' = contested \union
                     {Entry(q).id : q \in {q \in Proc : pc[q] \in Repair /\ Entry(q).id = Entry(p).id}}
               /\ Goto(p, "rules") /\ UNCHANGED <<run, pending>>
        <2>1. "rules" \in Working \ {"commit"}
            BY Stages
        <2>2. OnlyMoves(p) /\ pc'[p] = "rules" /\ Entry(p)' = Entry(p)
            BY <1>1, <1>2, <1>5, <2>1, GotoMoves
        <2>3. Entry(p).id \in Id
            BY <1>1, <1>2, EntryTyped
        <2>4. contested \subseteq contested' /\ contested' \subseteq Id
            BY <1>1, <1>5, <2>3 DEF TypeOK
        <2>5. RowsKept(p) /\ HistoriesGrow
            BY <1>1, <1>2, <2>4 DEF TypeOK, RowsKept, HistoriesGrow
        <2>6. DepositOnce'
            BY <1>2, <2>4 DEF ImportInv, DepositOnce
        <2>7. \A q \in Proc \ {p} : pc[q] \in Repair /\ Entry(q).id = Entry(p).id => Entry(q).id \in contested'
            BY <1>5
        <2>8. Row(p)' = Row(p)
            BY <1>2, <2>2 DEF Row
        <2>9. OwnPart(p)
            BY <1>5, <2>2, <2>7, <2>8 DEF OwnPart
        <2> QED BY <2>2, <2>5, <2>6, <2>9, StepKeeps
    <1> QED BY <1>3, <1>4, <1>5 DEF GetByLegacyID

\* An INSERT waits for those of the same id, and knows whether Setup is under way.
LEMMA InsertKeeps ==
    ASSUME ImportInv, NEW p \in Proc, insertAccount(p)
    PROVE  ImportInv'
    <1>1. TypeOK /\ OwnersInv
        BY DEF ImportInv
    <1>2. /\ pc[p] = "insert" /\ Row(p) = None
          /\ \A q \in Proc \ {p} : pc[q] = "commit" => Entry(q).id # Entry(p).id
          /\ pending' = [pending EXCEPT ![p] = Owner(p)]
          /\ overtaken' = overtaken \union (IF claimed # None THEN {Entry(p).id} ELSE {})
          /\ pc' = [pc EXCEPT ![p] = "commit"]
          /\ UNCHANGED <<user, claimed, accounts, run, contested, started>>
        BY DEF insertAccount, Goto
    <1>3. pc[p] \in Working /\ pc[p] # "idle"
        BY <1>2, Stages
    <1>4. Entry(p).id \in Id /\ RunOK(run[p]) /\ run[p].at <= Len(run[p].file)
        BY <1>1, <1>3, EntryTyped DEF TypeOK
    <1>5. Owner(p) \in BOOLEAN /\ (user => Owner(p))
        BY DEF Owner
    <1>6. pending'[p] = Owner(p) /\ pending' \in [Proc -> BOOLEAN \union {None}]
        BY <1>1, <1>2, <1>5 DEF TypeOK
    <1>7. pc'[p] = "commit" /\ pc' \in [Proc -> Stage] /\ Entry(p)' = Entry(p)
        BY <1>1, <1>2, Stages DEF TypeOK, Entry
    <1>8. OnlyMoves(p)
        BY <1>1, <1>2, <1>4, <1>5, <1>6, <1>7 DEF TypeOK, OnlyMoves
    <1>9. RowsKept(p) /\ HistoriesGrow /\ DepositOnce'
        BY <1>1, <1>2, <1>4 DEF ImportInv, TypeOK, RowsKept, HistoriesGrow, DepositOnce
    <1>10. OwnPart(p)
        BY <1>2, <1>5, <1>6, <1>7, Stages DEF OwnPart, Row
    <1> QED BY <1>8, <1>9, <1>10, StepKeeps

\* The COMMIT of a new account, whose id nobody else has.
LEMMA CreateKeeps ==
    ASSUME ImportInv, NEW p \in Proc, CreateMigratedDeposit(p)
    PROVE  ImportInv'
    <1>1. TypeOK /\ InsertsInv /\ DepositOnce
        BY DEF ImportInv
    <1>2. pc[p] = "commit" /\ pc[p] \in Working /\ UNCHANGED <<user, claimed, contested, overtaken, started>>
        BY Stages DEF CreateMigratedDeposit
    <1>3. OnlyMoves(p) /\ pc'[p] = "next"
        <2>1. CASE Failed(p)
            BY <1>1, <1>2, <2>1, FailedMoves
        <2>2. CASE Migrated(p, Entry(p).amount)
            BY <1>1, <1>2, <2>2, MigratedMoves
        <2> QED BY <2>1, <2>2 DEF CreateMigratedDeposit
    <1>4. CASE UNCHANGED accounts
        BY <1>2, <1>3, <1>4, Stages, QuietKeeps
    <1>5. CASE AmountAccepted(Entry(p).amount) /\ CommitMigrated(p)
        <2> PICK d : d = Entry(p).id
            OBVIOUS
        <2> PICK new : new = [owned |-> pending[p], rules |-> {"opening"}, initial |-> <<Initial(p)>>]
            OBVIOUS
        <2>1. Entry(p) \in Deposit /\ d \in Id
            BY <1>1, <1>2, EntryTyped
        <2>2. accounts' = [accounts EXCEPT ![d] = new] /\ accounts[d] = None
            BY <1>1, <1>2, <1>5 DEF CommitMigrated, InsertsInv, Row
        <2>3. Initial(p) \in InitialRow
            BY <1>5, <2>1 DEF Initial, InitialRow, AmountAccepted, Deposit
        <2>4. new.initial = <<Initial(p)>> /\ <<Initial(p)>> \in Seq(InitialRow) /\ Len(<<Initial(p)>>) = 1
            BY <2>3
        <2>5. new \in Account /\ new # None /\ new.owned = pending[p]
            <3>1. pending[p] \in BOOLEAN /\ {"opening"} \in SUBSET RuleStart
                BY <1>1, <1>2 DEF TypeOK, RuleStart
            <3>2. new \in Account
                BY <2>4, <3>1 DEF Account
            <3> QED BY <3>2, NoneAssumption
        <2>6. accounts' \in [Id -> Account \union {None}] /\ accounts'[d] = new /\ \A e \in Id \ {d} : accounts'[e] = accounts[e]
            BY <1>1, <2>1, <2>2, <2>5 DEF TypeOK
        <2>7. RowsKept(p)
            BY <1>2, <2>2, <2>5, <2>6 DEF RowsKept
        <2>8. HistoriesGrow
            BY <1>1, <1>2 DEF TypeOK, HistoriesGrow
        <2>9. DepositOnce'
            <3> SUFFICES ASSUME NEW e \in Id, accounts'[e] # None, Len(accounts'[e].initial) > 1
                         PROVE  e \in contested'
                BY DEF DepositOnce
            <3>1. e # d
                <4> SUFFICES ASSUME e = d PROVE FALSE
                    OBVIOUS
                <4>1. Len(accounts'[e].initial) = 1
                    BY <2>4, <2>6
                <4> QED BY <4>1
            <3> QED BY <1>1, <1>2, <2>6, <3>1 DEF DepositOnce
        <2>10. OwnPart(p)
            BY <1>3, Stages DEF OwnPart
        <2> QED BY <1>3, <2>7, <2>8, <2>9, <2>10, StepKeeps
    <1> QED BY <1>4, <1>5 DEF CreateMigratedDeposit

\* Listing rules and transactions writes nothing.
LEMMA ListsKeep ==
    ASSUME ImportInv, NEW p \in Proc, ListRules(p) \/ ListTransactions(p)
    PROVE  ImportInv'
    <1>1. TypeOK
        BY DEF ImportInv
    <1>2. pc[p] \in Repair /\ pc[p] \in Working /\ UNCHANGED <<user, claimed, accounts, contested, overtaken, started>>
        BY Stages DEF ListRules, ListTransactions
    <1>3. CASE Failed(p)
        <2>1. OnlyMoves(p) /\ pc'[p] = "next"
            BY <1>1, <1>2, <1>3, FailedMoves
        <2> QED BY <1>2, <2>1, Stages, QuietKeeps
    <1>4. ASSUME NEW balance, Migrated(p, balance) PROVE ImportInv'
        <2>1. OnlyMoves(p) /\ pc'[p] = "next"
            BY <1>1, <1>2, <1>4, MigratedMoves
        <2> QED BY <1>2, <2>1, Stages, QuietKeeps
    <1>5. CASE (Goto(p, "transactions") \/ Goto(p, "addRule")) /\ UNCHANGED <<run, pending>>
        BY <1>2, <1>5, Stages, RepairGoes
    <1>6. CASE Row(p).initial = <<>> /\ Goto(p, "addTransaction") /\ UNCHANGED <<run, pending>>
        BY <1>2, <1>6, Stages, RepairGoes
    <1> QED BY <1>3, <1>4, <1>5, <1>6 DEF ListRules, ListTransactions, legacyInitialBalanceFromTransactions

\* The missing rule.
LEMMA AddRuleKeeps ==
    ASSUME ImportInv, NEW p \in Proc, CreateMissingRule(p)
    PROVE  ImportInv'
    <1>1. TypeOK /\ RepairsInv /\ DepositOnce
        BY DEF ImportInv
    <1>2. /\ pc[p] = "addRule" /\ pc[p] \in Working /\ pc[p] \in Repair
          /\ UNCHANGED <<user, claimed, contested, overtaken, started>>
        BY Stages DEF CreateMissingRule
    <1>3. CASE UNCHANGED accounts /\ Failed(p)
        <2>1. OnlyMoves(p) /\ pc'[p] = "next"
            BY <1>1, <1>2, <1>3, FailedMoves
        <2> QED BY <1>2, <1>3, <2>1, Stages, QuietKeeps
    <1>4. CASE /\ accounts' = [accounts EXCEPT ![Entry(p).id].rules = @ \union {"opening"}]
               /\ Goto(p, "transactions") /\ UNCHANGED <<run, pending>>
        <2> PICK d : d = Entry(p).id
            OBVIOUS
        <2>1. d \in Id /\ accounts[d] # None /\ accounts[d] \in Account
            <3>1. d \in Id
                BY <1>1, <1>2, EntryTyped
            <3>2. accounts[d] # None
                BY <1>1, <1>2 DEF RepairsInv, Row
            <3> QED BY <1>1, <3>1, <3>2 DEF TypeOK
        <2> PICK new : new = [accounts[d] EXCEPT !.rules = @ \union {"opening"}]
            OBVIOUS
        <2>2. new \in Account /\ new # None /\ new.owned = accounts[d].owned /\ new.initial = accounts[d].initial
            <3>1. new \in Account /\ new.owned = accounts[d].owned /\ new.initial = accounts[d].initial
                BY <2>1 DEF Account, RuleStart
            <3> QED BY <3>1, NoneAssumption
        <2>3. accounts' = [accounts EXCEPT ![d] = new]
            BY <1>1, <1>4, <2>1 DEF TypeOK
        <2>4. accounts' \in [Id -> Account \union {None}] /\ accounts'[d] = new /\ \A e \in Id \ {d} : accounts'[e] = accounts[e]
            BY <1>1, <2>1, <2>2, <2>3 DEF TypeOK
        <2>5. RowsKept(p) /\ HistoriesGrow
            BY <1>1, <1>2, <2>1, <2>2, <2>4 DEF TypeOK, RowsKept, HistoriesGrow
        <2>6. DepositOnce'
            <3>1. contested' = contested
                BY <1>2
            <3> SUFFICES ASSUME NEW e \in Id, accounts'[e] # None, Len(accounts'[e].initial) > 1
                         PROVE  e \in contested
                BY <3>1 DEF DepositOnce
            <3>2. accounts[e] # None /\ accounts'[e].initial = accounts[e].initial
                BY <2>1, <2>2, <2>4
            <3> QED BY <1>1, <3>2 DEF DepositOnce
        <2>7. OnlyMoves(p) /\ pc'[p] = "transactions" /\ Entry(p)' = Entry(p)
            <3>1. "transactions" \in Working \ {"commit"}
                BY Stages
            <3> QED BY <1>1, <1>2, <1>4, <3>1, GotoMoves
        <2>8. OwnPart(p)
            <3>1. Row(p)' = new
                BY <2>4, <2>7 DEF Row
            <3>2. \A q \in Proc \ {p} : pc[q] \in Repair /\ Entry(q).id = Entry(p).id => Entry(p).id \in contested
                BY <1>1, <1>2 DEF RepairsInv
            <3> QED BY <1>2, <2>2, <2>7, <3>1, <3>2 DEF OwnPart
        <2> QED BY <2>5, <2>6, <2>7, <2>8, StepKeeps
    <1> QED BY <1>3, <1>4 DEF CreateMissingRule

\* The missing initial balance, which nobody else has added unless the id is contested.
LEMMA AddBalanceKeeps ==
    ASSUME ImportInv, NEW p \in Proc, CreateMissingInitialBalance(p)
    PROVE  ImportInv'
    <1>1. TypeOK /\ RepairsInv /\ DepositOnce
        BY DEF ImportInv
    <1>2. /\ pc[p] = "addTransaction" /\ pc[p] \in Working /\ pc[p] \in Repair
          /\ UNCHANGED <<user, claimed, contested, overtaken, started>>
        BY Stages DEF CreateMissingInitialBalance
    <1>3. OnlyMoves(p) /\ pc'[p] = "next"
        <2>1. CASE Failed(p)
            BY <1>1, <1>2, <2>1, FailedMoves
        <2>2. CASE Migrated(p, Entry(p).amount)
            BY <1>1, <1>2, <2>2, MigratedMoves
        <2> QED BY <2>1, <2>2 DEF CreateMissingInitialBalance
    <1>4. CASE UNCHANGED accounts
        BY <1>2, <1>3, <1>4, Stages, QuietKeeps
    <1>5. CASE /\ AmountAccepted(Entry(p).amount)
               /\ accounts' = [accounts EXCEPT ![Entry(p).id].initial = Append(@, Initial(p))]
        <2> PICK d : d = Entry(p).id
            OBVIOUS
        <2>1. d \in Id /\ accounts[d] # None /\ accounts[d] \in Account /\ Entry(p) \in Deposit
            <3>1. d \in Id /\ Entry(p) \in Deposit
                BY <1>1, <1>2, EntryTyped
            <3>2. accounts[d] # None
                BY <1>1, <1>2 DEF RepairsInv, Row
            <3> QED BY <1>1, <3>1, <3>2 DEF TypeOK
        <2>2. Initial(p) \in InitialRow
            BY <1>5, <2>1 DEF Initial, InitialRow, AmountAccepted, Deposit
        <2> PICK rows : rows = Append(accounts[d].initial, Initial(p))
            OBVIOUS
        <2>3. rows \in Seq(InitialRow) /\ (accounts[d].initial = <<>> => Len(rows) = 1)
            BY <2>1, <2>2 DEF Account
        <2> PICK new : new = [accounts[d] EXCEPT !.initial = rows]
            OBVIOUS
        <2>4. new \in Account /\ new # None /\ new.owned = accounts[d].owned /\ new.initial = rows
            <3>1. new \in Account /\ new.owned = accounts[d].owned /\ new.initial = rows
                BY <2>1, <2>3 DEF Account
            <3> QED BY <3>1, NoneAssumption
        <2>5. accounts' = [accounts EXCEPT ![d] = new]
            BY <1>1, <1>5, <2>1 DEF TypeOK
        <2>6. accounts' \in [Id -> Account \union {None}] /\ accounts'[d] = new /\ \A e \in Id \ {d} : accounts'[e] = accounts[e]
            BY <1>1, <2>1, <2>4, <2>5 DEF TypeOK
        <2>7. RowsKept(p) /\ HistoriesGrow
            BY <1>1, <1>2, <2>1, <2>4, <2>6 DEF TypeOK, RowsKept, HistoriesGrow
        <2>8. DepositOnce'
            <3>1. accounts[d].initial = <<>> \/ d \in contested
                BY <1>1, <1>2 DEF RepairsInv, Row
            <3> SUFFICES ASSUME NEW e \in Id, accounts'[e] # None, Len(accounts'[e].initial) > 1
                         PROVE  e \in contested'
                BY DEF DepositOnce
            <3>2. CASE e = d
                <4>1. accounts'[e].initial = rows
                    BY <2>4, <2>6, <3>2
                <4> QED BY <1>2, <2>3, <3>1, <3>2, <4>1
            <3>3. CASE e # d
                BY <1>1, <1>2, <2>6, <3>3 DEF DepositOnce
            <3> QED BY <3>2, <3>3
        <2>9. OwnPart(p)
            BY <1>3, Stages DEF OwnPart
        <2> QED BY <1>3, <2>7, <2>8, <2>9, StepKeeps
    <1> QED BY <1>4, <1>5 DEF CreateMissingInitialBalance

-----------------------------------------------------------------------------
(* Setup and the owner. *)

\* Imports stand still while someone else works on accounts that exist.
ImportsWait == UNCHANGED <<pc, run, pending, contested, started>>

\* The same accounts are there, with as many initial balances.
RowsStay ==
    /\ accounts' \in [Id -> Account \union {None}]
    /\ \A d \in Id : /\ accounts'[d] = None <=> accounts[d] = None
                     /\ accounts[d] # None => Len(accounts'[d].initial) = Len(accounts[d].initial)

\* Then what imports rely on stays.
LEMMA ImportsRely ==
    ASSUME ImportInv, ImportsWait, RowsStay, user' \in BOOLEAN, claimed' \in (SUBSET Id) \union {None}, overtaken' \subseteq Id
    PROVE  TypeOK' /\ InsertsInv' /\ RepairsInv' /\ DepositOnce'
    <1>1. TypeOK /\ InsertsInv /\ RepairsInv /\ DepositOnce
        BY DEF ImportInv
    <1>2. TypeOK'
        BY <1>1 DEF TypeOK, ImportsWait, RowsStay
    <1>3. \A p \in Proc : Entry(p)' = Entry(p) /\ pc'[p] = pc[p]
        BY DEF Entry, ImportsWait
    <1>4. \A p \in Proc : pc[p] \in Working => Entry(p).id \in Id
        BY <1>1, EntryTyped
    <1>5. InsertsInv'
        <2> SUFFICES ASSUME NEW p \in Proc, pc[p] = "commit"
                     PROVE  accounts'[Entry(p).id] = None /\ \A q \in Proc \ {p} : pc[q] = "commit" => Entry(q).id # Entry(p).id
            BY <1>3 DEF InsertsInv, Row
        <2>1. Entry(p).id \in Id
            BY <1>4, Stages
        <2> QED BY <1>1, <2>1 DEF InsertsInv, Row, RowsStay
    <1>6. RepairsInv'
        <2> SUFFICES ASSUME NEW p \in Proc, pc[p] \in Repair
                     PROVE  /\ accounts'[Entry(p).id] # None
                            /\ \A q \in Proc \ {p} : pc[q] \in Repair /\ Entry(q).id = Entry(p).id => Entry(p).id \in contested
                            /\ pc[p] = "addTransaction" => accounts'[Entry(p).id].initial = <<>> \/ Entry(p).id \in contested
            BY <1>3 DEF RepairsInv, Row, ImportsWait
        <2> PICK d : d = Entry(p).id
            OBVIOUS
        <2>1. d \in Id /\ accounts[d] # None /\ accounts'[d] # None
            BY <1>1, <1>4, Stages DEF RepairsInv, Row, RowsStay
        <2>2. accounts[d].initial = <<>> => accounts'[d].initial = <<>>
            <3>1. accounts'[d].initial \in Seq(InitialRow) /\ accounts[d].initial \in Seq(InitialRow)
                BY <1>1, <2>1 DEF TypeOK, RowsStay, Account
            <3>2. Len(accounts'[d].initial) = Len(accounts[d].initial)
                BY <2>1 DEF RowsStay
            <3> QED BY <3>1, <3>2
        <2> QED BY <1>1, <2>1, <2>2 DEF RepairsInv, Row
    <1>7. DepositOnce'
        BY <1>1 DEF DepositOnce, RowsStay, ImportsWait
    <1> QED BY <1>2, <1>5, <1>6, <1>7

\* The first statement of Setup claims, and marks the imports that it cannot see.
LEMMA ClaimKeeps ==
    ASSUME ImportInv, claimUnownedAccounts
    PROVE  ImportInv'
    <1>1. TypeOK
        BY DEF ImportInv
    <1>2. /\ ~user /\ claimed' = {d \in Id : accounts[d] # None /\ ~accounts[d].owned}
          /\ overtaken' = {Entry(p).id : p \in {p \in Proc : pc[p] = "commit" /\ ~pending[p]}}
          /\ UNCHANGED <<user, accounts>> /\ ImportsWait
        BY DEF claimUnownedAccounts, ImportsWait
    <1>3. \A p \in Proc : pc[p] = "commit" => Entry(p).id \in Id
        BY <1>1, EntryTyped, Stages
    <1>4. RowsStay /\ user' \in BOOLEAN /\ claimed' \in (SUBSET Id) \union {None} /\ overtaken' \subseteq Id
        BY <1>1, <1>2, <1>3 DEF TypeOK, RowsStay
    <1>5. \A p \in Proc : Entry(p)' = Entry(p)
        BY <1>2 DEF Entry, ImportsWait
    <1>6. claimed' # None
        BY <1>2, NoneAssumption
    <1>7. OwnersInv'
        BY <1>2, <1>5, <1>6 DEF OwnersInv, ImportsWait
    <1> QED BY <1>2, <1>4, <1>7, ImportsRely DEF ImportInv

\* The COMMIT of Setup gives what it claimed to the user.
LEMMA CommitSetupKeeps ==
    ASSUME ImportInv, CommitSetup
    PROVE  ImportInv'
    <1>1. TypeOK /\ OwnersInv
        BY DEF ImportInv
    <1>2. /\ claimed # None /\ user' = TRUE /\ claimed' = None
          /\ accounts' = [d \in Id |-> IF d \in claimed THEN [accounts[d] EXCEPT !.owned = TRUE] ELSE accounts[d]]
          /\ UNCHANGED overtaken /\ ImportsWait
        BY DEF CommitSetup, ImportsWait
    <1>3. ASSUME NEW d \in Id, d \in claimed
          PROVE  /\ accounts[d] # None /\ accounts'[d] \in Account /\ accounts'[d].owned = TRUE
                 /\ accounts'[d] # None /\ accounts'[d].initial = accounts[d].initial
        <2>1. accounts[d] # None /\ accounts[d] \in Account
            BY <1>1, <1>2, <1>3 DEF OwnersInv, TypeOK
        <2>2. accounts'[d] = [accounts[d] EXCEPT !.owned = TRUE]
            BY <1>2, <1>3
        <2>3. accounts'[d] \in Account /\ accounts'[d].owned = TRUE /\ accounts'[d].initial = accounts[d].initial
            BY <2>1, <2>2 DEF Account
        <2> QED BY <2>1, <2>3, NoneAssumption
    <1>4. \A d \in Id : d \notin claimed => accounts'[d] = accounts[d]
        BY <1>2
    <1>5. accounts' \in [Id -> Account \union {None}]
        BY <1>1, <1>2, <1>3, <1>4 DEF TypeOK
    <1>6. RowsStay /\ user' \in BOOLEAN /\ claimed' \in (SUBSET Id) \union {None} /\ overtaken' \subseteq Id
        BY <1>1, <1>2, <1>3, <1>4, <1>5 DEF TypeOK, RowsStay
    <1>7. \A p \in Proc : Entry(p)' = Entry(p)
        BY <1>2 DEF Entry, ImportsWait
    <1>8. \A d \in Id : accounts'[d] # None /\ ~accounts'[d].owned => d \in overtaken
        BY <1>1, <1>2, <1>3, <1>4 DEF OwnersInv
    <1>9. \A p \in Proc : pc[p] = "commit" /\ ~pending[p] => Entry(p).id \in overtaken
        BY <1>1, <1>2 DEF OwnersInv
    <1>10. OwnersInv'
        BY <1>2, <1>7, <1>8, <1>9 DEF OwnersInv, ImportsWait
    <1> QED BY <1>2, <1>6, <1>10, ImportsRely DEF ImportInv

\* A set-up that fails leaves no user behind.
LEMMA SetupFailsKeeps ==
    ASSUME ImportInv, SetupFails
    PROVE  ImportInv'
    <1>1. TypeOK /\ OwnersInv
        BY DEF ImportInv
    <1>2. claimed # None /\ claimed' = None /\ overtaken' = {} /\ UNCHANGED <<user, accounts>> /\ ImportsWait
        BY DEF SetupFails, ImportsWait
    <1>3. RowsStay /\ user' \in BOOLEAN /\ claimed' \in (SUBSET Id) \union {None} /\ overtaken' \subseteq Id
        BY <1>1, <1>2 DEF TypeOK, RowsStay
    <1>4. OwnersInv'
        BY <1>1, <1>2 DEF OwnersInv
    <1> QED BY <1>2, <1>3, <1>4, ImportsRely DEF ImportInv

\* What the owner does with an account leaves its owner and the number of its rows.
LEMMA OwnerKeeps ==
    ASSUME ImportInv, NEW d \in Id, CancelInitialBalance(d) \/ \E start \in RuleStart : AddRule(d, start)
    PROVE  ImportInv'
    <1>1. TypeOK /\ OwnersInv
        BY DEF ImportInv
    <1>2. accounts[d] # None /\ accounts[d] \in Account /\ UNCHANGED <<user, claimed, overtaken>> /\ ImportsWait
        BY <1>1 DEF TypeOK, CancelInitialBalance, AddRule, ImportsWait
    <1>3. \E new \in Account : /\ accounts' = [accounts EXCEPT ![d] = new]
                               /\ new.owned = accounts[d].owned /\ Len(new.initial) = Len(accounts[d].initial)
        <2>1. ASSUME NEW start \in RuleStart, AddRule(d, start)
              PROVE  \E new \in Account : /\ accounts' = [accounts EXCEPT ![d] = new]
                               /\ new.owned = accounts[d].owned /\ Len(new.initial) = Len(accounts[d].initial)
            <3> PICK new : new = [accounts[d] EXCEPT !.rules = @ \union {start}]
                OBVIOUS
            <3>1. new \in Account /\ new.owned = accounts[d].owned /\ new.initial = accounts[d].initial
                BY <1>2 DEF Account
            <3>2. accounts' = [accounts EXCEPT ![d] = new]
                BY <1>1, <2>1 DEF AddRule, TypeOK
            <3> QED BY <3>1, <3>2
        <2>2. ASSUME CancelInitialBalance(d)
              PROVE  \E new \in Account : /\ accounts' = [accounts EXCEPT ![d] = new]
                               /\ new.owned = accounts[d].owned /\ Len(new.initial) = Len(accounts[d].initial)
            <3>1. PICK i \in DOMAIN accounts[d].initial :
                     accounts' = [accounts EXCEPT ![d].initial[i].status = "cancelled"]
                BY <2>2 DEF CancelInitialBalance
            <3> PICK old : old = accounts[d].initial
                OBVIOUS
            <3> PICK row : row = [old[i] EXCEPT !.status = "cancelled"]
                OBVIOUS
            <3> PICK rows : rows = [old EXCEPT ![i] = row]
                OBVIOUS
            <3> PICK new : new = [accounts[d] EXCEPT !.initial = rows]
                OBVIOUS
            <3>2. old \in Seq(InitialRow) /\ old[i] \in InitialRow
                BY <1>2 DEF Account
            <3>3. row \in InitialRow
                BY <3>2 DEF InitialRow
            <3>4. rows \in Seq(InitialRow) /\ Len(rows) = Len(old)
                BY <3>2, <3>3
            <3>5. new \in Account /\ new.owned = accounts[d].owned /\ new.initial = rows
                BY <1>2, <3>4 DEF Account
            <3>6. accounts' = [accounts EXCEPT ![d] = new]
                BY <3>1
            <3> QED BY <3>4, <3>5, <3>6
        <2> QED BY <2>1, <2>2
    <1>4. PICK new \in Account : /\ accounts' = [accounts EXCEPT ![d] = new]
                                /\ new.owned = accounts[d].owned /\ Len(new.initial) = Len(accounts[d].initial)
        BY <1>3
    <1>5. accounts' \in [Id -> Account \union {None}] /\ accounts'[d] = new /\ new # None
          /\ \A e \in Id \ {d} : accounts'[e] = accounts[e]
        BY <1>1, <1>4, NoneAssumption DEF TypeOK
    <1>6. RowsStay /\ user' \in BOOLEAN /\ claimed' \in (SUBSET Id) \union {None} /\ overtaken' \subseteq Id
        BY <1>1, <1>2, <1>4, <1>5 DEF TypeOK, RowsStay
    <1>7. \A e \in Id : (accounts'[e] = None <=> accounts[e] = None) /\ (accounts[e] # None => accounts'[e].owned = accounts[e].owned)
        BY <1>2, <1>4, <1>5
    <1>8. \A p \in Proc : Entry(p)' = Entry(p)
        BY <1>2 DEF Entry, ImportsWait
    <1>9. claimed # None => claimed \subseteq Id
        BY <1>1 DEF TypeOK
    <1>10. OwnersInv'
        BY <1>1, <1>2, <1>7, <1>8, <1>9 DEF OwnersInv, ImportsWait
    <1> QED BY <1>2, <1>6, <1>10, ImportsRely DEF ImportInv

-----------------------------------------------------------------------------
(* The theorems. *)

\* No import is under way at the start.
LEMMA InitHolds == Init => ImportInv
    <1> SUFFICES ASSUME Init PROVE ImportInv
        OBVIOUS
    <1>1. PICK db \in Opening : user = db.user /\ accounts = db.accounts
        BY DEF Init
    <1>2. /\ user \in BOOLEAN /\ accounts \in [Id -> Account \union {None}]
          /\ \A d \in Id : accounts[d] # None => Len(accounts[d].initial) <= 1 /\ (user => accounts[d].owned)
        BY <1>1, OpeningAssumption
    <1>3. TypeOK
        BY <1>2, Stages DEF Init, TypeOK
    <1>4. InsertsInv /\ RepairsInv
        BY Stages DEF Init, InsertsInv, RepairsInv
    <1>5. OwnersInv
        BY <1>2 DEF Init, OwnersInv
    <1>6. DepositOnce
        <2> SUFFICES ASSUME NEW d \in Id, accounts[d] # None PROVE ~(Len(accounts[d].initial) > 1)
            BY DEF DepositOnce
        <2>1. Len(accounts[d].initial) \in Nat
            BY <1>2 DEF Account
        <2> QED BY <1>2, <2>1
    <1> QED BY <1>3, <1>4, <1>5, <1>6 DEF ImportInv

\* Every step keeps the invariant.
LEMMA NextHolds == ImportInv /\ [Next]_vars => ImportInv'
    <1> SUFFICES ASSUME ImportInv, [Next]_vars PROVE ImportInv'
        OBVIOUS
    <1>1. ASSUME NEW p \in Proc, Step(p) PROVE ImportInv'
        BY <1>1, QuietStepsKeep, LookupKeeps, InsertKeeps, CreateKeeps, ListsKeep, AddRuleKeeps, AddBalanceKeeps DEF Step
    <1>2. CASE UNCHANGED vars
        <2>1. TypeOK'
            BY <1>2 DEF vars, ImportInv, TypeOK
        <2>2. InsertsInv' /\ RepairsInv'
            BY <1>2 DEF vars, ImportInv, InsertsInv, RepairsInv, Row, Entry
        <2>3. OwnersInv' /\ DepositOnce'
            BY <1>2 DEF vars, ImportInv, OwnersInv, DepositOnce, Entry
        <2> QED BY <2>1, <2>2, <2>3 DEF ImportInv
    <1> QED BY <1>1, <1>2, ClaimKeeps, CommitSetupKeeps, SetupFailsKeeps, OwnerKeeps DEF Next

\* ImportInv holds in every reachable state.
THEOREM InvariantHolds == Spec => []ImportInv
    <1> QED BY InitHolds, NextHolds, PTL DEF Spec

\* However often imports are stopped, repeated and overlap, a deposit has one initial balance at
\* most, unless two imports repaired it at once (CreateMigratedDeposit, migrateExistingDeposit).
THEOREM DepositsComeOnce == Spec => []DepositOnce
    <1>1. ImportInv => DepositOnce
        BY DEF ImportInv
    <1> QED BY <1>1, InvariantHolds, PTL

\* Once there is a user every imported account has an owner, but for those whose transaction
\* overlapped that of the first set-up (insertAccount, UserRepository.Setup).
THEOREM AccountsOwned == Spec => []ImportedAccountsOwned
    <1>1. ImportInv => ImportedAccountsOwned
        BY DEF ImportInv, OwnersInv, ImportedAccountsOwned
    <1> QED BY <1>1, InvariantHolds, PTL

-----------------------------------------------------------------------------
(* Sums. *)

\* A set of naturals has a least one.
LEMMA LeastNatural ==
    ASSUME NEW T \in SUBSET Nat, T # {}
    PROVE  \E x \in T : \A y \in T : x <= y
    <1>1. PICK x \in T : \A y \in T : ~(<<y, x>> \in OpToRel(<, Nat))
        BY NatLessThanWellFounded, WFMin
    <1>2. \A y \in T : ~(y < x)
        BY <1>1 DEF OpToRel
    <1> QED BY <1>2

\* The running sums exist and are what their definition says.
LEMMA RunningSumDef ==
    ASSUME NEW n \in Nat, NEW s \in [1..n -> Int]
    PROVE  /\ RunningSum(s, n) \in [0..n -> Int]
           /\ RunningSum(s, n)[0] = 0
           /\ \A k \in 1..n : RunningSum(s, n)[k] = RunningSum(s, n)[k - 1] + s[k]
    <1> DEFINE Sums(f, m) == /\ f \in [0..m -> Int] /\ f[0] = 0
                             /\ \A k \in 1..m : f[k] = f[k - 1] + s[k]
               Bad == {m \in 0..n : ~ \E f : Sums(f, m)}
    <1>1. Bad = {}
        <2> SUFFICES ASSUME Bad # {} PROVE FALSE
            OBVIOUS
        <2>1. PICK m \in Bad : \A l \in Bad : m <= l
            <3>1. Bad \in SUBSET Nat
                OBVIOUS
            <3> HIDE DEF Bad
            <3> QED BY <3>1, LeastNatural
        <2>2. m # 0
            <3>1. Sums([k \in {0} |-> 0], 0)
                OBVIOUS
            <3> QED BY <3>1
        <2>3. PICK f : Sums(f, m - 1)
            <3>1. m - 1 \in 0..n /\ ~(m <= m - 1)
                BY <2>2
            <3> QED BY <2>1, <3>1
        <2> DEFINE g == [k \in 0..m |-> IF k = m THEN f[m - 1] + s[m] ELSE f[k]]
        <2>4. Sums(g, m)
            <3>1. m \in Nat \ {0} /\ m \in 1..n /\ s[m] \in Int
                BY <2>2
            <3>2. f \in [0..(m - 1) -> Int] /\ f[0] = 0 /\ \A k \in 1..(m - 1) : f[k] = f[k - 1] + s[k]
                BY <2>3
            <3>3. \A k \in 0..(m - 1) : f[k] \in Int /\ g[k] = f[k]
                BY <3>1, <3>2
            <3>4. g[m] = f[m - 1] + s[m] /\ f[m - 1] \in Int
                <4>1. m - 1 \in 0..(m - 1) /\ m \in 0..m
                    BY <3>1
                <4>2. f[m - 1] \in Int
                    BY <3>2, <4>1
                <4> QED BY <4>1, <4>2
            <3>5. g \in [0..m -> Int]
                <4>1. \A k \in 0..m : k = m \/ k \in 0..(m - 1)
                    BY <3>1
                <4>2. \A k \in 0..m : g[k] \in Int
                    <5> TAKE k \in 0..m
                    <5> HIDE DEF g
                    <5>1. CASE k = m
                        BY <3>1, <3>4, <5>1
                    <5>2. CASE k \in 0..(m - 1)
                        BY <3>3, <5>2
                    <5> QED BY <4>1, <5>1, <5>2
                <4>3. g = [k \in 0..m |-> g[k]]
                    OBVIOUS
                <4> HIDE DEF g
                <4> QED BY <4>2, <4>3
            <3>6. \A k \in 1..m : g[k] = g[k - 1] + s[k]
                <4> TAKE k \in 1..m
                <4> HIDE DEF g
                <4>1. CASE k = m
                    BY <3>1, <3>3, <3>4, <4>1
                <4>2. CASE k # m
                    <5>1. k \in 1..(m - 1) /\ k - 1 \in 0..(m - 1) /\ k \in 0..(m - 1)
                        BY <3>1, <4>2
                    <5> QED BY <3>2, <3>3, <5>1
                <4> QED BY <4>1, <4>2
            <3>7. g[0] = 0
                BY <3>1, <3>2, <3>3
            <3> HIDE DEF g
            <3> QED BY <3>5, <3>6, <3>7
        <2> QED BY <2>1, <2>4
    <1>2. PICK f : Sums(f, n)
        <2>1. n \in 0..n
            OBVIOUS
        <2> HIDE DEF Sums
        <2> QED BY <1>1, <2>1
    <1>3. f = [k \in 0..n |-> IF k = 0 THEN 0 ELSE f[k - 1] + s[k]]
        BY <1>2
    <1> DEFINE h == RunningSum(s, n)
    <1>4. h = [k \in 0..n |-> IF k = 0 THEN 0 ELSE h[k - 1] + s[k]]
        BY <1>3 DEF RunningSum
    <1> HIDE DEF h
    <1>5. h[0] = 0 /\ \A k \in 1..n : h[k] = h[k - 1] + s[k]
        BY <1>4
    <1>6. \A k \in 0..n : h[k] = f[k]
        <2> DEFINE D == {k \in 0..n : h[k] # f[k]}
        <2> SUFFICES ASSUME D # {} PROVE FALSE
            OBVIOUS
        <2>1. PICK m \in D : \A l \in D : m <= l
            <3>1. D \in SUBSET Nat
                OBVIOUS
            <3> HIDE DEF D
            <3> QED BY <3>1, LeastNatural
        <2>2. m # 0
            BY <1>2, <1>5
        <2>3. m \in 1..n /\ m - 1 \in 0..n /\ ~(m <= m - 1)
            BY <2>2
        <2>4. h[m - 1] = f[m - 1]
            BY <2>1, <2>3
        <2>5. h[m] = h[m - 1] + s[m] /\ f[m] = f[m - 1] + s[m]
            BY <1>2, <1>5, <2>3
        <2> QED BY <2>1, <2>4, <2>5
    <1>7. h = f
        BY <1>2, <1>4, <1>6
    <1> QED BY <1>2, <1>7 DEF h


\* A sum is an integer; one more value adds itself to it.
LEMMA SumOneMore ==
    ASSUME NEW n \in Nat, NEW s \in [1..n -> Int], NEW t \in [1..(n + 1) -> Int], \A k \in 1..n : t[k] = s[k]
    PROVE  SumTo(s, n) \in Int /\ SumTo(t, n + 1) = SumTo(s, n) + t[n + 1]
    <1> DEFINE S == RunningSum(s, n)
               T == RunningSum(t, n + 1)
    <1>1. S \in [0..n -> Int] /\ S[0] = 0 /\ \A k \in 1..n : S[k] = S[k - 1] + s[k]
        BY RunningSumDef
    <1>2. T \in [0..(n + 1) -> Int] /\ T[0] = 0 /\ \A k \in 1..(n + 1) : T[k] = T[k - 1] + t[k]
        <2>1. n + 1 \in Nat
            OBVIOUS
        <2> QED BY <2>1, RunningSumDef
    <1>3. SumTo(s, n) = S[n] /\ SumTo(t, n + 1) = T[n + 1]
        BY DEF SumTo
    <1> HIDE DEF S, T
    <1>4. T[n] = S[n]
        <2> DEFINE D == {k \in 0..n : T[k] # S[k]}
        <2>1. D = {}
            <3> SUFFICES ASSUME D # {} PROVE FALSE
                OBVIOUS
            <3>1. PICK l \in D : \A k \in D : l <= k
                <4>1. D \in SUBSET Nat
                    OBVIOUS
                <4> HIDE DEF D
                <4> QED BY <4>1, LeastNatural
            <3>2. l # 0
                BY <1>1, <1>2
            <3>3. l \in 1..n /\ l \in 1..(n + 1) /\ l - 1 \in 0..n /\ ~(l <= l - 1)
                BY <3>2
            <3>4. T[l - 1] = S[l - 1]
                BY <3>1, <3>3
            <3> QED BY <1>1, <1>2, <3>1, <3>3, <3>4
        <2> QED BY <2>1
    <1>5. n + 1 \in 1..(n + 1) /\ (n + 1) - 1 = n /\ n \in 0..n
        OBVIOUS
    <1>6. T[n + 1] = T[n] + t[n + 1] /\ S[n] \in Int
        BY <1>1, <1>2, <1>5
    <1> QED BY <1>3, <1>4, <1>6

\* The sum of nothing.
LEMMA SumOfNothing ==
    ASSUME NEW s \in [1..0 -> Int]
    PROVE  SumTo(s, 0) = 0
    <1>1. 0 \in Nat
        OBVIOUS
    <1> QED BY <1>1, RunningSumDef DEF SumTo

\* The initial balances of an account have a sum.
LEMMA TotalTyped ==
    ASSUME NEW rows \in Seq(InitialRow)
    PROVE  Total(rows) \in Int
    <1> DEFINE n == Len(rows)
               s == [i \in 1..n |-> rows[i].amount]
    <1>1. n \in Nat /\ s \in [1..n -> Int]
        <2>1. \A i \in 1..n : rows[i] \in InitialRow
            OBVIOUS
        <2>2. \A i \in 1..n : rows[i].amount \in Int
            BY <2>1 DEF InitialRow
        <2> QED BY <2>2
    <1> HIDE DEF n, s
    <1>2. SumTo(s, n) \in Int
        <2>1. RunningSum(s, n) \in [0..n -> Int] /\ n \in 0..n
            BY <1>1, RunningSumDef
        <2> QED BY <2>1 DEF SumTo
    <1> QED BY <1>2 DEF Total, n, s

\* A single initial balance is its sum.
LEMMA TotalOfOne ==
    ASSUME NEW row \in InitialRow
    PROVE  Total(<<row>>) = row.amount
    <1> DEFINE s == [i \in 1..0 |-> 0]
               t == [i \in 1..1 |-> <<row>>[i].amount]
    <1>1. s \in [1..0 -> Int] /\ t \in [1..1 -> Int] /\ t[1] = row.amount /\ row.amount \in Int
        BY DEF InitialRow
    <1>2. Total(<<row>>) = SumTo(t, 1)
        <2>1. Len(<<row>>) = 1
            OBVIOUS
        <2> QED BY <2>1 DEF Total
    <1> HIDE DEF s, t
    <1>3. SumTo(t, 0 + 1) = SumTo(s, 0) + t[0 + 1]
        <2>1. 0 \in Nat /\ t \in [1..(0 + 1) -> Int] /\ \A k \in 1..0 : t[k] = s[k]
            BY <1>1
        <2> QED BY <1>1, <2>1, SumOneMore
    <1>4. SumTo(s, 0) = 0
        BY <1>1, SumOfNothing
    <1> QED BY <1>1, <1>2, <1>3, <1>4

-----------------------------------------------------------------------------
(* Reports.  What an import has recorded for the entries it has done stays recorded. *)

\* An account keeps what makes it complete, and its balance unless two imports repair it.
Settled(d) ==
    /\ accounts'[d] # None
    /\ accounts[d].rules # {} => accounts'[d].rules # {}
    /\ accounts[d].initial # <<>> =>
         /\ accounts'[d].initial # <<>>
         /\ d \in contested' \/ Total(accounts'[d].initial) = Total(accounts[d].initial)

RowsSettle == contested \subseteq contested' /\ \A d \in Id : accounts[d] # None => Settled(d)

\* The part of ReportsInv that is about p.
ReportOK(p) ==
    /\ pc[p] # "idle" => Accounted(run[p], IF pc[p] \in Working THEN run[p].at ELSE run[p].at - 1, run[p].at - 1)
    /\ pc[p] \in {"transactions", "addTransaction"} => Row(p).rules # {}

\* Values of amounts and balances are integers.
LEMMA SummandsTyped ==
    ASSUME TypeOK, NEW f \in Seq(Deposit), NEW n \in Nat, n <= Len(f)
    PROVE  /\ \A i \in 1..n : f[i].id \in Id /\ f[i].amount \in Int
           /\ [i \in 1..n |-> f[i].amount] \in [1..n -> Int]
           /\ Complete(f, n) =>
                [i \in 1..n |-> Total(accounts[f[i].id].initial)] \in [1..n -> Int]
    <1>1. \A i \in 1..n : f[i] \in Deposit
        OBVIOUS
    <1>2. \A i \in 1..n : f[i].id \in Id /\ f[i].amount \in Int
        BY <1>1 DEF Deposit
    <1>3. ASSUME Complete(f, n), NEW i \in 1..n PROVE Total(accounts[f[i].id].initial) \in Int
        <2>1. accounts[f[i].id] \in Account
            BY <1>2, <1>3 DEF Complete, TypeOK
        <2> QED BY <2>1, TotalTyped DEF Account
    <1> QED BY <1>2, <1>3

\* Entries that are done stay complete, with the same balances.
LEMMA DoneStays ==
    ASSUME TypeOK, RowsSettle, NEW f \in Seq(Deposit), NEW n \in Nat, n <= Len(f), Complete(f, n)
    PROVE  /\ Complete(f, n)'
           /\ Uncontested(f, n)' => Uncontested(f, n) /\ Recorded(f, n)' = Recorded(f, n)
    <1>1. \A i \in 1..n : f[i].id \in Id
        BY SummandsTyped
    <1>2. \A i \in 1..n : /\ accounts[f[i].id] # None /\ accounts[f[i].id].rules # {} /\ accounts[f[i].id].initial # <<>>
                          /\ Settled(f[i].id)
        BY <1>1 DEF Complete, RowsSettle
    <1>3. Complete(f, n)'
        BY <1>2 DEF Complete, Settled
    <1>4. ASSUME Uncontested(f, n)' PROVE Uncontested(f, n) /\ Recorded(f, n)' = Recorded(f, n)
        <2>1. \A i \in 1..n : f[i].id \notin contested'
            BY <1>4 DEF Uncontested
        <2>2. Uncontested(f, n)
            BY <2>1 DEF Uncontested, RowsSettle
        <2>3. \A i \in 1..n : Total(accounts'[f[i].id].initial) = Total(accounts[f[i].id].initial)
            BY <1>2, <2>1 DEF Settled
        <2>4. [i \in 1..n |-> Total(accounts'[f[i].id].initial)] = [i \in 1..n |-> Total(accounts[f[i].id].initial)]
            BY <2>3
        <2>5. Recorded(f, n)' = SumTo([i \in 1..n |-> Total(accounts'[f[i].id].initial)], n)
            BY DEF Recorded, Total, SumTo, RunningSum
        <2> QED BY <2>2, <2>4, <2>5 DEF Recorded
    <1> QED BY <1>3, <1>4

\* A report stays right while its import waits.
LEMMA ReportStays ==
    ASSUME TypeOK, RowsSettle, NEW r, RunOK(r), NEW begun, Accounted(r, begun, r.at - 1)
    PROVE  Accounted(r, begun, r.at - 1)'
    <1>1. r.file \in Seq(Deposit) /\ r.at - 1 \in Nat /\ r.at - 1 <= Len(r.file)
        BY DEF RunOK, Accounted
    <1>2. CASE r.errors
        BY <1>1, <1>2 DEF Accounted
    <1>3. CASE ~r.errors
        <2>1. r.source = Listed(r.file, begun) /\ Complete(r.file, r.at - 1)
              /\ (Uncontested(r.file, r.at - 1) => r.migrated = Recorded(r.file, r.at - 1))
            BY <1>3 DEF Accounted
        <2>2. Listed(r.file, begun)' = Listed(r.file, begun)
            BY DEF Listed
        <2> QED BY <1>1, <2>1, <2>2, DoneStays DEF Accounted
    <1> QED BY <1>2, <1>3

\* An entry that is done adds its balance.
LEMMA ReportGrows ==
    ASSUME TypeOK, TypeOK', RowsSettle, NEW r, RunOK(r), Accounted(r, r.at, r.at - 1), r.at <= Len(r.file),
           NEW balance, NEW s,
           s.file = r.file, s.at = r.at + 1, s.source = r.source, s.migrated = r.migrated + balance, s.errors = r.errors,
           NEW d, d = r.file[r.at].id,
           accounts'[d] # None, accounts'[d].rules # {}, accounts'[d].initial # <<>>,
           d \notin contested' => Total(accounts'[d].initial) = balance
    PROVE  Accounted(s, s.at - 1, s.at - 1)'
    <1> DEFINE f == r.file
               n == r.at - 1
    <1>1. f \in Seq(Deposit) /\ n \in Nat /\ n + 1 = r.at /\ s.at - 1 = n + 1 /\ n <= Len(f) /\ n + 1 <= Len(f)
        BY DEF RunOK, Accounted
    <1>2. CASE s.errors
        BY <1>1, <1>2 DEF Accounted
    <1>3. CASE ~s.errors
        <2>1. /\ r.source = Listed(f, n + 1) /\ Complete(f, n)
              /\ Uncontested(f, n) => r.migrated = Recorded(f, n)
            BY <1>1, <1>3 DEF Accounted
        <2> HIDE DEF f, n
        <2>2. Complete(f, n)' /\ (Uncontested(f, n)' => Uncontested(f, n) /\ Recorded(f, n)' = Recorded(f, n))
            BY <1>1, <2>1, DoneStays
        <2>3. f[n + 1].id = d /\ f[n + 1].id \in Id
            BY <1>1, SummandsTyped DEF f
        <2>4. \A i \in 1..(n + 1) : i \in 1..n \/ i = n + 1
            BY <1>1
        <2>5. Complete(f, n + 1)'
            <3> SUFFICES ASSUME NEW i \in 1..(n + 1)
                         PROVE  accounts'[f[i].id] # None /\ accounts'[f[i].id].rules # {} /\ accounts'[f[i].id].initial # <<>>
                BY DEF Complete
            <3> QED BY <2>2, <2>3, <2>4 DEF Complete
        <2>6. ASSUME Uncontested(f, n + 1)' PROVE s.migrated = Recorded(f, n + 1)'
            <3>1. \A i \in 1..(n + 1) : f[i].id \notin contested'
                BY <2>6 DEF Uncontested
            <3>2. Uncontested(f, n)' /\ d \notin contested'
                BY <1>1, <2>3, <3>1 DEF Uncontested
            <3>3. r.migrated = Recorded(f, n) /\ Recorded(f, n)' = Recorded(f, n) /\ Total(accounts'[d].initial) = balance
                BY <2>1, <2>2, <3>2
            <3> DEFINE u == [i \in 1..n |-> Total(accounts'[f[i].id].initial)]
                       t == [i \in 1..(n + 1) |-> Total(accounts'[f[i].id].initial)]
            <3>4. Recorded(f, n)' = SumTo(u, n) /\ Recorded(f, n + 1)' = SumTo(t, n + 1)
                BY DEF Recorded, Total, SumTo, RunningSum
            <3>5. \A i \in 1..(n + 1) : Total(accounts'[f[i].id].initial) \in Int
                <4> TAKE i \in 1..(n + 1)
                <4>1. f[i].id \in Id /\ n + 1 \in Nat
                    BY <1>1, SummandsTyped
                <4>2. accounts'[f[i].id] \in Account
                    BY <2>5, <4>1 DEF Complete, TypeOK
                <4> QED BY <4>2, TotalTyped DEF Account
            <3>6. u \in [1..n -> Int] /\ t \in [1..(n + 1) -> Int] /\ (\A k \in 1..n : t[k] = u[k]) /\ t[n + 1] = balance
                BY <1>1, <2>3, <3>3, <3>5
            <3> HIDE DEF u, t
            <3>7. SumTo(t, n + 1) = SumTo(u, n) + t[n + 1]
                BY <1>1, <3>6, SumOneMore
            <3> QED BY <3>3, <3>4, <3>6, <3>7
        <2>7. s.source = Listed(f, n + 1)'
            BY <2>1 DEF Listed
        <2>8. s.file = f
            BY DEF f
        <2> QED BY <1>1, <2>5, <2>6, <2>7, <2>8 DEF Accounted
    <1> QED BY <1>2, <1>3

\* Rows that keep their initial balances settle.
LEMMA SameRowsSettle ==
    ASSUME contested \subseteq contested',
           \A d \in Id : accounts[d] # None =>
               /\ accounts'[d] # None /\ accounts'[d].initial = accounts[d].initial
               /\ accounts[d].rules # {} => accounts'[d].rules # {}
    PROVE  RowsSettle
    BY DEF RowsSettle, Settled

\* The COMMIT of a new account and the missing initial balance touch no balance that is there,
\* unless two imports repair it; the missing rule touches none.
LEMMA WritesSettle ==
    ASSUME ImportInv, NEW p \in Proc,
           CreateMigratedDeposit(p) \/ CreateMissingRule(p) \/ CreateMissingInitialBalance(p)
    PROVE  RowsSettle
    <1>1. TypeOK /\ InsertsInv /\ RepairsInv
        BY DEF ImportInv
    <1>2. pc[p] \in Working /\ contested' = contested
        BY Stages DEF CreateMigratedDeposit, CreateMissingRule, CreateMissingInitialBalance
    <1> PICK d : d = Entry(p).id
        OBVIOUS
    <1>3. d \in Id
        BY <1>1, <1>2, EntryTyped
    <1>4. CASE UNCHANGED accounts
        BY <1>2, <1>4, SameRowsSettle
    <1>5. CASE pc[p] = "commit" /\ CommitMigrated(p)
        <2>1. accounts[d] = None
            BY <1>1, <1>5 DEF InsertsInv, Row
        <2>2. \A e \in Id \ {d} : accounts'[e] = accounts[e]
            BY <1>1, <1>5 DEF CommitMigrated, TypeOK
        <2> QED BY <1>2, <2>1, <2>2, SameRowsSettle
    <1>6. CASE pc[p] = "addRule" /\ accounts' = [accounts EXCEPT ![Entry(p).id].rules = @ \union {"opening"}]
        <2>1. accounts[d] # None /\ accounts[d] \in Account
            BY <1>1, <1>3, <1>6, Stages DEF RepairsInv, Row, TypeOK
        <2> PICK new : new = [accounts[d] EXCEPT !.rules = @ \union {"opening"}]
            OBVIOUS
        <2>2. new \in Account /\ new # None /\ new.initial = accounts[d].initial /\ new.rules # {}
            <3>1. new \in Account /\ new.initial = accounts[d].initial /\ new.rules = accounts[d].rules \union {"opening"}
                BY <2>1 DEF Account, RuleStart
            <3> QED BY <3>1, NoneAssumption
        <2>3. accounts' = [accounts EXCEPT ![d] = new]
            BY <1>1, <1>3, <1>6, <2>1 DEF TypeOK
        <2>4. accounts'[d] = new /\ \A e \in Id \ {d} : accounts'[e] = accounts[e]
            BY <1>1, <1>3, <2>3 DEF TypeOK
        <2> QED BY <1>2, <2>2, <2>4, SameRowsSettle
    <1>7. CASE /\ pc[p] = "addTransaction" /\ AmountAccepted(Entry(p).amount)
               /\ accounts' = [accounts EXCEPT ![Entry(p).id].initial = Append(@, Initial(p))]
        <2>1. accounts[d] # None /\ accounts[d] \in Account /\ (accounts[d].initial = <<>> \/ d \in contested)
            BY <1>1, <1>3, <1>7, Stages DEF RepairsInv, Row, TypeOK
        <2>2. Initial(p) \in InitialRow
            <3>1. Entry(p) \in Deposit
                BY <1>1, <1>2, EntryTyped
            <3> QED BY <1>7, <3>1 DEF Initial, InitialRow, AmountAccepted, Deposit
        <2> PICK rows : rows = Append(accounts[d].initial, Initial(p))
            OBVIOUS
        <2>3. rows \in Seq(InitialRow) /\ rows # <<>>
            BY <2>1, <2>2 DEF Account
        <2> PICK new : new = [accounts[d] EXCEPT !.initial = rows]
            OBVIOUS
        <2>4. new \in Account /\ new # None /\ new.rules = accounts[d].rules /\ new.initial = rows
            <3>1. new \in Account /\ new.rules = accounts[d].rules /\ new.initial = rows
                BY <2>1, <2>3 DEF Account
            <3> QED BY <3>1, NoneAssumption
        <2>5. accounts' = [accounts EXCEPT ![d] = new]
            BY <1>1, <1>3, <1>7, <2>1 DEF TypeOK
        <2>6. accounts'[d] = new /\ \A e \in Id \ {d} : accounts'[e] = accounts[e]
            BY <1>1, <1>3, <2>5 DEF TypeOK
        <2>7. Settled(d)
            BY <1>2, <2>1, <2>3, <2>4, <2>6 DEF Settled
        <2>8. \A e \in Id \ {d} : accounts[e] # None => Settled(e)
            BY <2>6 DEF Settled
        <2> QED BY <1>2, <2>7, <2>8 DEF RowsSettle
    <1> QED BY <1>4, <1>5, <1>6, <1>7 DEF CreateMigratedDeposit, CreateMissingRule, CreateMissingInitialBalance

\* A cancelled initial balance keeps its amount.
LEMMA CancelSettles ==
    ASSUME TypeOK, NEW d \in Id, CancelInitialBalance(d)
    PROVE  RowsSettle
    <1>1. accounts[d] # None /\ accounts[d] \in Account /\ contested' = contested
        BY DEF TypeOK, CancelInitialBalance
    <1>2. PICK i \in DOMAIN accounts[d].initial : accounts' = [accounts EXCEPT ![d].initial[i].status = "cancelled"]
        BY DEF CancelInitialBalance
    <1> PICK old : old = accounts[d].initial
        OBVIOUS
    <1> PICK row : row = [old[i] EXCEPT !.status = "cancelled"]
        OBVIOUS
    <1> PICK rows : rows = [old EXCEPT ![i] = row]
        OBVIOUS
    <1> PICK new : new = [accounts[d] EXCEPT !.initial = rows]
        OBVIOUS
    <1>3. old \in Seq(InitialRow) /\ old[i] \in InitialRow /\ i \in DOMAIN old
        BY <1>1 DEF Account
    <1>4. row \in InitialRow /\ row.amount = old[i].amount
        BY <1>3 DEF InitialRow
    <1>5. rows \in Seq(InitialRow) /\ Len(rows) = Len(old) /\ \A k \in 1..Len(old) : rows[k].amount = old[k].amount
        BY <1>3, <1>4
    <1>6. Total(rows) = Total(old) /\ (old # <<>> => rows # <<>>)
        <2>1. [k \in 1..Len(rows) |-> rows[k].amount] = [k \in 1..Len(old) |-> old[k].amount]
            BY <1>5
        <2>2. Total(rows) = Total(old)
            BY <1>5, <2>1 DEF Total
        <2> QED BY <1>3, <1>5, <2>2
    <1>7. new \in Account /\ new # None /\ new.rules = accounts[d].rules /\ new.initial = rows
        <2>1. new \in Account /\ new.rules = accounts[d].rules /\ new.initial = rows
            BY <1>1, <1>5 DEF Account
        <2> QED BY <2>1, NoneAssumption
    <1>8. accounts' = [accounts EXCEPT ![d] = new]
        BY <1>2
    <1>9. accounts'[d] = new /\ \A e \in Id \ {d} : accounts'[e] = accounts[e]
        BY <1>8 DEF TypeOK
    <1>10. Settled(d)
        BY <1>6, <1>7, <1>9 DEF Settled
    <1>11. \A e \in Id \ {d} : accounts[e] # None => Settled(e)
        BY <1>9 DEF Settled
    <1> QED BY <1>1, <1>10, <1>11 DEF RowsSettle

\* Every step lets the rows settle.
LEMMA NextSettles ==
    ASSUME ImportInv, [Next]_vars
    PROVE  RowsSettle
    <1>1. TypeOK /\ OwnersInv
        BY DEF ImportInv
    <1>2. CASE UNCHANGED accounts /\ contested \subseteq contested'
        BY <1>2, SameRowsSettle
    <1>3. ASSUME NEW p \in Proc, Step(p) PROVE RowsSettle
        <2>1. CASE CreateMigratedDeposit(p) \/ CreateMissingRule(p) \/ CreateMissingInitialBalance(p)
            BY <2>1, WritesSettle
        <2>2. CASE \/ \E r \in Offered : ImportLegacyDeposits(p, r)
                   \/ resolveOwnerUserID(p) \/ BeginDeposit(p) \/ Report(p)
            BY <1>2, <2>2 DEF ImportLegacyDeposits, resolveOwnerUserID, BeginDeposit, Report, Leave
        <2>3. CASE GetByLegacyID(p) \/ insertAccount(p) \/ LegacyIDTaken(p)
            BY <1>2, <2>3 DEF GetByLegacyID, insertAccount, LegacyIDTaken
        <2>4. CASE ListRules(p) \/ ListTransactions(p) \/ StatementFails(p) \/ Stop(p)
            BY <1>2, <2>4 DEF ListRules, ListTransactions, StatementFails, Stop, Leave
        <2> QED BY <1>3, <2>1, <2>2, <2>3, <2>4 DEF Step
    <1>4. CASE claimUnownedAccounts \/ SetupFails \/ UNCHANGED vars
        BY <1>2, <1>4 DEF claimUnownedAccounts, SetupFails, vars
    <1>5. CASE CommitSetup
        <2>1. \A d \in Id : accounts[d] # None =>
                 accounts[d] \in Account /\ (accounts'[d] = accounts[d] \/ accounts'[d] = [accounts[d] EXCEPT !.owned = TRUE])
            BY <1>1, <1>5 DEF CommitSetup, TypeOK
        <2>2. \A a \in Account : /\ [a EXCEPT !.owned = TRUE] \in Account
                                 /\ [a EXCEPT !.owned = TRUE].rules = a.rules /\ [a EXCEPT !.owned = TRUE].initial = a.initial
            BY DEF Account
        <2>3. \A d \in Id : accounts[d] # None =>
                 accounts'[d] # None /\ accounts'[d].initial = accounts[d].initial /\ accounts'[d].rules = accounts[d].rules
            <3> SUFFICES ASSUME NEW d \in Id, accounts[d] # None
                         PROVE  accounts'[d] # None /\ accounts'[d].initial = accounts[d].initial /\ accounts'[d].rules = accounts[d].rules
                OBVIOUS
            <3>1. PICK a \in Account : a = accounts[d]
                BY <2>1
            <3>2. CASE accounts'[d] = accounts[d]
                BY <3>2
            <3>3. CASE accounts'[d] = [a EXCEPT !.owned = TRUE]
                <4>1. accounts'[d] \in Account /\ accounts'[d].rules = a.rules /\ accounts'[d].initial = a.initial
                    BY <2>2, <3>3
                <4> QED BY <3>1, <4>1, NoneAssumption
            <3> QED BY <2>1, <3>1, <3>2, <3>3
        <2>4. contested' = contested
            BY <1>5 DEF CommitSetup
        <2> QED BY <2>3, <2>4, SameRowsSettle
    <1>6. ASSUME NEW d \in Id, NEW start \in RuleStart, AddRule(d, start) PROVE RowsSettle
        <2> PICK new : new = [accounts[d] EXCEPT !.rules = @ \union {start}]
            OBVIOUS
        <2>1. accounts[d] \in Account /\ contested' = contested
            BY <1>1, <1>6 DEF AddRule, TypeOK
        <2>2. new \in Account /\ new.initial = accounts[d].initial /\ new.rules = accounts[d].rules \union {start}
            BY <2>1 DEF Account
        <2>3. accounts'[d] = new /\ \A e \in Id \ {d} : accounts'[e] = accounts[e]
            BY <1>1, <1>6 DEF AddRule, TypeOK
        <2> QED BY <2>1, <2>2, <2>3, NoneAssumption, SameRowsSettle
    <1> QED BY <1>1, <1>3, <1>4, <1>5, <1>6, CancelSettles DEF Next

\* A step of an import leaves the reports of the others alone.
LEMMA OthersWait ==
    ASSUME NEW p \in Proc, Step(p), TypeOK, NEW q \in Proc \ {p}
    PROVE  pc'[q] = pc[q] /\ run'[q] = run[q]
    <1> USE DEF TypeOK, Goto
    <1>1. CASE \E r \in Offered : ImportLegacyDeposits(p, r)
        BY <1>1 DEF ImportLegacyDeposits
    <1>2. CASE resolveOwnerUserID(p) \/ Report(p) \/ Stop(p)
        BY <1>2 DEF resolveOwnerUserID, Report, Stop, Leave
    <1>3. CASE BeginDeposit(p)
        BY <1>3 DEF BeginDeposit
    <1>4. CASE GetByLegacyID(p)
        BY <1>4 DEF GetByLegacyID, Failed
    <1>5. CASE insertAccount(p) \/ LegacyIDTaken(p)
        BY <1>5 DEF insertAccount, LegacyIDTaken, Failed
    <1>6. CASE CreateMigratedDeposit(p)
        BY <1>6 DEF CreateMigratedDeposit, Migrated, Failed
    <1>7. CASE ListRules(p) \/ CreateMissingRule(p) \/ StatementFails(p)
        BY <1>7 DEF ListRules, CreateMissingRule, StatementFails, Failed
    <1>8. CASE ListTransactions(p)
        BY <1>8 DEF ListTransactions, Migrated
    <1>9. CASE CreateMissingInitialBalance(p)
        BY <1>9 DEF CreateMissingInitialBalance, Migrated, Failed
    <1> QED BY <1>1, <1>2, <1>3, <1>4, <1>5, <1>6, <1>7, <1>8, <1>9 DEF Step

\* What an import at work knows of itself.
LEMMA AtWork ==
    ASSUME TypeOK, NEW p \in Proc, ReportOK(p), pc[p] \in Working
    PROVE  /\ RunOK(run[p]) /\ run[p].file \in Seq(Deposit) /\ run[p].at \in Nat \ {0} /\ run[p].at <= Len(run[p].file)
           /\ Accounted(run[p], run[p].at, run[p].at - 1) /\ Entry(p) \in Deposit /\ Entry(p).id \in Id
    <1>1. pc[p] # "idle" /\ run[p].at <= Len(run[p].file)
        BY Stages DEF TypeOK
    <1>2. Accounted(run[p], run[p].at, run[p].at - 1)
        BY <1>1 DEF ReportOK
    <1> QED BY <1>1, <1>2, EntryTyped DEF RunOK

\* A report with an error is accounted for.
LEMMA FailedReports ==
    ASSUME TypeOK, NEW p \in Proc, ReportOK(p), pc[p] \in Working, Failed(p)
    PROVE  ReportOK(p)'
    <1>1. RunOK(run[p]) /\ run[p].at \in Nat \ {0} /\ run[p].at <= Len(run[p].file)
        BY AtWork
    <1>2. run'[p] = [file |-> run[p].file, at |-> run[p].at + 1, owner |-> run[p].owner, source |-> run[p].source,
                     migrated |-> run[p].migrated, errors |-> TRUE]
        BY <1>1 DEF RunOK, Failed, TypeOK
    <1>3. pc'[p] = "next"
        BY DEF TypeOK, Failed, Goto
    <1>4. run'[p].errors /\ run'[p].file = run[p].file /\ run'[p].at - 1 = run[p].at
        BY <1>1, <1>2
    <1>5. \A b : Accounted(run[p], b, run[p].at - 1)' 
        BY <1>1, <1>4 DEF Accounted
    <1> QED BY <1>3, <1>5, Stages DEF ReportOK

\* An entry that is done is added to the report.
LEMMA MigratedReports ==
    ASSUME TypeOK, TypeOK', RowsSettle, NEW p \in Proc, ReportOK(p), pc[p] \in Working, NEW balance, Migrated(p, balance),
           NEW d, d = Entry(p).id,
           accounts'[d] # None, accounts'[d].rules # {}, accounts'[d].initial # <<>>,
           d \notin contested' => Total(accounts'[d].initial) = balance
    PROVE  ReportOK(p)'
    <1> PICK r : r = run[p]
        OBVIOUS
    <1> PICK s : s = run'[p]
        OBVIOUS
    <1>1. RunOK(r) /\ r.at \in Nat \ {0} /\ r.at <= Len(r.file) /\ Accounted(r, r.at, r.at - 1)
        BY AtWork
    <1>2. s = [file |-> r.file, at |-> r.at + 1, owner |-> r.owner, source |-> r.source,
               migrated |-> r.migrated + balance, errors |-> r.errors]
        BY <1>1 DEF RunOK, Migrated, TypeOK
    <1>3. pc'[p] = "next"
        BY DEF TypeOK, Migrated, Goto
    <1>4. /\ s.file = r.file /\ s.at = r.at + 1 /\ s.source = r.source
          /\ s.migrated = r.migrated + balance /\ s.errors = r.errors
        BY <1>2
    <1>5. d = r.file[r.at].id
        BY DEF Entry
    <1>6. Accounted(s, s.at - 1, s.at - 1)'
        BY <1>1, <1>4, <1>5, ReportGrows
    <1>7. Accounted(run[p], run[p].at - 1, run[p].at - 1)'
        BY <1>6
    <1> QED BY <1>3, <1>7, Stages DEF ReportOK

\* An import that goes on with its entry reports what it did.
LEMMA GoesOnReports ==
    ASSUME TypeOK, RowsSettle, NEW p \in Proc, ReportOK(p), pc[p] \in Working, pc'[p] \in Working, run' = run,
           pc'[p] \in {"transactions", "addTransaction"} => Row(p)'.rules # {}
    PROVE  ReportOK(p)'
    <1> PICK r : r = run[p]
        OBVIOUS
    <1>1. RunOK(r) /\ Accounted(r, r.at, r.at - 1)
        BY AtWork
    <1>2. Accounted(r, r.at, r.at - 1)'
        BY <1>1, ReportStays
    <1>3. Accounted(run[p], run[p].at, run[p].at - 1)'
        BY <1>2
    <1> QED BY <1>3 DEF ReportOK

\* The report of an import that starts is empty.
LEMMA StartReports ==
    ASSUME TypeOK, NEW p \in Proc, NEW r \in Offered, ImportLegacyDeposits(p, r)
    PROVE  ReportOK(p)'
    <1> PICK s : s = run'[p]
        OBVIOUS
    <1>1. s = [file |-> r.file, at |-> 1, owner |-> r.owner, source |-> 0, migrated |-> 0, errors |-> FALSE]
        BY DEF TypeOK, ImportLegacyDeposits
    <1>2. pc'[p] = "owner"
        BY DEF TypeOK, ImportLegacyDeposits, Goto
    <1>3. s.source = 0 /\ s.migrated = 0 /\ s.at - 1 = 0 /\ s.file \in Seq(Deposit)
        BY <1>1, OfferedAssumption
    <1>4. Listed(s.file, 0)' = 0
        <2> DEFINE t == [i \in 1..0 |-> s.file[i].amount]
        <2>1. t \in [1..0 -> Int]
            OBVIOUS
        <2>2. SumTo(t, 0) = 0
            BY <2>1, SumOfNothing
        <2> QED BY <2>2 DEF Listed
    <1>5. Recorded(s.file, 0)' = 0
        <2> DEFINE t == [i \in 1..0 |-> Total(accounts'[s.file[i].id].initial)]
        <2>1. t \in [1..0 -> Int]
            OBVIOUS
        <2>2. SumTo(t, 0) = 0
            BY <2>1, SumOfNothing
        <2>3. Recorded(s.file, 0)' = SumTo(t, 0)
            BY DEF Recorded, Total, SumTo, RunningSum
        <2> QED BY <2>2, <2>3
    <1>6. Complete(s.file, 0)' /\ 0 <= Len(s.file)
        BY <1>3 DEF Complete
    <1>7. Accounted(s, 0, 0)'
        BY <1>3, <1>4, <1>5, <1>6 DEF Accounted
    <1>8. Accounted(run[p], run[p].at - 1, run[p].at - 1)'
        BY <1>3, <1>7
    <1> QED BY <1>2, <1>8, Stages DEF ReportOK

\* An entry that is begun adds its amount; one that is refused is an error.
LEMMA BeginReports ==
    ASSUME TypeOK, RowsSettle, NEW p \in Proc, ReportOK(p), BeginDeposit(p)
    PROVE  ReportOK(p)'
    <1> PICK refused \in BOOLEAN : refused = ("id" \in Entry(p).bad \/ Entry(p).amount < 0)
        OBVIOUS
    <1> PICK r : r = run[p]
        OBVIOUS
    <1> PICK s : s = run'[p]
        OBVIOUS
    <1> PICK e : e = Entry(p)
        OBVIOUS
    <1>1. /\ pc[p] = "next" /\ ~(r.at > Len(r.file))
          /\ run' = [run EXCEPT ![p].source = @ + e.amount, ![p].errors = @ \/ refused,
                                ![p].at = @ + (IF refused THEN 1 ELSE 0)]
          /\ Goto(p, IF refused THEN "next" ELSE "lookup")
        BY DEF BeginDeposit, Finished
    <1>2. RunOK(r)
        BY <1>1 DEF TypeOK
    <1>3. r.file \in Seq(Deposit) /\ r.at \in Nat \ {0} /\ r.at <= Len(r.file) /\ e = r.file[r.at]
        <2>1. r.file \in Seq(Deposit) /\ r.at \in Nat \ {0}
            BY <1>2 DEF RunOK
        <2>2. r.at <= Len(r.file)
            BY <1>1, <2>1
        <2> QED BY <2>1, <2>2 DEF Entry
    <1>4. s = [file |-> r.file, at |-> r.at + (IF refused THEN 1 ELSE 0), owner |-> r.owner,
               source |-> r.source + e.amount, migrated |-> r.migrated, errors |-> r.errors \/ refused]
        BY <1>1, <1>2 DEF TypeOK, RunOK
    <1>5. pc'[p] = (IF refused THEN "next" ELSE "lookup")
        BY <1>1 DEF TypeOK, Goto
    <1>6. Accounted(r, r.at - 1, r.at - 1)
        BY <1>1, Stages DEF ReportOK
    <1>7. CASE refused
        <2>1. s.file = r.file /\ s.at = r.at + 1 /\ s.errors = (r.errors \/ refused)
            BY <1>4, <1>7
        <2>2. s.file = r.file /\ s.at - 1 = r.at /\ s.errors
            <3>1. s.errors
                BY <1>7, <2>1, Zenon
            <3>2. s.at - 1 = r.at
                BY <1>3, <2>1
            <3> QED BY <2>1, <3>1, <3>2
        <2>3. Accounted(s, s.at - 1, s.at - 1)'
            BY <1>3, <2>2 DEF Accounted
        <2>4. Accounted(run[p], run[p].at - 1, run[p].at - 1)'
            BY <2>3
        <2> QED BY <1>5, <1>7, <2>4, Stages DEF ReportOK
    <1>8. CASE ~refused
        <2>1. /\ s.file = r.file /\ s.at = r.at /\ s.source = r.source + e.amount
              /\ s.migrated = r.migrated /\ (~s.errors => ~r.errors)
            <3>1. /\ s.file = r.file /\ s.at = r.at + 0 /\ s.source = r.source + e.amount
                  /\ s.migrated = r.migrated /\ s.errors = (r.errors \/ refused)
                BY <1>4, <1>8
            <3>2. ~s.errors => ~r.errors
                BY <3>1
            <3> QED BY <1>3, <3>1, <3>2
        <2>2. Accounted(r, r.at - 1, r.at - 1)'
            BY <1>2, <1>6, ReportStays
        <2>3. Accounted(s, s.at, s.at - 1)'
            <3>1. CASE s.errors
                BY <1>3, <2>1, <3>1 DEF Accounted
            <3>2. CASE ~s.errors
                <4> DEFINE n == r.at - 1
                           u == [i \in 1..n |-> r.file[i].amount]
                           t == [i \in 1..(n + 1) |-> r.file[i].amount]
                <4>1. n \in Nat /\ n + 1 = r.at /\ n + 1 \in Nat /\ n <= Len(r.file)
                    BY <1>3
                <4>2. u \in [1..n -> Int] /\ t \in [1..(n + 1) -> Int] /\ t[n + 1] = e.amount /\ \A k \in 1..n : t[k] = u[k]
                    <5>1. \A i \in 1..(n + 1) : r.file[i].amount \in Int
                        BY <1>3, <4>1, SummandsTyped
                    <5>2. u \in [1..n -> Int] /\ t \in [1..(n + 1) -> Int]
                        BY <4>1, <5>1
                    <5>3. t[n + 1] = e.amount /\ \A k \in 1..n : t[k] = u[k]
                        BY <1>3, <4>1
                    <5> QED BY <5>2, <5>3
                <4>3. r.source = SumTo(u, n)
                    BY <1>6, <2>1, <3>2 DEF Accounted, Listed
                <4> HIDE DEF u, t, n
                <4>4. SumTo(t, n + 1) = SumTo(u, n) + t[n + 1]
                    BY <4>1, <4>2, SumOneMore
                <4>5. s.source = SumTo(t, n + 1)
                    BY <2>1, <4>2, <4>3, <4>4
                <4>6. s.source = Listed(s.file, s.at)'
                    BY <2>1, <4>1, <4>5 DEF Listed, t
                <4>7. /\ r.at - 1 <= Len(r.file) /\ Complete(r.file, r.at - 1)'
                      /\ Uncontested(r.file, r.at - 1)' => r.migrated = Recorded(r.file, r.at - 1)'
                    BY <2>1, <2>2, <3>2 DEF Accounted
                <4> QED BY <2>1, <4>6, <4>7 DEF Accounted
            <3> QED BY <3>1, <3>2
        <2>4. Accounted(run[p], run[p].at, run[p].at - 1)'
            BY <2>3
        <2> QED BY <1>5, <1>8, <2>4, Stages DEF ReportOK
    <1> QED BY <1>7, <1>8

\* A step of an import keeps its own report right.
LEMMA StepReports ==
    ASSUME ImportInv, TypeOK', RowsSettle, NEW p \in Proc, ReportOK(p), Step(p)
    PROVE  ReportOK(p)'
    <1>1. TypeOK /\ InsertsInv /\ RepairsInv
        BY DEF ImportInv
    <1>2. ASSUME NEW stage \in Working, Goto(p, stage) PROVE pc'[p] = stage
        BY <1>1, <1>2 DEF TypeOK, Goto
    <1>3. ASSUME pc[p] \in Working, NEW stage \in {"lookup", "insert", "commit", "rules", "addRule"}, Goto(p, stage), UNCHANGED run
          PROVE  ReportOK(p)'
        <2>1. pc'[p] = stage /\ stage \in Working /\ stage \notin {"transactions", "addTransaction"}
            BY <1>2, <1>3, Stages
        <2> QED BY <1>1, <1>3, <2>1, GoesOnReports
    <1>4. ASSUME pc[p] \in Working, Failed(p) PROVE ReportOK(p)'
        BY <1>1, <1>4, FailedReports
    <1>5. ASSUME Leave(p) PROVE ReportOK(p)'
        <2>1. pc'[p] = "idle"
            BY <1>1, <1>5 DEF TypeOK, Leave
        <2> QED BY <2>1 DEF ReportOK
    <1>6. CASE \E r \in Offered : ImportLegacyDeposits(p, r)
        BY <1>1, <1>6, StartReports
    <1>7. CASE Report(p) \/ Stop(p)
        BY <1>5, <1>7 DEF Report, Stop
    <1>8. CASE BeginDeposit(p)
        BY <1>1, <1>8, BeginReports
    <1>9. CASE resolveOwnerUserID(p)
        <2>1. CASE Leave(p)
            BY <1>5, <2>1
        <2>2. CASE Goto(p, "next") /\ UNCHANGED run
            <3> PICK r : r = run[p]
                OBVIOUS
            <3>1. pc[p] = "owner" /\ pc'[p] = "next"
                BY <1>1, <1>9, <2>2 DEF resolveOwnerUserID, Goto, TypeOK
            <3>2. RunOK(r) /\ Accounted(r, r.at - 1, r.at - 1)
                BY <1>1, <3>1, Stages DEF TypeOK, ReportOK
            <3>3. Accounted(r, r.at - 1, r.at - 1)'
                BY <1>1, <3>2, ReportStays
            <3>4. Accounted(run[p], run[p].at - 1, run[p].at - 1)'
                BY <2>2, <3>3
            <3> QED BY <3>1, <3>4, Stages DEF ReportOK
        <2> QED BY <1>9, <2>1, <2>2 DEF resolveOwnerUserID
    <1>10. CASE GetByLegacyID(p)
        <2>1. pc[p] \in Working
            BY <1>10, Stages DEF GetByLegacyID
        <2> QED BY <1>3, <1>4, <1>10, <2>1 DEF GetByLegacyID
    <1>11. CASE insertAccount(p) \/ LegacyIDTaken(p) \/ StatementFails(p)
        <2>1. pc[p] \in Working
            BY <1>11, Stages DEF insertAccount, LegacyIDTaken, StatementFails
        <2> QED BY <1>3, <1>4, <1>11, <2>1 DEF insertAccount, LegacyIDTaken, StatementFails
    <1>12. CASE ListRules(p) \/ CreateMissingRule(p) \/ ListTransactions(p) \/ CreateMissingInitialBalance(p)
        <2> PICK d : d = Entry(p).id
            OBVIOUS
        <2>1. pc[p] \in Working /\ pc[p] \in Repair /\ contested' = contested
            BY <1>12, Stages DEF ListRules, CreateMissingRule, ListTransactions, CreateMissingInitialBalance
        <2>2. d \in Id /\ accounts[d] # None /\ accounts[d] \in Account /\ Row(p) = accounts[d] /\ Entry(p) \in Deposit
            <3>1. d \in Id /\ Entry(p) \in Deposit
                BY <1>1, <2>1, EntryTyped
            <3>2. accounts[d] # None
                BY <1>1, <2>1 DEF RepairsInv, Row
            <3> QED BY <1>1, <3>1, <3>2 DEF Row, TypeOK
        <2>3. Settled(d)
            BY <2>2 DEF RowsSettle
        <2>4. ASSUME UNCHANGED run, Goto(p, "transactions") \/ Goto(p, "addTransaction"), accounts'[d].rules # {} PROVE ReportOK(p)'
            <3>1. pc'[p] \in Working
                BY <1>2, <2>4, Stages
            <3>2. Row(p)' = accounts'[d]
                BY <2>4 DEF Row, Entry
            <3> QED BY <1>1, <2>1, <2>4, <3>1, <3>2, GoesOnReports
        <2>5. CASE ListRules(p)
            <3>1. CASE Row(p).rules # {} /\ Goto(p, "transactions") /\ UNCHANGED run
                BY <2>2, <2>3, <2>4, <3>1 DEF Settled
            <3>2. CASE Goto(p, "addRule") /\ UNCHANGED run
                BY <1>3, <2>1, <3>2
            <3> QED BY <1>4, <2>1, <2>5, <3>1, <3>2 DEF ListRules
        <2>6. CASE CreateMissingRule(p)
            <3>1. CASE /\ accounts' = [accounts EXCEPT ![Entry(p).id].rules = @ \union {"opening"}]
                       /\ Goto(p, "transactions") /\ UNCHANGED run
                <4>1. accounts'[d] = [accounts[d] EXCEPT !.rules = @ \union {"opening"}]
                    BY <1>1, <2>2, <3>1 DEF TypeOK
                <4>2. accounts'[d].rules = accounts[d].rules \union {"opening"}
                    BY <2>2, <4>1 DEF Account
                <4>3. accounts'[d].rules # {}
                    BY <4>2
                <4> QED BY <2>4, <3>1, <4>3
            <3> QED BY <1>4, <2>1, <2>6, <3>1 DEF CreateMissingRule
        <2>7. CASE ListTransactions(p)
            <3>1. pc[p] = "transactions" /\ accounts' = accounts /\ accounts[d].rules # {}
                BY <2>2, <2>7 DEF ListTransactions, ReportOK
            <3>2. CASE Goto(p, "addTransaction") /\ UNCHANGED run
                BY <2>4, <3>1, <3>2
            <3>3. CASE accounts[d].initial # <<>> /\ Migrated(p, Total(accounts[d].initial))
                <4>1. accounts'[d] # None /\ accounts'[d].rules # {} /\ accounts'[d].initial # <<>>
                      /\ Total(accounts'[d].initial) = Total(accounts[d].initial)
                    BY <2>2, <3>1, <3>3
                <4> QED BY <1>1, <2>1, <3>3, <4>1, MigratedReports
            <3> QED BY <2>2, <2>7, <3>2, <3>3 DEF ListTransactions, legacyInitialBalanceFromTransactions
        <2>8. CASE CreateMissingInitialBalance(p)
            <3>1. CASE Failed(p)
                BY <1>4, <2>1, <3>1
            <3>2. CASE /\ AmountAccepted(Entry(p).amount)
                       /\ accounts' = [accounts EXCEPT ![Entry(p).id].initial = Append(@, Initial(p))]
                       /\ Migrated(p, Entry(p).amount)
                <4>1. pc[p] = "addTransaction" /\ accounts[d].rules # {} /\ (accounts[d].initial = <<>> \/ d \in contested)
                    BY <1>1, <2>1, <2>2, <2>8 DEF CreateMissingInitialBalance, ReportOK, RepairsInv
                <4> PICK row : row = Initial(p)
                    OBVIOUS
                <4>2. row \in InitialRow /\ row.amount = Entry(p).amount
                    BY <2>2, <3>2 DEF Initial, InitialRow, AmountAccepted, Deposit
                <4>3. accounts[d].initial \in Seq(InitialRow)
                    BY <2>2 DEF Account
                <4>4. accounts'[d] = [accounts[d] EXCEPT !.initial = Append(@, row)]
                    BY <1>1, <2>2, <3>2 DEF TypeOK
                <4>5. accounts'[d].rules = accounts[d].rules /\ accounts'[d].initial = Append(accounts[d].initial, row)
                    BY <2>2, <4>4 DEF Account
                <4>6. accounts'[d].rules # {} /\ accounts'[d].initial # <<>>
                    BY <4>1, <4>2, <4>3, <4>5
                <4>7. d \notin contested' => Total(accounts'[d].initial) = Entry(p).amount
                    <5> SUFFICES ASSUME d \notin contested' PROVE Total(accounts'[d].initial) = row.amount
                        BY <4>2
                    <5>1. accounts'[d].initial = <<row>>
                        <6>1. accounts[d].initial = <<>>
                            BY <2>1, <4>1
                        <6>2. Append(<<>>, row) = <<row>>
                            OBVIOUS
                        <6> QED BY <4>5, <6>1, <6>2
                    <5> QED BY <4>2, <5>1, TotalOfOne
                <4>8. accounts'[d] # None
                    BY <2>3 DEF Settled
                <4> QED BY <1>1, <2>1, <3>2, <4>6, <4>7, <4>8, MigratedReports
            <3> QED BY <2>8, <3>1, <3>2 DEF CreateMissingInitialBalance
        <2> QED BY <1>12, <2>5, <2>6, <2>7, <2>8
    <1>13. CASE CreateMigratedDeposit(p)
        <2> PICK d : d = Entry(p).id
            OBVIOUS
        <2>1. pc[p] = "commit" /\ pc[p] \in Working
            BY <1>13, Stages DEF CreateMigratedDeposit
        <2>2. CASE Failed(p)
            BY <1>4, <2>1, <2>2
        <2>3. CASE AmountAccepted(Entry(p).amount) /\ CommitMigrated(p) /\ Migrated(p, Entry(p).amount)
            <3>1. d \in Id /\ Entry(p) \in Deposit /\ pending[p] \in BOOLEAN
                BY <1>1, <2>1, EntryTyped DEF TypeOK
            <3> PICK row : row = Initial(p)
                OBVIOUS
            <3>2. row \in InitialRow /\ row.amount = Entry(p).amount
                BY <2>3, <3>1 DEF Initial, InitialRow, AmountAccepted, Deposit
            <3>3. accounts'[d] = [owned |-> pending[p], rules |-> {"opening"}, initial |-> <<row>>]
                BY <1>1, <2>3, <3>1 DEF CommitMigrated, TypeOK
            <3>4. accounts'[d].rules # {} /\ accounts'[d].initial = <<row>> /\ accounts'[d].initial # <<>>
                BY <3>3
            <3>5. Total(accounts'[d].initial) = Entry(p).amount
                BY <3>2, <3>4, TotalOfOne
            <3>6. accounts'[d] # None
                <4>1. <<row>> \in Seq(InitialRow) /\ {"opening"} \in SUBSET RuleStart
                    BY <3>2 DEF RuleStart
                <4>2. accounts'[d] \in Account
                    BY <3>1, <3>3, <4>1 DEF Account
                <4> QED BY <4>2, NoneAssumption
            <3> QED BY <1>1, <2>1, <2>3, <3>4, <3>5, <3>6, MigratedReports
        <2> QED BY <1>13, <2>2, <2>3 DEF CreateMigratedDeposit
    <1> QED BY <1>6, <1>7, <1>8, <1>9, <1>10, <1>11, <1>12, <1>13 DEF Step

\* While its import waits, a report stays right.
LEMMA WaitingReports ==
    ASSUME ImportInv, RowsSettle, NEW p \in Proc, ReportOK(p), pc'[p] = pc[p], run'[p] = run[p]
    PROVE  ReportOK(p)'
    <1>1. TypeOK /\ RepairsInv
        BY DEF ImportInv
    <1> PICK r : r = run[p]
        OBVIOUS
    <1> PICK begun : begun = IF pc[p] \in Working THEN r.at ELSE r.at - 1
        OBVIOUS
    <1>2. ASSUME pc[p] # "idle"
          PROVE  Accounted(run[p], IF pc[p] \in Working THEN run[p].at ELSE run[p].at - 1, run[p].at - 1)'
        <2>1. RunOK(r) /\ Accounted(r, begun, r.at - 1)
            BY <1>1, <1>2 DEF TypeOK, ReportOK
        <2>2. Accounted(r, begun, r.at - 1)'
            BY <1>1, <2>1, ReportStays
        <2> QED BY <2>2
    <1>3. ASSUME pc[p] \in {"transactions", "addTransaction"} PROVE Row(p)'.rules # {}
        <2> PICK d : d = Entry(p).id
            OBVIOUS
        <2>1. pc[p] \in Repair /\ pc[p] \in Working
            BY <1>3, Stages
        <2>2. d \in Id /\ accounts[d] # None /\ accounts[d].rules # {}
            BY <1>1, <1>3, <2>1, EntryTyped DEF RepairsInv, Row, ReportOK
        <2>3. accounts'[d].rules # {}
            BY <2>2 DEF RowsSettle, Settled
        <2>4. Row(p)' = accounts'[d]
            BY DEF Row, Entry
        <2> QED BY <2>3, <2>4
    <1> QED BY <1>2, <1>3 DEF ReportOK

\* Every step keeps every report right.
LEMMA ReportsKept == ImportInv /\ ReportsInv /\ [Next]_vars => ReportsInv'
    <1> SUFFICES ASSUME ImportInv, ReportsInv, [Next]_vars, NEW p \in Proc PROVE ReportOK(p)'
        BY DEF ReportsInv, ReportOK
    <1>1. TypeOK /\ TypeOK'
        BY NextHolds DEF ImportInv
    <1>2. RowsSettle /\ ReportOK(p)
        BY NextSettles DEF ReportsInv, ReportOK
    <1>3. ASSUME NEW q \in Proc, Step(q) PROVE ReportOK(p)'
        <2>1. CASE q = p
            BY <1>1, <1>2, <1>3, <2>1, StepReports
        <2>2. CASE q # p
            BY <1>1, <1>2, <1>3, <2>2, OthersWait, WaitingReports
        <2> QED BY <2>1, <2>2
    <1>4. ASSUME UNCHANGED <<pc, run>> PROVE ReportOK(p)'
        BY <1>2, <1>4, WaitingReports
    <1>5. CASE UNCHANGED vars \/ claimUnownedAccounts \/ CommitSetup \/ SetupFails
        BY <1>4, <1>5 DEF vars, claimUnownedAccounts, CommitSetup, SetupFails
    <1>6. ASSUME NEW d \in Id, CancelInitialBalance(d) \/ \E start \in RuleStart : AddRule(d, start) PROVE ReportOK(p)'
        BY <1>4, <1>6 DEF CancelInitialBalance, AddRule
    <1> QED BY <1>3, <1>5, <1>6 DEF Next

\* In every reachable state a report without an error is the sum of what the file asks for and of
\* what was recorded, for the entries that its import has taken.
THEOREM ReportsAccounted == Spec => []ReportsInv
    <1>1. Init => ReportsInv
        BY Stages DEF Init, ReportsInv
    <1> QED BY <1>1, ReportsKept, InvariantHolds, PTL DEF Spec

\* A report that says that the balances match is true when it is given: every entry of the file has
\* its account, its rule and its initial balance, and these add up to the amounts of the file,
\* unless two imports repaired one of them at once (ImportLegacyDeposits, BalanceMatchesSource).
THEOREM MatchesAreTrue == Spec => []MatchIsTrue
    <1>1. ImportInv /\ ReportsInv => MatchIsTrue
        <2> SUFFICES ASSUME ImportInv, ReportsInv, NEW p \in Proc, Finished(p), BalanceMatchesSource(run[p])
                     PROVE  /\ Complete(run[p].file, Len(run[p].file))
                            /\ Uncontested(run[p].file, Len(run[p].file)) =>
                                 Recorded(run[p].file, Len(run[p].file)) = Listed(run[p].file, Len(run[p].file))
            BY DEF MatchIsTrue
        <2>1. pc[p] = "next" /\ run[p].at > Len(run[p].file) /\ run[p].source = run[p].migrated /\ ~run[p].errors
            BY DEF Finished, BalanceMatchesSource
        <2>2. RunOK(run[p]) /\ Accounted(run[p], run[p].at - 1, run[p].at - 1)
            BY <2>1, Stages DEF ImportInv, TypeOK, ReportsInv
        <2>3. run[p].at - 1 = Len(run[p].file)
            BY <2>1, <2>2 DEF RunOK, Accounted
        <2> QED BY <2>1, <2>2, <2>3 DEF Accounted
    <1> QED BY <1>1, InvariantHolds, ReportsAccounted, PTL
=============================================================================
