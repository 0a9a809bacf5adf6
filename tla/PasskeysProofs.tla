--------------------------- MODULE PasskeysProofs ---------------------------
(***************************************************************************)
(* Proofs about Passkeys for every number of requests, challenges and      *)
(* credentials.  PasskeysInv is shown inductive: a request that consumed a *)
(* challenge is the only one that ever will, so what comes of a challenge  *)
(* comes of one ceremony.                                                  *)
(***************************************************************************)
EXTENDS Passkeys, SequenceTheorems, TLAPS

-----------------------------------------------------------------------------
(* What a step of p leaves to the others. *)

\* Only p moves, to a stage that exists.
OnlyMoves(p) ==
    /\ pc' \in [Proc -> Stage] /\ DOMAIN req' = Proc /\ DOMAIN now' = Proc
    /\ \A q \in Proc \ {p} : pc'[q] = pc[q] /\ req'[q] = req[q] /\ now'[q] = now[q]
    /\ clock' = clock /\ started' \in Nat

\* Used challenges stay used, and only the request that consumed a challenge adds to its yield.
TablesKept(p) ==
    /\ issued <= issued'
    /\ \A i \in 1..issued : i \in DOMAIN challenges' =>
         i \in DOMAIN challenges /\ (challenges[i].usedAt # Nobody => challenges'[i].usedAt # Nobody)
    /\ \A i \in 1..issued : yields'[i] = yields[i] \/ (pc[p] \in Consumed /\ i = req[p].challenge)

\* The tables keep their types.
TablesTyped ==
    /\ issued' \in Nat /\ DOMAIN challenges' \subseteq 1..issued'
    /\ yields' \in Seq(YieldRow) /\ Len(yields') = issued'
    /\ \A i \in DOMAIN challenges' : challenges'[i] \in ChallengeRow
    /\ credentials' \in [Credential -> CredentialRow \union {Nobody}]
    /\ lastCleanup' \in Nat \union {Nobody}

\* p has its challenge already, or takes one that is free.
TakesFree(p) ==
    pc'[p] \in Consumed =>
        /\ req'[p].challenge = req[p].challenge /\ req[p].challenge \in 1..issued
        /\ \/ pc[p] \in Consumed
           \/ req[p].challenge \in DOMAIN challenges /\ challenges[req[p].challenge].usedAt = Nobody
        /\ yields'[req[p].challenge].made = <<>> /\ yields'[req[p].challenge].of = req'[p].ceremony
        /\ req[p].challenge \in DOMAIN challenges' => challenges'[req[p].challenge].usedAt # Nobody

\* A request that consumed a challenge names one that was issued.
LEMMA OwnChallenge ==
    ASSUME PasskeysInv, NEW q \in Proc, pc[q] \in Consumed
    PROVE  /\ OwnsChallenge(q) /\ RequestOK(q) /\ req[q] \in VerifyRequest /\ req[q].challenge \in 1..issued
           /\ req[q].credential \in Credential /\ req[q].ceremony \in Ceremony /\ req[q].count \in Nat
    <1>1. pc[q] # "idle"
        BY DEF Consumed
    <1>2. OwnsChallenge(q) /\ RequestOK(q)
        BY <1>1 DEF PasskeysInv
    <1>3. req[q] \in VerifyRequest
        BY <1>2 DEF RequestOK
    <1> QED BY <1>2, <1>3 DEF VerifyRequest

\* A step of one request keeps the invariant when it keeps its own part of it.
LEMMA StepKeeps ==
    ASSUME PasskeysInv, NEW p \in Proc, OnlyMoves(p), TablesKept(p), TablesTyped, TakesFree(p),
           pc'[p] # "idle" => RequestOK(p)', UnusedRows', ChallengeUsedOnce'
    PROVE  PasskeysInv'
    <1>0. clock \in Nat /\ issued \in Nat /\ issued' \in Nat /\ issued <= issued'
        BY DEF PasskeysInv, TypeOK, TablesKept, TablesTyped
    <1>1. TypeOK'
        BY <1>0 DEF TypeOK, TablesTyped, OnlyMoves
    <1>2. ASSUME NEW q \in Proc \ {p}, pc'[q] # "idle" PROVE RequestOK(q)'
        <2>1. RequestOK(q) /\ pc'[q] = pc[q] /\ req'[q] = req[q] /\ now'[q] = now[q] /\ clock' = clock
            BY <1>2 DEF PasskeysInv, OnlyMoves
        <2>2. req[q] \in VerifyRequest => req[q] \in VerifyRequest'
            BY <1>0 DEF VerifyRequest
        <2> QED BY <2>1, <2>2 DEF RequestOK
    <1>3. ASSUME NEW q \in Proc \ {p}, pc'[q] \in Consumed PROVE OwnsChallenge(q)'
        <2>1. pc[q] \in Consumed /\ req'[q] = req[q]
            BY <1>3 DEF OnlyMoves
        <2>2. PICK i \in 1..issued : i = req[q].challenge
            BY <2>1, OwnChallenge
        <2>3. /\ yields[i].made = <<>> /\ yields[i].of = req[q].ceremony
              /\ i \in DOMAIN challenges => challenges[i].usedAt # Nobody
              /\ \A r \in Proc \ {q} : pc[r] \in Consumed => req[r].challenge # i
            BY <2>1, <2>2, OwnChallenge DEF OwnsChallenge
        <2>4. yields'[i] = yields[i]
            BY <2>3 DEF TablesKept
        <2>5. i \in DOMAIN challenges' => challenges'[i].usedAt # Nobody
            BY <2>3 DEF TablesKept
        <2>6. \A r \in Proc \ {q} : pc'[r] \in Consumed => req'[r].challenge # i
            <3>1. pc'[p] \in Consumed => req'[p].challenge # i
                BY <2>3 DEF TakesFree
            <3> QED BY <2>3, <3>1 DEF OnlyMoves
        <2> QED BY <2>1, <2>2, <2>3, <2>4, <2>5, <2>6 DEF OwnsChallenge
    <1>4. ASSUME pc'[p] \in Consumed PROVE OwnsChallenge(p)'
        <2>1. PICK i \in 1..issued : i = req[p].challenge
            BY <1>4 DEF TakesFree
        <2>2. /\ req'[p].challenge = i /\ yields'[i].made = <<>> /\ yields'[i].of = req'[p].ceremony
              /\ i \in DOMAIN challenges' => challenges'[i].usedAt # Nobody
            BY <1>4, <2>1 DEF TakesFree
        <2>3. \A q \in Proc \ {p} : pc[q] \in Consumed => req[q].challenge # i
            BY <1>4, <2>1, OwnChallenge DEF TakesFree, OwnsChallenge
        <2> QED BY <2>2, <2>3 DEF OwnsChallenge, OnlyMoves
    <1> QED BY <1>1, <1>2, <1>3, <1>4 DEF PasskeysInv

\* A step that leaves the challenges and their yields alone.
LEMMA LocalKeeps ==
    ASSUME PasskeysInv, NEW p \in Proc, OnlyMoves(p), UNCHANGED <<challenges, issued, yields>>,
           credentials' \in [Credential -> CredentialRow \union {Nobody}],
           lastCleanup' \in Nat \union {Nobody}, pc'[p] # "idle" => RequestOK(p)',
           pc'[p] \in Consumed => /\ pc[p] \in Consumed /\ req'[p].challenge = req[p].challenge
                                  /\ req'[p].ceremony = req[p].ceremony
    PROVE  PasskeysInv'
    <1>1. TablesKept(p)
        BY DEF TablesKept, PasskeysInv, TypeOK
    <1>2. TablesTyped
        BY DEF TablesTyped, PasskeysInv, TypeOK
    <1>3. TakesFree(p)
        BY OwnChallenge DEF TakesFree, OwnsChallenge
    <1>4. UnusedRows' /\ ChallengeUsedOnce'
        BY DEF PasskeysInv, UnusedRows, ChallengeUsedOnce
    <1> QED BY <1>1, <1>2, <1>3, <1>4, StepKeeps

-----------------------------------------------------------------------------
(* How a request moves. *)

\* A request starts with what it asks for and the time it is.
LEMMA StartMoves ==
    ASSUME PasskeysInv, NEW p \in Proc, NEW r, NEW stage \in Stage, Start(p, r, stage)
    PROVE  /\ OnlyMoves(p) /\ pc[p] = "idle" /\ pc'[p] = stage /\ req'[p] = r /\ now'[p] = clock
           /\ UNCHANGED <<challenges, issued, credentials, lastCleanup, yields>>
    BY DEF Start, PasskeysInv, TypeOK, OnlyMoves

\* A request goes to its next stage.
LEMMA GotoMoves ==
    ASSUME PasskeysInv, NEW p \in Proc, NEW stage \in Stage, Goto(p, stage)
    PROVE  OnlyMoves(p) /\ pc'[p] = stage /\ UNCHANGED <<req, now, clock>>
    BY DEF Goto, PasskeysInv, TypeOK, OnlyMoves

\* A request returns.
LEMMA ReturnMoves ==
    ASSUME PasskeysInv, NEW p \in Proc, Return(p)
    PROVE  OnlyMoves(p) /\ pc'[p] = "idle"
    BY DEF Return, PasskeysInv, TypeOK, OnlyMoves, Stage

\* A request that ends without a word.
LEMMA ReturnKeeps ==
    ASSUME PasskeysInv, NEW p \in Proc, Return(p),
           UNCHANGED <<challenges, issued, credentials, lastCleanup, yields>>
    PROVE  PasskeysInv'
    <1>1. "idle" \notin Consumed
        BY DEF Consumed
    <1>2. credentials' \in [Credential -> CredentialRow \union {Nobody}] /\ lastCleanup' \in Nat \union {Nobody}
        BY DEF PasskeysInv, TypeOK
    <1> QED BY <1>1, <1>2, ReturnMoves, LocalKeeps

\* The stages are stages.
LEMMA Stages == /\ {"cleanup", "delete", "store", "consume", "create", "validate", "touch", "issue"} \subseteq Stage
                /\ Consumed \intersect {"idle", "cleanup", "delete", "store", "consume"} = {}
    BY DEF Stage, Consumed

-----------------------------------------------------------------------------
(* Options. *)

\* Options, the clean-up's decision and its failure leave the tables alone.
LEMMA OptionsKeep ==
    ASSUME PasskeysInv, NEW p \in Proc,
           (\E k \in Ceremony : BeginOptions(p, k)) \/ cleanupChallenges(p) \/ DeleteFails(p)
    PROVE  PasskeysInv'
    <1>0. clock \in Nat /\ credentials \in [Credential -> CredentialRow \union {Nobody}]
          /\ lastCleanup \in Nat \union {Nobody}
        BY DEF PasskeysInv, TypeOK
    <1>1. ASSUME NEW k \in Ceremony, BeginOptions(p, k) PROVE PasskeysInv'
        <2>1. /\ OnlyMoves(p) /\ pc'[p] = "cleanup" /\ req'[p] = [ceremony |-> k] /\ now'[p] = clock
              /\ UNCHANGED <<challenges, issued, credentials, lastCleanup, yields>>
            BY <1>1, Stages, StartMoves DEF BeginOptions
        <2>2. clock' = clock
            BY <2>1 DEF OnlyMoves
        <2>3. RequestOK(p)'
            BY <1>0, <2>1, <2>2, Stages DEF RequestOK
        <2> QED BY <1>0, <2>1, <2>3, Stages, LocalKeeps
    <1>2. ASSUME NEW stage \in {"delete", "store"}, Goto(p, stage), pc[p] \in {"cleanup", "delete"},
                 UNCHANGED <<challenges, issued, credentials, yields>>, lastCleanup' \in {now[p], lastCleanup}
          PROVE  PasskeysInv'
        <2>1. OnlyMoves(p) /\ pc'[p] = stage /\ UNCHANGED <<req, now, clock>>
            BY <1>2, Stages, GotoMoves
        <2>2. RequestOK(p)
            BY <1>2 DEF PasskeysInv
        <2>3. RequestOK(p)' /\ now[p] \in Nat
            BY <1>2, <2>1, <2>2, Stages DEF RequestOK
        <2> QED BY <1>0, <1>2, <2>1, <2>3, Stages, LocalKeeps
    <1> QED BY <1>1, <1>2 DEF cleanupChallenges, DeleteFails

\* The clean-up takes rows away and changes none.
LEMMA DeleteKeeps ==
    ASSUME PasskeysInv, NEW p \in Proc, DeleteExpiredChallenges(p)
    PROVE  PasskeysInv'
    <1>1. /\ pc[p] = "delete" /\ RequestOK(p) /\ UNCHANGED <<issued, credentials, lastCleanup, yields>>
        BY DEF DeleteExpiredChallenges, PasskeysInv
    <1>2. OnlyMoves(p) /\ pc'[p] = "store" /\ UNCHANGED <<req, now, clock>>
        BY Stages, GotoMoves DEF DeleteExpiredChallenges
    <1>3. /\ DOMAIN challenges' \subseteq DOMAIN challenges
          /\ \A i \in DOMAIN challenges' : challenges'[i] = challenges[i]
        BY DEF DeleteExpiredChallenges, Restrict
    <1>4. TablesKept(p)
        BY <1>1, <1>3 DEF TablesKept, PasskeysInv, TypeOK
    <1>5. TablesTyped
        BY <1>1, <1>3 DEF TablesTyped, PasskeysInv, TypeOK
    <1>6. TakesFree(p)
        BY <1>2, Stages DEF TakesFree
    <1>7. RequestOK(p)'
        BY <1>1, <1>2, Stages DEF RequestOK
    <1>8. UnusedRows' /\ ChallengeUsedOnce'
        BY <1>1, <1>3 DEF PasskeysInv, UnusedRows, ChallengeUsedOnce
    <1> QED BY <1>2, <1>4, <1>5, <1>6, <1>7, <1>8, StepKeeps

\* A new challenge has yielded nothing.
LEMMA StoreKeeps ==
    ASSUME PasskeysInv, NEW p \in Proc, storeChallenge(p)
    PROVE  PasskeysInv'
    <1> DEFINE row == [ceremony |-> req[p].ceremony, expiresAt |-> clock + TTL, usedAt |-> Nobody]
               y == [of |-> req[p].ceremony, made |-> <<>>]
    <1>1. /\ pc[p] = "store" /\ req[p].ceremony \in Ceremony /\ clock \in Nat /\ issued \in Nat
          /\ DOMAIN challenges \subseteq 1..issued /\ Len(yields) = issued
          /\ yields \in Seq(YieldRow)
        BY DEF storeChallenge, PasskeysInv, RequestOK, TypeOK
    <1>2. /\ issued' = issued + 1 /\ yields' = Append(yields, y) /\ UNCHANGED <<credentials, lastCleanup>>
          /\ challenges' = [i \in DOMAIN challenges \union {issued + 1} |->
                              IF i = issued + 1 THEN row ELSE challenges[i]]
        BY DEF storeChallenge
    <1>3. row \in ChallengeRow /\ row.ceremony = req[p].ceremony /\ row.usedAt = Nobody
        BY <1>1, TimesAssumption DEF ChallengeRow
    <1>4. y \in YieldRow /\ y.of = req[p].ceremony /\ y.made = <<>>
        BY <1>1 DEF YieldRow
    <1> HIDE DEF row, y
    <1>5. /\ yields' \in Seq(YieldRow) /\ Len(yields') = issued + 1
          /\ yields'[issued + 1] = y /\ \A i \in 1..issued : yields'[i] = yields[i]
          /\ DOMAIN yields = 1..issued /\ DOMAIN yields' = 1..(issued + 1)
        BY <1>1, <1>2, <1>4
    <1>6. /\ DOMAIN challenges' = DOMAIN challenges \union {issued + 1} /\ challenges'[issued + 1] = row
          /\ \A i \in DOMAIN challenges : i # issued + 1 /\ i \in 1..issued /\ challenges'[i] = challenges[i]
        BY <1>1, <1>2
    <1>7. TablesTyped
        <2>1. DOMAIN challenges' \subseteq 1..(issued + 1)
            BY <1>1, <1>6
        <2>2. \A i \in DOMAIN challenges' : challenges'[i] \in ChallengeRow
            BY <1>3, <1>6 DEF PasskeysInv, TypeOK
        <2>3. credentials' \in [Credential -> CredentialRow \union {Nobody}] /\ lastCleanup' \in Nat \union {Nobody}
            BY <1>2 DEF PasskeysInv, TypeOK
        <2>4. issued' \in Nat /\ issued' = issued + 1
            BY <1>1, <1>2
        <2> QED BY <1>5, <2>1, <2>2, <2>3, <2>4 DEF TablesTyped
    <1>8. TablesKept(p)
        BY <1>1, <1>2, <1>5, <1>6 DEF TablesKept
    <1>9. OnlyMoves(p) /\ pc'[p] = "idle"
        BY ReturnMoves DEF storeChallenge
    <1>10. TakesFree(p)
        BY <1>9, Stages DEF TakesFree
    <1>11. UnusedRows'
        BY <1>3, <1>4, <1>5, <1>6 DEF UnusedRows, PasskeysInv
    <1>12. ChallengeUsedOnce'
        <2>1. \A i \in 1..(issued + 1) : i \in 1..issued \/ i = issued + 1
            BY <1>1
        <2>2. \A i \in 1..issued : yields[i].made \in {<<>>, <<yields[i].of>>}
            BY <1>5 DEF PasskeysInv, ChallengeUsedOnce
        <2> QED BY <1>4, <1>5, <2>1, <2>2 DEF ChallengeUsedOnce
    <1> QED BY <1>7, <1>8, <1>9, <1>10, <1>11, <1>12, StepKeeps

-----------------------------------------------------------------------------
(* Verification. *)

\* A verification arrives, with any challenge that was issued.
LEMMA BeginVerifyKeeps ==
    ASSUME PasskeysInv, NEW p \in Proc, NEW k \in Ceremony, NEW i \in 1..issued, NEW c \in Credential,
           NEW n \in 0..MaxCount, BeginVerify(p, k, i, c, n)
    PROVE  PasskeysInv'
    <1> DEFINE r == [ceremony |-> k, challenge |-> i, credential |-> c, count |-> n, read |-> Nobody]
    <1>0. clock \in Nat /\ credentials \in [Credential -> CredentialRow \union {Nobody}]
          /\ lastCleanup \in Nat \union {Nobody}
        BY DEF PasskeysInv, TypeOK
    <1>1. /\ OnlyMoves(p) /\ pc'[p] = "consume" /\ req'[p] = r /\ now'[p] = clock
          /\ UNCHANGED <<challenges, issued, credentials, lastCleanup, yields>>
        BY Stages, StartMoves DEF BeginVerify
    <1>2. n \in Nat
        BY TimesAssumption
    <1>3. r \in VerifyRequest
        BY <1>2 DEF VerifyRequest
    <1>4. clock' = clock /\ VerifyRequest' = VerifyRequest
        BY <1>1 DEF OnlyMoves, VerifyRequest
    <1>5. RequestOK(p)'
        BY <1>0, <1>1, <1>3, <1>4, Stages DEF RequestOK
    <1> QED BY <1>0, <1>1, <1>5, Stages, LocalKeeps

\* A challenge is consumed by the one UPDATE that finds it unused.
LEMMA ConsumeKeeps ==
    ASSUME PasskeysInv, NEW p \in Proc, ConsumeChallenge(p)
    PROVE  PasskeysInv'
    <1>1. pc[p] = "consume" /\ RequestOK(p) /\ req[p] \in VerifyRequest
        BY DEF ConsumeChallenge, PasskeysInv, RequestOK
    <1>2. PICK i \in 1..issued : i = req[p].challenge
        BY <1>1 DEF VerifyRequest
    <1>3. /\ i \in DOMAIN challenges /\ challenges[i].ceremony = req[p].ceremony
          /\ challenges[i].usedAt = Nobody /\ challenges[i] \in ChallengeRow
          /\ clock \in Nat
        BY <1>2 DEF ConsumeChallenge, Consumable, PasskeysInv, TypeOK
    <1>4. /\ challenges' = [challenges EXCEPT ![i] = [challenges[i] EXCEPT !.usedAt = clock]]
          /\ UNCHANGED <<issued, credentials, lastCleanup, yields>>
        BY <1>2 DEF ConsumeChallenge
    <1>5. /\ DOMAIN challenges' = DOMAIN challenges
          /\ challenges'[i] = [challenges[i] EXCEPT !.usedAt = clock]
          /\ \A j \in DOMAIN challenges : j # i => challenges'[j] = challenges[j]
        BY <1>3, <1>4
    <1>6. /\ challenges'[i] \in ChallengeRow /\ challenges'[i].usedAt = clock
          /\ challenges'[i].ceremony = challenges[i].ceremony /\ clock # Nobody
        BY <1>3, <1>5, NobodyAssumption DEF ChallengeRow
    <1>7. /\ OnlyMoves(p) /\ UNCHANGED <<req, now, clock>>
          /\ pc'[p] = IF req[p].ceremony = "login" THEN "validate" ELSE "create"
        BY Stages, GotoMoves DEF ConsumeChallenge
    <1>8. TablesTyped
        BY <1>4, <1>5, <1>6 DEF TablesTyped, PasskeysInv, TypeOK
    <1>9. TablesKept(p)
        BY <1>4, <1>5, <1>6 DEF TablesKept, PasskeysInv, TypeOK
    <1>10. yields[i].made = <<>> /\ yields[i].of = req[p].ceremony
        BY <1>3 DEF PasskeysInv, UnusedRows
    <1>11. TakesFree(p)
        BY <1>2, <1>3, <1>4, <1>6, <1>7, <1>10 DEF TakesFree
    <1>12. RequestOK(p)'
        <2>1. VerifyRequest' = VerifyRequest
            BY <1>4 DEF VerifyRequest
        <2>2. req[p].ceremony \in Ceremony
            BY <1>1 DEF VerifyRequest
        <2> QED BY <1>1, <1>7, <2>1, <2>2 DEF RequestOK, Ceremony
    <1>13. UnusedRows'
        BY <1>4, <1>5, <1>6 DEF PasskeysInv, UnusedRows
    <1>14. ChallengeUsedOnce'
        BY <1>4 DEF PasskeysInv, ChallengeUsedOnce
    <1> QED BY <1>7, <1>8, <1>9, <1>11, <1>12, <1>13, <1>14, StepKeeps

\* A ceremony adds to its challenge what the challenge was issued for, and returns.
LEMMA YieldKeeps ==
    ASSUME PasskeysInv, NEW p \in Proc, pc[p] \in Consumed, Yield(p, req[p].ceremony), Return(p),
           UNCHANGED <<challenges, issued, lastCleanup>>,
           credentials' \in [Credential -> CredentialRow \union {Nobody}]
    PROVE  PasskeysInv'
    <1>1. PICK i \in 1..issued : i = req[p].challenge
        BY OwnChallenge
    <1>2. PICK k \in Ceremony : k = req[p].ceremony
        BY OwnChallenge
    <1>3. /\ yields[i].made = <<>> /\ yields[i].of = k
          /\ i \in DOMAIN challenges => challenges[i].usedAt # Nobody
        BY <1>1, <1>2, OwnChallenge DEF OwnsChallenge
    <1>4. /\ yields \in Seq(YieldRow) /\ Len(yields) = issued /\ issued \in Nat
          /\ DOMAIN challenges \subseteq 1..issued
        BY DEF PasskeysInv, TypeOK
    <1> DEFINE y == [yields[i] EXCEPT !.made = Append(yields[i].made, k)]
    <1>5. yields' = [yields EXCEPT ![i] = y]
        BY <1>1, <1>2 DEF Yield
    <1>6. Append(yields[i].made, k) = <<k>> /\ <<k>> \in Seq(Ceremony)
        BY <1>3
    <1>7. y \in YieldRow /\ y.made = <<k>> /\ y.of = k
        <2>1. yields[i] \in YieldRow
            BY <1>4
        <2>2. y = [yields[i] EXCEPT !.made = <<k>>]
            BY <1>6
        <2> QED BY <1>3, <1>6, <2>1, <2>2 DEF YieldRow
    <1> HIDE DEF y
    <1>8. /\ yields' \in Seq(YieldRow) /\ Len(yields') = issued
          /\ yields'[i] = y /\ \A j \in 1..issued : j # i => yields'[j] = yields[j]
          /\ DOMAIN yields = 1..issued /\ DOMAIN yields' = 1..issued
        BY <1>4, <1>5, <1>7
    <1>9. TablesTyped
        BY <1>8 DEF TablesTyped, PasskeysInv, TypeOK
    <1>10. TablesKept(p)
        BY <1>1, <1>4, <1>8 DEF TablesKept
    <1>11. OnlyMoves(p) /\ pc'[p] = "idle"
        BY ReturnMoves
    <1>12. TakesFree(p)
        BY <1>11, Stages DEF TakesFree
    <1>13. UnusedRows'
        <2> SUFFICES ASSUME NEW j \in DOMAIN challenges
                     PROVE  /\ challenges[j].ceremony = yields'[j].of
                            /\ challenges[j].usedAt = Nobody => yields'[j].made = <<>>
            BY DEF UnusedRows
        <2>1. /\ challenges[j].ceremony = yields[j].of /\ j \in 1..issued
              /\ challenges[j].usedAt = Nobody => yields[j].made = <<>>
            BY <1>4 DEF PasskeysInv, UnusedRows
        <2> QED BY <1>3, <1>7, <1>8, <2>1
    <1>14. ChallengeUsedOnce'
        <2>1. \A j \in 1..issued : yields[j].made \in {<<>>, <<yields[j].of>>}
            BY <1>8 DEF PasskeysInv, ChallengeUsedOnce
        <2> QED BY <1>7, <1>8, <2>1 DEF ChallengeUsedOnce
    <1> QED BY <1>9, <1>10, <1>11, <1>12, <1>13, <1>14, StepKeeps

\* A registration creates its credential, a login issues its session.
LEMMA OutcomeKeeps ==
    ASSUME PasskeysInv, NEW p \in Proc, CreateCredential(p) \/ IssueSessionForUser(p)
    PROVE  PasskeysInv'
    <1>0. credentials \in [Credential -> CredentialRow \union {Nobody}]
        BY DEF PasskeysInv, TypeOK
    <1>1. CASE CreateCredential(p)
        <2>1. /\ pc[p] \in Consumed /\ req[p].ceremony = "registration" /\ req[p].credential \in Credential
              /\ req[p].count \in Nat
            <3>1. pc[p] \in Consumed /\ pc[p] = "create"
                BY <1>1 DEF CreateCredential, Consumed
            <3> QED BY <3>1, OwnChallenge DEF RequestOK
        <2>2. Registered(req[p].count) \in CredentialRow
            BY <2>1 DEF Registered, CredentialRow
        <2>3. credentials' \in [Credential -> CredentialRow \union {Nobody}]
            BY <1>0, <1>1, <2>1, <2>2 DEF CreateCredential
        <2>4. Yield(p, req[p].ceremony) /\ Return(p) /\ UNCHANGED <<challenges, issued, lastCleanup>>
            BY <1>1, <2>1 DEF CreateCredential
        <2> QED BY <2>1, <2>3, <2>4, YieldKeeps
    <1>2. CASE IssueSessionForUser(p)
        <2>1. pc[p] \in Consumed /\ pc[p] = "issue"
            BY <1>2 DEF IssueSessionForUser, Consumed
        <2>2. req[p].ceremony = "login"
            BY <2>1, OwnChallenge DEF RequestOK
        <2>3. /\ Yield(p, req[p].ceremony) /\ Return(p) /\ UNCHANGED <<challenges, issued, lastCleanup>>
              /\ credentials' \in [Credential -> CredentialRow \union {Nobody}]
            BY <1>0, <1>2, <2>2 DEF IssueSessionForUser
        <2> QED BY <2>1, <2>3, YieldKeeps
    <1> QED BY <1>1, <1>2

\* The count that a login calculates is that of the row, or a larger one, and a warning stays.
LEMMA CounterGrows ==
    ASSUME NEW row \in CredentialRow, NEW count \in Nat
    PROVE  /\ UpdateCounter(row, count) \in CredentialRow
           /\ UpdateCounter(row, count).signCount \in Nat /\ UpdateCounter(row, count).cloneWarning \in BOOLEAN
           /\ row.signCount <= UpdateCounter(row, count).signCount
           /\ row.cloneWarning => UpdateCounter(row, count).cloneWarning
    <1>0. row.signCount \in Nat /\ row.cloneWarning \in BOOLEAN
        BY DEF CredentialRow
    <1>1. CASE count <= row.signCount /\ (count # 0 \/ row.signCount # 0)
        <2>1. UpdateCounter(row, count) = [row EXCEPT !.cloneWarning = TRUE]
            BY <1>1 DEF UpdateCounter
        <2>2. /\ [row EXCEPT !.cloneWarning = TRUE] \in CredentialRow
              /\ [row EXCEPT !.cloneWarning = TRUE].signCount = row.signCount
              /\ [row EXCEPT !.cloneWarning = TRUE].cloneWarning = TRUE
            BY DEF CredentialRow
        <2> QED BY <1>0, <2>1, <2>2
    <1>2. CASE ~(count <= row.signCount /\ (count # 0 \/ row.signCount # 0))
        <2>1. UpdateCounter(row, count) = [row EXCEPT !.signCount = count]
            BY <1>2 DEF UpdateCounter
        <2>2. /\ [row EXCEPT !.signCount = count] \in CredentialRow
              /\ [row EXCEPT !.signCount = count].signCount = count
              /\ [row EXCEPT !.signCount = count].cloneWarning = row.cloneWarning
            BY DEF CredentialRow
        <2>3. row.signCount <= count
            BY <1>0, <1>2
        <2> QED BY <1>0, <2>1, <2>2, <2>3
    <1> QED BY <1>1, <1>2

\* A login reads its credential and writes what it calculated from it.
LEMMA LoginKeeps ==
    ASSUME PasskeysInv, NEW p \in Proc, discoverableUserHandler(p) \/ UpdateCredentialAfterLogin(p)
    PROVE  PasskeysInv'
    <1>0. /\ credentials \in [Credential -> CredentialRow \union {Nobody}] /\ clock \in Nat
          /\ lastCleanup \in Nat \union {Nobody}
        BY DEF PasskeysInv, TypeOK
    <1>1. pc[p] \in {"validate", "touch"} /\ pc[p] \in Consumed
        BY DEF discoverableUserHandler, UpdateCredentialAfterLogin, Consumed
    <1>2. /\ RequestOK(p) /\ req[p] \in VerifyRequest /\ req[p].ceremony = "login"
        BY <1>1, OwnChallenge DEF RequestOK
    <1>3. PICK c \in Credential : c = req[p].credential
        BY <1>2 DEF VerifyRequest
    <1>4. CASE Return(p) /\ UNCHANGED <<challenges, issued, credentials, lastCleanup, yields>>
        BY <1>4, ReturnKeeps
    <1>5. CASE /\ pc[p] = "validate" /\ Active(c) /\ pc' = [pc EXCEPT ![p] = "touch"]
               /\ req' = [req EXCEPT ![p].read = credentials[c]] /\ UNCHANGED <<now, clock, started>>
               /\ UNCHANGED <<challenges, issued, credentials, lastCleanup, yields>>
        <2>1. OnlyMoves(p) /\ pc'[p] = "touch" /\ now' = now
            BY <1>5, Stages DEF OnlyMoves, PasskeysInv, TypeOK
        <2>2. req'[p] = [req[p] EXCEPT !.read = credentials[c]]
            BY <1>5 DEF PasskeysInv, TypeOK
        <2>3. credentials[c] \in CredentialRow
            BY <1>0, <1>5 DEF Active
        <2>4. /\ req'[p] \in VerifyRequest /\ req'[p].challenge = req[p].challenge
              /\ req'[p].ceremony = req[p].ceremony /\ req'[p].read \in CredentialRow
            BY <1>2, <2>2, <2>3 DEF VerifyRequest
        <2>5. VerifyRequest' = VerifyRequest
            BY <1>5 DEF VerifyRequest
        <2>6. RequestOK(p)'
            BY <1>2, <1>5, <2>1, <2>4, <2>5 DEF RequestOK
        <2> QED BY <1>0, <1>1, <1>5, <2>1, <2>4, <2>6, LocalKeeps
    <1>6. CASE UpdateCredentialAfterLogin(p) /\ Active(c)
        <2> DEFINE checked == UpdateCounter(req[p].read, req[p].count)
        <2>1. pc[p] = "touch" /\ req[p].read \in CredentialRow /\ req[p].count \in Nat
            BY <1>2, <1>6 DEF UpdateCredentialAfterLogin, RequestOK, VerifyRequest
        <2>2. checked.signCount \in Nat /\ checked.cloneWarning \in BOOLEAN
            BY <2>1, CounterGrows
        <2>3. /\ credentials' = [credentials EXCEPT ![c] = [credentials[c] EXCEPT
                     !.signCount = checked.signCount, !.cloneWarning = checked.cloneWarning, !.lastUsed = clock]]
              /\ Goto(p, "issue") /\ UNCHANGED <<challenges, issued, lastCleanup, yields>>
            BY <1>3, <1>6 DEF UpdateCredentialAfterLogin
        <2> HIDE DEF checked
        <2>4. credentials[c] \in CredentialRow
            BY <1>0, <1>6 DEF Active
        <2>5. [credentials[c] EXCEPT !.signCount = checked.signCount, !.cloneWarning = checked.cloneWarning,
                                     !.lastUsed = clock] \in CredentialRow
            BY <1>0, <2>2, <2>4 DEF CredentialRow
        <2>6. credentials' \in [Credential -> CredentialRow \union {Nobody}]
            BY <1>0, <2>3, <2>5
        <2>7. OnlyMoves(p) /\ pc'[p] = "issue" /\ UNCHANGED <<req, now, clock>>
            BY <2>3, Stages, GotoMoves
        <2>8. VerifyRequest' = VerifyRequest
            BY <2>3 DEF VerifyRequest
        <2>9. RequestOK(p)'
            BY <1>2, <2>7, <2>8 DEF RequestOK
        <2> QED BY <1>0, <1>1, <2>3, <2>6, <2>7, <2>9, LocalKeeps
    <1> QED BY <1>3, <1>4, <1>5, <1>6 DEF discoverableUserHandler, UpdateCredentialAfterLogin

-----------------------------------------------------------------------------
(* Management, restarts and time. *)

\* Requests keep what they rely on when neither they nor the challenges change.
LEMMA QuietKeeps ==
    ASSUME PasskeysInv, UNCHANGED <<challenges, issued, lastCleanup, pc, req, now, yields, started>>,
           clock' \in Nat, clock <= clock', credentials' \in [Credential -> CredentialRow \union {Nobody}]
    PROVE  PasskeysInv'
    <1>1. TypeOK'
        BY DEF PasskeysInv, TypeOK
    <1>2. ASSUME NEW p \in Proc, pc[p] # "idle" PROVE RequestOK(p)'
        <2>1. RequestOK(p) /\ VerifyRequest' = VerifyRequest /\ clock \in Nat
            BY <1>2 DEF PasskeysInv, VerifyRequest, TypeOK
        <2>2. now[p] \in Nat /\ now[p] <= clock'
            BY <2>1 DEF RequestOK
        <2> QED BY <2>1, <2>2 DEF RequestOK
    <1>3. ASSUME NEW p \in Proc, pc[p] \in Consumed PROVE OwnsChallenge(p)'
        BY <1>3 DEF PasskeysInv, OwnsChallenge
    <1> QED BY <1>1, <1>2, <1>3 DEF PasskeysInv, UnusedRows, ChallengeUsedOnce

\* An UPDATE of an active credential leaves a credential.
LEMMA ManageKeeps ==
    ASSUME PasskeysInv, NEW c \in Credential, Rename(c) \/ Delete(c)
    PROVE  PasskeysInv'
    <1>0. credentials \in [Credential -> CredentialRow \union {Nobody}] /\ clock \in Nat
        BY DEF PasskeysInv, TypeOK
    <1>1. /\ credentials[c] \in CredentialRow
          /\ UNCHANGED <<challenges, issued, lastCleanup, pc, req, now, clock, yields, started>>
        BY <1>0 DEF Rename, Delete, Active
    <1>2. /\ [credentials[c] EXCEPT !.name = "renamed"] \in CredentialRow
          /\ [credentials[c] EXCEPT !.revoked = TRUE] \in CredentialRow
        BY <1>1 DEF CredentialRow
    <1>3. credentials' \in [Credential -> CredentialRow \union {Nobody}]
        BY <1>0, <1>2 DEF Rename, Delete
    <1> QED BY <1>0, <1>1, <1>3, QuietKeeps

\* A restart forgets the requests and the last clean-up.
LEMMA RestartKeeps ==
    ASSUME PasskeysInv, Restart
    PROVE  PasskeysInv'
    <1>1. /\ \A p \in Proc : pc'[p] = "idle"
          /\ UNCHANGED <<challenges, issued, credentials, clock, yields, started>>
        BY DEF Restart
    <1>2. "idle" \in Stage /\ "idle" \notin Consumed
        BY DEF Stage, Consumed
    <1>3. TypeOK'
        BY <1>1, <1>2 DEF Restart, PasskeysInv, TypeOK
    <1> QED BY <1>1, <1>2, <1>3 DEF PasskeysInv, UnusedRows, ChallengeUsedOnce

-----------------------------------------------------------------------------
(* The invariant of the specification. *)

\* Initially there are no challenges.
LEMMA InitHolds == Init => PasskeysInv
    <1> SUFFICES ASSUME Init PROVE PasskeysInv
        OBVIOUS
    <1>1. Registered(1) \in CredentialRow
        BY DEF Registered, CredentialRow
    <1>2. "idle" \in Stage /\ "idle" \notin Consumed
        BY DEF Stage, Consumed
    <1>3. /\ DOMAIN challenges = {} /\ issued = 0 /\ lastCleanup = Nobody /\ yields = <<>>
          /\ pc = [p \in Proc |-> "idle"] /\ clock = 0 /\ started = 0
          /\ DOMAIN req = Proc /\ DOMAIN now = Proc
        BY DEF Init
    <1>4. credentials \in [Credential -> CredentialRow \union {Nobody}]
        BY <1>1 DEF Init
    <1>5. TypeOK
        BY <1>2, <1>3, <1>4 DEF TypeOK
    <1> QED BY <1>2, <1>3, <1>5 DEF PasskeysInv, UnusedRows, ChallengeUsedOnce

\* Every step keeps the invariant.
LEMMA NextKeeps == PasskeysInv /\ [Next]_vars => PasskeysInv'
    <1>1. ASSUME PasskeysInv, NEW p \in Proc, Step(p) PROVE PasskeysInv'
        <2> USE <1>1
        <2>1. CASE (\E k \in Ceremony : BeginOptions(p, k)) \/ cleanupChallenges(p) \/ DeleteFails(p)
            BY <2>1, OptionsKeep
        <2>2. CASE DeleteExpiredChallenges(p) \/ storeChallenge(p)
            BY <2>2, DeleteKeeps, StoreKeeps
        <2>3. CASE \E k \in Ceremony, i \in 1..issued, c \in Credential, n \in 0..MaxCount :
                     BeginVerify(p, k, i, c, n)
            BY <2>3, BeginVerifyKeeps
        <2>4. CASE ConsumeChallenge(p) \/ CreateCredential(p) \/ IssueSessionForUser(p)
            BY <2>4, ConsumeKeeps, OutcomeKeeps
        <2>5. CASE InvalidChallenge(p) \/ CredentialCollision(p) \/ Abort(p)
            BY <2>5, ReturnKeeps DEF InvalidChallenge, CredentialCollision, Abort
        <2>6. CASE discoverableUserHandler(p) \/ UpdateCredentialAfterLogin(p)
            BY <2>6, LoginKeeps
        <2> QED BY <2>1, <2>2, <2>3, <2>4, <2>5, <2>6 DEF Step
    <1>2. ASSUME PasskeysInv, Tick \/ UNCHANGED vars PROVE PasskeysInv'
        <2>1. /\ UNCHANGED <<challenges, issued, lastCleanup, pc, req, now, yields, started, credentials>>
              /\ clock \in Nat /\ clock' \in {clock, clock + 1}
            BY <1>2 DEF Tick, vars, PasskeysInv, TypeOK
        <2>2. clock' \in Nat /\ clock <= clock' /\ credentials' \in [Credential -> CredentialRow \union {Nobody}]
            BY <1>2, <2>1 DEF PasskeysInv, TypeOK
        <2> QED BY <1>2, <2>1, <2>2, QuietKeeps
    <1> QED BY <1>1, <1>2, ManageKeeps, RestartKeeps DEF Next

\* Requests, challenges and what came of them agree in every reachable state.
THEOREM InvariantHolds == Spec => []PasskeysInv
    BY InitHolds, NextKeeps, PTL DEF Spec

\* A challenge yields one credential or one session at most, and only what it was issued for
\* (ConsumeChallenge), however many verifications bring it.
THEOREM ChallengesOnce == Spec => []ChallengeUsedOnce
    <1>1. PasskeysInv => ChallengeUsedOnce
        BY DEF PasskeysInv
    <1> QED BY <1>1, InvariantHolds, PTL

-----------------------------------------------------------------------------
(* What no step may do. *)

\* DeleteExpiredChallenges never takes a challenge that can still be answered: its request read
\* the time before.
THEOREM LiveChallengesStay == Spec => LiveChallengesKept
    <1> DEFINE Live(i) == challenges[i].usedAt = Nobody /\ clock <= challenges[i].expiresAt
    <1>1. ASSUME PasskeysInv, Next, NEW i \in DOMAIN challenges, Live(i) PROVE i \in DOMAIN challenges'
        <2>0. challenges[i] \in ChallengeRow /\ clock \in Nat
            BY <1>1 DEF PasskeysInv, TypeOK
        <2>1. ASSUME NEW p \in Proc, DeleteExpiredChallenges(p) PROVE i \in DOMAIN challenges'
            <3>1. now[p] \in Nat /\ now[p] <= clock
                BY <1>1, <2>1 DEF DeleteExpiredChallenges, PasskeysInv, RequestOK
            <3>2. challenges[i].expiresAt \in Nat
                BY <2>0 DEF ChallengeRow
            <3>3. ~Expired(challenges[i], now[p])
                BY <1>1, <2>0, <3>1, <3>2 DEF Expired
            <3> QED BY <1>1, <2>1, <3>3 DEF DeleteExpiredChallenges, Restrict
        <2>2. ASSUME NEW p \in Proc, Step(p), ~DeleteExpiredChallenges(p) PROVE i \in DOMAIN challenges'
            <3>1. \/ UNCHANGED challenges
                  \/ storeChallenge(p) \/ ConsumeChallenge(p)
                BY <2>2 DEF Step, BeginOptions, Start, cleanupChallenges, DeleteFails, BeginVerify,
                            InvalidChallenge, CreateCredential, CredentialCollision, discoverableUserHandler,
                            UpdateCredentialAfterLogin, IssueSessionForUser, Abort
            <3> QED BY <1>1, <3>1 DEF storeChallenge, ConsumeChallenge
        <2>3. ASSUME ~\E p \in Proc : Step(p) PROVE UNCHANGED challenges
            BY <1>1, <2>3 DEF Next, Rename, Delete, Restart, Tick
        <2> QED BY <1>1, <2>1, <2>2, <2>3
    <1>2. PasskeysInv /\ [Next]_vars =>
            [\A i \in DOMAIN challenges : Live(i) => i \in DOMAIN challenges']_vars
        BY <1>1
    <1> QED BY <1>2, InvariantHolds, PTL DEF Spec, LiveChallengesKept

\* The steps that write credentials, each to one row: a registration to one that does not exist,
\* the others to one that is active.
LEMMA CredentialWriters ==
    ASSUME PasskeysInv, Next, NEW c \in Credential, credentials'[c] # credentials[c]
    PROVE  \/ credentials[c] = Nobody
           \/ Active(c) /\ \/ Rename(c) \/ Delete(c)
                           \/ \E p \in Proc : UpdateCredentialAfterLogin(p) /\ req[p].credential = c
    <1>0. credentials \in [Credential -> CredentialRow \union {Nobody}]
        BY DEF PasskeysInv, TypeOK
    <1>1. ASSUME NEW d \in Credential, Rename(d) \/ Delete(d) PROVE c = d /\ Active(c)
        BY <1>0, <1>1 DEF Rename, Delete
    <1>2. ASSUME NEW p \in Proc, CreateCredential(p) PROVE credentials[c] = Nobody
        BY <1>0, <1>2 DEF CreateCredential
    <1>3. ASSUME NEW p \in Proc, UpdateCredentialAfterLogin(p) PROVE req[p].credential = c /\ Active(c)
        <2>1. Active(req[p].credential) /\ \A d \in Credential : d # req[p].credential => credentials'[d] = credentials[d]
            BY <1>0, <1>3 DEF UpdateCredentialAfterLogin
        <2> QED BY <2>1
    <1>4. ASSUME NEW p \in Proc, Step(p), ~CreateCredential(p), ~UpdateCredentialAfterLogin(p)
          PROVE  UNCHANGED credentials
        BY <1>4 DEF Step, BeginOptions, Start, cleanupChallenges, DeleteExpiredChallenges, DeleteFails,
                    storeChallenge, BeginVerify, ConsumeChallenge, InvalidChallenge, CredentialCollision,
                    discoverableUserHandler, IssueSessionForUser, Abort
    <1>5. ASSUME Restart \/ Tick PROVE UNCHANGED credentials
        BY <1>5 DEF Restart, Tick
    <1> QED BY <1>1, <1>2, <1>3, <1>4, <1>5 DEF Next

\* A deleted passkey is final, whatever login read it before.
THEOREM DeletedForGood == Spec => RevokedForGood
    <1> DEFINE Kept(c) == credentials[c] # Nobody /\ credentials[c].revoked => credentials'[c] = credentials[c]
    <1>1. ASSUME PasskeysInv, Next, NEW c \in Credential PROVE Kept(c)
        BY <1>1, CredentialWriters DEF Active
    <1>2. PasskeysInv /\ [Next]_vars => [\A c \in Credential : Kept(c)]_vars
        BY <1>1
    <1> QED BY <1>2, InvariantHolds, PTL DEF Spec, RevokedForGood

\* Logins one after the other lose neither a count nor a warning, whatever an authenticator
\* reports: UpdateCounter never lowers what it read, so only an overlap can.
THEOREM CountsLostInOverlapOnly == Spec => OnlyOverlapLosesCounts
    <1> DEFINE Loses(c) == \/ credentials'[c].signCount < credentials[c].signCount
                           \/ credentials[c].cloneWarning /\ ~credentials'[c].cloneWarning
               Overlap(c) == \E p \in Proc : /\ pc[p] = "touch" /\ req[p].credential = c
                                             /\ Counter(req[p].read) # Counter(credentials[c])
    <1>1. ASSUME PasskeysInv, Next, NEW c \in Credential, credentials[c] # Nobody, Loses(c) PROVE Overlap(c)
        <2>0. /\ credentials \in [Credential -> CredentialRow \union {Nobody}] /\ credentials[c] \in CredentialRow
            BY <1>1 DEF PasskeysInv, TypeOK
        <2>1. credentials[c].signCount \in Nat /\ credentials[c].cloneWarning \in BOOLEAN
            BY <2>0 DEF CredentialRow
        <2>2. credentials'[c] # credentials[c]
            BY <1>1, <2>1
        <2>3. CASE Rename(c) \/ Delete(c)
            <3>1. /\ credentials'[c].signCount = credentials[c].signCount
                  /\ credentials'[c].cloneWarning = credentials[c].cloneWarning
                <4>1. \/ credentials'[c] = [credentials[c] EXCEPT !.name = "renamed"]
                      \/ credentials'[c] = [credentials[c] EXCEPT !.revoked = TRUE]
                    BY <2>0, <2>3 DEF Rename, Delete
                <4> QED BY <2>0, <4>1 DEF CredentialRow
            <3> QED BY <1>1, <2>1, <3>1
        <2>4. ASSUME NEW p \in Proc, UpdateCredentialAfterLogin(p), req[p].credential = c, Active(c)
              PROVE  Overlap(c)
            <3> DEFINE checked == UpdateCounter(req[p].read, req[p].count)
            <3>1. pc[p] = "touch" /\ req[p].read \in CredentialRow /\ req[p].count \in Nat
                <4>1. pc[p] = "touch" /\ pc[p] \in Consumed
                    BY <2>4 DEF UpdateCredentialAfterLogin, Consumed
                <4> QED BY <1>1, <4>1, OwnChallenge DEF RequestOK
            <3>2. /\ req[p].read.signCount <= checked.signCount /\ checked.signCount \in Nat
                  /\ req[p].read.cloneWarning => checked.cloneWarning
                BY <3>1, CounterGrows
            <3>3. credentials'[c] = [credentials[c] EXCEPT !.signCount = checked.signCount,
                                       !.cloneWarning = checked.cloneWarning, !.lastUsed = clock]
                BY <2>0, <2>4 DEF UpdateCredentialAfterLogin
            <3> HIDE DEF checked
            <3>4. credentials'[c].signCount = checked.signCount /\ credentials'[c].cloneWarning = checked.cloneWarning
                BY <2>0, <3>3 DEF CredentialRow
            <3>5. req[p].read.signCount \in Nat
                BY <3>1 DEF CredentialRow
            <3>6. ~(/\ req[p].read.signCount = credentials[c].signCount
                    /\ req[p].read.cloneWarning = credentials[c].cloneWarning)
                BY <1>1, <2>1, <3>2, <3>4, <3>5
            <3> QED BY <2>4, <3>1, <3>6 DEF Counter
        <2> QED BY <1>1, <2>2, <2>3, <2>4, CredentialWriters
    <1>2. PasskeysInv /\ [Next]_vars =>
            [\A c \in Credential :
               /\ credentials[c] # Nobody
               /\ \/ credentials'[c].signCount < credentials[c].signCount
                  \/ credentials[c].cloneWarning /\ ~credentials'[c].cloneWarning
               => \E p \in Proc : /\ pc[p] = "touch" /\ req[p].credential = c
                                  /\ Counter(req[p].read) # Counter(credentials[c])]_vars
        BY <1>1
    <1> QED BY <1>2, InvariantHolds, PTL DEF Spec, OnlyOverlapLosesCounts
=============================================================================
