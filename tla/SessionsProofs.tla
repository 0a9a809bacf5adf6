--------------------------- MODULE SessionsProofs ---------------------------
(***************************************************************************)
(* Proofs about Sessions for every number of requests, tokens, passwords   *)
(* and delays.  SessionsInv is shown inductive: a request touches only     *)
(* rows that nobody else holds and that are not revoked, so what the other *)
(* requests rely on stays true.                                            *)
(***************************************************************************)
EXTENDS Sessions, SequenceTheorems, TLAPS

-----------------------------------------------------------------------------
(* What a step of p leaves to the others. *)

\* Users stay, revoked tokens stay as they are and so do the tokens that others hold; a new token
\* replaces one that was not revoked, if any.
TablesKept(p) ==
    /\ user # Nobody => user' # Nobody
    /\ Len(tokens) <= Len(tokens')
    /\ \A t \in Ids : tokens[t].revoked # Nobody => tokens'[t] = tokens[t]
    /\ \A t \in Ids : tokenLock[t] \notin {Nobody, p} =>
         tokenLock'[t] = tokenLock[t] /\ tokens'[t] = tokens[t]
    /\ \A t \in 1..Len(tokens') :
         tokenLock'[t] \in {Nobody, p} \/ (t \in Ids /\ tokenLock'[t] = tokenLock[t])
    /\ userLock' \in {Nobody, userLock, p}
    /\ \A t \in Ids : tokens'[t].of = tokens[t].of
    /\ \A t \in 1..Len(tokens') : t \notin Ids =>
         \/ tokens'[t].of = Nobody
         \/ tokens'[t].of \in Ids /\ tokens[tokens'[t].of].revoked = Nobody

\* The tables keep their types.
TablesTyped ==
    /\ user' \in User \union {Nobody}
    /\ tokens' \in Seq(Token)
    /\ tokenLock' \in Seq(Proc \union {Nobody}) /\ Len(tokenLock') = Len(tokens')
    /\ userLock' \in Proc \union {Nobody}
    /\ failures' \in Nat

\* Only p moves, to a stage that exists.
OnlyMoves(p) ==
    /\ pc' \in [Proc -> Stage]
    /\ DOMAIN req' = Proc /\ DOMAIN seen' = Proc /\ rows' = [q \in Proc |-> rows'[q]]
    /\ \A q \in Proc \ {p} :
         pc'[q] = pc[q] /\ req'[q] = req[q] /\ seen'[q] = seen[q] /\ rows'[q] = rows[q]
    /\ clock' \in Nat /\ started' \in Nat

\* The locks of p belong to its stage.
LocksFit(p) ==
    /\ \A t \in 1..Len(tokens') : tokenLock'[t] = p => pc'[p] = "rotated" /\ req'[p].token = t
    /\ userLock' = p => pc'[p] \in {"revoke_all", "revoking"}

\* The others rely on nothing that such a step takes away.
LEMMA OthersKeep ==
    ASSUME SessionsInv, NEW p \in Proc, TablesKept(p), TablesTyped, OnlyMoves(p),
           NEW q \in Proc \ {p}, pc'[q] # "idle"
    PROVE  RequestOK(q)'
    <1>1. RequestOK(q) /\ pc'[q] = pc[q] /\ req'[q] = req[q] /\ seen'[q] = seen[q] /\ rows'[q] = rows[q]
        BY DEF SessionsInv, OnlyMoves
    <1>2. /\ Len(tokens) \in Nat /\ Len(tokens') \in Nat /\ Len(tokens) <= Len(tokens')
          /\ Ids = 1..Len(tokens) /\ Ids' = 1..Len(tokens')
          /\ rows[q] \subseteq Ids
        BY DEF SessionsInv, TypeOK, TablesKept, TablesTyped, Ids
    <1>3. Ids \subseteq Ids'
        BY <1>2
    <1>4. pc[q] \in {"confirm", "record", "clear"} => user' # Nobody
        BY <1>1 DEF RequestOK, TablesKept
    <1>5. pc[q] = "rotated" => tokenLock'[req[q].token] = q /\ tokens'[req[q].token].revoked = Nobody
        BY <1>1, NobodyAssumption DEF RequestOK, TablesKept, Unrevoked
    <1>6. pc[q] = "revoking" => \A t \in Ids' \ rows[q] : tokens'[t].revoked = Nobody => Outlives(q, t)'
        <2> SUFFICES ASSUME pc[q] = "revoking", NEW t \in Ids' \ rows[q], tokens'[t].revoked = Nobody
                     PROVE  Outlives(q, t)'
            OBVIOUS
        <2>1. \A v \in Ids \ rows[q] : tokens[v].revoked = Nobody => Outlives(q, v)
            BY <1>1 DEF RequestOK, Unrevoked
        <2>2. CASE t \in Ids
            <3>1. tokens[t].revoked = Nobody /\ tokens'[t].of = tokens[t].of
                BY <2>2 DEF TablesKept
            <3> QED BY <1>1, <2>1, <2>2, <3>1 DEF Outlives, Since
        <2>3. CASE t \notin Ids
            <3> DEFINE o == tokens'[t].of
            <3>1. \A u \in rows[q] : u < t
                BY <1>2, <2>3
            <3>2. o = Nobody \/ (o \in Ids /\ tokens[o].revoked = Nobody)
                BY <1>2, <2>3 DEF TablesKept
            <3>3. o \in rows[q] \union {Nobody} \/ \A u \in rows[q] : u < o
                <4> HIDE DEF o
                <4> QED BY <2>1, <3>2 DEF Outlives, Since
            <3> QED BY <1>1, <3>1, <3>3 DEF Outlives, Since
        <2> QED BY <2>2, <2>3
    <1> QED BY <1>1, <1>3, <1>4, <1>5, <1>6 DEF RequestOK, Unrevoked

\* A step of one request keeps the invariant when it keeps its own part of it.
LEMMA StepKeeps ==
    ASSUME SessionsInv, NEW p \in Proc, TablesKept(p), TablesTyped, OnlyMoves(p), LocksFit(p),
           rows'[p] \subseteq 1..Len(tokens'),
           pc'[p] # "idle" => RequestOK(p)',
           \A t \in 1..Len(tokens') : tokens'[t].of \in 1..Len(tokens') \union {Nobody},
           SessionsAreLines', FailuresCount'
    PROVE  SessionsInv'
    <1>1. Len(tokens) \in Nat /\ Len(tokens') \in Nat /\ Len(tokens) <= Len(tokens')
        BY DEF SessionsInv, TypeOK, TablesKept, TablesTyped
    <1>2. rows' \in [Proc -> SUBSET Ids']
        <2>1. \A q \in Proc \ {p} : rows'[q] \subseteq 1..Len(tokens)
            BY DEF SessionsInv, TypeOK, OnlyMoves, Ids
        <2>2. 1..Len(tokens) \subseteq 1..Len(tokens')
            BY <1>1
        <2>3. \A q \in Proc : rows'[q] \subseteq 1..Len(tokens')
            BY <2>1, <2>2
        <2>4. rows' = [q \in Proc |-> rows'[q]]
            BY DEF OnlyMoves
        <2> QED BY <2>3, <2>4 DEF Ids
    <1>3. \A t \in Ids' : tokenLock'[t] # Nobody =>
            pc'[tokenLock'[t]] = "rotated" /\ req'[tokenLock'[t]].token = t
        <2> SUFFICES ASSUME NEW t \in Ids', tokenLock'[t] # Nobody
                     PROVE  pc'[tokenLock'[t]] = "rotated" /\ req'[tokenLock'[t]].token = t
            OBVIOUS
        <2>1. CASE tokenLock'[t] = p
            BY <2>1 DEF LocksFit, Ids
        <2>2. CASE tokenLock'[t] # p
            <3>1. t \in Ids /\ tokenLock'[t] = tokenLock[t]
                BY <2>2 DEF TablesKept, Ids
            <3>2. tokenLock[t] \in Proc \ {p}
                BY <2>2, <3>1 DEF SessionsInv, TypeOK, Ids
            <3>3. pc[tokenLock[t]] = "rotated" /\ req[tokenLock[t]].token = t
                BY <3>1, <3>2, NobodyAssumption DEF SessionsInv, TypeOK
            <3> QED BY <3>1, <3>2, <3>3 DEF OnlyMoves
        <2> QED BY <2>1, <2>2
    <1>4. userLock' # Nobody => pc'[userLock'] \in {"revoke_all", "revoking"}
        <2> SUFFICES ASSUME userLock' # Nobody, userLock' # p
                     PROVE  pc'[userLock'] \in {"revoke_all", "revoking"}
            BY DEF LocksFit
        <2>1. userLock' = userLock /\ userLock \in Proc \ {p}
            BY DEF TablesKept, SessionsInv, TypeOK
        <2> QED BY <2>1 DEF SessionsInv, TypeOK, OnlyMoves
    <1>5. TypeOK'
        BY <1>2, <1>3, <1>4 DEF TypeOK, TablesTyped, OnlyMoves
    <1>6. \A q \in Proc : pc'[q] # "idle" => RequestOK(q)'
        BY OthersKeep
    <1>7. \A t \in Ids' : tokens'[t].of \in Ids' \union {Nobody}
        BY DEF Ids
    <1> QED BY <1>5, <1>6, <1>7 DEF SessionsInv

\* Lines that no step but a rotation extends.
LEMMA LinesKept ==
    ASSUME SessionsInv, TablesTyped, Len(tokens) <= Len(tokens'),
           \A t \in Ids : tokens'[t].of = tokens[t].of,
           \A t \in Ids : tokens[t].revoked # Nobody => tokens'[t] = tokens[t],
           \A t \in 1..Len(tokens') : t \notin Ids => tokens'[t].of = Nobody
    PROVE  /\ \A t \in 1..Len(tokens') : tokens'[t].of \in 1..Len(tokens') \union {Nobody}
           /\ SessionsAreLines'
    <1>1. /\ Len(tokens) \in Nat /\ Len(tokens') \in Nat
          /\ Ids = 1..Len(tokens) /\ Ids' = 1..Len(tokens')
        BY DEF SessionsInv, TypeOK, TablesTyped, Ids
    <1>2. Ids \subseteq Ids'
        BY <1>1
    <1>3. \A t \in Ids' : tokens'[t].of \in Ids \union {Nobody}
        BY <1>1 DEF SessionsInv
    <1>4. \A t \in Ids' : t # Nobody
        BY <1>1, NobodyAssumption
    <1>5. SessionsAreLines'
        <2> SUFFICES ASSUME NEW t \in Ids', NEW u \in Ids', tokens'[u].of = t
                     PROVE  /\ tokens'[t].revoked = "rotated"
                            /\ \A v \in Ids' : tokens'[v].of = t => v = u
            BY DEF SessionsAreLines
        <2>1. t \in Ids /\ u \in Ids /\ tokens[u].of = t
            BY <1>1, <1>3, <1>4
        <2>2. tokens[t].revoked = "rotated" /\ \A v \in Ids : tokens[v].of = t => v = u
            BY <2>1 DEF SessionsInv, SessionsAreLines
        <2>3. tokens'[t].revoked = "rotated"
            BY <2>1, <2>2, NobodyAssumption DEF Reason
        <2>4. \A v \in Ids' : tokens'[v].of = t => v \in Ids
            BY <1>1, <1>4
        <2> QED BY <2>2, <2>3, <2>4
    <1> QED BY <1>1, <1>2, <1>3, <1>5

-----------------------------------------------------------------------------
(* How a request moves. *)

\* A request that begins has read what it has read, at the time it is.
LEMMA BeginMoves ==
    ASSUME SessionsInv, NEW p \in Proc, NEW r, NEW stage \in Stage, NEW read, Begin(p, r, stage, read)
    PROVE  /\ OnlyMoves(p) /\ pc'[p] = stage /\ req'[p] = r /\ rows'[p] = rows[p]
           /\ seen'[p] = [read |-> read, now |-> clock]
           /\ UNCHANGED <<user, tokens, userLock, tokenLock, failures>>
    BY DEF Begin, SessionsInv, TypeOK, OnlyMoves, tables

\* A request goes to its next stage.
LEMMA GotoMoves ==
    ASSUME SessionsInv, NEW p \in Proc, NEW stage \in Stage, Goto(p, stage)
    PROVE  /\ OnlyMoves(p) /\ pc'[p] = stage /\ req' = req /\ seen' = seen /\ rows' = rows
    BY DEF Goto, SessionsInv, TypeOK, OnlyMoves

\* A request returns.
LEMMA ReturnMoves ==
    ASSUME SessionsInv, NEW p \in Proc, Return(p)
    PROVE  OnlyMoves(p) /\ pc'[p] = "idle" /\ rows'[p] = {}
    BY DEF Return, SessionsInv, TypeOK, OnlyMoves, Stage

\* A request holds the tokens of its stage only.
LEMMA LocksOf ==
    ASSUME SessionsInv, NEW p \in Proc
    PROVE  /\ pc[p] # "rotated" => \A t \in Ids : tokenLock[t] # p
           /\ pc[p] \notin {"revoke_all", "revoking"} => userLock # p
           /\ \A t \in Ids : tokenLock[t] = p => req[p].token = t
    BY NobodyAssumption DEF SessionsInv, TypeOK

\* Where the tables do not change they keep what they have.
LEMMA SameTables ==
    ASSUME SessionsInv, NEW p \in Proc, UNCHANGED <<user, tokens, userLock, tokenLock, failures>>
    PROVE  /\ TablesKept(p) /\ TablesTyped
           /\ \A t \in 1..Len(tokens') : tokens'[t].of \in 1..Len(tokens') \union {Nobody}
           /\ SessionsAreLines' /\ FailuresCount'
    <1>1. TablesKept(p)
        BY DEF TablesKept, SessionsInv, TypeOK, Ids
    <1>2. TablesTyped
        BY DEF TablesTyped, SessionsInv, TypeOK
    <1>3. SessionsAreLines' /\ FailuresCount'
        BY DEF SessionsInv, SessionsAreLines, FailuresCount, Ids
    <1> QED BY <1>1, <1>2, <1>3 DEF SessionsInv, Ids

\* A refused request leaves the tables alone.
LEMMA RefuseKeeps ==
    ASSUME SessionsInv, NEW p \in Proc, pc[p] \notin {"rotated", "revoke_all", "revoking"}, Refuse(p)
    PROVE  SessionsInv'
    <1>1. UNCHANGED <<user, tokens, userLock, tokenLock, failures>> /\ Return(p)
        BY DEF Refuse, tables
    <1>2. OnlyMoves(p) /\ pc'[p] = "idle" /\ rows'[p] = {}
        BY <1>1, ReturnMoves
    <1>3. LocksFit(p)
        BY <1>1, LocksOf DEF LocksFit, Ids
    <1> QED BY <1>1, <1>2, <1>3, SameTables, StepKeeps

\* A request that begins, or goes on, without touching the tables.
LEMMA MoveKeeps ==
    ASSUME SessionsInv, NEW p \in Proc, OnlyMoves(p),
           UNCHANGED <<user, tokens, userLock, tokenLock, failures>>,
           pc[p] # "rotated", pc[p] \in {"revoke_all", "revoking"} => pc'[p] \in {"revoke_all", "revoking"},
           rows'[p] \subseteq 1..Len(tokens), RequestOK(p)'
    PROVE  SessionsInv'
    <1>1. LocksFit(p)
        BY LocksOf DEF LocksFit, Ids
    <1> QED BY <1>1, SameTables, StepKeeps

-----------------------------------------------------------------------------
(* Arrivals. *)

\* A request arrives with what it presents and what it read first.
LEMMA ArriveKeeps ==
    ASSUME SessionsInv, NEW p \in Proc, Arrive(p)
    PROVE  SessionsInv'
    <1>0. /\ clock \in Nat /\ rows[p] \subseteq 1..Len(tokens)
        BY DEF SessionsInv, TypeOK, Ids
    <1> USE DEF RequestOK
    <1>6. {"setup", "confirm", "refresh", "revoke", "authorized"} \subseteq Stage
        BY DEF Stage
    <1>1. ASSUME NEW w \in Password, BeginSetup(p, w) PROVE SessionsInv'
        <2>1. /\ pc[p] = "idle" /\ Begin(p, [kind |-> "setup", password |-> w], "setup", Nobody)
            BY <1>1 DEF BeginSetup, Idle
        <2>2. /\ OnlyMoves(p) /\ pc'[p] = "setup" /\ req'[p] = [kind |-> "setup", password |-> w]
              /\ rows'[p] = rows[p] /\ seen'[p] = [read |-> Nobody, now |-> clock]
              /\ UNCHANGED <<user, tokens, userLock, tokenLock, failures>>
            BY <1>6, <2>1, BeginMoves
        <2>3. RequestOK(p)'
            BY <1>0, <2>2
        <2> QED BY <1>0, <2>1, <2>2, <2>3, MoveKeeps
    <1>2. ASSUME NEW r, BeginLogin(p, r) PROVE SessionsInv'
        <2>1. pc[p] = "idle" /\ user # Nobody /\ Begin(p, r, "confirm", user)
            BY <1>2 DEF BeginLogin, Idle
        <2>2. /\ OnlyMoves(p) /\ pc'[p] = "confirm" /\ rows'[p] = rows[p]
              /\ seen'[p] = [read |-> user, now |-> clock]
              /\ UNCHANGED <<user, tokens, userLock, tokenLock, failures>>
            BY <1>6, <2>1, BeginMoves
        <2>3. RequestOK(p)'
            BY <1>0, <2>1, <2>2
        <2> QED BY <1>0, <2>1, <2>2, <2>3, MoveKeeps
    <1>3. ASSUME NEW t \in Ids, BeginRefresh(p, t) PROVE SessionsInv'
        <2>1. pc[p] = "idle" /\ Begin(p, [kind |-> "refresh", token |-> t], "refresh", tokens[t])
            BY <1>3 DEF BeginRefresh, Idle
        <2>2. /\ OnlyMoves(p) /\ pc'[p] = "refresh" /\ req'[p] = [kind |-> "refresh", token |-> t]
              /\ rows'[p] = rows[p] /\ seen'[p] = [read |-> tokens[t], now |-> clock]
              /\ UNCHANGED <<user, tokens, userLock, tokenLock, failures>>
            BY <1>6, <2>1, BeginMoves
        <2>3. RequestOK(p)'
            BY <1>0, <2>2 DEF Ids
        <2> QED BY <1>0, <2>1, <2>2, <2>3, MoveKeeps
    <1>4. ASSUME NEW t \in Ids, NEW kind \in {"logout", "manual"}, pc[p] = "idle",
                 Begin(p, [kind |-> kind, token |-> t], "revoke", tokens[t])
          PROVE  SessionsInv'
        <2>2. /\ OnlyMoves(p) /\ pc'[p] = "revoke" /\ req'[p] = [kind |-> kind, token |-> t]
              /\ rows'[p] = rows[p] /\ seen'[p] = [read |-> tokens[t], now |-> clock]
              /\ UNCHANGED <<user, tokens, userLock, tokenLock, failures>>
            BY <1>4, <1>6, BeginMoves
        <2>3. RequestOK(p)'
            BY <1>0, <2>2 DEF Ids
        <2> QED BY <1>0, <1>4, <2>2, <2>3, MoveKeeps
    <1>5. ASSUME NEW s \in Ids, NEW old \in Password, NEW new \in Password,
                 BeginChangePassword(p, s, old, new)
          PROVE  SessionsInv'
        <2> DEFINE r == [kind |-> "password_change", password |-> old, new |-> new]
        <2>1. pc[p] = "idle" /\ Begin(p, r, "authorized", Nobody)
            BY <1>5 DEF BeginChangePassword, Idle
        <2>2. /\ OnlyMoves(p) /\ pc'[p] = "authorized" /\ req'[p] = r
              /\ rows'[p] = rows[p] /\ seen'[p] = [read |-> Nobody, now |-> clock]
              /\ UNCHANGED <<user, tokens, userLock, tokenLock, failures>>
            BY <1>6, <2>1, BeginMoves
        <2>3. RequestOK(p)'
            BY <1>0, <2>2
        <2> QED BY <1>0, <2>1, <2>2, <2>3, MoveKeeps
    <1> QED BY <1>1, <1>2, <1>3, <1>4, <1>5 DEF Arrive, BeginLogout, BeginRevokeSession, Idle

-----------------------------------------------------------------------------
(* Inserts. *)

\* A token appended to the table, not held by anybody.
LEMMA InsertKeeps ==
    ASSUME SessionsInv, NEW p \in Proc, NEW token \in Token, token.of = Nobody, Insert(token)
    PROVE  /\ tokens' \in Seq(Token) /\ tokenLock' \in Seq(Proc \union {Nobody})
           /\ Len(tokens') = Len(tokens) + 1 /\ Len(tokenLock') = Len(tokens')
           /\ Len(tokens) <= Len(tokens')
           /\ \A t \in Ids : tokens'[t] = tokens[t] /\ tokenLock'[t] = tokenLock[t]
           /\ \A t \in 1..Len(tokens') : t \notin Ids => tokens'[t].of = Nobody /\ tokenLock'[t] = Nobody
    <1>1. /\ tokens \in Seq(Token) /\ tokenLock \in Seq(Proc \union {Nobody})
          /\ Len(tokenLock) = Len(tokens)
          /\ tokens' = Append(tokens, token) /\ tokenLock' = Append(tokenLock, Nobody)
        BY DEF SessionsInv, TypeOK, Insert
    <1>2. \A t \in 1..Len(tokens') : t \notin Ids => t = Len(tokens) + 1
        BY <1>1 DEF Ids
    <1>3. tokens'[Len(tokens) + 1] = token /\ tokenLock'[Len(tokens) + 1] = Nobody
        BY <1>1
    <1> QED BY <1>1, <1>2, <1>3 DEF Ids

\* A new token has its type.
LEMMA NewTokenTyped ==
    ASSUME NEW now \in Nat, NEW of \in Nat \union {Nobody}
    PROVE  NewToken(now, of) \in Token /\ NewToken(now, of).of = of /\ NewToken(now, of).revoked = Nobody
    BY LockoutAssumption DEF NewToken, Token

\* A step that inserts a token and returns.
LEMMA InsertReturns ==
    ASSUME SessionsInv, NEW p \in Proc, pc[p] \in {"setup", "issue"}, NEW now \in Nat,
           Insert(NewToken(now, Nobody)), Return(p), UNCHANGED userLock,
           user' \in User \union {Nobody}, user # Nobody => user' # Nobody,
           failures' \in Nat, FailuresCount'
    PROVE  SessionsInv'
    <1> DEFINE token == NewToken(now, Nobody)
    <1>1. token \in Token /\ token.of = Nobody
        BY NewTokenTyped
    <1> HIDE DEF token
    <1>2. /\ tokens' \in Seq(Token) /\ tokenLock' \in Seq(Proc \union {Nobody})
          /\ Len(tokens') = Len(tokens) + 1 /\ Len(tokenLock') = Len(tokens')
          /\ Len(tokens) <= Len(tokens')
          /\ \A t \in Ids : tokens'[t] = tokens[t] /\ tokenLock'[t] = tokenLock[t]
          /\ \A t \in 1..Len(tokens') : t \notin Ids => tokens'[t].of = Nobody /\ tokenLock'[t] = Nobody
        BY <1>1, InsertKeeps DEF token
    <1>3. TablesTyped
        BY <1>2 DEF TablesTyped, SessionsInv, TypeOK
    <1>4. TablesKept(p)
        BY <1>2, NobodyAssumption DEF TablesKept
    <1>5. OnlyMoves(p) /\ pc'[p] = "idle" /\ rows'[p] = {}
        BY ReturnMoves
    <1>6. LocksFit(p)
        BY <1>2, LocksOf, NobodyAssumption DEF LocksFit
    <1>7. /\ \A t \in 1..Len(tokens') : tokens'[t].of \in 1..Len(tokens') \union {Nobody}
          /\ SessionsAreLines'
        BY <1>2, <1>3, LinesKept
    <1> QED BY <1>3, <1>4, <1>5, <1>6, <1>7, StepKeeps

\* The first user comes with no failures.
LEMMA SetupKeeps ==
    ASSUME SessionsInv, NEW p \in Proc, Setup(p)
    PROVE  SessionsInv'
    <1>1. /\ pc[p] = "setup" /\ Insert(NewToken(seen[p].now, Nobody)) /\ Return(p) /\ UNCHANGED userLock
          /\ user' = [password |-> req[p].password, failed |-> 0, lockedUntil |-> Nobody]
          /\ failures' = 0
        BY DEF Setup
    <1>2. seen[p].now \in Nat /\ req[p].password \in Password
        BY <1>1 DEF SessionsInv, RequestOK
    <1>3. user' \in User /\ user' # Nobody
        BY <1>1, <1>2, NobodyAssumption DEF User
    <1>4. FailuresCount'
        BY <1>1, LockoutAssumption DEF FailuresCount
    <1> QED BY <1>1, <1>2, <1>3, <1>4, InsertReturns

\* A confirmed login gets its session.
LEMMA IssueKeeps ==
    ASSUME SessionsInv, NEW p \in Proc, IssueSession(p)
    PROVE  SessionsInv'
    <1>1. /\ pc[p] = "issue" /\ Insert(NewToken(clock, Nobody)) /\ Return(p)
          /\ UNCHANGED <<user, userLock, failures>>
        BY DEF IssueSession
    <1>2. clock \in Nat /\ failures \in Nat /\ user \in User \union {Nobody}
        BY DEF SessionsInv, TypeOK
    <1>3. FailuresCount'
        BY <1>1 DEF SessionsInv, FailuresCount
    <1> QED BY <1>1, <1>2, <1>3, InsertReturns

-----------------------------------------------------------------------------
(* Logins. *)

\* Confirm moves on with the time of the check.
LEMMA ConfirmKeeps ==
    ASSUME SessionsInv, NEW p \in Proc, Confirm(p)
    PROVE  SessionsInv'
    <1>1. pc[p] = "confirm" /\ RequestOK(p) /\ user # Nobody /\ clock \in Nat
        BY DEF Confirm, SessionsInv, TypeOK, RequestOK
    <1>2. UNCHANGED <<user, tokens, userLock, tokenLock, failures>>
        BY DEF Confirm, tables
    <1>3. OnlyMoves(p) /\ pc'[p] \in {"record", "issue", "clear"} /\ rows' = rows
        BY DEF Confirm, SessionsInv, TypeOK, OnlyMoves, Stage
    <1>4. seen'[p] = [read |-> seen[p].read, now |-> clock]
        <2>1. seen'[p] = [seen[p] EXCEPT !.now = clock]
            BY DEF Confirm, SessionsInv, TypeOK
        <2>2. seen[p] = [read |-> seen[p].read, now |-> seen[p].now]
            BY <1>1 DEF RequestOK
        <2> QED BY <2>1, <2>2
    <1>5. RequestOK(p)'
        BY <1>1, <1>2, <1>3, <1>4 DEF RequestOK
    <1>6. rows'[p] \subseteq 1..Len(tokens)
        BY <1>3 DEF SessionsInv, TypeOK, Ids
    <1> QED BY <1>1, <1>2, <1>3, <1>5, <1>6, MoveKeeps

\* The lock begins with the Threshold-th failure.
LEMMA LockoutAtThreshold ==
    ASSUME NEW now \in Nat, NEW attempts \in Nat
    PROVE  /\ loginLockoutUntil(now, attempts) \in Nat \union {Nobody}
           /\ (loginLockoutUntil(now, attempts) # Nobody) = (attempts >= Threshold)
    <1>1. CASE attempts < Threshold
        BY <1>1, LockoutAssumption DEF loginLockoutUntil
    <1>2. CASE ~(attempts < Threshold)
        <2> DEFINE a == attempts - Threshold
                   b == Len(Delays) - 1
                   i == Min({a, b})
        <2>1. a \in Nat /\ b \in Nat
            BY <1>2, LockoutAssumption
        <2>2. i \in {a, b} /\ i <= b
            <3> HIDE DEF a, b
            <3> QED BY <2>1 DEF Min
        <2>3. i + 1 \in 1..Len(Delays)
            BY <2>1, <2>2, LockoutAssumption
        <2>4. Delays[i + 1] \in Nat
            BY <2>3, LockoutAssumption
        <2>5. loginLockoutUntil(now, attempts) = now + Delays[i + 1]
            BY <1>2 DEF loginLockoutUntil
        <2> HIDE DEF i
        <2>6. loginLockoutUntil(now, attempts) \in Nat
            BY <2>4, <2>5
        <2> QED BY <1>2, <2>6, NobodyAssumption, LockoutAssumption
    <1> QED BY <1>1, <1>2

\* A step that writes the columns of the user only.
LEMMA UserStepKeeps ==
    ASSUME SessionsInv, NEW p \in Proc, pc[p] \in {"record", "clear"}, OnlyMoves(p),
           UNCHANGED <<tokens, userLock, tokenLock>>,
           user' \in User, failures' \in Nat, FailuresCount',
           rows'[p] \subseteq 1..Len(tokens), pc'[p] # "idle" => RequestOK(p)'
    PROVE  SessionsInv'
    <1>1. TablesTyped
        BY DEF TablesTyped, SessionsInv, TypeOK
    <1>2. TablesKept(p)
        BY NobodyAssumption DEF TablesKept, SessionsInv, TypeOK, Ids
    <1>3. LocksFit(p)
        BY LocksOf DEF LocksFit, Ids
    <1>4. /\ \A t \in 1..Len(tokens') : tokens'[t].of \in 1..Len(tokens') \union {Nobody}
          /\ SessionsAreLines'
        BY DEF SessionsInv, SessionsAreLines, Ids
    <1> QED BY <1>1, <1>2, <1>3, <1>4, StepKeeps

\* A failure is counted from the row as it is.
LEMMA RecordKeeps ==
    ASSUME SessionsInv, NEW p \in Proc, RecordLoginFailure(p)
    PROVE  SessionsInv'
    <1> DEFINE n == user.failed + 1
               until == loginLockoutUntil(seen[p].now, n)
    <1>1. /\ pc[p] = "record" /\ user # Nobody /\ seen[p].now \in Nat
          /\ user \in User /\ failures \in Nat /\ FailuresCount
        BY DEF RecordLoginFailure, SessionsInv, TypeOK, RequestOK
    <1>2. user.failed \in Nat /\ user.failed = failures
        BY <1>1 DEF User, FailuresCount
    <1>3. until \in Nat \union {Nobody} /\ (until # Nobody) = (n >= Threshold)
        BY <1>1, <1>2, LockoutAtThreshold
    <1>4. user' = [user EXCEPT !.failed = n, !.lockedUntil = until] /\ failures' = failures + 1
        BY DEF RecordLoginFailure, Attempts
    <1>9. n \in Nat
        BY <1>2
    <1> HIDE DEF until, n
    <1>5. user' \in User /\ user'.failed = n /\ user'.lockedUntil = until
        BY <1>1, <1>3, <1>4, <1>9 DEF User
    <1>6. FailuresCount'
        BY <1>2, <1>3, <1>4, <1>5 DEF FailuresCount, n
    <1>7. OnlyMoves(p) /\ pc'[p] = "idle" /\ rows'[p] = {}
        BY ReturnMoves DEF RecordLoginFailure
    <1>8. failures' \in Nat /\ UNCHANGED <<tokens, userLock, tokenLock>>
        BY <1>1 DEF RecordLoginFailure
    <1> QED BY <1>1, <1>5, <1>6, <1>7, <1>8, UserStepKeeps

\* A right password clears them.
LEMMA ClearKeeps ==
    ASSUME SessionsInv, NEW p \in Proc, ClearLoginFailures(p)
    PROVE  SessionsInv'
    <1>1. /\ pc[p] = "clear" /\ user # Nobody /\ user \in User /\ RequestOK(p)
        BY DEF ClearLoginFailures, SessionsInv, TypeOK, RequestOK
    <1>2. user' = [user EXCEPT !.failed = 0, !.lockedUntil = Nobody] /\ failures' = 0
        BY DEF ClearLoginFailures
    <1>3. user' \in User /\ user'.failed = 0 /\ user'.lockedUntil = Nobody
        BY <1>1, <1>2 DEF User
    <1>4. FailuresCount'
        BY <1>2, <1>3, LockoutAssumption DEF FailuresCount
    <1>5. OnlyMoves(p) /\ pc'[p] = "issue" /\ req' = req /\ seen' = seen /\ rows' = rows
        BY GotoMoves DEF ClearLoginFailures, Stage
    <1>6. RequestOK(p)'
        BY <1>1, <1>5 DEF RequestOK
    <1>7. rows'[p] \subseteq 1..Len(tokens) /\ UNCHANGED <<tokens, userLock, tokenLock>>
        BY <1>5 DEF SessionsInv, TypeOK, Ids, ClearLoginFailures
    <1> QED BY <1>1, <1>2, <1>3, <1>4, <1>5, <1>6, <1>7, UserStepKeeps

-----------------------------------------------------------------------------
(* Refreshes and revocations. *)

\* The token that was read decides where a refresh goes.
LEMMA CheckTokenKeeps ==
    ASSUME SessionsInv, NEW p \in Proc, CheckToken(p)
    PROVE  SessionsInv'
    <1>1. pc[p] = "refresh" /\ RequestOK(p) /\ rows[p] \subseteq 1..Len(tokens)
        BY DEF CheckToken, SessionsInv, TypeOK, Ids
    <1>2. CASE Refuse(p)
        BY <1>1, <1>2, RefuseKeeps
    <1>3. ASSUME NEW stage \in {"rotate", "revoke_all"}, Goto(p, stage), UNCHANGED tables
          PROVE  SessionsInv'
        <2>1. stage \in Stage
            BY DEF Stage
        <2>2. OnlyMoves(p) /\ pc'[p] = stage /\ req' = req /\ seen' = seen /\ rows' = rows
            BY <1>3, <2>1, GotoMoves
        <2>3. UNCHANGED <<user, tokens, userLock, tokenLock, failures>>
            BY <1>3 DEF tables
        <2>4. RequestOK(p)'
            BY <1>1, <2>2, <2>3 DEF RequestOK, Ids
        <2> QED BY <1>1, <2>2, <2>3, <2>4, MoveKeeps
    <1> QED BY <1>2, <1>3 DEF CheckToken

\* The old row is held from the UPDATE on.
LEMMA RotateOldKeeps ==
    ASSUME SessionsInv, NEW p \in Proc, RotateOld(p)
    PROVE  SessionsInv'
    <1> DEFINE o == req[p].token
    <1>1. /\ pc[p] = "rotate" /\ RequestOK(p) /\ rows[p] \subseteq 1..Len(tokens) /\ o \in Ids
          /\ tokenLock[o] = Nobody /\ tokens[o].revoked = Nobody
        BY DEF RotateOld, SessionsInv, TypeOK, Ids, RequestOK, Free, Unrevoked
    <1>2. /\ tokenLock \in Seq(Proc \union {Nobody}) /\ Len(tokenLock) = Len(tokens)
          /\ tokenLock' = [tokenLock EXCEPT ![o] = p] /\ UNCHANGED <<user, tokens, userLock, failures>>
        BY DEF SessionsInv, TypeOK, RotateOld
    <1>3. OnlyMoves(p) /\ pc'[p] = "rotated" /\ req' = req /\ seen' = seen /\ rows' = rows
        BY GotoMoves DEF RotateOld, Stage
    <1>4. /\ tokenLock' \in Seq(Proc \union {Nobody}) /\ Len(tokenLock') = Len(tokens)
          /\ tokenLock'[o] = p /\ \A t \in Ids : t # o => tokenLock'[t] = tokenLock[t]
        BY <1>1, <1>2 DEF Ids
    <1> HIDE DEF o
    <1>5. TablesTyped
        BY <1>2, <1>4 DEF TablesTyped, SessionsInv, TypeOK
    <1>6. TablesKept(p)
        BY <1>1, <1>2, <1>4 DEF TablesKept, SessionsInv, TypeOK, Ids
    <1>7. LocksFit(p)
        BY <1>1, <1>2, <1>3, <1>4, LocksOf DEF LocksFit, Ids, o
    <1>8. RequestOK(p)'
        BY <1>1, <1>2, <1>3, <1>4 DEF RequestOK, Ids, Unrevoked, o
    <1>9. /\ \A t \in 1..Len(tokens') : tokens'[t].of \in 1..Len(tokens') \union {Nobody}
          /\ SessionsAreLines' /\ FailuresCount'
        BY <1>2 DEF SessionsInv, SessionsAreLines, Ids, FailuresCount
    <1> QED BY <1>1, <1>2, <1>3, <1>5, <1>6, <1>7, <1>8, <1>9, StepKeeps

\* The old row is revoked and the new one inserted together.
LEMMA CommitRotationKeeps ==
    ASSUME SessionsInv, NEW p \in Proc, CommitRotation(p)
    PROVE  SessionsInv'
    <1> DEFINE o == req[p].token
               n == Len(tokens)
    <1>1. /\ pc[p] = "rotated" /\ RequestOK(p) /\ o \in Ids
          /\ tokenLock[o] = p /\ tokens[o].revoked = Nobody
        BY DEF CommitRotation, SessionsInv, RequestOK, Unrevoked
    <1>2. /\ tokens \in Seq(Token) /\ tokenLock \in Seq(Proc \union {Nobody}) /\ Len(tokenLock) = n
          /\ n \in Nat /\ Ids = 1..n /\ clock \in Nat /\ seen[p].now \in Nat
        BY <1>1 DEF SessionsInv, TypeOK, Ids, RequestOK
    <1>3. PICK now \in seen[p].now..clock :
            tokens' = Append([tokens EXCEPT ![o].revoked = "rotated"], NewToken(now, o))
        BY DEF CommitRotation
    <1>4. tokenLock' = Append([tokenLock EXCEPT ![o] = Nobody], Nobody)
          /\ UNCHANGED <<user, userLock, failures>> /\ Return(p)
        BY DEF CommitRotation
    <1> DEFINE new == NewToken(now, o)
               old == [tokens[o] EXCEPT !.revoked = "rotated"]
    <1>5. new \in Token /\ new.of = o
        <2>1. now \in Nat /\ o \in Nat
            BY <1>1, <1>2
        <2> QED BY <2>1, NewTokenTyped
    <1>6. old \in Token /\ old.revoked = "rotated" /\ old.of = tokens[o].of
        <2>1. tokens[o] \in Token
            BY <1>1, <1>2
        <2> QED BY <2>1 DEF Token, Reason
    <1>7. tokens' = Append([tokens EXCEPT ![o] = old], new)
        BY <1>3
    <1> HIDE DEF new, old, o
    <1>8. /\ tokens' \in Seq(Token) /\ Len(tokens') = n + 1 /\ tokens'[o] = old /\ tokens'[n + 1] = new
          /\ \A t \in Ids : t # o => tokens'[t] = tokens[t]
        BY <1>1, <1>2, <1>5, <1>6, <1>7
    <1>9. /\ tokenLock' \in Seq(Proc \union {Nobody}) /\ Len(tokenLock') = n + 1 /\ tokenLock'[o] = Nobody
          /\ tokenLock'[n + 1] = Nobody /\ \A t \in Ids : t # o => tokenLock'[t] = tokenLock[t]
        BY <1>1, <1>2, <1>4
    <1>10. n <= Len(tokens') /\ \A t \in 1..Len(tokens') : t \in Ids \/ t = n + 1
        BY <1>2, <1>8
    <1>11. TablesTyped
        BY <1>4, <1>8, <1>9 DEF TablesTyped, SessionsInv, TypeOK
    <1>12. TablesKept(p)
        <2>1. \A t \in Ids : tokens[t].revoked # Nobody => t # o
            BY <1>1
        <2>2. \A t \in Ids : tokenLock[t] \notin {Nobody, p} => t # o
            BY <1>1
        <2>3. \A t \in 1..Len(tokens') :
                tokenLock'[t] \in {Nobody, p} \/ (t \in Ids /\ tokenLock'[t] = tokenLock[t])
            BY <1>9, <1>10
        <2>4. userLock' \in {Nobody, userLock, p} /\ user' = user
            BY <1>4
        <2>5. \A t \in Ids : tokens'[t].of = tokens[t].of
            BY <1>6, <1>8
        <2>6. \A t \in 1..Len(tokens') : t \notin Ids =>
                tokens'[t].of \in Ids /\ tokens[tokens'[t].of].revoked = Nobody
            BY <1>1, <1>5, <1>8, <1>10
        <2> QED BY <1>8, <1>9, <1>10, <2>1, <2>2, <2>3, <2>4, <2>5, <2>6 DEF TablesKept
    <1>13. OnlyMoves(p) /\ pc'[p] = "idle" /\ rows'[p] = {}
        BY <1>4, ReturnMoves
    <1>14. LocksFit(p)
        <2>1. \A t \in 1..Len(tokens') : tokenLock'[t] # p
            <3>1. \A t \in Ids : t # o => tokenLock[t] # p
                BY LocksOf DEF o
            <3> QED BY <1>9, <1>10, <3>1, NobodyAssumption
        <2>2. userLock' # p
            BY <1>1, <1>4, LocksOf
        <2> QED BY <2>1, <2>2 DEF LocksFit
    <1>15. \A t \in Ids : tokens[t].of # o
        BY <1>1, NobodyAssumption DEF SessionsInv, SessionsAreLines, Reason
    <1>16. \A t \in 1..Len(tokens') : tokens'[t].of \in 1..Len(tokens') \union {Nobody}
        <2>1. \A t \in Ids : tokens'[t].of = tokens[t].of
            BY <1>6, <1>8
        <2>2. \A t \in Ids : tokens[t].of \in Ids \union {Nobody}
            BY DEF SessionsInv
        <2>3. Ids \subseteq 1..Len(tokens')
            BY <1>2, <1>8
        <2> QED BY <1>1, <1>5, <1>8, <1>10, <2>1, <2>2, <2>3
    <1>17. SessionsAreLines'
        <2> SUFFICES ASSUME NEW t \in Ids', NEW u \in Ids', tokens'[u].of = t
                     PROVE  /\ tokens'[t].revoked = "rotated"
                            /\ \A v \in Ids' : tokens'[v].of = t => v = u
            BY DEF SessionsAreLines
        <2>0. Ids' = 1..Len(tokens')
            BY DEF Ids
        <2>1. \A v \in Ids : tokens'[v].of = tokens[v].of
            BY <1>6, <1>8
        <2>2. \A v \in Ids : tokens'[v].of # o
            BY <1>15, <2>1
        <2>3. CASE t = o
            <3>1. \A v \in Ids' : tokens'[v].of = t => v = n + 1
                BY <1>10, <2>0, <2>2, <2>3
            <3> QED BY <1>6, <1>8, <2>3, <3>1
        <2>4. CASE t # o
            <3>1. \A v \in Ids' : tokens'[v].of = t => v \in Ids
                BY <1>5, <1>8, <1>10, <2>0, <2>4
            <3>2. t \in Ids
                <4>1. u \in Ids /\ tokens[u].of = t
                    BY <2>1, <3>1
                <4>2. t \in Ids \union {Nobody}
                    BY <4>1 DEF SessionsInv
                <4>3. t \in Nat
                    BY <2>0
                <4> QED BY <4>2, <4>3, NobodyAssumption
            <3>3. tokens[t].revoked = "rotated" /\ \A v \in Ids : tokens[v].of = t => v = u
                BY <2>1, <3>1, <3>2 DEF SessionsInv, SessionsAreLines
            <3> QED BY <1>8, <2>1, <2>4, <3>1, <3>2, <3>3
        <2> QED BY <2>3, <2>4
    <1>18. FailuresCount'
        BY <1>4 DEF SessionsInv, FailuresCount
    <1> QED BY <1>11, <1>12, <1>13, <1>14, <1>16, <1>17, <1>18, StepKeeps

\* One UPDATE revokes one row that nobody holds and that is not revoked.
LEMMA RevokeKeeps ==
    ASSUME SessionsInv, NEW p \in Proc, Revoke(p)
    PROVE  SessionsInv'
    <1> DEFINE o == req[p].token
               old == [tokens[o] EXCEPT !.revoked = req[p].kind]
    <1>1. /\ pc[p] = "revoke" /\ RequestOK(p) /\ o \in Ids /\ req[p].kind \in {"logout", "manual"}
          /\ tokenLock[o] = Nobody /\ tokens[o].revoked = Nobody
        BY DEF Revoke, SessionsInv, RequestOK, Free, Unrevoked
    <1>2. /\ tokens \in Seq(Token) /\ Len(tokens) \in Nat /\ Ids = 1..Len(tokens)
        BY DEF SessionsInv, TypeOK, Ids
    <1>3. /\ tokens' = [tokens EXCEPT ![o] = old] /\ Return(p)
          /\ UNCHANGED <<user, userLock, tokenLock, failures>>
        BY DEF Revoke
    <1>4. old \in Token /\ old.of = tokens[o].of
        <2>1. tokens[o] \in Token
            BY <1>1, <1>2
        <2> QED BY <1>1, <2>1 DEF Token, Reason
    <1> HIDE DEF old, o
    <1>5. /\ tokens' \in Seq(Token) /\ Len(tokens') = Len(tokens) /\ tokens'[o] = old
          /\ \A t \in Ids : t # o => tokens'[t] = tokens[t]
        BY <1>1, <1>2, <1>3, <1>4
    <1>6. TablesTyped
        BY <1>3, <1>5 DEF TablesTyped, SessionsInv, TypeOK
    <1>7. TablesKept(p)
        <2>1. \A t \in Ids : tokens'[t].of = tokens[t].of
            BY <1>4, <1>5
        <2> QED BY <1>1, <1>2, <1>3, <1>5, <2>1 DEF TablesKept
    <1>8. OnlyMoves(p) /\ pc'[p] = "idle" /\ rows'[p] = {}
        BY <1>3, ReturnMoves
    <1>9. LocksFit(p)
        BY <1>1, <1>2, <1>3, <1>5, LocksOf DEF LocksFit
    <1>10. /\ \A t \in 1..Len(tokens') : tokens'[t].of \in 1..Len(tokens') \union {Nobody}
           /\ SessionsAreLines'
        <2>1. \A t \in Ids : tokens'[t].of = tokens[t].of
            BY <1>4, <1>5
        <2>2. \A t \in Ids : tokens[t].revoked # Nobody => tokens'[t] = tokens[t]
            BY <1>1, <1>5
        <2>3. \A t \in 1..Len(tokens') : t \in Ids
            BY <1>2, <1>5
        <2>4. Len(tokens) <= Len(tokens')
            BY <1>2, <1>5
        <2> QED BY <1>6, <2>1, <2>2, <2>3, <2>4, LinesKept
    <1>11. FailuresCount'
        BY <1>3 DEF SessionsInv, FailuresCount
    <1> QED BY <1>6, <1>7, <1>8, <1>9, <1>10, <1>11, StepKeeps

-----------------------------------------------------------------------------
(* Password changes and the end of all sessions. *)

\* A password change reads the user.
LEMMA ReadUserKeeps ==
    ASSUME SessionsInv, NEW p \in Proc, ReadUser(p)
    PROVE  SessionsInv'
    <1>1. pc[p] = "authorized" /\ RequestOK(p)
        BY DEF ReadUser, SessionsInv
    <1>2. UNCHANGED <<user, tokens, userLock, tokenLock, failures>>
        BY DEF ReadUser, tables
    <1>3. OnlyMoves(p) /\ pc'[p] = "change" /\ rows' = rows /\ req' = req
        BY DEF ReadUser, SessionsInv, TypeOK, OnlyMoves, Stage
    <1>4. seen'[p] = [read |-> user, now |-> seen[p].now] /\ seen[p].now \in Nat
        <2>1. seen'[p] = [seen[p] EXCEPT !.read = user]
            BY DEF ReadUser, SessionsInv, TypeOK
        <2>2. seen[p] = [read |-> seen[p].read, now |-> seen[p].now] /\ seen[p].now \in Nat
            BY <1>1 DEF RequestOK
        <2> QED BY <2>1, <2>2
    <1>5. RequestOK(p)'
        BY <1>1, <1>2, <1>3, <1>4 DEF RequestOK
    <1>6. rows'[p] \subseteq 1..Len(tokens)
        BY <1>3 DEF SessionsInv, TypeOK, Ids
    <1> QED BY <1>1, <1>2, <1>3, <1>5, <1>6, MoveKeeps

\* It holds the user's row once the password it presents is the one it read.
LEMMA LockUserKeeps ==
    ASSUME SessionsInv, NEW p \in Proc, LockUser(p)
    PROVE  SessionsInv'
    <1>1. /\ pc[p] = "change" /\ RequestOK(p) /\ seen[p].read.password = req[p].password
          /\ userLock = Nobody /\ userLock' = p /\ UNCHANGED <<user, tokens, tokenLock, failures>>
        BY DEF LockUser, SessionsInv
    <1>2. "revoke_all" \in Stage
        BY DEF Stage
    <1>3. OnlyMoves(p) /\ pc'[p] = "revoke_all" /\ req' = req /\ seen' = seen /\ rows' = rows
        BY <1>2, GotoMoves DEF LockUser
    <1>4. TablesTyped
        BY <1>1 DEF TablesTyped, SessionsInv, TypeOK
    <1>5. TablesKept(p)
        BY <1>1 DEF TablesKept, SessionsInv, TypeOK, Ids
    <1>6. LocksFit(p)
        BY <1>1, <1>3, LocksOf DEF LocksFit, Ids
    <1>7. RequestOK(p)'
        BY <1>1, <1>3 DEF RequestOK
    <1>8. /\ \A t \in 1..Len(tokens') : tokens'[t].of \in 1..Len(tokens') \union {Nobody}
          /\ SessionsAreLines' /\ FailuresCount'
        BY <1>1 DEF SessionsInv, SessionsAreLines, Ids, FailuresCount
    <1>9. rows'[p] \subseteq 1..Len(tokens')
        BY <1>1, <1>3 DEF SessionsInv, TypeOK, Ids
    <1> QED BY <1>4, <1>5, <1>6, <1>7, <1>8, <1>9, <1>3, StepKeeps

\* The UPDATE of all sessions sees every row that is not revoked.
LEMMA StartRevokeAllKeeps ==
    ASSUME SessionsInv, NEW p \in Proc, StartRevokeAll(p)
    PROVE  SessionsInv'
    <1>1. pc[p] = "revoke_all" /\ RequestOK(p)
        BY DEF StartRevokeAll, SessionsInv
    <1>2. UNCHANGED <<user, tokens, userLock, tokenLock, failures>>
        BY DEF StartRevokeAll, tables
    <1>3. /\ OnlyMoves(p) /\ pc'[p] = "revoking" /\ req' = req /\ seen' = seen
          /\ rows'[p] = RowsToRevoke(p)
        BY DEF StartRevokeAll, SessionsInv, TypeOK, OnlyMoves, Stage
    <1>4. RequestOK(p)'
        BY <1>1, <1>2, <1>3 DEF RequestOK, RowsToRevoke, Unrevoked, Ids
    <1>5. rows'[p] \subseteq 1..Len(tokens)
        BY <1>3 DEF RowsToRevoke, Ids
    <1> QED BY <1>1, <1>2, <1>3, <1>4, <1>5, MoveKeeps

\* Locks of p end, those of the others stay.
LEMMA ReleasedKeeps ==
    ASSUME SessionsInv, NEW p \in Proc, Released(p)
    PROVE  /\ tokenLock' \in Seq(Proc \union {Nobody}) /\ Len(tokenLock') = Len(tokens)
           /\ userLock' \in {userLock, Nobody} /\ userLock' \in Proc \union {Nobody} /\ userLock' # p
           /\ \A t \in Ids : tokenLock'[t] # p /\ tokenLock'[t] \in {Nobody, tokenLock[t]}
           /\ \A t \in Ids : tokenLock[t] # p => tokenLock'[t] = tokenLock[t]
    <1>1. /\ tokenLock \in Seq(Proc \union {Nobody}) /\ Len(tokenLock) = Len(tokens)
          /\ Len(tokens) \in Nat /\ Ids = 1..Len(tokens) /\ userLock \in Proc \union {Nobody}
        BY DEF SessionsInv, TypeOK, Ids
    <1>2. tokenLock' = [t \in 1..Len(tokens) |-> IF tokenLock[t] = p THEN Nobody ELSE tokenLock[t]]
        BY <1>1 DEF Released
    <1>3. \A t \in 1..Len(tokens) : tokenLock[t] \in Proc \union {Nobody}
        BY <1>1
    <1>4. tokenLock' \in [1..Len(tokens) -> Proc \union {Nobody}]
        BY <1>2, <1>3
    <1>5. tokenLock' \in Seq(Proc \union {Nobody}) /\ Len(tokenLock') = Len(tokens)
        BY <1>1, <1>4, SeqDef, LenProperties
    <1> QED BY <1>1, <1>2, <1>5, NobodyAssumption DEF Released

\* The rows it saw are revoked; a revoked row keeps its reason.
LEMMA RevokeAllRows ==
    ASSUME SessionsInv, NEW p \in Proc, RevokeAll(p)
    PROVE  /\ tokens' \in Seq(Token) /\ Len(tokens') = Len(tokens)
           /\ \A t \in Ids : tokens'[t].of = tokens[t].of
           /\ \A t \in Ids : ~Ends(p, t) => tokens'[t] = tokens[t]
           /\ \A t \in Ids : Ends(p, t) => tokens'[t].revoked = AllReason(p)
           /\ AllReason(p) \in Reason
    <1>1. /\ tokens \in Seq(Token) /\ Len(tokens) \in Nat /\ Ids = 1..Len(tokens)
        BY DEF SessionsInv, TypeOK, Ids
    <1>2. AllReason(p) \in Reason
        BY DEF AllReason, Reason
    <1> DEFINE New(t) == IF Ends(p, t) THEN [tokens[t] EXCEPT !.revoked = AllReason(p)] ELSE tokens[t]
    <1>3. tokens' = [t \in Ids |-> New(t)]
        BY DEF RevokeAll
    <1>4. ASSUME NEW t \in Ids
          PROVE  /\ New(t) \in Token /\ New(t).of = tokens[t].of
                 /\ Ends(p, t) => New(t).revoked = AllReason(p)
                 /\ ~Ends(p, t) => New(t) = tokens[t]
        <2>1. tokens[t] \in Token
            BY <1>1, <1>4
        <2>2. CASE Ends(p, t)
            BY <1>2, <2>1, <2>2 DEF Token
        <2>3. CASE ~Ends(p, t)
            BY <2>1, <2>3
        <2> QED BY <2>2, <2>3
    <1> HIDE DEF New
    <1>5. tokens' \in [1..Len(tokens) -> Token]
        BY <1>1, <1>3, <1>4
    <1>6. tokens' \in Seq(Token) /\ Len(tokens') = Len(tokens)
        BY <1>1, <1>5, SeqDef, LenProperties
    <1> QED BY <1>2, <1>3, <1>4, <1>6

\* The end of all sessions keeps what the others rely on: nobody holds a row that it revokes.
LEMMA RevokeAllKeeps ==
    ASSUME SessionsInv, NEW p \in Proc, RevokeAll(p)
    PROVE  SessionsInv'
    <1>1. /\ pc[p] = "revoking" /\ RequestOK(p) /\ Released(p) /\ Return(p)
          /\ \A t \in rows[p] : tokenLock[t] = Nobody
        BY DEF RevokeAll, SessionsInv, Free
    <1>2. /\ tokens' \in Seq(Token) /\ Len(tokens') = Len(tokens)
          /\ \A t \in Ids : tokens'[t].of = tokens[t].of
          /\ \A t \in Ids : ~Ends(p, t) => tokens'[t] = tokens[t]
        BY RevokeAllRows
    <1>3. /\ tokenLock' \in Seq(Proc \union {Nobody}) /\ Len(tokenLock') = Len(tokens)
          /\ userLock' \in {userLock, Nobody} /\ userLock' \in Proc \union {Nobody} /\ userLock' # p
          /\ \A t \in Ids : tokenLock'[t] # p /\ tokenLock'[t] \in {Nobody, tokenLock[t]}
          /\ \A t \in Ids : tokenLock[t] # p => tokenLock'[t] = tokenLock[t]
        BY <1>1, ReleasedKeeps
    <1>4. Len(tokens) \in Nat /\ Ids = 1..Len(tokens)
        BY DEF SessionsInv, TypeOK, Ids
    <1>5. /\ user' \in User \union {Nobody} /\ failures' \in Nat /\ FailuresCount'
          /\ user # Nobody => user' # Nobody
        <2>1. CASE req[p].kind = "refresh"
            BY <2>1 DEF RevokeAll, SessionsInv, TypeOK, FailuresCount
        <2>2. CASE req[p].kind # "refresh"
            <3>1. /\ user' = [password |-> req[p].new, failed |-> 0, lockedUntil |-> Nobody]
                  /\ failures' = 0 /\ req[p].new \in Password
                BY <1>1, <2>2 DEF RevokeAll, RequestOK
            <3>2. user' \in User
                BY <3>1 DEF User
            <3>3. FailuresCount'
                BY <3>1, LockoutAssumption DEF FailuresCount
            <3> QED BY <3>1, <3>2, <3>3, NobodyAssumption
        <2> QED BY <2>1, <2>2
    <1>6. TablesTyped
        BY <1>2, <1>3, <1>5 DEF TablesTyped
    <1>7. \A t \in Ids : tokens[t].revoked # Nobody => tokens'[t] = tokens[t]
        BY <1>2 DEF Ends, Unrevoked
    <1>8. TablesKept(p)
        <2>1. \A t \in Ids : tokenLock[t] \notin {Nobody, p} => tokens'[t] = tokens[t]
            BY <1>1, <1>2 DEF Ends
        <2>2. \A t \in 1..Len(tokens') : t \in Ids
            BY <1>2, <1>4
        <2> QED BY <1>2, <1>3, <1>4, <1>5, <1>7, <2>1, <2>2 DEF TablesKept
    <1>9. OnlyMoves(p) /\ pc'[p] = "idle" /\ rows'[p] = {}
        BY <1>1, ReturnMoves
    <1>10. LocksFit(p)
        BY <1>2, <1>3, <1>4 DEF LocksFit
    <1>11. /\ \A t \in 1..Len(tokens') : tokens'[t].of \in 1..Len(tokens') \union {Nobody}
           /\ SessionsAreLines'
        BY <1>2, <1>4, <1>6, <1>7, LinesKept
    <1> QED BY <1>5, <1>6, <1>8, <1>9, <1>10, <1>11, StepKeeps

-----------------------------------------------------------------------------
(* Failures and time. *)

\* A transaction that rolls back leaves nothing but freed rows.
LEMMA AbortKeeps ==
    ASSUME SessionsInv, NEW p \in Proc, Abort(p)
    PROVE  SessionsInv'
    <1>1. Released(p) /\ Return(p) /\ UNCHANGED <<user, tokens, failures>>
        BY DEF Abort
    <1>2. /\ tokenLock' \in Seq(Proc \union {Nobody}) /\ Len(tokenLock') = Len(tokens)
          /\ userLock' \in {userLock, Nobody} /\ userLock' \in Proc \union {Nobody} /\ userLock' # p
          /\ \A t \in Ids : tokenLock'[t] # p /\ tokenLock'[t] \in {Nobody, tokenLock[t]}
          /\ \A t \in Ids : tokenLock[t] # p => tokenLock'[t] = tokenLock[t]
        BY <1>1, ReleasedKeeps
    <1>3. Len(tokens) \in Nat /\ Ids = 1..Len(tokens)
        BY DEF SessionsInv, TypeOK, Ids
    <1>4. TablesTyped
        BY <1>1, <1>2 DEF TablesTyped, SessionsInv, TypeOK
    <1>5. TablesKept(p)
        BY <1>1, <1>2, <1>3 DEF TablesKept
    <1>6. OnlyMoves(p) /\ pc'[p] = "idle" /\ rows'[p] = {}
        BY <1>1, ReturnMoves
    <1>7. LocksFit(p)
        BY <1>1, <1>2, <1>3 DEF LocksFit
    <1>8. /\ \A t \in 1..Len(tokens') : tokens'[t].of \in 1..Len(tokens') \union {Nobody}
          /\ SessionsAreLines' /\ FailuresCount'
        BY <1>1 DEF SessionsInv, SessionsAreLines, Ids, FailuresCount
    <1> QED BY <1>4, <1>5, <1>6, <1>7, <1>8, StepKeeps

\* Time passes.
LEMMA TickKeeps ==
    ASSUME SessionsInv, Tick
    PROVE  SessionsInv'
    <1>1. /\ UNCHANGED <<user, tokens, userLock, tokenLock, failures, pc, req, seen, rows, started>>
          /\ clock' \in Nat
        BY DEF Tick, tables, SessionsInv, TypeOK
    <1>2. TypeOK'
        BY <1>1 DEF SessionsInv, TypeOK, Ids
    <1>3. \A q \in Proc : pc'[q] # "idle" => RequestOK(q)'
        BY <1>1 DEF SessionsInv, RequestOK, Ids, Unrevoked, Outlives, Since
    <1> QED BY <1>1, <1>2, <1>3 DEF SessionsInv, SessionsAreLines, FailuresCount, Ids

-----------------------------------------------------------------------------
(* The invariant of the specification. *)

\* Initially nobody is at work and there are no rows.
LEMMA InitHolds == Init => SessionsInv
    <1> SUFFICES ASSUME Init PROVE SessionsInv
        OBVIOUS
    <1>1. /\ user = Nobody /\ tokens = <<>> /\ userLock = Nobody /\ tokenLock = <<>>
          /\ pc = [p \in Proc |-> "idle"] /\ req = [p \in Proc |-> Nobody]
          /\ seen = [p \in Proc |-> Nobody] /\ rows = [p \in Proc |-> {}]
          /\ clock = 0 /\ failures = 0 /\ started = 0
        BY DEF Init
    <1>2. Len(tokens) = 0 /\ Ids = {}
        BY <1>1 DEF Ids
    <1>3. "idle" \in Stage
        BY DEF Stage
    <1>4. TypeOK
        BY <1>1, <1>2, <1>3 DEF TypeOK
    <1>5. SessionsAreLines /\ FailuresCount
        BY <1>1, <1>2 DEF SessionsAreLines, FailuresCount
    <1> QED BY <1>1, <1>2, <1>4, <1>5 DEF SessionsInv

\* Every step keeps the invariant.
LEMMA NextKeeps == SessionsInv /\ [Next]_vars => SessionsInv'
    <1>1. ASSUME SessionsInv, UNCHANGED vars PROVE SessionsInv'
        <2>1. UNCHANGED <<user, tokens, userLock, tokenLock, failures, pc, req, seen, rows, clock, started>>
            BY <1>1 DEF vars
        <2>2. TypeOK'
            BY <1>1, <2>1 DEF SessionsInv, TypeOK, Ids
        <2>3. \A q \in Proc : pc'[q] # "idle" => RequestOK(q)'
            BY <1>1, <2>1 DEF SessionsInv, RequestOK, Ids, Unrevoked, Outlives, Since
        <2> QED BY <1>1, <2>1, <2>2, <2>3 DEF SessionsInv, SessionsAreLines, FailuresCount, Ids
    <1>2. ASSUME SessionsInv, NEW p \in Proc, Proceed(p) PROVE SessionsInv'
        <2> USE <1>2
        <2>1. CASE Setup(p) \/ IssueSession(p)
            BY <2>1, SetupKeeps, IssueKeeps
        <2>2. CASE SetupComplete(p) \/ LoginLocked(p) \/ AlreadyRotated(p) \/ RevokeNotFound(p) \/ RefuseChange(p)
            <3>1. pc[p] \in {"setup", "confirm", "rotate", "revoke", "change"} /\ Refuse(p)
                BY <2>2 DEF SetupComplete, LoginLocked, AlreadyRotated, RevokeNotFound, RefuseChange
            <3> QED BY <3>1, RefuseKeeps
        <2>3. CASE Confirm(p) \/ RecordLoginFailure(p) \/ ClearLoginFailures(p)
            BY <2>3, ConfirmKeeps, RecordKeeps, ClearKeeps
        <2>4. CASE CheckToken(p) \/ RotateOld(p) \/ CommitRotation(p) \/ Revoke(p)
            BY <2>4, CheckTokenKeeps, RotateOldKeeps, CommitRotationKeeps, RevokeKeeps
        <2>5. CASE ReadUser(p) \/ LockUser(p) \/ StartRevokeAll(p) \/ RevokeAll(p)
            BY <2>5, ReadUserKeeps, LockUserKeeps, StartRevokeAllKeeps, RevokeAllKeeps
        <2> QED BY <2>1, <2>2, <2>3, <2>4, <2>5 DEF Proceed
    <1> QED BY <1>1, <1>2, ArriveKeeps, AbortKeeps, TickKeeps DEF Next

\* Requests, rows and locks agree in every reachable state, whatever the number of requests.
THEOREM InvariantHolds == Spec => []SessionsInv
    BY InitHolds, NextKeeps, PTL DEF Spec

\* The type invariant of the tables and the requests.
THEOREM TypesHold == Spec => []TypeOK
    <1>1. SessionsInv => TypeOK
        BY DEF SessionsInv
    <1> QED BY <1>1, InvariantHolds, PTL

\* A session is a line: Rotate replaces a token at most once, whatever refreshes race.
THEOREM LinesHold == Spec => []SessionsAreLines
    <1>1. SessionsInv => SessionsAreLines
        BY DEF SessionsInv
    <1> QED BY <1>1, InvariantHolds, PTL

\* RecordLoginFailure loses no failure and locks exactly from the threshold on.
THEOREM FailuresHold == Spec => []FailuresCount
    <1>1. SessionsInv => FailuresCount
        BY DEF SessionsInv
    <1> QED BY <1>1, InvariantHolds, PTL

-----------------------------------------------------------------------------
(* What no step may do. *)

\* The steps that write tokens, with what each leaves alone.
LEMMA TokenWriters ==
    ASSUME Next
    PROVE  \/ UNCHANGED tokens
           \/ \E p \in Proc : Setup(p) \/ IssueSession(p) \/ CommitRotation(p) \/ Revoke(p) \/ RevokeAll(p)
    <1>1. ASSUME NEW p \in Proc, Arrive(p) PROVE UNCHANGED tokens
        BY <1>1 DEF Arrive, BeginSetup, BeginLogin, BeginRefresh, BeginLogout, BeginRevokeSession,
                    BeginChangePassword, Begin, tables
    <1>2. ASSUME NEW p \in Proc, Abort(p) PROVE UNCHANGED tokens
        BY <1>2 DEF Abort
    <1>3. ASSUME Tick PROVE UNCHANGED tokens
        BY <1>3 DEF Tick, tables
    <1>4. ASSUME NEW p \in Proc, Proceed(p),
                 ~(Setup(p) \/ IssueSession(p) \/ CommitRotation(p) \/ Revoke(p) \/ RevokeAll(p))
          PROVE  UNCHANGED tokens
        BY <1>4 DEF Proceed, SetupComplete, LoginLocked, Confirm, RecordLoginFailure, ClearLoginFailures,
                    CheckToken, RotateOld, AlreadyRotated, RevokeNotFound, ReadUser, RefuseChange, LockUser,
                    StartRevokeAll, Refuse, tables
    <1> QED BY <1>1, <1>2, <1>3, <1>4 DEF Next

\* A step keeps every revoked row as it is.
LEMMA RevokedStays ==
    ASSUME SessionsInv, Next
    PROVE  \A t \in Ids : tokens[t].revoked # Nobody => tokens'[t] = tokens[t]
    <1>1. tokens \in Seq(Token) /\ Len(tokens) \in Nat /\ Ids = 1..Len(tokens)
        BY DEF SessionsInv, TypeOK, Ids
    <1>2. ASSUME NEW token, Insert(token) PROVE \A t \in Ids : tokens'[t] = tokens[t]
        <2>1. tokens' = Append(tokens, token)
            BY <1>2 DEF Insert
        <2> QED BY <1>1, <2>1
    <1>3. ASSUME NEW p \in Proc, Revoke(p)
          PROVE  \A t \in Ids : tokens[t].revoked # Nobody => tokens'[t] = tokens[t]
        <2>1. tokens[req[p].token].revoked = Nobody
            BY <1>3 DEF Revoke, Unrevoked
        <2>2. \A t \in Ids : t # req[p].token => tokens'[t] = tokens[t]
            BY <1>1, <1>3 DEF Revoke
        <2> QED BY <2>1, <2>2
    <1>4. ASSUME NEW p \in Proc, CommitRotation(p)
          PROVE  \A t \in Ids : tokens[t].revoked # Nobody => tokens'[t] = tokens[t]
        <2> DEFINE o == req[p].token
                   old == [tokens[o] EXCEPT !.revoked = "rotated"]
        <2>1. tokens[o].revoked = Nobody /\ o \in Ids /\ seen[p].now \in Nat /\ clock \in Nat
            BY <1>4 DEF CommitRotation, SessionsInv, TypeOK, RequestOK, Unrevoked
        <2>2. PICK now \in seen[p].now..clock :
                tokens' = Append([tokens EXCEPT ![o] = old], NewToken(now, o))
            BY <1>4 DEF CommitRotation
        <2>4. old \in Token
            <3>1. tokens[o] \in Token
                BY <1>1, <2>1
            <3> QED BY <3>1 DEF Token, Reason
        <2> HIDE DEF old
        <2>5. [tokens EXCEPT ![o] = old] \in Seq(Token) /\ Len([tokens EXCEPT ![o] = old]) = Len(tokens)
            BY <1>1, <2>1, <2>4
        <2>3. \A t \in Ids : t # o => tokens'[t] = tokens[t]
            BY <1>1, <2>2, <2>5
        <2> QED BY <2>1, <2>3
    <1>5. ASSUME NEW p \in Proc, RevokeAll(p)
          PROVE  \A t \in Ids : tokens[t].revoked # Nobody => tokens'[t] = tokens[t]
        BY <1>5, RevokeAllRows DEF Ends, Unrevoked
    <1> QED BY <1>2, <1>3, <1>4, <1>5, TokenWriters DEF Setup, IssueSession

\* The reason of a revocation stays on record, whichever revocations race.
THEOREM RevocationsStay == Spec => RevokedForGood
    <1>1. SessionsInv /\ [Next]_vars => [\A t \in Ids : tokens[t].revoked # Nobody => tokens'[t] = tokens[t]]_vars
        BY RevokedStays
    <1> QED BY <1>1, InvariantHolds, PTL DEF Spec, RevokedForGood

\* A password change and a detected reuse leave no token that their UPDATE saw; what outlives them
\* was issued since it started, by a login or by a refresh of a token of that time or a newer one.
THEOREM NewTokensOutlive == Spec => OnlyNewTokensOutlive
    <1> DEFINE End(p) == RevokeAll(p) =>
                           \A t \in Ids : tokens'[t].revoked = Nobody => Outlives(p, t)
    <1>1. ASSUME SessionsInv, Next, NEW p \in Proc PROVE End(p)
        <2> SUFFICES ASSUME RevokeAll(p), NEW t \in Ids, tokens'[t].revoked = Nobody
                     PROVE  Outlives(p, t)
            OBVIOUS
        <2>1. ~Ends(p, t) /\ tokens'[t] = tokens[t]
            BY <1>1, RevokeAllRows, NobodyAssumption
        <2>2. t \notin rows[p] /\ Unrevoked(t)
            BY <2>1 DEF Ends, Unrevoked
        <2>3. pc[p] = "revoking" /\ RequestOK(p)
            BY <1>1 DEF RevokeAll, SessionsInv
        <2> QED BY <2>2, <2>3 DEF RequestOK
    <1>2. SessionsInv /\ [Next]_vars => [\A p \in Proc : End(p)]_vars
        BY <1>1
    <1> QED BY <1>2, InvariantHolds, PTL DEF Spec, OnlyNewTokensOutlive

\* The user changes only under a password change, but for the columns of the lockout.
LEMMA UserWriters ==
    ASSUME SessionsInv, Next, user # Nobody
    PROVE  /\ user' # Nobody
           /\ \/ user'.password = user.password
              \/ \E p \in Proc : RevokeAll(p) /\ req[p].kind # "refresh"
    <1>0. user \in User
        BY DEF SessionsInv, TypeOK
    <1>1. ASSUME NEW p \in Proc, Arrive(p) PROVE UNCHANGED user
        BY <1>1 DEF Arrive, BeginSetup, BeginLogin, BeginRefresh, BeginLogout, BeginRevokeSession,
                    BeginChangePassword, Begin, tables
    <1>2. ASSUME NEW p \in Proc, Abort(p) PROVE UNCHANGED user
        BY <1>2 DEF Abort
    <1>3. ASSUME Tick PROVE UNCHANGED user
        BY <1>3 DEF Tick, tables
    <1>4. ASSUME NEW p \in Proc, RecordLoginFailure(p) \/ ClearLoginFailures(p)
          PROVE  user' # Nobody /\ user'.password = user.password
        <2>1. ASSUME NEW n, NEW until, user' = [user EXCEPT !.failed = n, !.lockedUntil = until]
              PROVE  user'.password = user.password
            BY <1>0, <2>1 DEF User
        <2>2. user'.password = user.password
            BY <1>4, <2>1 DEF RecordLoginFailure, ClearLoginFailures
        <2>3. SessionsInv'
            BY <1>4, RecordKeeps, ClearKeeps
        <2>4. user' # Nobody
            <3>1. ASSUME NEW n \in Nat, NEW until \in Nat \union {Nobody},
                         user' = [user EXCEPT !.failed = n, !.lockedUntil = until]
                  PROVE  user' \in User
                BY <1>0, <3>1 DEF User
            <3>2. CASE ClearLoginFailures(p)
                BY <3>1, <3>2, NobodyAssumption DEF ClearLoginFailures
            <3>3. CASE RecordLoginFailure(p)
                <4>1. user.failed + 1 \in Nat
                    BY <1>0 DEF User
                <4>2. seen[p].now \in Nat
                    BY <3>3 DEF RecordLoginFailure, SessionsInv, RequestOK
                <4>3. loginLockoutUntil(seen[p].now, user.failed + 1) \in Nat \union {Nobody}
                    BY <4>1, <4>2, LockoutAtThreshold
                <4>4. user' = [user EXCEPT !.failed = user.failed + 1,
                                 !.lockedUntil = loginLockoutUntil(seen[p].now, user.failed + 1)]
                    BY <3>3 DEF RecordLoginFailure, Attempts
                <4> QED BY <3>1, <4>1, <4>3, <4>4, NobodyAssumption
            <3> QED BY <1>4, <3>2, <3>3
        <2> QED BY <2>2, <2>4
    <1>5. ASSUME NEW p \in Proc, Setup(p) PROVE FALSE
        BY <1>5 DEF Setup, SetupAllowed
    <1>6. ASSUME NEW p \in Proc, RevokeAll(p)
          PROVE  user' # Nobody /\ (user' = user \/ req[p].kind # "refresh")
        <2>1. CASE req[p].kind = "refresh"
            BY <1>6, <2>1 DEF RevokeAll
        <2>2. CASE req[p].kind # "refresh"
            <3>1. /\ user' = [password |-> req[p].new, failed |-> 0, lockedUntil |-> Nobody]
                  /\ req[p].new \in Password
                BY <1>6, <2>2 DEF RevokeAll, SessionsInv, RequestOK
            <3>2. user' \in User
                BY <3>1 DEF User
            <3> QED BY <2>2, <3>2, NobodyAssumption
        <2> QED BY <2>1, <2>2
    <1>7. ASSUME NEW p \in Proc, Proceed(p), ~RecordLoginFailure(p), ~ClearLoginFailures(p), ~RevokeAll(p)
          PROVE  UNCHANGED user
        BY <1>5, <1>7 DEF Proceed, SetupComplete, LoginLocked, Confirm, IssueSession, CheckToken, RotateOld,
                    AlreadyRotated, CommitRotation, Revoke, RevokeNotFound, ReadUser, RefuseChange, LockUser,
                    StartRevokeAll, Refuse, tables
    <1> QED BY <1>1, <1>2, <1>3, <1>4, <1>6, <1>7 DEF Next

\* One Setup creates the user; its password changes only for who presented the one on record.
THEOREM UserIsSetUpOnce == Spec => SetupOnce
    <1> DEFINE Kept == user # Nobody =>
                 /\ user' # Nobody
                 /\ user'.password # user.password =>
                      \E p \in Proc : /\ pc[p] = "revoking" /\ req[p].kind = "password_change"
                                      /\ req[p].password = seen[p].read.password
    <1>1. ASSUME SessionsInv, Next PROVE Kept
        <2> SUFFICES ASSUME user # Nobody PROVE Kept
            OBVIOUS
        <2>1. ASSUME NEW p \in Proc, RevokeAll(p), req[p].kind # "refresh"
              PROVE  /\ pc[p] = "revoking" /\ req[p].kind = "password_change"
                     /\ req[p].password = seen[p].read.password
            BY <1>1, <2>1 DEF RevokeAll, SessionsInv, RequestOK
        <2> QED BY <1>1, <2>1, UserWriters
    <1>2. SessionsInv /\ [Next]_vars => [Kept]_vars
        BY <1>1
    <1> QED BY <1>2, InvariantHolds, PTL DEF Spec, SetupOnce
=============================================================================
