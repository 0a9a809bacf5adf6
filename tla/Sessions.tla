------------------------------ MODULE Sessions ------------------------------
(***************************************************************************)
(* The owner's account, its lockout and its sessions.  A session is a row  *)
(* of refresh_tokens: a login inserts one, a refresh replaces it, and a    *)
(* logout, a revocation, a password change and the reuse of a replaced     *)
(* token revoke it.  Requests read rows by statements of their own and act *)
(* on them later; an UPDATE sees the rows committed when it starts, waits  *)
(* for those that another transaction holds, and looks at them again.      *)
(* Passwords, tokens and their hashes are values; times are ticks.         *)
(***************************************************************************)
EXTENDS Integers, Sequences, FiniteSets, FiniteSetsExt

CONSTANTS
    Proc,         \* requests in flight at the same time
    Password,     \* passwords the policy accepts
    Threshold,    \* loginLockoutThreshold
    Delays,       \* loginLockoutDelays
    Lifetime,     \* how long a refresh token lives
    Nobody,       \* no user, no request, no token, no time
    MaxTime,      \* bound: the last tick of the clock
    MaxTokens,    \* bound: tokens issued in a behaviour
    MaxRequests   \* bound: requests started in a behaviour

ASSUME LockoutAssumption ==
    /\ Threshold \in Nat \ {0} /\ Delays \in Seq(Nat \ {0}) /\ Len(Delays) > 0
    /\ Lifetime \in Nat /\ MaxTime \in Nat /\ MaxTokens \in Nat /\ MaxRequests \in Nat

Reason == {"logout", "manual", "password_change", "reuse_detected", "rotated"}

User == [password : Password, failed : Nat, lockedUntil : Nat \union {Nobody}]

\* of is the token it replaced: what the table does not keep.
Token == [expiresAt : Nat, revoked : Reason \union {Nobody}, of : Nat \union {Nobody}]

ASSUME NobodyAssumption ==
    /\ Nobody \notin Proc /\ Nobody \notin Nat /\ Nobody \notin User /\ Nobody \notin Reason

VARIABLES
    user,       \* table users: the one row that Setup creates
    tokens,     \* table refresh_tokens, in order of creation
    userLock,   \* the holder of the user's row lock
    tokenLock,  \* the tokens whose row a transaction holds
    pc, req,    \* the stage of a request and what it asks for
    seen,       \* the user or token it has read
    rows,       \* the tokens its UPDATE saw when it started
    clock,
    failures,   \* failed password checks recorded since the last clearing
    started     \* requests so far

vars == <<user, tokens, userLock, tokenLock, pc, req, seen, rows, clock, failures, started>>
tables == <<user, tokens, userLock, tokenLock, failures>>

-----------------------------------------------------------------------------
Ids == 1..Len(tokens)

IsActive(t, now) == t.revoked = Nobody /\ now < t.expiresAt

Idle(p) == pc[p] = "idle" /\ started < MaxRequests

\* A request with its first read; now is the time it uses from then on.
Begin(p, r, stage, read) ==
    /\ pc' = [pc EXCEPT ![p] = stage]
    /\ req' = [req EXCEPT ![p] = r]
    /\ seen' = [seen EXCEPT ![p] = [read |-> read, now |-> clock]]
    /\ started' = started + 1
    /\ UNCHANGED <<rows, clock>>
    /\ UNCHANGED tables

Goto(p, stage) ==
    /\ pc' = [pc EXCEPT ![p] = stage]
    /\ UNCHANGED <<req, seen, rows, clock, started>>

Return(p) ==
    /\ pc' = [pc EXCEPT ![p] = "idle"]
    /\ req' = [req EXCEPT ![p] = Nobody]
    /\ seen' = [seen EXCEPT ![p] = Nobody]
    /\ rows' = [rows EXCEPT ![p] = {}]
    /\ UNCHANGED <<clock, started>>

\* Locks of p end with its transaction.
Released(p) ==
    /\ userLock' = IF userLock = p THEN Nobody ELSE userLock
    /\ tokenLock' = [t \in DOMAIN tokenLock |-> IF tokenLock[t] = p THEN Nobody ELSE tokenLock[t]]

Refuse(p) == Return(p) /\ UNCHANGED tables

NewToken(now, of) == [expiresAt |-> now + Lifetime, revoked |-> Nobody, of |-> of]

Insert(token) ==
    /\ Len(tokens) < MaxTokens
    /\ tokens' = Append(tokens, token)
    /\ tokenLock' = Append(tokenLock, Nobody)

-----------------------------------------------------------------------------
(* Setup: the first user, under an advisory lock. *)

BeginSetup(p, w) ==
    /\ Idle(p) /\ user = Nobody
    /\ Begin(p, [kind |-> "setup", password |-> w], "setup", Nobody)

\* Mutant: the users are only counted before the lock.
SetupUnchecked(p) == TRUE

SetupAllowed(p) == user = Nobody

Setup(p) ==
    /\ pc[p] = "setup" /\ SetupAllowed(p)
    /\ user' = [password |-> req[p].password, failed |-> 0, lockedUntil |-> Nobody]
    /\ Insert(NewToken(seen[p].now, Nobody))
    /\ failures' = 0
    /\ Return(p) /\ UNCHANGED userLock

SetupComplete(p) == pc[p] = "setup" /\ ~SetupAllowed(p) /\ Refuse(p)

-----------------------------------------------------------------------------
(* Login by password or passkey: the user as it was when the request read it. *)

BeginLogin(p, r) ==
    /\ Idle(p) /\ r.kind \in {"login", "passkey_login"} /\ user # Nobody
    /\ Begin(p, r, "confirm", user)

UserLocked(u) == u.lockedUntil # Nobody /\ clock < u.lockedUntil

LoginLocked(p) == pc[p] = "confirm" /\ UserLocked(seen[p].read) /\ Refuse(p)

\* ConfirmPassword, or a verified passkey; only a user with failures is cleared.
Confirm(p) ==
    /\ pc[p] = "confirm" /\ ~UserLocked(seen[p].read)
    /\ pc' = [pc EXCEPT ![p] =
                IF req[p].kind = "login" /\ req[p].password # seen[p].read.password THEN "record"
                ELSE IF seen[p].read.failed = 0 /\ seen[p].read.lockedUntil = Nobody THEN "issue"
                ELSE "clear"]
    /\ seen' = [seen EXCEPT ![p].now = clock]
    /\ UNCHANGED <<req, rows, clock, started>>
    /\ UNCHANGED tables

loginLockoutUntil(now, attempts) ==
    IF attempts < Threshold THEN Nobody
    ELSE now + Delays[Min({attempts - Threshold, Len(Delays) - 1}) + 1]

\* Mutant: the attempts are counted from the user that was read.
CountFromRead(p) == seen[p].read.failed + 1

Attempts(p) == user.failed + 1

\* SELECT ... FOR UPDATE, UPDATE and COMMIT on the user's row.
RecordLoginFailure(p) ==
    /\ pc[p] = "record" /\ userLock = Nobody
    /\ user' = [user EXCEPT !.failed = Attempts(p),
                            !.lockedUntil = loginLockoutUntil(seen[p].now, Attempts(p))]
    /\ failures' = failures + 1
    /\ Return(p) /\ UNCHANGED <<tokens, userLock, tokenLock>>

ClearLoginFailures(p) ==
    /\ pc[p] = "clear" /\ userLock = Nobody
    /\ user' = [user EXCEPT !.failed = 0, !.lockedUntil = Nobody]
    /\ failures' = 0
    /\ Goto(p, "issue") /\ UNCHANGED <<tokens, userLock, tokenLock>>

IssueSession(p) ==
    /\ pc[p] = "issue"
    /\ Insert(NewToken(clock, Nobody))
    /\ Return(p) /\ UNCHANGED <<user, userLock, failures>>

-----------------------------------------------------------------------------
(* Refresh and logout: the token of the cookie. *)

BeginRefresh(p, t) ==
    /\ Idle(p) /\ Begin(p, [kind |-> "refresh", token |-> t], "refresh", tokens[t])

\* A revoked row always has its reason: migration 000016 wrote "rotated" into the older rows, and
\* every UPDATE since then writes one.  The code's case of a row without a reason says the same.
isRefreshTokenReuseCandidate(t) == t.revoked = "rotated"

\* What the token was when it was read decides: replace it, revoke all, or refuse.
CheckToken(p) ==
    LET t == seen[p].read
    IN /\ pc[p] = "refresh"
       /\ \/ IsActive(t, seen[p].now) /\ Goto(p, "rotate") /\ UNCHANGED tables
          \/ /\ ~IsActive(t, seen[p].now) /\ isRefreshTokenReuseCandidate(t)
             /\ Goto(p, "revoke_all") /\ UNCHANGED tables
          \/ ~IsActive(t, seen[p].now) /\ ~isRefreshTokenReuseCandidate(t) /\ Refuse(p)

Free(t) == tokenLock[t] = Nobody

\* Mutant: the UPDATE does not ask for revoked_at IS NULL.
UnrevokedAssumed(t) == TRUE

\* WHERE ... AND revoked_at IS NULL
Unrevoked(t) == tokens[t].revoked = Nobody

\* Rotate: the UPDATE of the old row holds it; the rest is visible at COMMIT.
RotateOld(p) ==
    /\ pc[p] = "rotate" /\ Free(req[p].token) /\ Unrevoked(req[p].token)
    /\ tokenLock' = [tokenLock EXCEPT ![req[p].token] = p]
    /\ Goto(p, "rotated") /\ UNCHANGED <<user, tokens, userLock, failures>>

AlreadyRotated(p) ==
    /\ pc[p] = "rotate" /\ Free(req[p].token) /\ ~Unrevoked(req[p].token) /\ Refuse(p)

\* buildSession took the new token's time between the read and the transaction.
CommitRotation(p) ==
    LET t == req[p].token
    IN /\ pc[p] = "rotated" /\ Len(tokens) < MaxTokens
       /\ \E now \in seen[p].now..clock :
            tokens' = Append([tokens EXCEPT ![t].revoked = "rotated"], NewToken(now, t))
       /\ tokenLock' = Append([tokenLock EXCEPT ![t] = Nobody], Nobody)
       /\ Return(p) /\ UNCHANGED <<user, userLock, failures>>

\* Logout and RevokeSession: one UPDATE of one row.
BeginLogout(p, t) == Idle(p) /\ Begin(p, [kind |-> "logout", token |-> t], "revoke", tokens[t])

\* JWTAuth first: the session of the access token is active.
ValidateSession(session) == IsActive(tokens[session], clock)

BeginRevokeSession(p, session, t) ==
    /\ Idle(p) /\ ValidateSession(session)
    /\ Begin(p, [kind |-> "manual", token |-> t], "revoke", tokens[t])

Revoke(p) ==
    /\ pc[p] = "revoke" /\ Free(req[p].token) /\ Unrevoked(req[p].token)
    /\ tokens' = [tokens EXCEPT ![req[p].token].revoked = req[p].kind]
    /\ Return(p) /\ UNCHANGED <<user, userLock, tokenLock, failures>>

RevokeNotFound(p) ==
    pc[p] = "revoke" /\ Free(req[p].token) /\ ~Unrevoked(req[p].token) /\ Refuse(p)

-----------------------------------------------------------------------------
(* Password change and the end of all sessions. *)

BeginChangePassword(p, session, old, new) ==
    /\ Idle(p) /\ ValidateSession(session)
    /\ Begin(p, [kind |-> "password_change", password |-> old, new |-> new], "authorized", Nobody)

ReadUser(p) ==
    /\ pc[p] = "authorized"
    /\ pc' = [pc EXCEPT ![p] = "change"]
    /\ seen' = [seen EXCEPT ![p].read = user]
    /\ UNCHANGED <<req, rows, clock, started>>
    /\ UNCHANGED tables

RefuseChange(p) ==
    /\ pc[p] = "change"
    /\ seen[p].read.password # req[p].password \/ req[p].new = req[p].password
    /\ Refuse(p)

\* The UPDATE of the user's row holds it until the sessions are revoked.
LockUser(p) ==
    /\ pc[p] = "change" /\ userLock = Nobody
    /\ seen[p].read.password = req[p].password /\ req[p].new # req[p].password
    /\ userLock' = p
    /\ Goto(p, "revoke_all") /\ UNCHANGED <<user, tokens, tokenLock, failures>>

\* Mutant: only the sessions that have not expired.
ActiveOnly(p) == {t \in Ids : IsActive(tokens[t], seen[p].now)}

\* The rows the UPDATE of all sessions finds when it starts.
RowsToRevoke(p) == {t \in Ids : Unrevoked(t)}

StartRevokeAll(p) ==
    /\ pc[p] = "revoke_all"
    /\ rows' = [rows EXCEPT ![p] = RowsToRevoke(p)]
    /\ pc' = [pc EXCEPT ![p] = "revoking"]
    /\ UNCHANGED <<req, seen, clock, started>>
    /\ UNCHANGED tables

AllReason(p) == IF req[p].kind = "refresh" THEN "reuse_detected" ELSE "password_change"

\* A row it saw is looked at again and skipped when it was revoked meanwhile.
Ends(p, t) == t \in rows[p] /\ Unrevoked(t)

\* It waits for the rows that are held.
RevokeAll(p) ==
    /\ pc[p] = "revoking" /\ \A t \in rows[p] : Free(t)
    /\ tokens' = [t \in Ids |-> IF Ends(p, t) THEN [tokens[t] EXCEPT !.revoked = AllReason(p)]
                                ELSE tokens[t]]
    /\ IF req[p].kind = "refresh" THEN UNCHANGED <<user, failures>>
       ELSE /\ user' = [password |-> req[p].new, failed |-> 0, lockedUntil |-> Nobody]
            /\ failures' = 0
    /\ Released(p) /\ Return(p)

-----------------------------------------------------------------------------
\* A statement fails, the client goes or the server stops: open transactions roll back.
Abort(p) ==
    /\ pc[p] # "idle"
    /\ Released(p) /\ Return(p) /\ UNCHANGED <<user, tokens, failures>>

Tick == clock < MaxTime /\ clock' = clock + 1 /\ UNCHANGED <<pc, req, seen, rows, started>> /\ UNCHANGED tables

Init ==
    /\ user = Nobody /\ tokens = <<>> /\ userLock = Nobody /\ tokenLock = <<>>
    /\ pc = [p \in Proc |-> "idle"]
    /\ req = [p \in Proc |-> Nobody] /\ seen = [p \in Proc |-> Nobody]
    /\ rows = [p \in Proc |-> {}]
    /\ clock = 0 /\ failures = 0 /\ started = 0

Arrive(p) ==
    \/ \E w \in Password : BeginSetup(p, w)
    \/ \E w \in Password : BeginLogin(p, [kind |-> "login", password |-> w])
    \/ BeginLogin(p, [kind |-> "passkey_login"])
    \/ \E t \in Ids : BeginRefresh(p, t) \/ BeginLogout(p, t)
    \/ \E s, t \in Ids : BeginRevokeSession(p, s, t)
    \/ \E s \in Ids, old, new \in Password : BeginChangePassword(p, s, old, new)

Proceed(p) ==
    \/ Setup(p) \/ SetupComplete(p)
    \/ LoginLocked(p) \/ Confirm(p) \/ RecordLoginFailure(p) \/ ClearLoginFailures(p) \/ IssueSession(p)
    \/ CheckToken(p) \/ RotateOld(p) \/ AlreadyRotated(p) \/ CommitRotation(p)
    \/ Revoke(p) \/ RevokeNotFound(p)
    \/ ReadUser(p) \/ RefuseChange(p) \/ LockUser(p) \/ StartRevokeAll(p) \/ RevokeAll(p)

Next == (\E p \in Proc : Arrive(p) \/ Proceed(p) \/ Abort(p)) \/ Tick

Spec == Init /\ [][Next]_vars

-----------------------------------------------------------------------------
(* Properties. *)

Stage == {"idle", "setup", "confirm", "record", "clear", "issue", "refresh", "rotate", "rotated",
          "revoke", "authorized", "change", "revoke_all", "revoking"}

\* Rows and requests hold values of their types, and a lock of a row belongs to a request at work.
TypeOK ==
    /\ user \in User \union {Nobody}
    /\ tokens \in Seq(Token)
    /\ tokenLock \in Seq(Proc \union {Nobody}) /\ Len(tokenLock) = Len(tokens)
    /\ userLock \in Proc \union {Nobody}
    /\ pc \in [Proc -> Stage]
    /\ DOMAIN req = Proc /\ DOMAIN seen = Proc
    /\ rows \in [Proc -> SUBSET Ids]
    /\ \A t \in Ids : tokenLock[t] # Nobody =>
         pc[tokenLock[t]] = "rotated" /\ req[tokenLock[t]].token = t
    /\ userLock # Nobody => pc[userLock] \in {"revoke_all", "revoking"}
    /\ clock \in Nat /\ failures \in Nat /\ started \in Nat

\* Only one Setup ever creates the user, however many first visitors race: a user that exists
\* keeps its password unless its own password change replaces it.
SetupOnce ==
    [][user # Nobody =>
         /\ user' # Nobody
         /\ user'.password # user.password =>
              \E p \in Proc : /\ pc[p] = "revoking" /\ req[p].kind = "password_change"
                              /\ req[p].password = seen[p].read.password]_vars

\* A session is a line: a token is replaced at most once, what was replaced is revoked as
\* "rotated", and of each login at most one token is not revoked, also when two refreshes
\* present the same token (Rotate revokes only a row that is not revoked).
SessionsAreLines ==
    \A t, u \in Ids : tokens[u].of = t =>
        /\ tokens[t].revoked = "rotated"
        /\ \A v \in Ids : tokens[v].of = t => v = u

\* What revoked a token stays on record, whichever revocations race: the reason decides whether
\* its reuse ends all sessions (every UPDATE asks for revoked_at IS NULL).
RevokedForGood ==
    [][\A t \in Ids : tokens[t].revoked # Nobody => tokens'[t] = tokens[t]]_vars

\* Token t was issued since the UPDATE of p started.
Since(p, t) == \A u \in rows[p] : u < t

\* And so was the token it replaced, or a refresh replaced that under the eyes of the UPDATE.
Outlives(p, t) ==
    Since(p, t) /\ (tokens[t].of \in rows[p] \union {Nobody} \/ Since(p, tokens[t].of))

\* A password change and a detected reuse leave no token that existed when their UPDATE started,
\* those included that have expired or that another request was revoking at the time.  A token
\* that outlives them was issued since then, by a login or by a refresh that was replacing one of
\* those they saw, or descends from such a one (RevokeByUser, ChangePasswordAndRevokeSessions).
OnlyNewTokensOutlive ==
    [][\A p \in Proc : RevokeAll(p) =>
         \A t \in Ids : tokens'[t].revoked = Nobody => Outlives(p, t)]_vars

\* The token of the login that the session of t began with.
LoginOf(t) ==
    LET first[u \in Ids] == IF tokens[u].of = Nobody THEN u ELSE first[tokens[u].of]
    IN first[t]

\* "Reuse of a revoked refresh token revokes the full session family for that user" and "password
\* change revokes all active refresh sessions" (docs/wiki/Auth-Security-Model.md): no session that
\* was there when their UPDATE started goes on after it.  The UPDATE does not see the successor
\* that a refresh commits while it waits for the row (RevokeByUser, Rotate).
EverySessionEnds ==
    [][\A p \in Proc : RevokeAll(p) =>
         \A t \in Ids, u \in rows[p] : tokens'[t].revoked = Nobody => LoginOf(t) # LoginOf(u)]_vars

\* No failed password check is lost, also when several are recorded at the same time, and the
\* user is locked exactly from the Threshold-th on (RecordLoginFailure reads under the lock).
FailuresCount ==
    user # Nobody => /\ user.failed = failures
                     /\ (user.lockedUntil # Nobody) = (user.failed >= Threshold)

-----------------------------------------------------------------------------
(* The inductive invariant behind the theorems of SessionsProofs. *)

\* What a request relies on at each of its stages.
RequestOK(p) ==
    /\ seen[p] = [read |-> seen[p].read, now |-> seen[p].now] /\ seen[p].now \in Nat
    /\ pc[p] = "setup" => req[p].password \in Password
    /\ pc[p] \in {"confirm", "record", "clear"} => user # Nobody
    /\ pc[p] \in {"refresh", "rotate", "rotated", "revoke"} => req[p].token \in Ids
    /\ pc[p] = "refresh" => req[p].kind = "refresh"
    /\ pc[p] = "revoke" => req[p].kind \in {"logout", "manual"}
    /\ pc[p] \in {"authorized", "change"} =>
         req[p].kind = "password_change" /\ req[p].new \in Password
    /\ pc[p] \in {"revoke_all", "revoking"} =>
         \/ req[p].kind = "refresh"
         \/ /\ req[p].kind = "password_change" /\ req[p].new \in Password
            /\ req[p].password = seen[p].read.password
    /\ pc[p] = "rotated" => tokenLock[req[p].token] = p /\ Unrevoked(req[p].token)
    /\ pc[p] = "revoking" => \A t \in Ids \ rows[p] : Unrevoked(t) => Outlives(p, t)

SessionsInv ==
    /\ TypeOK
    /\ \A p \in Proc : pc[p] # "idle" => RequestOK(p)
    /\ \A t \in Ids : tokens[t].of \in Ids \union {Nobody}
    /\ SessionsAreLines
    /\ FailuresCount
=============================================================================
