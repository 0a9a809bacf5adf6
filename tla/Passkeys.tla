------------------------------ MODULE Passkeys ------------------------------
(***************************************************************************)
(* Registration and login by passkey.  A ceremony takes two requests: the  *)
(* options store a challenge, and the verification consumes it and then    *)
(* creates a credential or issues a session.  Every statement commits by   *)
(* itself, so requests interleave between any two of them.  Challenges are *)
(* numbers; signatures are left out.  An authenticator reports any sign    *)
(* count, as a clone of it may.  The password check of a registration and  *)
(* the lockout of a login are those of Sessions: here they only end a      *)
(* request.                                                                *)
(***************************************************************************)
EXTENDS Integers, Sequences, Functions

CONSTANTS
    Proc,          \* requests in flight at the same time
    Credential,    \* credential ids of authenticators
    TTL,           \* challengeTTL
    CleanupEvery,  \* the time between two clean-ups
    Nobody,        \* no row, no time, no request
    MaxCount,      \* bound: the largest sign count an authenticator reports
    MaxTime,       \* bound: the last tick of the clock
    MaxRequests    \* bound: requests started in a behaviour

ASSUME TimesAssumption ==
    /\ TTL \in Nat /\ CleanupEvery \in Nat \ {0}
    /\ MaxCount \in Nat /\ MaxTime \in Nat /\ MaxRequests \in Nat

Ceremony == {"login", "registration"}
ChallengeRow == [ceremony : Ceremony, expiresAt : Nat, usedAt : Nat \union {Nobody}]
CredentialRow == [name : {"default", "renamed"}, signCount : Nat, cloneWarning : BOOLEAN,
                  lastUsed : Nat \union {Nobody}, revoked : BOOLEAN]
YieldRow == [of : Ceremony, made : Seq(Ceremony)]

ASSUME NobodyAssumption == Nobody \notin Nat /\ Nobody \notin CredentialRow

VARIABLES
    challenges,   \* table webauthn_challenges: the rows that exist
    issued,       \* challenges so far
    credentials,  \* table passkey_credentials, by its unique credential_id
    lastCleanup,  \* in memory, behind cleanupMu
    pc, req, now, \* the stage of a request, what it asks for, the time it has read
    clock,
    yields,       \* what came of every challenge so far: its ceremony, the credentials and sessions
    started       \* requests so far

vars == <<challenges, issued, credentials, lastCleanup, pc, req, now, clock, yields, started>>

-----------------------------------------------------------------------------
Start(p, r, stage) ==
    /\ pc[p] = "idle" /\ started < MaxRequests
    /\ started' = started + 1
    /\ pc' = [pc EXCEPT ![p] = stage] /\ req' = [req EXCEPT ![p] = r] /\ now' = [now EXCEPT ![p] = clock]
    /\ UNCHANGED <<challenges, issued, credentials, lastCleanup, clock, yields>>

Goto(p, stage) == pc' = [pc EXCEPT ![p] = stage] /\ UNCHANGED <<req, now, clock, started>>

Return(p) ==
    /\ pc' = [pc EXCEPT ![p] = "idle"] /\ req' = [req EXCEPT ![p] = Nobody] /\ now' = [now EXCEPT ![p] = Nobody]
    /\ UNCHANGED <<clock, started>>

-----------------------------------------------------------------------------
(* Options: clean up now and then, and store a challenge. *)

BeginOptions(p, ceremony) == Start(p, [ceremony |-> ceremony], "cleanup")

CleanupDue(p) == lastCleanup # Nobody => now[p] - lastCleanup >= CleanupEvery

\* The time was read before the mutex, so a slow request may bring an old one.
cleanupChallenges(p) ==
    /\ pc[p] = "cleanup"
    /\ \/ CleanupDue(p) /\ lastCleanup' = now[p] /\ Goto(p, "delete")
       \/ ~CleanupDue(p) /\ UNCHANGED lastCleanup /\ Goto(p, "store")
    /\ UNCHANGED <<challenges, issued, credentials, yields>>

\* Mutant: the comparison is the wrong way round.
ExpiredReversed(row, before) == row.expiresAt > before \/ row.usedAt # Nobody

\* WHERE expires_at < $1 OR used_at IS NOT NULL
Expired(row, before) == row.expiresAt < before \/ row.usedAt # Nobody

DeleteExpiredChallenges(p) ==
    /\ pc[p] = "delete"
    /\ challenges' = Restrict(challenges, {i \in DOMAIN challenges : ~Expired(challenges[i], now[p])})
    /\ Goto(p, "store") /\ UNCHANGED <<issued, credentials, lastCleanup, yields>>

\* A failed clean-up is only audited.
DeleteFails(p) ==
    pc[p] = "delete" /\ Goto(p, "store")
    /\ UNCHANGED <<challenges, issued, credentials, lastCleanup, yields>>

storeChallenge(p) ==
    /\ pc[p] = "store"
    /\ issued' = issued + 1
    /\ challenges' = [i \in DOMAIN challenges \union {issued + 1} |->
                        IF i = issued + 1
                        THEN [ceremony |-> req[p].ceremony, expiresAt |-> clock + TTL, usedAt |-> Nobody]
                        ELSE challenges[i]]
    /\ yields' = Append(yields, [of |-> req[p].ceremony, made |-> <<>>])
    /\ Return(p) /\ UNCHANGED <<credentials, lastCleanup>>

-----------------------------------------------------------------------------
(* Verification: consume the challenge of the answer, then act on its credential. *)

Yield(p, what) == yields' = [yields EXCEPT ![req[p].challenge].made = Append(@, what)]

\* A client answers any challenge it ever got, in time or late, once or again.
BeginVerify(p, ceremony, i, c, count) ==
    /\ i <= issued
    /\ Start(p, [ceremony |-> ceremony, challenge |-> i, credential |-> c, count |-> count, read |-> Nobody],
             "consume")

\* Mutant: a used challenge is found again.
ConsumableAgain(i, ceremony) ==
    i \in DOMAIN challenges /\ challenges[i].ceremony = ceremony /\ challenges[i].expiresAt > clock

Consumable(i, ceremony) ==
    /\ i \in DOMAIN challenges /\ challenges[i].ceremony = ceremony
    /\ challenges[i].usedAt = Nobody /\ challenges[i].expiresAt > clock

ConsumeChallenge(p) ==
    LET i == req[p].challenge
    IN /\ pc[p] = "consume" /\ Consumable(i, req[p].ceremony)
       /\ challenges' = [challenges EXCEPT ![i].usedAt = clock]
       /\ Goto(p, IF req[p].ceremony = "login" THEN "validate" ELSE "create")
       /\ UNCHANGED <<issued, credentials, lastCleanup, yields>>

InvalidChallenge(p) ==
    /\ pc[p] = "consume" /\ ~Consumable(req[p].challenge, req[p].ceremony)
    /\ Return(p) /\ UNCHANGED <<challenges, issued, credentials, lastCleanup, yields>>

Registered(count) ==
    [name |-> "default", signCount |-> count, cloneWarning |-> FALSE, lastUsed |-> Nobody, revoked |-> FALSE]

\* INSERT; the unique index on credential_id keeps revoked ones too.
CreateCredential(p) ==
    /\ pc[p] = "create" /\ credentials[req[p].credential] = Nobody
    /\ credentials' = [credentials EXCEPT ![req[p].credential] = Registered(req[p].count)]
    /\ Yield(p, "registration")
    /\ Return(p) /\ UNCHANGED <<challenges, issued, lastCleanup>>

CredentialCollision(p) ==
    /\ pc[p] = "create" /\ credentials[req[p].credential] # Nobody
    /\ Return(p) /\ UNCHANGED <<challenges, issued, credentials, lastCleanup, yields>>

\* Mutant: revoked_at is not asked for.
FoundAnyway(c) == credentials[c] # Nobody

\* WHERE ... AND revoked_at IS NULL
Active(c) == credentials[c] # Nobody /\ ~credentials[c].revoked

\* The row is read here, and what the login will write is calculated from it.
discoverableUserHandler(p) ==
    LET c == req[p].credential
    IN /\ pc[p] = "validate"
       /\ \/ Active(c) /\ pc' = [pc EXCEPT ![p] = "touch"] /\ req' = [req EXCEPT ![p].read = credentials[c]]
             /\ UNCHANGED <<now, clock, started>>
          \/ ~Active(c) /\ Return(p)
       /\ UNCHANGED <<challenges, issued, credentials, lastCleanup, yields>>

\* Mutant: the reported count is taken over without a comparison.
CounterTakenOver(row, count) == [row EXCEPT !.signCount = count]

\* Authenticator.UpdateCounter of the library: a count that has not grown is a warning.
UpdateCounter(row, count) ==
    IF count <= row.signCount /\ (count # 0 \/ row.signCount # 0)
    THEN [row EXCEPT !.cloneWarning = TRUE]
    ELSE [row EXCEPT !.signCount = count]

\* The credential may have been revoked since it was read: then there is no login.
UpdateCredentialAfterLogin(p) ==
    LET c == req[p].credential
        checked == UpdateCounter(req[p].read, req[p].count)
    IN /\ pc[p] = "touch"
       /\ \/ /\ Active(c)
             /\ credentials' = [credentials EXCEPT ![c].signCount = checked.signCount,
                                                   ![c].cloneWarning = checked.cloneWarning,
                                                   ![c].lastUsed = clock]
             /\ Goto(p, "issue")
          \/ ~Active(c) /\ UNCHANGED credentials /\ Return(p)
       /\ UNCHANGED <<challenges, issued, lastCleanup, yields>>

IssueSessionForUser(p) ==
    /\ pc[p] = "issue" /\ Yield(p, "login")
    /\ Return(p) /\ UNCHANGED <<challenges, issued, credentials, lastCleanup>>

-----------------------------------------------------------------------------
(* Management, each one UPDATE, and what ends requests. *)

Rename(c) ==
    /\ Active(c) /\ credentials' = [credentials EXCEPT ![c].name = "renamed"]
    /\ UNCHANGED <<challenges, issued, lastCleanup, pc, req, now, clock, yields, started>>

Delete(c) ==
    /\ Active(c) /\ credentials' = [credentials EXCEPT ![c].revoked = TRUE]
    /\ UNCHANGED <<challenges, issued, lastCleanup, pc, req, now, clock, yields, started>>

\* A statement fails, a signature does not verify, the user is locked or the client is gone.
Abort(p) ==
    pc[p] # "idle" /\ Return(p)
    /\ UNCHANGED <<challenges, issued, credentials, lastCleanup, yields>>

\* The server restarts: what was in memory is gone.
Restart ==
    /\ pc' = [p \in Proc |-> "idle"] /\ req' = [p \in Proc |-> Nobody] /\ now' = [p \in Proc |-> Nobody]
    /\ lastCleanup' = Nobody
    /\ UNCHANGED <<challenges, issued, credentials, clock, yields, started>>

Tick ==
    /\ clock < MaxTime /\ clock' = clock + 1
    /\ UNCHANGED <<challenges, issued, credentials, lastCleanup, pc, req, now, yields, started>>

\* Some passkeys were registered earlier.
Init ==
    /\ challenges = [i \in {} |-> Nobody] /\ issued = 0
    /\ credentials \in [Credential -> {Nobody, Registered(1)}] /\ lastCleanup = Nobody
    /\ pc = [p \in Proc |-> "idle"] /\ req = [p \in Proc |-> Nobody] /\ now = [p \in Proc |-> Nobody]
    /\ clock = 0 /\ yields = <<>> /\ started = 0

Step(p) ==
    \/ \E k \in Ceremony : BeginOptions(p, k)
    \/ cleanupChallenges(p) \/ DeleteExpiredChallenges(p) \/ DeleteFails(p) \/ storeChallenge(p)
    \/ \E k \in Ceremony, i \in 1..issued, c \in Credential, n \in 0..MaxCount : BeginVerify(p, k, i, c, n)
    \/ ConsumeChallenge(p) \/ InvalidChallenge(p) \/ CreateCredential(p) \/ CredentialCollision(p)
    \/ discoverableUserHandler(p) \/ UpdateCredentialAfterLogin(p) \/ IssueSessionForUser(p)
    \/ Abort(p)

Next == (\E p \in Proc : Step(p)) \/ (\E c \in Credential : Rename(c) \/ Delete(c)) \/ Restart \/ Tick

Spec == Init /\ [][Next]_vars

-----------------------------------------------------------------------------
(* Properties. *)

Stage == {"idle", "cleanup", "delete", "store", "consume", "create", "validate", "touch", "issue"}

\* Tables and requests hold values of their types.
TypeOK ==
    /\ issued \in Nat /\ DOMAIN challenges \subseteq 1..issued
    /\ yields \in Seq(YieldRow) /\ Len(yields) = issued
    /\ \A i \in DOMAIN challenges : challenges[i] \in ChallengeRow
    /\ credentials \in [Credential -> CredentialRow \union {Nobody}]
    /\ lastCleanup \in Nat \union {Nobody}
    /\ pc \in [Proc -> Stage] /\ DOMAIN req = Proc /\ DOMAIN now = Proc
    /\ clock \in Nat /\ started \in Nat

\* A challenge yields one credential or one session at most, and only what it was issued for,
\* however many verifications bring it at once, late or again after its row was deleted
\* (ConsumeChallenge finds and marks the row in one UPDATE).
ChallengeUsedOnce ==
    \A i \in DOMAIN yields : yields[i].made \in {<<>>, <<yields[i].of>>}

\* The clean-up of one request never takes the challenge that another one is still to answer:
\* a row goes only when it was used or its time is over (DeleteExpiredChallenges).
LiveChallengesKept ==
    [][\A i \in DOMAIN challenges :
         challenges[i].usedAt = Nobody /\ clock <= challenges[i].expiresAt => i \in DOMAIN challenges']_vars

\* A deleted passkey is final: no login that read it before, no renaming and no second
\* registration changes or revives it (revoked_at IS NULL in every UPDATE, the unique index).
RevokedForGood ==
    [][\A c \in Credential :
         credentials[c] # Nobody /\ credentials[c].revoked => credentials'[c] = credentials[c]]_vars

Counter(row) == <<row.signCount, row.cloneWarning>>

\* The sign count of a passkey falls, or its clone warning is lost, only to a login that overlapped
\* another one: it wrote what it had calculated from a row that was replaced in between
\* (VerifyLogin reads and writes in two statements).  Logins one after the other never do that,
\* whatever counts the authenticator or a clone of it reports.
OnlyOverlapLosesCounts ==
    [][\A c \in Credential :
         /\ credentials[c] # Nobody
         /\ \/ credentials'[c].signCount < credentials[c].signCount
            \/ credentials[c].cloneWarning /\ ~credentials'[c].cloneWarning
         => \E p \in Proc : /\ pc[p] = "touch" /\ req[p].credential = c
                            /\ Counter(req[p].read) # Counter(credentials[c])]_vars

-----------------------------------------------------------------------------
(* The inductive invariant behind the theorems of PasskeysProofs. *)

Consumed == {"create", "validate", "touch", "issue"}

VerifyRequest ==
    [ceremony : Ceremony, challenge : 1..issued, credential : Credential, count : Nat,
     read : CredentialRow \union {Nobody}]

\* What a request relies on at each of its stages.
RequestOK(p) ==
    /\ now[p] \in Nat /\ now[p] <= clock
    /\ pc[p] \in {"cleanup", "delete", "store"} => req[p].ceremony \in Ceremony
    /\ pc[p] \in {"consume"} \union Consumed => req[p] \in VerifyRequest
    /\ pc[p] = "create" => req[p].ceremony = "registration"
    /\ pc[p] \in {"validate", "touch", "issue"} => req[p].ceremony = "login"
    /\ pc[p] = "touch" => req[p].read \in CredentialRow

\* A request that consumed its challenge has it to itself: the row is used or gone, nothing came
\* of it yet, and no other request consumed it.
OwnsChallenge(p) ==
    LET i == req[p].challenge
    IN /\ yields[i].made = <<>> /\ yields[i].of = req[p].ceremony
       /\ i \in DOMAIN challenges => challenges[i].usedAt # Nobody
       /\ \A q \in Proc \ {p} : pc[q] \in Consumed => req[q].challenge # i

\* Nothing came of a challenge that was not consumed.
UnusedRows ==
    \A i \in DOMAIN challenges :
        /\ challenges[i].ceremony = yields[i].of
        /\ challenges[i].usedAt = Nobody => yields[i].made = <<>>

PasskeysInv ==
    /\ TypeOK
    /\ \A p \in Proc : pc[p] # "idle" => RequestOK(p)
    /\ \A p \in Proc : pc[p] \in Consumed => OwnsChallenge(p)
    /\ UnusedRows
    /\ ChallengeUsedOnce
=============================================================================
