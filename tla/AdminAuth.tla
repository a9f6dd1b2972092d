----------------------------- MODULE AdminAuth -----------------------------
(***************************************************************************)
(* Accounts and sessions of the admin panel: the routes of                   *)
(* apps/api/src/auth.js, the queries of packages/db/src/repo/admin.js and    *)
(* the reset and disable commands of scripts/admin.js, which run in a        *)
(* process of their own.                                                     *)
(*                                                                           *)
(* Every SQL statement is atomic and nothing larger is: there are no         *)
(* transactions.  A step is one statement with the code that runs on its     *)
(* result, and requests interleave between statements.  A request goes on    *)
(* from the row it has read, whatever the account is by then.                *)
(*                                                                           *)
(* Left out: audit rows, the user agent and ip of a session, the rate limit  *)
(* of the login route, and roles (read afresh for every request).            *)
(***************************************************************************)
EXTENDS Integers, FiniteSets

CONSTANTS
    Requests,
    Admins,
    Sessions,           \* session ids, newId('ses')
    Passwords,
    Secrets,            \* TOTP secrets
    RecoveryCodes,      \* recovery codes, as they are shown to the admin
    Operations,         \* bound: the operations that arrive
    None,               \* NULL, or an absent field
    LockThreshold,      \* failed logins that lock an account (5)
    LockDuration,       \* 15 minutes, in ticks
    AccessTtl,          \* ACCESS_TTL_S, in ticks
    RefreshTtl,         \* REFRESH_TTL_S, in ticks
    MaxTime             \* bound of the clock

SessionOps == {"logout", "revokeOne", "revokeOthers"}
TwoFactorOps == {"setup2fa", "enable2fa", "disable2fa"}
CliOps == {"reset", "disable"}

ASSUME AuthAssumption ==
    /\ Operations \subseteq {"login", "refresh"} \union SessionOps
                              \union TwoFactorOps \union CliOps
    /\ None \notin Admins \union Sessions \union Passwords \union Secrets
                     \union RecoveryCodes
    /\ Secrets \intersect RecoveryCodes = {}
    /\ LockThreshold \in Nat \ {0}
    /\ LockDuration \in Nat \ {0}
    /\ AccessTtl \in Nat /\ RefreshTtl \in Nat /\ MaxTime \in Nat

VARIABLES
    now,        \* the clock, in ticks
    account,    \* admin_users
    session,    \* admin_sessions; an id nobody owns is not in the table
    pc,         \* the statement a request waits for, or how it ended
    req,        \* what the request asks for
    row,        \* the admin_users row the request has read
    failures,   \* history: failed logins since the last success or reset
    clean,      \* history: the last reset has revoked all there was to revoke
    barred      \* history: what has stood against a request since it arrived

vars == <<now, account, session, pc, req, row, failures, clean, barred>>

Ends == {"answered", "refused", "failed"}
Pcs == {"idle", "lookUp", "penalise", "clear", "recover", "issue",
        "findSession", "findAdmin", "revokeOld",
        "authAdmin", "authSession", "revoke", "read", "write",
        "cliUpdate", "cliRevoke"} \union Ends

\* A code is hashed with its dash when it is stored and without when it is used.
StoredHash(code) == [code |-> code, dashed |-> TRUE]
UsedHash(code) == [code |-> code, dashed |-> FALSE]

Locked(acc, t) == acc.lockedUntil > t

\* verifyCredentials() on the row it has selected.
Verifies(acc, password, t) ==
    acc.status = "active" /\ ~ Locked(acc, t) /\ acc.password = password

\* 2FA is asked for only if the row has a secret too.
AsksForCode(acc) == acc.enabled /\ acc.secret # None

\* Mutant: an account locks one failure late.
AfterFailedLoginLate(acc, t) ==
    [acc EXCEPT !.failed = @ + 1,
                !.lockedUntil = IF acc.failed >= LockThreshold THEN t + LockDuration ELSE 0]

\* recordFailedLogin(): fewer failures than the threshold clear the lock.
AfterFailedLogin(acc, t) ==
    [acc EXCEPT !.failed = @ + 1,
                !.lockedUntil = IF acc.failed + 1 >= LockThreshold THEN t + LockDuration ELSE 0]

\* The check of authenticate and of refresh: neither revoked nor expired.
Usable(s, t) ==
    s.owner # None /\ ~ s.revoked /\ t <= s.issued + RefreshTtl

Owned(a) == {s \in Sessions : session[s].owner = a}

\* revokeSession() and revokeAllSessions().
AfterRevoking(S) == [s \in Sessions |->
    IF s \in S THEN [session[s] EXCEPT !.revoked = TRUE] ELSE session[s]]

NoRequest == [op |-> "none", admin |-> None, session |-> None, target |-> None,
              password |-> None, code |-> None]

\* A new account, or one that has 2FA enabled.
FreshAccount(p) == [password |-> p, status |-> "active", failed |-> 0,
                    lockedUntil |-> 0, secret |-> None, enabled |-> FALSE, codes |-> {}]

ProtectedAccount(p, s) == [FreshAccount(p) EXCEPT !.secret = s, !.enabled = TRUE,
                              !.codes = {StoredHash(c) : c \in RecoveryCodes}]

StartAccounts == {FreshAccount(p) : p \in Passwords}
                    \union {ProtectedAccount(p, s) : p \in Passwords, s \in Secrets}

Unused == [owner |-> None, issued |-> 0, revoked |-> FALSE, password |-> None]

\* The session of an earlier login, or none.
StartSession(a) ==
    IF a = None THEN Unused
    ELSE [Unused EXCEPT !.owner = a, !.password = account[a].password]
-----------------------------------------------------------------------------
Init ==
    /\ now = 0
    /\ account \in [Admins -> StartAccounts]
    /\ \E owner \in [Sessions -> Admins \union {None}] :
          session = [s \in Sessions |-> StartSession(owner[s])]
    /\ pc = [r \in Requests |-> "idle"]
    /\ req = [r \in Requests |-> NoRequest]
    /\ row = [r \in Requests |-> None]
    /\ failures = [a \in Admins |-> [count |-> 0, last |-> 0]]
    /\ clean = [a \in Admins |-> TRUE]
    /\ barred = [r \in Requests |-> {}]

Goto(r, place) == pc' = [pc EXCEPT ![r] = place]

Receive(r, ask, place) ==
    /\ pc[r] = "idle"
    /\ ask.op \in Operations
    /\ req' = [req EXCEPT ![r] = ask]
    /\ Goto(r, place)
    /\ UNCHANGED <<now, account, session, row, failures, clean>>

\* A step that only reads, and goes on or gives up.
Check(r, place, ok, next) ==
    /\ pc[r] = place
    /\ Goto(r, IF ok THEN next ELSE "refused")
    /\ UNCHANGED <<now, account, session, req, row, failures, clean>>

\* --- POST /auth/login ---
LoginArrives(r) ==
    \E a \in Admins, p \in Passwords, c \in Secrets \union RecoveryCodes \union {None} :
        Receive(r, [NoRequest EXCEPT !.op = "login", !.admin = a, !.password = p, !.code = c],
                "lookUp")

\* verifyCredentials: the SELECT, and the checks on the row.
LookUp(r) ==
    LET acc == account[req[r].admin] IN
    /\ pc[r] = "lookUp"
    /\ row' = [row EXCEPT ![r] = acc]
    /\ Goto(r, IF Verifies(acc, req[r].password, now) THEN "clear" ELSE "penalise")
    /\ UNCHANGED <<now, account, session, req, failures, clean>>

Penalise(r) ==
    LET a == req[r].admin IN
    /\ pc[r] = "penalise"
    /\ account' = [account EXCEPT ![a] = AfterFailedLogin(@, now)]
    /\ failures' = [failures EXCEPT ![a] = [count |-> @.count + 1, last |-> now]]
    /\ Goto(r, "refused")
    /\ UNCHANGED <<now, session, req, row, clean>>

\* Mutant: an account with 2FA accepts any code that is sent.
AfterPasswordAnyCode(r) ==
    IF ~ AsksForCode(row[r]) THEN "issue"
    ELSE IF req[r].code = None THEN "refused" ELSE "issue"

\* What follows the password: nothing, the TOTP code, or a recovery code.
AfterPassword(r) ==
    CASE ~ AsksForCode(row[r]) -> "issue"
      [] AsksForCode(row[r]) /\ req[r].code = None -> "refused"
      [] AsksForCode(row[r]) /\ req[r].code = row[r].secret -> "issue"
      [] OTHER -> "recover"

\* verifyCredentials: the UPDATE, and the code check on the row read before.
\* A lock that came up meanwhile stays, with no failures counted.
Clear(r) ==
    LET a == req[r].admin IN
    /\ pc[r] = "clear"
    /\ account' = [account EXCEPT ![a].failed = 0]
    /\ failures' = [failures EXCEPT ![a] = [count |-> 0, last |-> 0]]
    /\ Goto(r, AfterPassword(r))
    /\ UNCHANGED <<now, session, req, row, clean>>

\* array_remove of the hash of the code, if it is there.
Recover(r) ==
    LET a == req[r].admin
        hash == UsedHash(req[r].code)
    IN
    /\ pc[r] = "recover"
    /\ account' = [account EXCEPT ![a].codes = @ \ {hash}]
    /\ Goto(r, IF hash \in account[a].codes THEN "issue" ELSE "refused")
    /\ UNCHANGED <<now, session, req, row, failures, clean>>

\* issueSession, of login and of refresh.
Issue(r) ==
    LET origin == IF req[r].op = "login" THEN req[r].password
                  ELSE session[req[r].session].password
    IN
    /\ pc[r] = "issue"
    /\ \E s \in Owned(None) :
          session' = [session EXCEPT ![s] =
              [owner |-> req[r].admin, issued |-> now, revoked |-> FALSE, password |-> origin]]
    /\ Goto(r, "answered")
    /\ UNCHANGED <<now, account, req, row, failures, clean>>

\* --- POST /auth/refresh: the cookie names a session ---
RefreshArrives(r) ==
    \E s \in Sessions \ Owned(None) :
        Receive(r, [NoRequest EXCEPT !.op = "refresh", !.session = s, !.admin = session[s].owner],
                "findSession")

FindSession(r) ==
    Check(r, "findSession", Usable(session[req[r].session], now), "findAdmin")

FindAdmin(r) ==
    Check(r, "findAdmin", account[req[r].admin].status = "active", "revokeOld")

\* How many rows were revoked is not looked at.
RevokeOld(r) ==
    /\ pc[r] = "revokeOld"
    /\ session' = AfterRevoking({req[r].session})
    /\ Goto(r, "issue")
    /\ UNCHANGED <<now, account, req, row, failures, clean>>

\* --- authenticated requests: the access token names session and owner ---
ApiArrives(r) ==
    \E op \in SessionOps \union TwoFactorOps, s \in Sessions \ Owned(None),
       t \in Sessions \union {None}, c \in Secrets \union {None} :
        /\ op = "revokeOne" <=> t # None
        /\ op \notin {"enable2fa", "disable2fa"} => c = None
        /\ Receive(r, [NoRequest EXCEPT !.op = op, !.session = s, !.admin = session[s].owner,
                                        !.target = t, !.code = c],
                   IF now <= session[s].issued + AccessTtl THEN "authAdmin" ELSE "refused")

AuthAdmin(r) ==
    Check(r, "authAdmin", account[req[r].admin].status = "active", "authSession")

\* Mutant: the session's expiry is checked, its revocation is not.
AuthSessionExpiryOnly(r) ==
    Check(r, "authSession", now <= session[req[r].session].issued + RefreshTtl,
          IF req[r].op \in TwoFactorOps THEN "read" ELSE "revoke")

AuthSession(r) ==
    Check(r, "authSession", Usable(session[req[r].session], now),
          IF req[r].op \in TwoFactorOps THEN "read" ELSE "revoke")

\* Mutant: the revocation is not scoped to the caller.
RevokedByUnscoped(r) ==
    CASE req[r].op = "logout" -> {req[r].session}
      [] req[r].op = "revokeOne" -> {req[r].target}
      [] OTHER -> Owned(req[r].admin) \ {req[r].session}

RevokedBy(r) ==
    CASE req[r].op = "logout" -> {req[r].session}
      [] req[r].op = "revokeOne" -> {req[r].target} \intersect Owned(req[r].admin)
      [] OTHER -> Owned(req[r].admin) \ {req[r].session}

\* Revoking one session answers 404 if there was nothing to revoke.
Revoke(r) ==
    /\ pc[r] = "revoke"
    /\ session' = AfterRevoking(RevokedBy(r))
    /\ Goto(r, IF req[r].op = "revokeOne" /\ session' = session THEN "refused" ELSE "answered")
    /\ UNCHANGED <<now, account, req, row, failures, clean>>

\* --- 2FA: the handler reads the account again, then writes ---
Read(r) ==
    LET acc == account[req[r].admin]
        op == req[r].op
    IN
    /\ pc[r] = "read"
    /\ row' = [row EXCEPT ![r] = acc]
    /\ Goto(r, CASE op = "setup2fa" /\ acc.enabled -> "refused"
                 [] op = "setup2fa" /\ ~ acc.enabled -> "write"
                 [] op = "disable2fa" /\ ~ acc.enabled -> "answered"
                 [] op = "disable2fa" /\ acc.enabled /\ acc.secret = None -> "failed"
                 [] op = "enable2fa" /\ acc.secret = None -> "refused"
                 [] OTHER -> IF req[r].code = acc.secret THEN "write" ELSE "refused")
    /\ UNCHANGED <<now, account, session, req, failures, clean>>

\* The UPDATE has no condition on what was read.
Write(r) ==
    LET a == req[r].admin IN
    /\ pc[r] = "write"
    /\ CASE req[r].op = "setup2fa" ->
              \E s \in Secrets \ {account[a].secret} :
                  account' = [account EXCEPT ![a].secret = s]
         [] req[r].op = "enable2fa" ->
              account' = [account EXCEPT ![a].enabled = TRUE,
                                         ![a].codes = {StoredHash(c) : c \in RecoveryCodes}]
         [] req[r].op = "disable2fa" ->
              account' = [account EXCEPT ![a].enabled = FALSE, ![a].secret = None,
                                         ![a].codes = {}]
    /\ Goto(r, "answered")
    /\ UNCHANGED <<now, session, req, row, failures, clean>>

\* --- scripts/admin.js reset and disable ---
CliStarts(r) ==
    \E op \in CliOps, a \in Admins, p \in Passwords \union {None} :
        /\ op = "reset" <=> p # None
        /\ Receive(r, [NoRequest EXCEPT !.op = op, !.admin = a, !.password = p], "cliUpdate")

CliUpdate(r) ==
    LET a == req[r].admin IN
    /\ pc[r] = "cliUpdate"
    /\ IF req[r].op = "reset"
       THEN /\ account' = [account EXCEPT ![a].password = req[r].password, ![a].failed = 0,
                                          ![a].lockedUntil = 0, ![a].status = "active"]
            /\ failures' = [failures EXCEPT ![a] = [count |-> 0, last |-> 0]]
            /\ clean' = [clean EXCEPT ![a] = FALSE]
       ELSE /\ account' = [account EXCEPT ![a].status = "disabled"]
            /\ UNCHANGED <<failures, clean>>
    /\ Goto(r, "cliRevoke")
    /\ UNCHANGED <<now, session, req, row>>

\* A login or refresh of a that is past its checks and has not issued yet.
Issuing(r, a) ==
    req[r].admin = a /\ pc[r] \in {"clear", "recover", "issue", "findAdmin", "revokeOld"}

\* Mutant: the command revokes what authenticated admins may: all but one.
CliRevokeSparesOne(r) ==
    LET a == req[r].admin IN
    /\ pc[r] = "cliRevoke"
    /\ \E s \in Owned(a) : session' = AfterRevoking(Owned(a) \ {s})
    /\ clean' = [clean EXCEPT ![a] = ~ \E other \in Requests : Issuing(other, a)]
    /\ Goto(r, "answered")
    /\ UNCHANGED <<now, account, req, row, failures>>

CliRevoke(r) ==
    LET a == req[r].admin IN
    /\ pc[r] = "cliRevoke"
    /\ session' = AfterRevoking(Owned(a))
    /\ clean' = [clean EXCEPT ![a] = ~ \E other \in Requests : Issuing(other, a)]
    /\ Goto(r, "answered")
    /\ UNCHANGED <<now, account, req, row, failures>>

\* A statement fails, or the process dies: what was written stays.
Abort(r) ==
    /\ pc[r] \notin Ends \union {"idle"}
    /\ Goto(r, "failed")
    /\ UNCHANGED <<now, account, session, req, row, failures, clean>>

Tick ==
    /\ now < MaxTime
    /\ now' = now + 1
    /\ UNCHANGED <<account, session, pc, req, row, failures, clean>>

\* What stands against a request, as things are now.
Obstacles(r) ==
    LET a == req[r].admin
        acc == account[a]
        old == session[req[r].session]
    IN  CASE req[r].op = "login" ->
               {o \in {"disabled", "locked", "password", "code"} :
                   \/ o = "disabled" /\ acc.status # "active"
                   \/ o = "locked" /\ Locked(acc, now)
                   \/ o = "password" /\ acc.password # req[r].password
                   \/ o = "code" /\ AsksForCode(acc) /\ req[r].code # acc.secret
                                 /\ UsedHash(req[r].code) \notin acc.codes}
          [] req[r].op \in {"refresh"} \union SessionOps \union TwoFactorOps ->
               {o \in {"disabled", "ended"} :
                   \/ o = "disabled" /\ acc.status # "active"
                   \/ o = "ended" /\ ~ Usable(old, now)}
          [] OTHER -> {}

\* History: an obstacle counts if it was there on arrival and at all times since.
Remember ==
    barred' = [r \in Requests |->
        IF pc[r] # "idle" THEN barred[r] \intersect Obstacles(r)' ELSE Obstacles(r)']

Step(r) ==
    \/ LoginArrives(r) \/ LookUp(r) \/ Penalise(r) \/ Clear(r) \/ Recover(r) \/ Issue(r)
    \/ RefreshArrives(r) \/ FindSession(r) \/ FindAdmin(r) \/ RevokeOld(r)
    \/ ApiArrives(r) \/ AuthAdmin(r) \/ AuthSession(r) \/ Revoke(r) \/ Read(r) \/ Write(r)
    \/ CliStarts(r) \/ CliUpdate(r) \/ CliRevoke(r) \/ Abort(r)

Next == (Tick \/ \E r \in Requests : Step(r)) /\ Remember

Spec == Init /\ [][Next]_vars
-----------------------------------------------------------------------------
(* Properties *)

Accounts == [password : Passwords, status : {"active", "disabled"}, failed : Nat,
             lockedUntil : Nat, secret : Secrets \union {None}, enabled : BOOLEAN,
             codes : SUBSET [code : RecoveryCodes, dashed : BOOLEAN]]

\* Types of the state.
TypeOK ==
    /\ now \in Nat
    /\ account \in [Admins -> Accounts]
    /\ session \in [Sessions -> [owner : Admins \union {None}, issued : Nat,
                                 revoked : BOOLEAN, password : Passwords \union {None}]]
    /\ pc \in [Requests -> Pcs]
    /\ req \in [Requests -> [op : Operations \union {"none"}, admin : Admins \union {None},
                             session : Sessions \union {None}, target : Sessions \union {None},
                             password : Passwords \union {None},
                             code : Secrets \union RecoveryCodes \union {None}]]
    /\ row \in [Requests -> Accounts \union {None}]
    /\ failures \in [Admins -> [count : Nat, last : Nat]]
    /\ clean \in [Admins -> BOOLEAN]

\* A login against which something has stood from its arrival on (the account
\* disabled or locked, the password wrong, the second factor missing) gets no
\* session, although the checks are spread over four statements and the later
\* ones look at a row read before.
BarredLoginsGetNoSession ==
    \A r \in Requests :
        req[r].op = "login" /\ barred[r] # {} => pc[r] \notin {"issue", "answered"}

\* A request whose account was disabled or whose session was over when it
\* arrived, and has not been restored since, never reaches its handler: a
\* session once revoked neither authenticates nor refreshes again.
EndedSessionsAreRefused ==
    \A r \in Requests :
        req[r].op # "login" /\ barred[r] # {} =>
            pc[r] \notin {"revokeOld", "issue", "revoke", "read", "write", "answered"}

\* LockThreshold failed logins with no success in between leave the account
\* locked for LockDuration after the last one, in whichever order concurrent
\* attempts reach the database.
ConsecutiveFailuresLock ==
    \A a \in Admins :
        failures[a].count >= LockThreshold =>
            account[a].lockedUntil = failures[a].last + LockDuration

\* Once a reset has completed with no login or refresh half-way through, every
\* session that is still usable goes back to a login with the new password.
ResetEndsOldSessions ==
    \A s \in Sessions :
        LET a == session[s].owner IN
        Usable(session[s], now) /\ clean[a] => session[s].password = account[a].password

\* Through the API a session is revoked only on behalf of its owner.
OnlyOwnersRevoke ==
    [][\A s \in Sessions :
          session'[s].revoked /\ ~ session[s].revoked =>
              \E r \in Requests : /\ pc'[r] # pc[r]
                                  /\ req[r].admin = session[s].owner]_vars

\* auth.js names the recovery codes a fallback that is "single use, stored
\* hashed": a login that submits one of the stored codes passes.
RecoveryCodesAreAccepted ==
    [][\A r \in Requests :
          /\ pc[r] = "recover" /\ pc'[r] \in {"issue", "refused"}
          /\ StoredHash(req[r].code) \in account[req[r].admin].codes
          => pc'[r] = "issue"]_vars
=============================================================================
