-------------------------- MODULE AdminAuthProofs --------------------------
(***************************************************************************)
(* Proofs about AdminAuth, for any accounts, sessions, passwords, second     *)
(* factors and concurrent requests, any lock threshold and durations, and    *)
(* any bound of the clock.                                                   *)
(***************************************************************************)
EXTENDS AdminAuth, TLAPS

-----------------------------------------------------------------------------
(* The inductive invariant *)

ApiOps == SessionOps \union TwoFactorOps

\* What a request asks for, by the statement it waits for.  A request that
\* presents a session presents one of its own account.
Shape(r) ==
    /\ pc[r] = "idle" => req[r].op = "none"
    /\ pc[r] # "idle" => req[r].op # "none" /\ req[r].admin \in Admins
    /\ pc[r] \in {"lookUp", "penalise", "clear", "recover"} => req[r].op = "login"
    /\ pc[r] \in {"findSession", "findAdmin", "revokeOld"} => req[r].op = "refresh"
    /\ pc[r] = "issue" => req[r].op \in {"login", "refresh"}
    /\ pc[r] \in {"authAdmin", "authSession"} => req[r].op \in ApiOps
    /\ pc[r] = "revoke" => req[r].op \in SessionOps
    /\ pc[r] \in {"read", "write"} => req[r].op \in TwoFactorOps
    /\ pc[r] \in {"cliUpdate", "cliRevoke"} => req[r].op \in CliOps
    /\ req[r].op \in {"login", "reset"} => req[r].password \in Passwords
    /\ req[r].op \in {"refresh"} \union ApiOps =>
          req[r].session \in Sessions /\ session[req[r].session].owner = req[r].admin
    /\ pc[r] = "clear" => row[r] \in Accounts

\* Each check a request has passed has struck one thing off what can still
\* have stood against it since it arrived.
Struck(r) ==
    /\ barred[r] \subseteq Obstacles(r)
    /\ req[r].op = "login" =>
          /\ pc[r] \in {"clear", "recover"} => barred[r] \subseteq {"code"}
          /\ pc[r] = "clear" /\ "code" \in barred[r] =>
                AsksForCode(row[r]) /\ req[r].code # row[r].secret
          /\ pc[r] \in {"issue", "answered"} => barred[r] = {}
    /\ req[r].op = "refresh" =>
          /\ pc[r] = "findAdmin" => "ended" \notin barred[r]
          /\ pc[r] \in {"revokeOld", "issue", "answered"} => barred[r] = {}
    /\ req[r].op \in ApiOps =>
          /\ pc[r] = "authSession" => "disabled" \notin barred[r]
          /\ pc[r] \in {"revoke", "read", "write", "answered"} => barred[r] = {}

\* The column counts the failures since the last success or reset.
Counted == \A a \in Admins : account[a].failed = failures[a].count

\* The password behind the session a request is about to be given.
Origin(r) == IF req[r].op = "login" THEN req[r].password
             ELSE session[req[r].session].password

\* While an account is clean, what is being issued has the current password.
CleanIssues ==
    \A r \in Requests, a \in Admins :
        clean[a] /\ Issuing(r, a) => Origin(r) = account[a].password

IInv ==
    /\ TypeOK
    /\ \A r \in Requests : Shape(r) /\ Struck(r)
    /\ Counted /\ ConsecutiveFailuresLock
    /\ CleanIssues /\ ResetEndsOldSessions

-----------------------------------------------------------------------------
(* Types, and what a step leaves alone *)

\* The accounts a behaviour starts with are accounts.
LEMMA AccountTypes ==
    ASSUME NEW p \in Passwords
    PROVE  /\ FreshAccount(p) \in Accounts
           /\ \A s \in Secrets : ProtectedAccount(p, s) \in Accounts
<1>1. {StoredHash(c) : c \in RecoveryCodes} \in SUBSET [code : RecoveryCodes, dashed : BOOLEAN]
  <2>1. \A c \in RecoveryCodes : StoredHash(c) \in [code : RecoveryCodes, dashed : BOOLEAN]
    BY DEF StoredHash
  <2>. QED
    BY <2>1
<1>2. FreshAccount(p) \in Accounts
  BY DEF FreshAccount, Accounts
<1>. QED
  BY <1>1, <1>2 DEF FreshAccount, ProtectedAccount, Accounts

\* A request moves nobody but itself.
LEMMA Others ==
    ASSUME TypeOK, NEW r \in Requests, Step(r), NEW q \in Requests, q # r
    PROVE  pc'[q] = pc[q] /\ req'[q] = req[q] /\ row'[q] = row[q]
<1>1. /\ pc \in [Requests -> Pcs]
      /\ req' = [req EXCEPT ![r] = req'[r]] \/ req' = req
      /\ row' = [row EXCEPT ![r] = row'[r]] \/ row' = row
      /\ pc' = [pc EXCEPT ![r] = pc'[r]]
  <2>1. pc \in [Requests -> Pcs] /\ DOMAIN req = Requests /\ DOMAIN row = Requests
    BY DEF TypeOK
  <2>2. CASE LoginArrives(r) \/ RefreshArrives(r) \/ ApiArrives(r) \/ CliStarts(r)
    <3>1. PICK ask, place : Receive(r, ask, place)
      BY <2>2 DEF LoginArrives, RefreshArrives, ApiArrives, CliStarts
    <3>. QED
      BY <2>1, <3>1 DEF Receive, Goto
  <2>3. CASE FindSession(r) \/ FindAdmin(r) \/ AuthAdmin(r) \/ AuthSession(r)
    BY <2>1, <2>3 DEF FindSession, FindAdmin, AuthAdmin, AuthSession, Check, Goto
  <2>4. CASE LookUp(r) \/ Read(r)
    BY <2>1, <2>4 DEF LookUp, Read, Goto
  <2>5. CASE Penalise(r) \/ Clear(r) \/ Recover(r) \/ Issue(r) \/ RevokeOld(r) \/ Abort(r)
    BY <2>1, <2>5 DEF Penalise, Clear, Recover, Issue, RevokeOld, Abort, Goto
  <2>6. CASE Revoke(r) \/ Write(r) \/ CliUpdate(r) \/ CliRevoke(r)
    BY <2>1, <2>6 DEF Revoke, Write, CliUpdate, CliRevoke, Goto
  <2>. QED
    BY <2>2, <2>3, <2>4, <2>5, <2>6 DEF Step
<1>2. req \in [Requests -> [op : Operations \union {"none"}, admin : Admins \union {None},
                             session : Sessions \union {None}, target : Sessions \union {None},
                             password : Passwords \union {None},
                             code : Secrets \union RecoveryCodes \union {None}]]
      /\ row \in [Requests -> Accounts \union {None}]
  BY DEF TypeOK
<1>. QED
  BY <1>1, <1>2

\* A revocation changes one column.
LEMMA Revoking ==
    ASSUME TypeOK, NEW S
    PROVE  LET after == AfterRevoking(S) IN
           /\ after \in [Sessions -> [owner : Admins \union {None}, issued : Nat,
                              revoked : BOOLEAN, password : Passwords \union {None}]]
           /\ \A s \in Sessions :
                 /\ after[s].owner = session[s].owner
                 /\ after[s].issued = session[s].issued
                 /\ after[s].password = session[s].password
                 /\ after[s].revoked <=> session[s].revoked \/ s \in S
<1> DEFINE after == AfterRevoking(S)
<1>1. ASSUME NEW s \in Sessions
      PROVE  /\ session[s] \in [owner : Admins \union {None}, issued : Nat,
                               revoked : BOOLEAN, password : Passwords \union {None}]
             /\ after[s] \in [owner : Admins \union {None}, issued : Nat,
                              revoked : BOOLEAN, password : Passwords \union {None}]
             /\ after[s].owner = session[s].owner
             /\ after[s].issued = session[s].issued
             /\ after[s].password = session[s].password
             /\ after[s].revoked <=> session[s].revoked \/ s \in S
  <2>1. session[s] \in [owner : Admins \union {None}, issued : Nat,
                       revoked : BOOLEAN, password : Passwords \union {None}]
    BY DEF TypeOK
  <2>2. CASE s \in S
    BY <2>1, <2>2 DEF AfterRevoking
  <2>3. CASE s \notin S
    BY <2>1, <2>3 DEF AfterRevoking
  <2>. QED
    BY <2>1, <2>2, <2>3
<1>2. after = [s \in Sessions |-> after[s]]
  BY DEF AfterRevoking
<1> HIDE DEF after
<1>3. after \in [Sessions -> [owner : Admins \union {None}, issued : Nat,
                             revoked : BOOLEAN, password : Passwords \union {None}]]
  BY <1>1, <1>2
<1>. QED
  BY <1>1, <1>3 DEF after

\* A session is created once: its owner, its password and its age stay, and
\* it is never un-revoked.
LEMMA SessionsStay ==
    ASSUME TypeOK, NEW r \in Requests, Step(r),
           NEW s \in Sessions, session[s].owner # None
    PROVE  /\ session'[s].owner = session[s].owner
           /\ session'[s].issued = session[s].issued
           /\ session'[s].password = session[s].password
           /\ session[s].revoked => session'[s].revoked
<1>1. CASE session' = session
  BY <1>1
<1>2. CASE Issue(r)
  BY <1>2 DEF Issue, Owned, TypeOK
<1>3. CASE \E S : session' = AfterRevoking(S)
  BY <1>3, Revoking
<1>4. session' = session \/ Issue(r) \/ \E S : session' = AfterRevoking(S)
  <2>1. CASE RevokeOld(r)
    BY <2>1 DEF RevokeOld
  <2>2. CASE Revoke(r)
    BY <2>2 DEF Revoke
  <2>3. CASE CliRevoke(r)
    BY <2>3 DEF CliRevoke
  <2>4. CASE LoginArrives(r) \/ RefreshArrives(r) \/ ApiArrives(r) \/ CliStarts(r)
    BY <2>4 DEF LoginArrives, RefreshArrives, ApiArrives, CliStarts, Receive
  <2>5. CASE \/ LookUp(r) \/ Penalise(r) \/ Clear(r) \/ Recover(r) \/ FindSession(r)
             \/ FindAdmin(r) \/ AuthAdmin(r) \/ AuthSession(r) \/ Read(r) \/ Write(r)
             \/ CliUpdate(r) \/ Abort(r)
    BY <2>5 DEF LookUp, Penalise, Clear, Recover, FindSession, FindAdmin, AuthAdmin,
                AuthSession, Read, Write, CliUpdate, Abort, Check
  <2>. QED
    BY <2>1, <2>2, <2>3, <2>4, <2>5 DEF Step
<1>. QED
  BY <1>1, <1>2, <1>3, <1>4

SessionRows == [owner : Admins \union {None}, issued : Nat,
                revoked : BOOLEAN, password : Passwords \union {None}]

Asks == [op : Operations \union {"none"}, admin : Admins \union {None},
         session : Sessions \union {None}, target : Sessions \union {None},
         password : Passwords \union {None},
         code : Secrets \union RecoveryCodes \union {None}]

\* What the steps that receive a request do.
LEMMA Arrivals ==
    ASSUME TypeOK, NEW r \in Requests,
           LoginArrives(r) \/ RefreshArrives(r) \/ ApiArrives(r) \/ CliStarts(r)
    PROVE  /\ pc[r] = "idle"
           /\ req' = [req EXCEPT ![r] = req'[r]] /\ req'[r] \in Asks
           /\ pc' = [pc EXCEPT ![r] = pc'[r]]
           /\ UNCHANGED <<now, account, session, row, failures, clean>>
           /\ req'[r].admin \in Admins
           /\ \/ pc'[r] = "lookUp" /\ req'[r].op = "login" /\ req'[r].password \in Passwords
              \/ /\ pc'[r] = "findSession" /\ req'[r].op = "refresh"
                 /\ req'[r].session \in Sessions
                 /\ session[req'[r].session].owner = req'[r].admin
              \/ /\ pc'[r] \in {"authAdmin", "refused"} /\ req'[r].op \in ApiOps
                 /\ req'[r].session \in Sessions
                 /\ session[req'[r].session].owner = req'[r].admin
              \/ /\ pc'[r] = "cliUpdate" /\ req'[r].op \in CliOps
                 /\ req'[r].op = "reset" => req'[r].password \in Passwords
<1>1. /\ req \in [Requests -> Asks] /\ pc \in [Requests -> Pcs]
      /\ session \in [Sessions -> SessionRows]
  BY DEF TypeOK, Asks, SessionRows
<1>2. ASSUME NEW ask \in Asks, NEW place, Receive(r, ask, place)
      PROVE  /\ pc[r] = "idle" /\ ask.op \in Operations
             /\ req' = [req EXCEPT ![r] = req'[r]] /\ req'[r] = ask
             /\ pc' = [pc EXCEPT ![r] = pc'[r]] /\ pc'[r] = place
             /\ UNCHANGED <<now, account, session, row, failures, clean>>
  BY <1>1, <1>2 DEF Receive, Goto
<1>3. ASSUME NEW s \in Sessions \ Owned(None)
      PROVE  session[s].owner \in Admins
  BY <1>1 DEF Owned, SessionRows
<1>4. CASE LoginArrives(r)
  <2>1. PICK a \in Admins, p \in Passwords, c \in Secrets \union RecoveryCodes \union {None} :
           Receive(r, [NoRequest EXCEPT !.op = "login", !.admin = a, !.password = p, !.code = c],
                   "lookUp")
    BY <1>4 DEF LoginArrives
  <2> DEFINE ask == [NoRequest EXCEPT !.op = "login", !.admin = a, !.password = p, !.code = c]
  <2>2. /\ "login" \in Operations => ask \in Asks
        /\ ask.op = "login" /\ ask.admin = a /\ ask.password = p
    BY DEF NoRequest, Asks
  <2>3. Receive(r, ask, "lookUp")
    BY <2>1
  <2>4. ask \in Asks
    BY <2>2, <2>3 DEF Receive
  <2> HIDE DEF ask
  <2>. QED
    BY <1>2, <2>2, <2>3, <2>4
<1>5. CASE RefreshArrives(r)
  <2>1. PICK s \in Sessions \ Owned(None) :
           Receive(r, [NoRequest EXCEPT !.op = "refresh", !.session = s,
                                        !.admin = session[s].owner], "findSession")
    BY <1>5 DEF RefreshArrives
  <2> DEFINE ask == [NoRequest EXCEPT !.op = "refresh", !.session = s,
                                      !.admin = session[s].owner]
  <2>2. /\ "refresh" \in Operations => ask \in Asks
        /\ ask.op = "refresh" /\ ask.admin = session[s].owner /\ ask.session = s
    BY <1>3 DEF NoRequest, Asks
  <2>3. Receive(r, ask, "findSession")
    BY <2>1
  <2>4. ask \in Asks
    BY <2>2, <2>3 DEF Receive
  <2> HIDE DEF ask
  <2>. QED
    BY <1>2, <1>3, <2>2, <2>3, <2>4
<1>6. CASE ApiArrives(r)
  <2>1. PICK op \in SessionOps \union TwoFactorOps, s \in Sessions \ Owned(None),
             t \in Sessions \union {None}, c \in Secrets \union {None} :
           Receive(r, [NoRequest EXCEPT !.op = op, !.session = s, !.admin = session[s].owner,
                                        !.target = t, !.code = c],
                   IF now <= session[s].issued + AccessTtl THEN "authAdmin" ELSE "refused")
    BY <1>6 DEF ApiArrives
  <2> DEFINE ask == [NoRequest EXCEPT !.op = op, !.session = s, !.admin = session[s].owner,
                                      !.target = t, !.code = c]
             place == IF now <= session[s].issued + AccessTtl THEN "authAdmin" ELSE "refused"
  <2>2. /\ op \in Operations => ask \in Asks
        /\ ask.op = op /\ ask.admin = session[s].owner /\ ask.session = s
    BY <1>3 DEF NoRequest, Asks
  <2>3. Receive(r, ask, place) /\ place \in {"authAdmin", "refused"} /\ op \in ApiOps
    BY <2>1 DEF ApiOps
  <2>4. ask \in Asks
    BY <2>2, <2>3 DEF Receive
  <2> HIDE DEF ask, place
  <2>. QED
    BY <1>2, <1>3, <2>2, <2>3, <2>4
<1>7. CASE CliStarts(r)
  <2>1. PICK op \in CliOps, a \in Admins, p \in Passwords \union {None} :
           /\ op = "reset" <=> p # None
           /\ Receive(r, [NoRequest EXCEPT !.op = op, !.admin = a, !.password = p], "cliUpdate")
    BY <1>7 DEF CliStarts
  <2> DEFINE ask == [NoRequest EXCEPT !.op = op, !.admin = a, !.password = p]
  <2>2. /\ op \in Operations => ask \in Asks
        /\ ask.op = op /\ ask.admin = a /\ ask.password = p
    BY DEF NoRequest, Asks
  <2>3. Receive(r, ask, "cliUpdate")
    BY <2>1
  <2>4. ask \in Asks
    BY <2>2, <2>3 DEF Receive
  <2> HIDE DEF ask
  <2>. QED
    BY <1>2, <2>1, <2>2, <2>3, <2>4
<1>. QED
  BY <1>4, <1>5, <1>6, <1>7

\* A checking step moves the request, and nothing else.
LEMMA Checks ==
    ASSUME TypeOK, NEW r \in Requests, NEW place, NEW ok, NEW next, Check(r, place, ok, next)
    PROVE  /\ pc[r] = place /\ pc' = [pc EXCEPT ![r] = pc'[r]]
           /\ pc'[r] = IF ok THEN next ELSE "refused"
           /\ UNCHANGED <<now, account, session, req, row, failures, clean>>
BY DEF Check, Goto, TypeOK

\* What the statements write into an account.
LEMMA AccountUpdates ==
    ASSUME NEW acc \in Accounts, NEW t \in Nat, NEW p \in Passwords, NEW S
    PROVE  /\ AfterFailedLogin(acc, t) \in Accounts
           /\ [acc EXCEPT !.failed = 0] \in Accounts
           /\ [acc EXCEPT !.codes = @ \ S] \in Accounts
           /\ [acc EXCEPT !.password = p, !.failed = 0, !.lockedUntil = 0,
                           !.status = "active"] \in Accounts
<1>1. AfterFailedLogin(acc, t) \in Accounts
  <2>1. acc.failed + 1 \in Nat
    BY DEF Accounts
  <2>2. \A u \in Nat : [acc EXCEPT !.failed = acc.failed + 1, !.lockedUntil = u] \in Accounts
    BY <2>1 DEF Accounts
  <2>3. (IF acc.failed + 1 >= LockThreshold THEN t + LockDuration ELSE 0) \in Nat
    BY AuthAssumption
  <2>. QED
    BY <2>2, <2>3 DEF AfterFailedLogin
<1>2. [acc EXCEPT !.failed = 0] \in Accounts
  BY DEF Accounts
<1>3. [acc EXCEPT !.codes = @ \ S] \in Accounts
  BY DEF Accounts
<1>4. [acc EXCEPT !.password = p, !.failed = 0, !.lockedUntil = 0, !.status = "active"] \in Accounts
  BY DEF Accounts
<1>. QED
  BY <1>1, <1>2, <1>3, <1>4

\* The typing of every variable, with the history of obstacles left out.
LEMMA TypeStep ==
    ASSUME IInv, NEW r \in Requests, Step(r)
    PROVE  TypeOK'
<1>1. /\ now \in Nat
      /\ account \in [Admins -> Accounts]
      /\ session \in [Sessions -> SessionRows]
      /\ pc \in [Requests -> Pcs]
      /\ req \in [Requests -> Asks]
      /\ row \in [Requests -> Accounts \union {None}]
      /\ failures \in [Admins -> [count : Nat, last : Nat]]
      /\ clean \in [Admins -> BOOLEAN]
  BY DEF IInv, TypeOK, SessionRows, Asks
<1>2. /\ LockThreshold \in Nat \ {0} /\ LockDuration \in Nat \ {0}
      /\ TypeOK /\ Shape(r)
  BY AuthAssumption DEF IInv
<1>3. SUFFICES /\ now' \in Nat
               /\ account' \in [Admins -> Accounts]
               /\ session' \in [Sessions -> SessionRows]
               /\ pc' \in [Requests -> Pcs]
               /\ req' \in [Requests -> Asks]
               /\ row' \in [Requests -> Accounts \union {None}]
               /\ failures' \in [Admins -> [count : Nat, last : Nat]]
               /\ clean' \in [Admins -> BOOLEAN]
  BY DEF TypeOK, SessionRows, Asks
<1>4. CASE LoginArrives(r) \/ RefreshArrives(r) \/ ApiArrives(r) \/ CliStarts(r)
  <2>1. /\ req' = [req EXCEPT ![r] = req'[r]] /\ req'[r] \in Asks
        /\ pc' = [pc EXCEPT ![r] = pc'[r]] /\ pc'[r] \in Pcs
        /\ UNCHANGED <<now, account, session, row, failures, clean>>
    BY <1>2, <1>4, Arrivals DEF Pcs, Ends
  <2>. QED
    BY <1>1, <2>1
<1>5. CASE FindSession(r) \/ FindAdmin(r) \/ AuthAdmin(r) \/ AuthSession(r)
  <2>1. ASSUME NEW place, NEW ok, NEW next \in Pcs, Check(r, place, ok, next)
        PROVE  /\ pc' = [pc EXCEPT ![r] = pc'[r]] /\ pc'[r] \in Pcs
               /\ UNCHANGED <<now, account, session, req, row, failures, clean>>
    BY <1>2, <2>1, Checks DEF Pcs, Ends
  <2>2. {"findAdmin", "revokeOld", "authSession", "read", "revoke"} \subseteq Pcs
    BY DEF Pcs
  <2>3. /\ pc' = [pc EXCEPT ![r] = pc'[r]] /\ pc'[r] \in Pcs
        /\ UNCHANGED <<now, account, session, req, row, failures, clean>>
    <3>1. CASE FindSession(r)
      BY <2>1, <2>2, <3>1 DEF FindSession
    <3>2. CASE FindAdmin(r)
      BY <2>1, <2>2, <3>2 DEF FindAdmin
    <3>3. CASE AuthAdmin(r)
      BY <2>1, <2>2, <3>3 DEF AuthAdmin
    <3>4. CASE AuthSession(r)
      BY <2>1, <2>2, <3>4 DEF AuthSession
    <3>. QED
      BY <1>5, <3>1, <3>2, <3>3, <3>4
  <2>. QED
    BY <1>1, <2>3
<1>6. CASE LookUp(r) \/ Read(r)
  <2>1. req[r].admin \in Admins
    BY <1>2, <1>6 DEF Shape, LookUp, Read
  <2>2. account[req[r].admin] \in Accounts
    BY <1>1, <2>1
  <2>3. /\ row' = [row EXCEPT ![r] = account[req[r].admin]]
        /\ UNCHANGED <<now, account, session, req, failures, clean>>
    BY <1>6 DEF LookUp, Read
  <2>4. pc' \in [Requests -> Pcs]
    <3>1. CASE LookUp(r)
      BY <1>1, <3>1 DEF LookUp, Goto, Pcs
    <3>2. CASE Read(r)
      <4>1. PICK p \in {"refused", "write", "answered", "failed"} : pc' = [pc EXCEPT ![r] = p]
        BY <3>2 DEF Read, Goto
      <4>. QED
        BY <1>1, <4>1 DEF Pcs, Ends
    <3>. QED
      BY <1>6, <3>1, <3>2
  <2>. QED
    BY <1>1, <2>2, <2>3, <2>4
<1>7. CASE Penalise(r)
  <2>1. req[r].admin \in Admins
    BY <1>2, <1>7 DEF Shape, Penalise
  <2>2. AfterFailedLogin(account[req[r].admin], now) \in Accounts
    <3>1. account[req[r].admin] \in Accounts /\ req[r].password \in Passwords
      BY <1>1, <1>2, <1>7, <2>1 DEF Shape, Penalise
    <3>. QED
      BY <1>1, <3>1, AccountUpdates
  <2>3. account' = [account EXCEPT ![req[r].admin] =
                        AfterFailedLogin(account[req[r].admin], now)]
    BY <1>7 DEF Penalise
  <2>4. account' \in [Admins -> Accounts]
    BY <1>1, <2>1, <2>2, <2>3
  <2>. QED
    BY <1>1, <1>7, <2>1, <2>4 DEF Penalise, Goto, Pcs, Ends
<1>8. CASE Clear(r)
  <2>1. req[r].admin \in Admins /\ AfterPassword(r) \in Pcs
    BY <1>2, <1>8 DEF Shape, Clear, AfterPassword, Pcs, Ends
  <2>2. account' \in [Admins -> Accounts]
    <3>1. account[req[r].admin] \in Accounts /\ req[r].password \in Passwords
      BY <1>1, <1>2, <1>8, <2>1 DEF Shape, Clear
    <3>2. [account[req[r].admin] EXCEPT !.failed = 0] \in Accounts
      BY <1>1, <3>1, AccountUpdates
    <3>3. account' = [account EXCEPT ![req[r].admin] = [account[req[r].admin] EXCEPT !.failed = 0]]
      BY <1>8 DEF Clear
    <3>. QED
      BY <1>1, <2>1, <3>2, <3>3
  <2>. QED
    BY <1>1, <1>8, <2>1, <2>2 DEF Clear, Goto
<1>9. CASE Recover(r)
  <2>1. req[r].admin \in Admins
    BY <1>2, <1>9 DEF Shape, Recover
  <2>2. [account[req[r].admin] EXCEPT !.codes = @ \ {UsedHash(req[r].code)}] \in Accounts
    <3>1. account[req[r].admin] \in Accounts /\ req[r].password \in Passwords
      BY <1>1, <1>2, <1>9, <2>1 DEF Shape, Recover
    <3>. QED
      BY <1>1, <3>1, AccountUpdates
  <2>3. account' = [account EXCEPT ![req[r].admin] =
                        [account[req[r].admin] EXCEPT !.codes = @ \ {UsedHash(req[r].code)}]]
    BY <1>9 DEF Recover
  <2>4. account' \in [Admins -> Accounts]
    BY <1>1, <2>1, <2>2, <2>3
  <2>. QED
    BY <1>1, <1>9, <2>4 DEF Recover, Goto, Pcs, Ends
<1>10. CASE Issue(r)
  <2>1. /\ req[r].admin \in Admins /\ req[r].op \in {"login", "refresh"}
        /\ req[r].op = "login" => req[r].password \in Passwords
        /\ req[r].op = "refresh" => req[r].session \in Sessions
    BY <1>2, <1>10 DEF Shape, Issue
  <2>2. PICK s \in Sessions, n \in SessionRows : session' = [session EXCEPT ![s] = n]
    <3> DEFINE n == [owner |-> req[r].admin, issued |-> now, revoked |-> FALSE,
                     password |-> IF req[r].op = "login" THEN req[r].password
                                  ELSE session[req[r].session].password]
    <3>1. n \in SessionRows
      BY <1>1, <2>1 DEF SessionRows
    <3>2. PICK s \in Owned(None) : session' = [session EXCEPT ![s] = n]
      BY <1>10 DEF Issue
    <3>3. s \in Sessions
      BY <3>2 DEF Owned
    <3> HIDE DEF n
    <3>. QED
      BY <3>1, <3>2, <3>3
  <2>. QED
    BY <1>1, <1>10, <2>2 DEF Issue, Goto, Pcs, Ends
<1>11. CASE RevokeOld(r) \/ Revoke(r) \/ CliRevoke(r)
  <2>1. /\ \E S : session' = AfterRevoking(S)
        /\ \E p \in {"issue", "refused", "answered"} : pc' = [pc EXCEPT ![r] = p]
        /\ UNCHANGED <<now, account, req, row, failures>>
    BY <1>11 DEF RevokeOld, Revoke, CliRevoke, Goto
  <2>2. session' \in [Sessions -> SessionRows]
    BY <1>2, <2>1, Revoking DEF SessionRows
  <2>3. clean' \in [Admins -> BOOLEAN]
    BY <1>1, <1>11 DEF RevokeOld, Revoke, CliRevoke
  <2>4. pc' \in [Requests -> Pcs]
    BY <1>1, <2>1 DEF Pcs, Ends
  <2>. QED
    BY <1>1, <2>1, <2>2, <2>3, <2>4
<1>12. CASE Write(r)
  <2>1. req[r].admin \in Admins /\ req[r].op \in TwoFactorOps
    BY <1>2, <1>12 DEF Shape, Write
  <2>2. {StoredHash(c) : c \in RecoveryCodes} \in SUBSET [code : RecoveryCodes, dashed : BOOLEAN]
    <3>1. \A c \in RecoveryCodes : StoredHash(c) \in [code : RecoveryCodes, dashed : BOOLEAN]
      BY DEF StoredHash
    <3>. QED
      BY <3>1
  <2>3. PICK acc \in Accounts : account' = [account EXCEPT ![req[r].admin] = acc]
    <3> DEFINE a == req[r].admin
    <3>1. account[a] \in Accounts
      BY <1>1, <2>1
    <3>2. CASE req[r].op = "setup2fa"
      <4>1. PICK s \in Secrets : account' = [account EXCEPT ![a] = [account[a] EXCEPT !.secret = s]]
        BY <1>12, <3>2 DEF Write
      <4>2. [account[a] EXCEPT !.secret = s] \in Accounts
        BY <3>1 DEF Accounts
      <4>. QED
        BY <4>1, <4>2
    <3>3. CASE req[r].op = "enable2fa"
      <4> DEFINE hashes == {StoredHash(c) : c \in RecoveryCodes}
      <4>1. account' = [account EXCEPT ![a] = [account[a] EXCEPT !.enabled = TRUE,
                                                                  !.codes = hashes]]
        BY <1>1, <1>12, <2>1, <3>3 DEF Write
      <4> HIDE DEF hashes
      <4>2. [account[a] EXCEPT !.enabled = TRUE, !.codes = hashes] \in Accounts
        BY <2>2, <3>1 DEF Accounts, hashes
      <4>. QED
        BY <4>1, <4>2
    <3>4. CASE req[r].op = "disable2fa"
      <4>1. account' = [account EXCEPT ![a] = [account[a] EXCEPT !.enabled = FALSE,
                                                                  !.secret = None, !.codes = {}]]
        BY <1>1, <1>12, <2>1, <3>4 DEF Write
      <4>2. [account[a] EXCEPT !.enabled = FALSE, !.secret = None, !.codes = {}] \in Accounts
        BY <3>1 DEF Accounts
      <4>. QED
        BY <4>1, <4>2
    <3>. QED
      BY <2>1, <3>2, <3>3, <3>4 DEF TwoFactorOps
  <2>. QED
    BY <1>1, <1>12, <2>3 DEF Write, Goto, Pcs, Ends
<1>13. CASE CliUpdate(r)
  <2>1. /\ req[r].admin \in Admins
        /\ req[r].op = "reset" => req[r].password \in Passwords
    BY <1>2, <1>13 DEF Shape, CliUpdate
  <2> DEFINE a == req[r].admin
  <2>2. account[a] \in Accounts
    BY <1>1, <2>1
  <2>3. CASE req[r].op = "reset"
    <3> DEFINE acc == [account[a] EXCEPT !.password = req[r].password, !.failed = 0,
                                         !.lockedUntil = 0, !.status = "active"]
    <3>1. acc \in Accounts
      BY <1>1, <2>1, <2>2, <2>3, AccountUpdates
    <3>2. account' = [account EXCEPT ![a] = acc]
      BY <1>1, <1>13, <2>1, <2>3 DEF CliUpdate
    <3>3. /\ failures' = [failures EXCEPT ![a] = [count |-> 0, last |-> 0]]
          /\ clean' = [clean EXCEPT ![a] = FALSE]
          /\ pc' = [pc EXCEPT ![r] = "cliRevoke"]
          /\ UNCHANGED <<now, session, req, row>>
      BY <1>13, <2>3 DEF CliUpdate, Goto
    <3> HIDE DEF acc
    <3>. QED
      BY <1>1, <2>1, <3>1, <3>2, <3>3 DEF Pcs
  <2>4. CASE req[r].op # "reset"
    <3>1. [account[a] EXCEPT !.status = "disabled"] \in Accounts
      BY <2>2 DEF Accounts
    <3>2. account' = [account EXCEPT ![a] = [account[a] EXCEPT !.status = "disabled"]]
      BY <1>13, <2>4 DEF CliUpdate
    <3>3. /\ pc' = [pc EXCEPT ![r] = "cliRevoke"]
          /\ UNCHANGED <<now, session, req, row, failures, clean>>
      BY <1>13, <2>4 DEF CliUpdate, Goto
    <3>. QED
      BY <1>1, <2>1, <3>1, <3>2, <3>3 DEF Pcs
  <2>. QED
    BY <2>3, <2>4
<1>14. CASE Abort(r)
  BY <1>1, <1>14 DEF Abort, Goto, Pcs, Ends
<1>. QED
  BY <1>4, <1>5, <1>6, <1>7, <1>8, <1>9, <1>10, <1>11, <1>12, <1>13, <1>14 DEF Step

\* Where a request that is under way can go, and what the step has checked.
LEMMA Moves ==
    ASSUME TypeOK, NEW r \in Requests, Step(r), pc[r] # "idle"
    PROVE  /\ req' = req
           /\ \/ pc'[r] \in {"refused", "failed"}
              \/ pc[r] = "lookUp" /\ pc'[r] = "penalise"
              \/ /\ pc[r] = "lookUp" /\ pc'[r] = "clear"
                 /\ Verifies(account[req[r].admin], req[r].password, now)
                 /\ row'[r] = account[req[r].admin] /\ account' = account
              \/ pc[r] = "clear" /\ pc'[r] = AfterPassword(r) /\ row' = row
              \/ /\ pc[r] = "recover" /\ pc'[r] = "issue"
                 /\ UsedHash(req[r].code) \in account[req[r].admin].codes
              \/ pc[r] = "issue" /\ pc'[r] = "answered"
              \/ /\ pc[r] = "findSession" /\ pc'[r] = "findAdmin"
                 /\ Usable(session[req[r].session], now)
                 /\ UNCHANGED <<account, session, clean>>
              \/ /\ pc[r] = "findAdmin" /\ pc'[r] = "revokeOld"
                 /\ account[req[r].admin].status = "active"
              \/ pc[r] = "revokeOld" /\ pc'[r] = "issue"
              \/ /\ pc[r] = "authAdmin" /\ pc'[r] = "authSession"
                 /\ account[req[r].admin].status = "active"
              \/ /\ pc[r] = "authSession"
                 /\ pc'[r] = IF req[r].op \in TwoFactorOps THEN "read" ELSE "revoke"
                 /\ Usable(session[req[r].session], now)
              \/ pc[r] = "revoke" /\ pc'[r] = "answered"
              \/ pc[r] = "read" /\ pc'[r] \in {"write", "answered"}
              \/ pc[r] = "write" /\ pc'[r] = "answered"
              \/ pc[r] = "cliUpdate" /\ pc'[r] = "cliRevoke"
              \/ pc[r] = "cliRevoke" /\ pc'[r] = "answered"
<1>1. /\ pc \in [Requests -> Pcs] /\ DOMAIN row = Requests
      /\ row \in [Requests -> Accounts \union {None}]
  BY DEF TypeOK
<1>2. ~ (LoginArrives(r) \/ RefreshArrives(r) \/ ApiArrives(r) \/ CliStarts(r))
  BY Arrivals
<1>3. CASE LookUp(r)
  BY <1>1, <1>3 DEF LookUp, Goto
<1>4. CASE Penalise(r)
  BY <1>1, <1>4 DEF Penalise, Goto
<1>5. CASE Clear(r)
  BY <1>1, <1>5 DEF Clear, Goto
<1>6. CASE Recover(r)
  BY <1>1, <1>6 DEF Recover, Goto
<1>7. CASE Issue(r)
  BY <1>1, <1>7 DEF Issue, Goto
<1>8. CASE FindSession(r)
  BY <1>8, Checks DEF FindSession
<1>9. CASE FindAdmin(r)
  BY <1>1, <1>9 DEF FindAdmin, Check, Goto
<1>10. CASE RevokeOld(r)
  BY <1>1, <1>10 DEF RevokeOld, Goto
<1>11. CASE AuthAdmin(r)
  BY <1>1, <1>11 DEF AuthAdmin, Check, Goto
<1>12. CASE AuthSession(r)
  BY <1>12, Checks DEF AuthSession
<1>13. CASE Revoke(r)
  BY <1>1, <1>13 DEF Revoke, Goto
<1>14. CASE Read(r)
  <2>1. PICK p \in {"refused", "write", "answered", "failed"} : pc' = [pc EXCEPT ![r] = p]
    BY <1>14 DEF Read, Goto
  <2>. QED
    BY <1>1, <1>14, <2>1 DEF Read
<1>15. CASE Write(r)
  BY <1>1, <1>15 DEF Write, Goto
<1>16. CASE CliUpdate(r)
  BY <1>1, <1>16 DEF CliUpdate, Goto
<1>17. CASE CliRevoke(r)
  BY <1>1, <1>17 DEF CliRevoke, Goto
<1>18. CASE Abort(r)
  BY <1>1, <1>18 DEF Abort, Goto
<1>. QED
  BY <1>2, <1>3, <1>4, <1>5, <1>6, <1>7, <1>8, <1>9, <1>10, <1>11, <1>12, <1>13, <1>14,
     <1>15, <1>16, <1>17, <1>18 DEF Step

\* A step leaves every request asking for what its statement answers, with
\* a session of its own account.
LEMMA ShapeStep ==
    ASSUME IInv, NEW r \in Requests, Step(r), NEW q \in Requests
    PROVE  Shape(q)'
<1>1. TypeOK /\ Shape(q) /\ None \notin Admins
      /\ account \in [Admins -> Accounts]
  BY AuthAssumption DEF IInv, TypeOK
<1>2. CASE q # r
  <2>1. pc'[q] = pc[q] /\ req'[q] = req[q] /\ row'[q] = row[q]
    BY <1>1, <1>2, Others
  <2>2. req[q].op \in {"refresh"} \union ApiOps =>
           session'[req[q].session].owner = session[req[q].session].owner
    <3>1. SUFFICES ASSUME req[q].op \in {"refresh"} \union ApiOps
                   PROVE  session'[req[q].session].owner = session[req[q].session].owner
      OBVIOUS
    <3>2. req[q].op # "none"
      BY <3>1 DEF ApiOps, SessionOps, TwoFactorOps
    <3>3. req[q].session \in Sessions /\ session[req[q].session].owner \in Admins
      BY <1>1, <3>1, <3>2 DEF Shape
    <3>. QED
      BY <1>1, <3>3, SessionsStay
  <2>. QED
    BY <1>1, <2>1, <2>2 DEF Shape
<1>3. CASE q = r /\ pc[r] = "idle"
  <2>1. LoginArrives(r) \/ RefreshArrives(r) \/ ApiArrives(r) \/ CliStarts(r)
    BY <1>3 DEF Step, LookUp, Penalise, Clear, Recover, Issue, FindSession, FindAdmin,
                RevokeOld, AuthAdmin, AuthSession, Check, Revoke, Read, Write, CliUpdate,
                CliRevoke, Abort
  <2>2. /\ req'[r].admin \in Admins /\ session' = session
        /\ \/ pc'[r] = "lookUp" /\ req'[r].op = "login" /\ req'[r].password \in Passwords
           \/ /\ pc'[r] = "findSession" /\ req'[r].op = "refresh"
              /\ req'[r].session \in Sessions
              /\ session[req'[r].session].owner = req'[r].admin
           \/ /\ pc'[r] \in {"authAdmin", "refused"} /\ req'[r].op \in ApiOps
              /\ req'[r].session \in Sessions
              /\ session[req'[r].session].owner = req'[r].admin
           \/ /\ pc'[r] = "cliUpdate" /\ req'[r].op \in CliOps
              /\ req'[r].op = "reset" => req'[r].password \in Passwords
    BY <1>1, <2>1, Arrivals
  <2>. QED
    BY <1>3, <2>2 DEF Shape, ApiOps, SessionOps, TwoFactorOps, CliOps
<1>4. CASE q = r /\ pc[r] # "idle"
  <2>1. req' = req
    BY <1>1, <1>4, Moves
  <2>2. req[q].op \in {"refresh"} \union ApiOps =>
           session'[req[q].session].owner = session[req[q].session].owner
    <3>1. SUFFICES ASSUME req[q].op \in {"refresh"} \union ApiOps
                   PROVE  session'[req[q].session].owner = session[req[q].session].owner
      OBVIOUS
    <3>2. req[q].session \in Sessions /\ session[req[q].session].owner \in Admins
      BY <1>1, <1>4, <3>1 DEF Shape
    <3>. QED
      BY <1>1, <3>2, SessionsStay
  <2>3. pc'[r] = "clear" => row'[r] \in Accounts
    <3>1. pc'[r] = "clear" => row'[r] = account[req[r].admin]
      BY <1>1, <1>4, Moves DEF AfterPassword
    <3>. QED
      BY <1>1, <1>4, <3>1 DEF Shape
  <2> DEFINE p == pc'[r]
             op == req[r].op
  <2>4. /\ p # "idle"
        /\ p \in {"lookUp", "penalise", "clear", "recover"} => op = "login"
        /\ p \in {"findSession", "findAdmin", "revokeOld"} => op = "refresh"
        /\ p = "issue" => op \in {"login", "refresh"}
        /\ p \in {"authAdmin", "authSession"} => op \in ApiOps
        /\ p = "revoke" => op \in SessionOps
        /\ p \in {"read", "write"} => op \in TwoFactorOps
        /\ p \in {"cliUpdate", "cliRevoke"} => op \in CliOps
    <3>1. pc[r] = "clear" /\ pc'[r] = AfterPassword(r) => p \in {"issue", "refused", "recover"}
      BY DEF AfterPassword
    <3>2. pc[r] = "authSession" => op \in SessionOps \union TwoFactorOps
      BY <1>1, <1>4 DEF Shape, ApiOps
    <3>. QED
      BY <1>1, <1>4, <3>1, <3>2, Moves DEF Shape
  <2>. QED
    BY <1>1, <1>4, <2>1, <2>2, <2>3, <2>4 DEF Shape
<1>. QED
  BY <1>2, <1>3, <1>4

-----------------------------------------------------------------------------
(* What stands against a request *)

\* An obstacle that has stood since the arrival stands before and after the step.
LEMMA Remembered ==
    ASSUME Remember, NEW r \in Requests
    PROVE  /\ barred'[r] \subseteq Obstacles(r)'
           /\ pc[r] # "idle" => barred'[r] \subseteq barred[r]
BY DEF Remember

\* What can stand against a login, and what each of its checks rules out.
LEMMA LoginObstacles ==
    ASSUME NEW r, req[r].op = "login", NEW o \in Obstacles(r)
    PROVE  /\ o \in {"disabled", "locked", "password", "code"}
           /\ Verifies(account[req[r].admin], req[r].password, now) => o = "code"
           /\ o = "code" => /\ AsksForCode(account[req[r].admin])
                            /\ req[r].code # account[req[r].admin].secret
                            /\ UsedHash(req[r].code) \notin account[req[r].admin].codes
<1> DEFINE acc == account[req[r].admin]
           stands(x) == \/ x = "disabled" /\ acc.status # "active"
                        \/ x = "locked" /\ Locked(acc, now)
                        \/ x = "password" /\ acc.password # req[r].password
                        \/ x = "code" /\ AsksForCode(acc) /\ req[r].code # acc.secret
                                      /\ UsedHash(req[r].code) \notin acc.codes
<1>1. Obstacles(r) = {x \in {"disabled", "locked", "password", "code"} : stands(x)}
  BY DEF Obstacles, SessionOps, TwoFactorOps
<1>2. o \in {"disabled", "locked", "password", "code"} /\ stands(o)
  <2> HIDE DEF stands
  <2>. QED
    BY <1>1
<1>. QED
  BY <1>2 DEF Verifies

\* What can stand against a request with a session, and what rules it out.
LEMMA SessionObstacles ==
    ASSUME NEW r, req[r].op \in {"refresh"} \union ApiOps, NEW o \in Obstacles(r)
    PROVE  /\ o \in {"disabled", "ended"}
           /\ account[req[r].admin].status = "active" => o # "disabled"
           /\ Usable(session[req[r].session], now) => o # "ended"
BY DEF Obstacles, ApiOps, SessionOps, TwoFactorOps

\* Where others move, or time passes, a request keeps what it has gained.
LEMMA StruckStays ==
    ASSUME Remember, NEW q \in Requests, Shape(q), Struck(q),
           pc'[q] = pc[q], req'[q] = req[q], row'[q] = row[q]
    PROVE  Struck(q)'
<1>1. /\ barred'[q] \subseteq Obstacles(q)'
      /\ pc[q] # "idle" => barred'[q] \subseteq barred[q]
  BY Remembered
<1>2. CASE pc[q] = "idle"
  BY <1>1, <1>2 DEF Struck, Shape, ApiOps, SessionOps, TwoFactorOps
<1>3. CASE pc[q] # "idle"
  BY <1>1, <1>3 DEF Struck, AsksForCode
<1>. QED
  BY <1>2, <1>3

\* Every check strikes off what it looks at, for good.
LEMMA StruckStep ==
    ASSUME IInv, NEW r \in Requests, Step(r), Remember, NEW q \in Requests
    PROVE  Struck(q)'
<1>1. TypeOK /\ Shape(q) /\ Struck(q)
  BY DEF IInv
<1>2. /\ barred'[q] \subseteq Obstacles(q)'
      /\ pc[q] # "idle" => barred'[q] \subseteq barred[q]
  BY Remembered
<1>3. CASE q # r
  <2>1. pc'[q] = pc[q] /\ req'[q] = req[q] /\ row'[q] = row[q]
    BY <1>1, <1>3, Others
  <2>. QED
    BY <1>1, <2>1, StruckStays
<1>4. CASE q = r /\ pc[r] = "idle"
  <2>1. LoginArrives(r) \/ RefreshArrives(r) \/ ApiArrives(r) \/ CliStarts(r)
    BY <1>4 DEF Step, LookUp, Penalise, Clear, Recover, Issue, FindSession, FindAdmin,
                RevokeOld, AuthAdmin, AuthSession, Check, Revoke, Read, Write, CliUpdate,
                CliRevoke, Abort
  <2>2. pc'[r] \in {"lookUp", "findSession", "authAdmin", "refused", "cliUpdate"}
    BY <1>1, <2>1, Arrivals
  <2>. QED
    BY <1>2, <1>4, <2>2 DEF Struck
<1>5. CASE q = r /\ pc[r] # "idle"
  <2>1. req' = req /\ barred'[r] \subseteq barred[r] /\ barred[r] \subseteq Obstacles(r)
    BY <1>1, <1>2, <1>5, Moves DEF Struck
  <2>2. CASE req[r].op = "login"
    <3>1. pc'[r] \in {"clear", "recover"} => barred'[r] \subseteq {"code"}
      <4>1. CASE pc[r] = "lookUp" /\ pc'[r] = "clear"
        BY <1>1, <1>5, <2>1, <2>2, <4>1, Moves, LoginObstacles
      <4>2. CASE pc[r] = "clear"
        BY <1>1, <1>5, <2>1, <2>2, <4>2 DEF Struck
      <4>. QED
        BY <1>1, <1>5, <4>1, <4>2, Moves
    <3>2. pc'[r] = "clear" /\ "code" \in barred'[r] =>
             AsksForCode(row'[r]) /\ req[r].code # row'[r].secret
      <4>1. pc'[r] = "clear" => row'[r] = account[req[r].admin]
        BY <1>1, <1>5, Moves DEF AfterPassword
      <4>. QED
        BY <2>1, <2>2, <4>1, LoginObstacles
    <3>3. pc'[r] \in {"issue", "answered"} => barred'[r] = {}
      <4>1. CASE pc[r] = "clear" /\ pc'[r] = "issue"
        <5>1. pc'[r] = AfterPassword(r)
          BY <1>1, <1>5, <4>1, Moves
        <5>2. "code" \notin barred[r]
          BY <1>1, <1>5, <2>2, <4>1, <5>1 DEF AfterPassword, Struck
        <5>. QED
          BY <1>1, <1>5, <2>1, <2>2, <4>1, <5>2 DEF Struck
      <4>2. CASE pc[r] = "recover" /\ pc'[r] = "issue"
        <5>1. UsedHash(req[r].code) \in account[req[r].admin].codes
          BY <1>1, <1>5, <4>2, Moves
        <5>2. "code" \notin barred[r]
          BY <2>1, <2>2, <5>1, LoginObstacles
        <5>. QED
          BY <1>1, <1>5, <2>1, <2>2, <4>2, <5>2 DEF Struck
      <4>3. CASE pc[r] = "issue"
        BY <1>1, <1>5, <2>1, <2>2, <4>3 DEF Struck
      <4>4. pc[r] \notin {"revokeOld", "revoke", "read", "write", "cliRevoke"}
        BY <1>1, <1>5, <2>2 DEF Shape, SessionOps, TwoFactorOps, CliOps
      <4>5. pc[r] = "clear" => pc'[r] # "answered"
        BY <1>1, <1>5, Moves DEF AfterPassword
      <4>. QED
        BY <1>1, <1>5, <4>1, <4>2, <4>3, <4>4, <4>5, Moves
    <3>. QED
      BY <1>2, <1>5, <2>1, <2>2, <3>1, <3>2, <3>3
         DEF Struck, AsksForCode, ApiOps, SessionOps, TwoFactorOps
  <2>3. CASE req[r].op = "refresh"
    <3>1. pc[r] \in {"findSession", "findAdmin", "revokeOld", "issue"} \union Ends
      BY <1>1, <1>5, <2>3 DEF Shape, ApiOps, SessionOps, TwoFactorOps, CliOps, TypeOK, Pcs
    <3>2. pc'[r] = "findAdmin" => "ended" \notin barred'[r]
      BY <1>1, <1>5, <2>1, <2>3, <3>1, Moves, SessionObstacles DEF Ends
    <3>3. pc'[r] \in {"revokeOld", "issue", "answered"} => barred'[r] = {}
      <4>1. CASE pc[r] = "findAdmin" /\ pc'[r] = "revokeOld"
        <5>1. "disabled" \notin barred[r] /\ "ended" \notin barred[r]
          BY <1>1, <1>5, <2>1, <2>3, <4>1, Moves, SessionObstacles DEF Struck
        <5>. QED
          BY <2>1, <2>3, <5>1, SessionObstacles
      <4>2. CASE pc[r] \in {"revokeOld", "issue"}
        BY <1>1, <1>5, <2>1, <2>3, <4>2 DEF Struck
      <4>. QED
        BY <1>1, <1>5, <3>1, <4>1, <4>2, Moves DEF Ends
    <3>. QED
      BY <1>2, <1>5, <2>1, <2>3, <3>2, <3>3 DEF Struck, ApiOps, SessionOps, TwoFactorOps
  <2>4. CASE req[r].op \in ApiOps
    <3>1. pc[r] \in {"authAdmin", "authSession", "revoke", "read", "write"} \union Ends
      BY <1>1, <1>5, <2>4 DEF Shape, ApiOps, SessionOps, TwoFactorOps, CliOps, TypeOK, Pcs
    <3>2. pc'[r] = "authSession" => "disabled" \notin barred'[r]
      BY <1>1, <1>5, <2>1, <2>4, <3>1, Moves, SessionObstacles DEF Ends
    <3>3. pc'[r] \in {"revoke", "read", "write", "answered"} => barred'[r] = {}
      <4>1. CASE pc[r] = "authSession" /\ pc'[r] \in {"revoke", "read"}
        <5>1. "disabled" \notin barred[r] /\ "ended" \notin barred[r]
          BY <1>1, <1>5, <2>1, <2>4, <4>1, Moves, SessionObstacles DEF Struck
        <5>. QED
          BY <2>1, <2>4, <5>1, SessionObstacles
      <4>2. CASE pc[r] \in {"revoke", "read", "write"}
        BY <1>1, <1>5, <2>1, <2>4, <4>2 DEF Struck
      <4>. QED
        BY <1>1, <1>5, <3>1, <4>1, <4>2, Moves DEF Ends
    <3>. QED
      BY <1>2, <1>5, <2>1, <2>4, <3>2, <3>3 DEF Struck, ApiOps, SessionOps, TwoFactorOps
  <2>5. CASE req[r].op \notin {"login", "refresh"} \union ApiOps
    BY <1>2, <1>5, <2>1, <2>5 DEF Struck
  <2>. QED
    BY <2>2, <2>3, <2>4, <2>5
<1>. QED
  BY <1>3, <1>4, <1>5

-----------------------------------------------------------------------------
(* Locks *)

\* The 2FA handlers touch neither the password nor the lock.
LEMMA WriteKeeps ==
    ASSUME IInv, NEW r \in Requests, Write(r), NEW a \in Admins
    PROVE  /\ account'[a].password = account[a].password
           /\ account'[a].failed = account[a].failed
           /\ account'[a].lockedUntil = account[a].lockedUntil
           /\ UNCHANGED <<failures, clean>>
<1>1. /\ account \in [Admins -> Accounts] /\ account[a] \in Accounts
      /\ req[r].op \in TwoFactorOps
      /\ UNCHANGED <<failures, clean>>
  BY DEF IInv, TypeOK, Shape, Write
<1>2. CASE req[r].op = "setup2fa"
  <2>1. PICK s : account' = [account EXCEPT ![req[r].admin] =
                                [account[req[r].admin] EXCEPT !.secret = s]]
    BY <1>2 DEF Write
  <2>2. account'[a] \in {account[a], [account[a] EXCEPT !.secret = s]}
    BY <1>1, <2>1
  <2>. QED
    BY <1>1, <2>2 DEF Accounts
<1>3. CASE req[r].op = "enable2fa"
  <2> DEFINE hashes == {StoredHash(c) : c \in RecoveryCodes}
  <2>1. account' = [account EXCEPT ![req[r].admin].enabled = TRUE,
                                   ![req[r].admin].codes = hashes]
    BY <1>3 DEF Write
  <2> HIDE DEF hashes
  <2>. QED
    BY <1>1, <2>1 DEF Accounts
<1>4. CASE req[r].op = "disable2fa"
  <2>1. account' = [account EXCEPT ![req[r].admin].enabled = FALSE,
                                   ![req[r].admin].secret = None,
                                   ![req[r].admin].codes = {}]
    BY <1>4 DEF Write
  <2>. QED
    BY <1>1, <2>1 DEF Accounts
<1>. QED
  BY <1>1, <1>2, <1>3, <1>4 DEF TwoFactorOps

\* A step keeps failed_attempts equal to the history, and locks in time.
LEMMA LockStep ==
    ASSUME IInv, NEW r \in Requests, Step(r)
    PROVE  Counted' /\ ConsecutiveFailuresLock'
<1>1. /\ TypeOK /\ Shape(r) /\ now \in Nat
      /\ account \in [Admins -> Accounts]
      /\ failures \in [Admins -> [count : Nat, last : Nat]]
      /\ LockThreshold \in Nat \ {0}
  BY AuthAssumption DEF IInv, TypeOK
<1>2. SUFFICES ASSUME NEW a \in Admins
               PROVE  /\ account'[a].failed = failures'[a].count
                      /\ failures'[a].count >= LockThreshold =>
                            account'[a].lockedUntil = failures'[a].last + LockDuration
  BY DEF Counted, ConsecutiveFailuresLock
<1>3. /\ account[a].failed = failures[a].count
      /\ failures[a].count >= LockThreshold =>
            account[a].lockedUntil = failures[a].last + LockDuration
      /\ account[a] \in Accounts /\ failures[a] \in [count : Nat, last : Nat]
  BY <1>1 DEF IInv, Counted, ConsecutiveFailuresLock
<1>4. CASE /\ failures'[a] = failures[a]
           /\ account'[a].failed = account[a].failed
           /\ account'[a].lockedUntil = account[a].lockedUntil
  BY <1>3, <1>4
<1>5. CASE failures'[a].count = 0 /\ account'[a].failed = 0
  BY <1>1, <1>5
<1>6. CASE Penalise(r)
  <2>1. CASE req[r].admin = a
    <3>1. /\ account'[a] = AfterFailedLogin(account[a], now)
          /\ failures'[a] = [count |-> failures[a].count + 1, last |-> now]
      BY <1>1, <1>6, <2>1 DEF Penalise
    <3>2. /\ account'[a].failed = account[a].failed + 1
          /\ account[a].failed + 1 >= LockThreshold =>
                account'[a].lockedUntil = now + LockDuration
      BY <1>3, <3>1 DEF AfterFailedLogin, Accounts
    <3>. QED
      BY <1>3, <3>1, <3>2
  <2>2. CASE req[r].admin # a
    BY <1>1, <1>4, <1>6, <2>2 DEF Penalise
  <2>. QED
    BY <2>1, <2>2
<1>7. CASE Clear(r)
  <2>1. CASE req[r].admin = a
    <3>1. /\ account'[a] = [account[a] EXCEPT !.failed = 0]
          /\ failures'[a] = [count |-> 0, last |-> 0]
      BY <1>1, <1>7, <2>1 DEF Clear
    <3>. QED
      BY <1>3, <1>5, <3>1 DEF Accounts
  <2>2. CASE req[r].admin # a
    BY <1>1, <1>4, <1>7, <2>2 DEF Clear
  <2>. QED
    BY <2>1, <2>2
<1>8. CASE Recover(r)
  <2>1. account'[a] \in {account[a],
                         [account[a] EXCEPT !.codes = @ \ {UsedHash(req[r].code)}]}
    BY <1>1, <1>8 DEF Recover
  <2>2. failures' = failures
    BY <1>8 DEF Recover
  <2>. QED
    BY <1>3, <1>4, <2>1, <2>2 DEF Accounts
<1>9. CASE Write(r)
  BY <1>4, <1>9, WriteKeeps
<1>10. CASE CliUpdate(r)
  <2>1. CASE req[r].admin # a
    BY <1>1, <1>4, <1>10, <2>1 DEF CliUpdate
  <2>2. CASE req[r].admin = a /\ req[r].op = "reset"
    <3>1. /\ account' = [account EXCEPT ![a].password = req[r].password, ![a].failed = 0,
                                        ![a].lockedUntil = 0, ![a].status = "active"]
          /\ failures' = [failures EXCEPT ![a] = [count |-> 0, last |-> 0]]
      BY <1>10, <2>2 DEF CliUpdate
    <3>2. account'[a].failed = 0
      BY <1>1, <1>3, <3>1 DEF Accounts
    <3>. QED
      BY <1>1, <1>5, <3>1, <3>2
  <2>3. CASE req[r].admin = a /\ req[r].op # "reset"
    <3>1. account' = [account EXCEPT ![a].status = "disabled"] /\ failures' = failures
      BY <1>10, <2>3 DEF CliUpdate
    <3>. QED
      BY <1>1, <1>3, <1>4, <3>1 DEF Accounts
  <2>. QED
    BY <2>1, <2>2, <2>3
<1>11. CASE UNCHANGED <<account, failures>>
  BY <1>4, <1>11
<1>12. CASE LoginArrives(r) \/ RefreshArrives(r) \/ ApiArrives(r) \/ CliStarts(r)
  BY <1>1, <1>11, <1>12, Arrivals
<1>. QED
  BY <1>6, <1>7, <1>8, <1>9, <1>10, <1>11, <1>12
     DEF Step, LookUp, Issue, FindSession, FindAdmin, RevokeOld, AuthAdmin, AuthSession,
         Check, Revoke, Read, CliRevoke, Abort

-----------------------------------------------------------------------------
(* Resets *)

\* Only the end of a reset makes an account clean, and what changes its
\* password makes it unclean.
LEMMA StaysClean ==
    ASSUME IInv, NEW r \in Requests, Step(r), NEW a \in Admins, clean'[a],
           ~ (CliRevoke(r) /\ req[r].admin = a)
    PROVE  clean[a] /\ account'[a].password = account[a].password
<1>1. /\ TypeOK /\ Shape(r)
      /\ account \in [Admins -> Accounts] /\ account[a] \in Accounts
      /\ clean \in [Admins -> BOOLEAN]
  BY DEF IInv, TypeOK
<1>2. CASE Penalise(r)
  BY <1>1, <1>2 DEF Penalise, AfterFailedLogin, Accounts
<1>3. CASE Clear(r) \/ Recover(r)
  BY <1>1, <1>3 DEF Clear, Recover, Accounts
<1>4. CASE Write(r)
  BY <1>4, WriteKeeps
<1>5. CASE CliUpdate(r)
  <2>1. CASE req[r].op = "reset"
    <3>1. clean' = [clean EXCEPT ![req[r].admin] = FALSE]
      BY <1>5, <2>1 DEF CliUpdate
    <3>2. a # req[r].admin /\ clean[a]
      BY <1>1, <3>1
    <3>3. account'[a] = account[a]
      BY <1>1, <1>5, <2>1, <3>2 DEF CliUpdate
    <3>. QED
      BY <3>2, <3>3
  <2>2. CASE req[r].op # "reset"
    <3>1. account' = [account EXCEPT ![req[r].admin].status = "disabled"] /\ clean' = clean
      BY <1>5, <2>2 DEF CliUpdate
    <3>. QED
      BY <1>1, <3>1 DEF Accounts
  <2>. QED
    BY <2>1, <2>2
<1>6. CASE CliRevoke(r)
  BY <1>1, <1>6 DEF CliRevoke
<1>7. CASE LoginArrives(r) \/ RefreshArrives(r) \/ ApiArrives(r) \/ CliStarts(r)
  BY <1>1, <1>7, Arrivals
<1>. QED
  BY <1>2, <1>3, <1>4, <1>5, <1>6, <1>7
     DEF Step, LookUp, Issue, FindSession, FindAdmin, RevokeOld, AuthAdmin, AuthSession,
         Check, Revoke, Read, Abort

\* A session comes from a login or refresh that is at its last statement.
LEMMA NewSession ==
    ASSUME IInv, NEW r \in Requests, Step(r),
           NEW s \in Sessions, session[s].owner = None, session'[s].owner # None
    PROVE  /\ pc[r] = "issue" /\ session'[s].owner = req[r].admin
           /\ session'[s].password = Origin(r)
<1>1. TypeOK /\ session \in [Sessions -> SessionRows]
  BY DEF IInv, TypeOK, SessionRows
<1>2. CASE Issue(r)
  <2> DEFINE n == [owner |-> req[r].admin, issued |-> now, revoked |-> FALSE,
                   password |-> Origin(r)]
  <2>1. PICK t \in Owned(None) : session' = [session EXCEPT ![t] = n]
    BY <1>2 DEF Issue, Origin
  <2>2. n.owner = req[r].admin /\ n.password = Origin(r)
    OBVIOUS
  <2> HIDE DEF n
  <2>3. t = s /\ session'[s] = n
    BY <1>1, <2>1 DEF Owned
  <2>. QED
    BY <1>2, <2>2, <2>3 DEF Issue
<1>3. CASE RevokeOld(r) \/ Revoke(r) \/ CliRevoke(r)
  <2>1. PICK S : session' = AfterRevoking(S)
    BY <1>3 DEF RevokeOld, Revoke, CliRevoke
  <2>. QED
    BY <1>1, <2>1, Revoking
<1>4. CASE LoginArrives(r) \/ RefreshArrives(r) \/ ApiArrives(r) \/ CliStarts(r)
  BY <1>1, <1>4, Arrivals
<1>5. CASE session' = session
  BY <1>5
<1>. QED
  BY <1>2, <1>3, <1>4, <1>5
     DEF Step, LookUp, Penalise, Clear, Recover, FindSession, FindAdmin, AuthAdmin,
         AuthSession, Check, Read, Write, CliUpdate, Abort

\* What is half-way through stays with the current password, and nothing gets
\* half-way without it.
LEMMA CleanIssuesStep ==
    ASSUME IInv, NEW r \in Requests, Step(r)
    PROVE  CleanIssues'
<1>1. SUFFICES ASSUME NEW q \in Requests, NEW a \in Admins, clean'[a], Issuing(q, a)'
               PROVE  Origin(q)' = account'[a].password
  BY DEF CleanIssues
<1>2. /\ TypeOK /\ Shape(r) /\ Shape(q) /\ clean \in [Admins -> BOOLEAN]
      /\ None \notin Admins /\ Step(r)
  BY AuthAssumption DEF IInv, TypeOK
<1>3. CASE CliRevoke(r) /\ req[r].admin = a
  <2>1. clean'[a] = ~ \E other \in Requests : Issuing(other, a)
    BY <1>2, <1>3 DEF CliRevoke
  <2>2. pc'[r] = "answered"
    BY <1>2, <1>3 DEF CliRevoke, Goto, TypeOK
  <2>3. q # r
    BY <1>1, <2>2 DEF Issuing
  <2>4. Issuing(q, a)
    BY <1>1, <1>2, <2>3, Others DEF Issuing
  <2>. QED
    BY <1>1, <2>1, <2>4
<1>4. CASE ~ (CliRevoke(r) /\ req[r].admin = a)
  <2>1. clean[a] /\ account'[a].password = account[a].password
    BY <1>1, <1>4, StaysClean
  <2>2. CASE Issuing(q, a) /\ req'[q] = req[q]
    <3>1. Origin(q) = account[a].password
      BY <2>1, <2>2 DEF IInv, CleanIssues
    <3>2. Origin(q)' = Origin(q)
      <4>1. CASE req[q].op = "login"
        BY <2>2, <4>1 DEF Origin
      <4>2. CASE req[q].op # "login"
        <5>1. req[q].op = "refresh" /\ req[q].session \in Sessions
          BY <1>2, <2>2, <4>2 DEF Issuing, Shape
        <5>2. session[req[q].session].owner # None
          BY <1>2, <2>2, <5>1 DEF Issuing, Shape
        <5>3. session'[req[q].session].password = session[req[q].session].password
          BY <1>2, <5>1, <5>2, SessionsStay
        <5>. QED
          BY <2>2, <4>2, <5>3 DEF Origin
      <4>. QED
        BY <4>1, <4>2
    <3>. QED
      BY <2>1, <3>1, <3>2
  <2>3. CASE q # r
    BY <1>1, <1>2, <2>2, <2>3, Others DEF Issuing
  <2>4. CASE q = r /\ pc[r] = "idle"
    <3>1. LoginArrives(r) \/ RefreshArrives(r) \/ ApiArrives(r) \/ CliStarts(r)
      BY <1>2, <2>4 DEF Step, LookUp, Penalise, Clear, Recover, Issue, FindSession, FindAdmin,
                  RevokeOld, AuthAdmin, AuthSession, Check, Revoke, Read, Write, CliUpdate,
                  CliRevoke, Abort
    <3>. QED
      BY <1>1, <1>2, <2>4, <3>1, Arrivals DEF Issuing
  <2>5. CASE q = r /\ pc[r] # "idle" /\ ~ Issuing(q, a)
    <3>1. req' = req /\ req[r].admin = a
      BY <1>1, <1>2, <2>5, Moves DEF Issuing
    <3>2. pc[r] \notin {"clear", "recover", "issue", "findAdmin", "revokeOld"}
      BY <2>5, <3>1 DEF Issuing
    <3>3. \/ /\ pc[r] = "lookUp"
             /\ Verifies(account[req[r].admin], req[r].password, now)
          \/ pc[r] = "findSession" /\ Usable(session[req[r].session], now) /\ session' = session
      BY <1>1, <1>2, <2>5, <3>2, Moves DEF Issuing
    <3>4. CASE pc[r] = "lookUp" /\ Verifies(account[req[r].admin], req[r].password, now)
      BY <1>2, <2>1, <2>5, <3>1, <3>4 DEF Shape, Verifies, Origin
    <3>5. CASE /\ pc[r] = "findSession" /\ Usable(session[req[r].session], now)
               /\ session' = session
      <4>1. /\ req[r].op = "refresh" /\ req[r].session \in Sessions
            /\ session[req[r].session].owner = a
        BY <1>2, <3>1, <3>5 DEF Shape
      <4>2. session[req[r].session].password = account[a].password
        BY <2>1, <3>5, <4>1 DEF IInv, ResetEndsOldSessions
      <4>. QED
        BY <2>1, <2>5, <3>1, <3>5, <4>1, <4>2 DEF Origin
    <3>. QED
      BY <3>3, <3>4, <3>5
  <2>6. CASE q = r /\ pc[r] # "idle" /\ Issuing(q, a)
    BY <1>2, <2>2, <2>6, Moves
  <2>. QED
    BY <2>3, <2>4, <2>5, <2>6
<1>. QED
  BY <1>3, <1>4

\* A reset revokes what is there, and what comes later has the new password.
LEMMA ResetStep ==
    ASSUME IInv, NEW r \in Requests, Step(r)
    PROVE  ResetEndsOldSessions'
<1>1. now' = now
  <2>1. CASE LoginArrives(r) \/ RefreshArrives(r) \/ ApiArrives(r) \/ CliStarts(r)
    BY <2>1, Arrivals DEF IInv
  <2>. QED
    BY <2>1 DEF Step, LookUp, Penalise, Clear, Recover, Issue, FindSession, FindAdmin,
                RevokeOld, AuthAdmin, AuthSession, Check, Revoke, Read, Write, CliUpdate,
                CliRevoke, Abort
<1>2. SUFFICES ASSUME NEW s \in Sessions, Usable(session'[s], now), clean'[session'[s].owner]
               PROVE  session'[s].password = account'[session'[s].owner].password
  BY <1>1 DEF ResetEndsOldSessions, Usable
<1> DEFINE a == session'[s].owner
<1>3. TypeOK /\ TypeOK' /\ session \in [Sessions -> SessionRows]
  BY TypeStep DEF IInv, TypeOK, SessionRows
<1>4. a \in Admins /\ a # None
  BY <1>2, <1>3 DEF Usable, TypeOK
<1>5. CASE CliRevoke(r) /\ req[r].admin = a
  <2>1. session' = AfterRevoking(Owned(a))
    BY <1>5 DEF CliRevoke
  <2>2. session[s].owner = a
    BY <1>3, <2>1, Revoking
  <2>3. session'[s].revoked
    BY <1>3, <2>1, <2>2, Revoking DEF Owned
  <2>. QED
    BY <1>2, <2>3 DEF Usable
<1>6. CASE ~ (CliRevoke(r) /\ req[r].admin = a)
  <2>1. clean[a] /\ account'[a].password = account[a].password
    BY <1>2, <1>4, <1>6, StaysClean
  <2>2. CASE session[s].owner # None
    <3>1. /\ session'[s].owner = session[s].owner
          /\ session'[s].issued = session[s].issued
          /\ session'[s].password = session[s].password
          /\ session[s].revoked => session'[s].revoked
      BY <1>3, <2>2, SessionsStay
    <3>2. Usable(session[s], now)
      BY <1>2, <3>1 DEF Usable
    <3>. QED
      BY <2>1, <3>1, <3>2 DEF IInv, ResetEndsOldSessions
  <2>3. CASE session[s].owner = None
    <3>1. /\ pc[r] = "issue" /\ a = req[r].admin
          /\ session'[s].password = Origin(r)
      BY <1>4, <2>3, NewSession
    <3>2. Issuing(r, a)
      BY <3>1 DEF Issuing
    <3>. QED
      BY <1>4, <2>1, <3>1, <3>2 DEF IInv, CleanIssues
  <2>. QED
    BY <2>2, <2>3
<1>. QED
  BY <1>5, <1>6

-----------------------------------------------------------------------------
(* The invariant is inductive *)

\* The invariant holds at the start,
LEMMA InitInv == Init => IInv
<1> SUFFICES ASSUME Init PROVE IInv
  OBVIOUS
<1>1. /\ account \in [Admins -> Accounts]
      /\ \A a \in Admins : account[a].failed = 0
  <2>1. account \in [Admins -> StartAccounts]
    BY DEF Init
  <2>2. ASSUME NEW acc \in StartAccounts PROVE acc \in Accounts /\ acc.failed = 0
    <3>1. PICK p \in Passwords : \/ acc = FreshAccount(p)
                                 \/ \E s \in Secrets : acc = ProtectedAccount(p, s)
      BY DEF StartAccounts
    <3>2. FreshAccount(p).failed = 0 /\ \A s \in Secrets : ProtectedAccount(p, s).failed = 0
      BY DEF FreshAccount, ProtectedAccount
    <3>. QED
      BY <3>1, <3>2, AccountTypes
  <2>. QED
    BY <2>1, <2>2
<1>2. /\ session \in [Sessions -> SessionRows]
      /\ \A s \in Sessions : session[s].owner # None =>
            session[s].password = account[session[s].owner].password
  <2>1. PICK owner \in [Sessions -> Admins \union {None}] :
           session = [s \in Sessions |-> StartSession(owner[s])]
    BY DEF Init
  <2>2. ASSUME NEW a \in Admins \union {None}
        PROVE  /\ StartSession(a) \in SessionRows
               /\ StartSession(a).owner = a
               /\ a # None => StartSession(a).password = account[a].password
    BY <1>1 DEF StartSession, Unused, SessionRows, Accounts
  <2>. QED
    BY <2>1, <2>2
<1>3. TypeOK
  <2>1. NoRequest \in Asks
    BY DEF NoRequest, Asks
  <2>. QED
    BY <1>1, <1>2, <2>1 DEF Init, TypeOK, Pcs, Asks, SessionRows
<1>4. ASSUME NEW r \in Requests PROVE Shape(r) /\ Struck(r)
  BY DEF Init, NoRequest, Shape, Struck, ApiOps, SessionOps, TwoFactorOps, CliOps
<1>5. Counted /\ ConsecutiveFailuresLock
  <2>1. failures = [a \in Admins |-> [count |-> 0, last |-> 0]]
    BY DEF Init
  <2>. QED
    BY <1>1, <2>1, AuthAssumption DEF Counted, ConsecutiveFailuresLock
<1>6. CleanIssues
  BY DEF Init, CleanIssues, Issuing
<1>7. ResetEndsOldSessions
  BY <1>2 DEF ResetEndsOldSessions, Usable
<1>. QED
  BY <1>3, <1>4, <1>5, <1>6, <1>7 DEF IInv

\* Time takes sessions away and locks off, and gives nobody anything.
LEMMA TickInv ==
    ASSUME IInv, Tick, Remember
    PROVE  IInv'
<1>1. TypeOK'
  BY DEF IInv, TypeOK, Tick
<1>2. ASSUME NEW r \in Requests PROVE Shape(r)' /\ Struck(r)'
  <2>1. Shape(r) /\ Struck(r)
    BY DEF IInv
  <2>2. Struck(r)'
    BY <2>1, StruckStays DEF Tick
  <2>. QED
    BY <2>1, <2>2 DEF Shape, Tick
<1>3. Counted' /\ ConsecutiveFailuresLock'
  BY DEF IInv, Counted, ConsecutiveFailuresLock, Tick
<1>4. CleanIssues'
  BY DEF IInv, CleanIssues, Issuing, Origin, Tick
<1>5. ResetEndsOldSessions'
  <2>1. SUFFICES ASSUME NEW s \in Sessions, Usable(session[s], now')
                 PROVE  Usable(session[s], now)
    BY DEF IInv, ResetEndsOldSessions, Tick
  <2>2. now \in Nat /\ now' = now + 1 /\ session[s].issued \in Nat /\ RefreshTtl \in Nat
    BY AuthAssumption DEF IInv, TypeOK, Tick
  <2>. QED
    BY <2>1, <2>2 DEF Usable
<1>. QED
  BY <1>1, <1>2, <1>3, <1>4, <1>5 DEF IInv

\* is kept by every step,
LEMMA NextInv == IInv /\ [Next]_vars => IInv'
<1> SUFFICES ASSUME IInv, [Next]_vars PROVE IInv'
  OBVIOUS
<1>1. CASE Tick /\ Remember
  BY <1>1, TickInv
<1>2. ASSUME NEW r \in Requests, Step(r), Remember PROVE IInv'
  <2>1. TypeOK'
    BY <1>2, TypeStep
  <2>2. \A q \in Requests : Shape(q)' /\ Struck(q)'
    BY <1>2, ShapeStep, StruckStep
  <2>3. Counted' /\ ConsecutiveFailuresLock'
    BY <1>2, LockStep
  <2>4. CleanIssues' /\ ResetEndsOldSessions'
    BY <1>2, CleanIssuesStep, ResetStep
  <2>. QED
    BY <2>1, <2>2, <2>3, <2>4 DEF IInv
<1>3. CASE UNCHANGED vars
  <2>1. UNCHANGED <<now, account, session, pc, req, row, failures, clean, barred>>
    BY <1>3 DEF vars
  <2>2. TypeOK'
    BY <2>1 DEF IInv, TypeOK
  <2>3. \A r \in Requests : Shape(r)' /\ Struck(r)'
    BY <2>1 DEF IInv, Shape, Struck, AsksForCode, Obstacles, Usable, Locked
  <2>4. Counted' /\ ConsecutiveFailuresLock'
    BY <2>1 DEF IInv, Counted, ConsecutiveFailuresLock
  <2>5. CleanIssues' /\ ResetEndsOldSessions'
    BY <2>1 DEF IInv, CleanIssues, Issuing, Origin, ResetEndsOldSessions, Usable
  <2>. QED
    BY <2>2, <2>3, <2>4, <2>5 DEF IInv
<1>. QED
  BY <1>1, <1>2, <1>3 DEF Next

\* and so holds for ever.
LEMMA Invariance == Spec => []IInv
BY InitInv, NextInv, PTL DEF Spec

-----------------------------------------------------------------------------
(* Theorems *)

\* The state of accounts, sessions and requests is typed.
THEOREM TypeCorrect == Spec => []TypeOK
<1>1. IInv => TypeOK
  BY DEF IInv
<1>. QED
  BY <1>1, Invariance, PTL

\* No login gets a session against which something has stood since it arrived:
\* verifyCredentials() and the code checks miss nothing, however the account
\* changes between their statements.
THEOREM BarredLogins == Spec => []BarredLoginsGetNoSession
<1>1. IInv => BarredLoginsGetNoSession
  BY DEF IInv, Struck, BarredLoginsGetNoSession
<1>. QED
  BY <1>1, Invariance, PTL

\* authenticate and refresh let nobody through whose session was over, or whose
\* account was disabled, from the arrival on.
THEOREM EndedSessions == Spec => []EndedSessionsAreRefused
<1>1. IInv => EndedSessionsAreRefused
  <2> SUFFICES ASSUME IInv, NEW r \in Requests, req[r].op # "login", barred[r] # {}
               PROVE  pc[r] \notin {"revokeOld", "issue", "revoke", "read", "write", "answered"}
    BY DEF EndedSessionsAreRefused
  <2>1. Shape(r) /\ Struck(r)
    BY DEF IInv
  <2>2. CASE req[r].op = "refresh" \/ req[r].op \in ApiOps
    BY <2>1, <2>2 DEF Shape, Struck, ApiOps, SessionOps, TwoFactorOps, CliOps
  <2>3. CASE req[r].op \notin {"refresh"} \union ApiOps
    <3>1. Obstacles(r) = {}
      BY <2>3 DEF Obstacles, ApiOps
    <3>. QED
      BY <2>1, <3>1 DEF Struck
  <2>. QED
    BY <2>2, <2>3
<1>. QED
  BY <1>1, Invariance, PTL

\* recordFailedLogin() locks the account at the threshold, in whatever order
\* concurrent failures are written.
THEOREM FailuresLock == Spec => []ConsecutiveFailuresLock
<1>1. IInv => ConsecutiveFailuresLock
  BY DEF IInv
<1>. QED
  BY <1>1, Invariance, PTL

\* A reset that finds nothing half-way through leaves no session of an older
\* password usable, and no later statement brings one back.
THEOREM ResetEnds == Spec => []ResetEndsOldSessions
<1>1. IInv => ResetEndsOldSessions
  BY DEF IInv
<1>. QED
  BY <1>1, Invariance, PTL

\* A session is revoked by a step of a request of its own account.
LEMMA RevokedByOwner ==
    ASSUME IInv, NEW r \in Requests, Step(r),
           NEW s \in Sessions, session'[s].revoked, ~ session[s].revoked
    PROVE  pc'[r] # pc[r] /\ req[r].admin = session[s].owner
<1>1. TypeOK /\ Shape(r) /\ pc \in [Requests -> Pcs]
  BY DEF IInv, TypeOK
<1>2. CASE RevokeOld(r)
  <2>1. session' = AfterRevoking({req[r].session})
    BY <1>2 DEF RevokeOld
  <2>2. s = req[r].session
    BY <1>1, <2>1, Revoking
  <2>. QED
    BY <1>1, <1>2, <2>2 DEF RevokeOld, Goto, Shape
<1>3. CASE Revoke(r)
  <2>1. session' = AfterRevoking(RevokedBy(r)) /\ pc[r] = "revoke" /\ req[r].op \in SessionOps
    BY <1>1, <1>3 DEF Revoke, Shape
  <2>2. s \in RevokedBy(r)
    <3> HIDE DEF RevokedBy
    <3>. QED
      BY <1>1, <2>1, Revoking
  <2>3. session[s].owner = req[r].admin
    BY <1>1, <2>1, <2>2 DEF RevokedBy, Owned, Shape, ApiOps, SessionOps
  <2>4. pc'[r] \in {"refused", "answered"}
    BY <1>1, <1>3 DEF Revoke, Goto
  <2>. QED
    BY <2>1, <2>3, <2>4
<1>4. CASE CliRevoke(r)
  <2>1. session' = AfterRevoking(Owned(req[r].admin))
    BY <1>4 DEF CliRevoke
  <2>2. s \in Owned(req[r].admin)
    BY <1>1, <2>1, Revoking
  <2>. QED
    BY <1>1, <1>4, <2>2 DEF CliRevoke, Goto, Owned
<1>5. CASE Issue(r)
  BY <1>1, <1>5 DEF Issue, TypeOK
<1>6. CASE LoginArrives(r) \/ RefreshArrives(r) \/ ApiArrives(r) \/ CliStarts(r)
  BY <1>1, <1>6, Arrivals
<1>. QED
  BY <1>2, <1>3, <1>4, <1>5, <1>6
     DEF Step, LookUp, Penalise, Clear, Recover, FindSession, FindAdmin, AuthAdmin,
         AuthSession, Check, Read, Write, CliUpdate, Abort

\* DELETE /auth/sessions, logout, refresh and the command line revoke nobody
\* else's sessions.
THEOREM OwnersRevoke == Spec => OnlyOwnersRevoke
<1>1. IInv /\ [Next]_vars =>
        [\A s \in Sessions :
            session'[s].revoked /\ ~ session[s].revoked =>
                \E r \in Requests : /\ pc'[r] # pc[r]
                                    /\ req[r].admin = session[s].owner]_vars
  <2> SUFFICES ASSUME IInv, Next, NEW s \in Sessions,
                      session'[s].revoked, ~ session[s].revoked
               PROVE  \E r \in Requests : /\ pc'[r] # pc[r]
                                          /\ req[r].admin = session[s].owner
    OBVIOUS
  <2>1. PICK r \in Requests : Step(r)
    BY DEF Next, Tick
  <2>. QED
    BY <2>1, RevokedByOwner
<1>. QED
  BY <1>1, Invariance, PTL DEF Spec, OnlyOwnersRevoke
=============================================================================
