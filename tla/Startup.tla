-------------------------------- MODULE Startup --------------------------------
(***************************************************************************)
(* How the API container starts: scripts/migrate.js, then server.js with   *)
(* the account of the first start; while `tinko migrate` and `tinko admin` *)
(* run scripts of their own in the same container.  Every process may die  *)
(* between two statements; the container starts again.                     *)
(* (packages/db/src/migrate.js, apps/api/src/server.js, scripts/*.js)      *)
(***************************************************************************)
EXTENDS Integers, FiniteSets

CONSTANTS
  Api,          \* the container's own process
  Scripts,      \* processes an operator may start beside it
  Files,        \* how many migration files there are
  MaxStarts     \* bound: starts of processes

Procs == Scripts \cup {Api}
Ids == 1 .. Files              \* in lexicographic order
Emails == {"owner", "other"}   \* BOOTSTRAP_ADMIN_EMAIL, and another one

VARIABLES
  schema,     \* how often each migration has taken effect, as committed
  recorded,   \* schema_migrations, as committed
  proc,       \* [pc, seen, at, did]: what a process does and has read
  accounts,   \* admin_users
  supers,     \* those of them that have the role super_admin
  health,     \* the row of the service in service_health
  starts

vars == <<schema, recorded, proc, accounts, supers, health, starts>>
database == <<schema, recorded>>
people == <<accounts, supers>>

\* `did` is what the open transaction has done: "sql", "id".
Dead == [pc |-> "dead", seen |-> {}, at |-> 0, did |-> {}, email |-> "none"]

Init ==
  /\ recorded \in {1 .. n : n \in 0 .. Files}
  /\ schema = [i \in Ids |-> IF i \in recorded THEN 1 ELSE 0]
  /\ accounts \in {{}} \cup (IF recorded = Ids THEN {{"other"}} ELSE {})
  /\ supers = accounts
  /\ proc = [p \in Procs |-> Dead]
  /\ health = "none" /\ starts = 0

At(p, pc) == proc[p].pc = pc
Goes(p, pc) == proc' = [proc EXCEPT ![p].pc = pc]

\* A process dies, or throws and exits: its transaction is rolled back.  With
\* its own process the container ends, and every script in it.
Crash(p) ==
  /\ ~At(p, "dead")
  /\ proc' = [q \in Procs |-> IF q = p \/ p = Api THEN Dead ELSE proc[q]]
  /\ UNCHANGED <<database, people, health, starts>>

-----------------------------------------------------------------------------
(* runMigrations.                                                           *)

\* Scripts run inside the container.
Start(p) ==
  /\ At(p, "dead") /\ starts < MaxStarts
  /\ p = Api \/ ~At(Api, "dead")
  /\ starts' = starts + 1
  /\ Goes(p, "read")
  /\ UNCHANGED <<database, people, health>>

\* What is applied is read once, before the first transaction.
ReadApplied(p) ==
  /\ At(p, "read")
  /\ proc' = [proc EXCEPT ![p].pc = "next", ![p].seen = recorded]
  /\ UNCHANGED <<database, people, health, starts>>

Pending(p) == {i \in Ids : i > proc[p].at /\ i \notin proc[p].seen}
Least(S) == CHOOSE i \in S : \A j \in S : i <= j

Open(p, i) == At(p, "open") /\ proc[p].at = i

BeginFile(p) ==
  /\ At(p, "next") /\ Pending(p) # {}
  /\ proc' = [proc EXCEPT ![p].pc = "open", ![p].at = Least(Pending(p))]
  /\ UNCHANGED <<database, people, health, starts>>

\* Who else has run the same statements and not yet committed.
Running(p, i) == \E q \in Procs \ {p} : Open(q, i) /\ "sql" \in proc[q].did

\* The statements wait for another process that runs them.  What is there
\* already may make them fail, if they do not say IF NOT EXISTS.
RunFile(p) ==
  LET i == proc[p].at IN
  /\ At(p, "open") /\ proc[p].did = {} /\ ~Running(p, i)
  /\ \/ proc' = [proc EXCEPT ![p].did = {"sql"}]
     \/ schema[i] > 0 /\ proc' = [proc EXCEPT ![p] = Dead]
  /\ UNCHANGED <<database, people, health, starts>>

\* Mutant: the migration is recorded when its transaction is over.
CommitFileFirst(p) ==
  LET i == proc[p].at IN
  /\ At(p, "open") /\ proc[p].did = {"sql"}
  /\ schema' = [schema EXCEPT ![i] = @ + 1]
  /\ proc' = [proc EXCEPT ![p].did = {"sql", "id"}]
  /\ UNCHANGED <<recorded, people, health, starts>>

\* Its id is inserted in the same transaction; the primary key refuses an id
\* that is there.
RecordFile(p) ==
  LET i == proc[p].at IN
  /\ At(p, "open") /\ proc[p].did = {"sql"}
  /\ proc' = IF i \in recorded THEN [proc EXCEPT ![p] = Dead]
                               ELSE [proc EXCEPT ![p].did = {"sql", "id"}]
  /\ UNCHANGED <<database, people, health, starts>>

CommitFile(p) ==
  LET i == proc[p].at IN
  /\ At(p, "open") /\ proc[p].did = {"sql", "id"}
  /\ recorded' = recorded \cup {i}
  /\ schema' = [schema EXCEPT ![i] = @ + 1]
  /\ proc' = [proc EXCEPT ![p].pc = "next", ![p].did = {}]
  /\ UNCHANGED <<people, health, starts>>

\* The script is done; in the container the server follows.
Migrated(p) ==
  /\ At(p, "next") /\ Pending(p) = {}
  /\ proc' = [proc EXCEPT ![p] = IF p = Api THEN [Dead EXCEPT !.pc = "count"] ELSE Dead]
  /\ UNCHANGED <<database, people, health, starts>>

-----------------------------------------------------------------------------
(* bootstrapAdmin, and `tinko admin create` and `promote`.                  *)

\* The first start is known by there being no account at all (both variables
\* BOOTSTRAP_ADMIN_* are set, as `tinko install` does).
Count(p) ==
  /\ At(p, "count")
  /\ proc' = [proc EXCEPT ![p].pc = IF accounts = {} THEN "create" ELSE "listen", ![p].email = "owner"]
  /\ UNCHANGED <<database, people, health, starts>>

AdminScript(p, pc, email) ==
  /\ p # Api /\ At(p, "dead") /\ At(Api, "serving") /\ starts < MaxStarts
  /\ starts' = starts + 1
  /\ proc' = [proc EXCEPT ![p].pc = pc, ![p].email = email]
  /\ UNCHANGED <<database, people, health>>

\* An account of that address is in the way: the process throws.
CreateAccount(p) ==
  /\ At(p, "create")
  /\ IF proc[p].email \in accounts
       THEN proc' = [proc EXCEPT ![p] = Dead] /\ UNCHANGED accounts
       ELSE accounts' = accounts \cup {proc[p].email} /\ Goes(p, "assign")
  /\ UNCHANGED <<database, supers, health, starts>>

FindAccount(p) ==
  /\ At(p, "promote")
  /\ IF proc[p].email \in accounts THEN Goes(p, "assign") ELSE proc' = [proc EXCEPT ![p] = Dead]
  /\ UNCHANGED <<database, people, health, starts>>

\* The role is looked up and given, in a statement of its own.
AssignRole(p) ==
  /\ At(p, "assign")
  /\ supers' = supers \cup {proc[p].email}
  /\ proc' = [proc EXCEPT ![p] = IF p = Api THEN [Dead EXCEPT !.pc = "listen"] ELSE Dead]
  /\ UNCHANGED <<database, accounts, health, starts>>

-----------------------------------------------------------------------------
(* The server.                                                              *)

Listen(p) ==
  /\ At(p, "listen")
  /\ proc' = [proc EXCEPT ![p] = [Dead EXCEPT !.pc = "serving"]]
  /\ health' \in {health, "online"}
  /\ UNCHANGED <<database, people, starts>>

Heartbeat(p) ==
  /\ At(p, "serving") /\ health # "online"
  /\ health' = "online"
  /\ UNCHANGED <<database, people, proc, starts>>

\* SIGTERM.  A heartbeat that was under way may come after the last word.
Shutdown(p) ==
  /\ At(p, "serving")
  /\ health' \in {"offline", "online"}
  /\ proc' = [q \in Procs |-> Dead]   \* the container ends with its process
  /\ UNCHANGED <<database, people, starts>>

Next ==
  \/ \E p \in Procs :
       \/ Start(p) \/ Crash(p) \/ ReadApplied(p) \/ BeginFile(p) \/ RunFile(p)
       \/ RecordFile(p) \/ CommitFile(p) \/ Migrated(p)
       \/ Count(p) \/ CreateAccount(p) \/ FindAccount(p) \/ AssignRole(p)
       \/ Listen(p) \/ Heartbeat(p) \/ Shutdown(p)
  \/ \E p \in Scripts, pc \in {"create", "promote"}, email \in Emails : AdminScript(p, pc, email)

-----------------------------------------------------------------------------

\* Every migration takes effect once and in its order, however often the
\* scripts are started, run beside each other or die: what has taken effect
\* is what is recorded, and is never applied again.  The server serves only
\* over the complete schema, and over some account.
EveryMigrationOnce ==
  /\ \A i \in Ids : schema[i] = IF i \in recorded THEN 1 ELSE 0
  /\ \A i, j \in Ids : i < j /\ j \in recorded => i \in recorded
  /\ At(Api, "serving") => recorded = Ids /\ accounts # {}

=============================================================================
