------------------------------ MODULE PersonaDesk ------------------------------
(***************************************************************************)
(* The personalities page of the panel (apps/admin/src/pages/              *)
(* PersonalitiesPage.jsx) over its routes and the transactions that create *)
(* and edit a personality together with its version (createPersonality and *)
(* updatePersonality, packages/db/src/repo/ai-config.js).  Jobs are        *)
(* requests of this tab, of other tabs, or of other administrators.        *)
(***************************************************************************)
EXTENDS Integers, FiniteSets, Functions

CONSTANTS
  Personas,      \* slugs
  Fields,        \* what an edit may write: the prompt, the rest
  Contents,      \* what each field may hold
  Jobs,          \* requests that write and may be under way together
  None,
  MaxVersions    \* bound: versions of a personality

Patches == UNION {[some -> Contents] : some \in SUBSET Fields \ {{}}}

VARIABLES
  row,       \* personalities: [version, form], as committed; version 0 is none
  history,   \* personality_versions: [version, form], as committed
  lock,      \* who has the row, or the slug, locked
  job,       \* [pc, op, persona, patch, new]: requests that write
  wronged,   \* history: an edit was refused for another one, or has undone it
  editor,    \* the dialog of the tab: shut, for a new personality or for one
  opened,    \* personalities whose dialog has been asked for
  busy       \* the test chat waits for an answer

database == <<row, history, lock, job, wronged>>
desk == <<editor, opened, busy>>
vars == <<database, desk>>

NoForm == <<>>
NoRow == [version |-> 0, form |-> NoForm]
NoJob == [pc |-> "idle", op |-> "none", persona |-> None, patch |-> NoForm, new |-> NoRow]

\* What personalities are like before anybody edits them.
Plain == [f \in Fields |-> CHOOSE c \in Contents : TRUE]
Original(form) == [version |-> 1, form |-> form]

Init ==
  /\ \E there \in SUBSET Personas :
       /\ row = [p \in Personas |-> IF p \in there THEN Original(Plain) ELSE NoRow]
       /\ history = [p \in Personas |-> IF p \in there THEN {Original(Plain)} ELSE {}]
  /\ lock = [p \in Personas |-> None]
  /\ job = [j \in Jobs |-> NoJob] /\ wronged = FALSE
  /\ editor = "shut" /\ opened = {} /\ busy = FALSE

-----------------------------------------------------------------------------
(* The editor.                                                              *)

StartCreate ==
  /\ editor = "shut" /\ editor' = "new"
  /\ UNCHANGED <<database, opened, busy>>

StartEdit(p) ==
  /\ editor = "shut" /\ row[p].version > 0
  /\ opened' = opened \cup {p}
  /\ UNCHANGED <<database, editor, busy>>

\* The full record comes and opens its dialog, whatever is open by then; or
\* the request fails.
EditArrives(p) ==
  /\ p \in opened
  /\ opened' = opened \ {p}
  /\ editor' \in {editor, p}
  /\ UNCHANGED <<database, busy>>

Cancel ==
  /\ editor # "shut" /\ editor' = "shut"
  /\ UNCHANGED <<database, opened, busy>>

\* The test chat asks the model with the prompt that is stored, not with the
\* one in the form.
SendTest ==
  /\ editor # "shut" /\ ~busy
  /\ busy' = TRUE
  /\ UNCHANGED <<database, editor, opened>>

\* The answer, or the error in its place, goes into the chat that is shown by
\* then, of whatever personality.
TestArrives ==
  /\ busy
  /\ busy' = FALSE
  /\ UNCHANGED <<database, editor, opened>>

-----------------------------------------------------------------------------
(* Writing.                                                                 *)

Asks(j, op, p, patch) ==
  /\ job[j].pc = "idle"
  /\ job' = [job EXCEPT ![j] = [NoJob EXCEPT !.pc = "begin", !.op = op, !.persona = p, !.patch = patch]]

\* The dialog sends the whole form.  It may send it twice, which the database
\* does not tell from the requests of two clients; bounds: one at a time here,
\* and two forms.
Save(j) ==
  /\ \A k \in Jobs : job[k].pc = "idle"
  /\ \E form \in {[f \in Fields |-> c] : c \in Contents} :
       \/ editor \in Personas /\ Asks(j, "update", editor, form)
       \/ editor = "new" /\ \E p \in Personas : Asks(j, "create", p, form)
  /\ UNCHANGED <<row, history, lock, wronged, desk>>

\* Another client of the API; its edit may name some of the fields only.
\* Bound: what it creates is plain.
SaveElsewhere(j, p, patch) ==
  /\ \/ Asks(j, "update", p, patch)
     \/ patch = Plain /\ Asks(j, "create", p, patch)
  /\ UNCHANGED <<row, history, lock, wronged, desk>>

Free(j, p) == lock[p] \in {None, j}
Step(j, pc, new) == job' = [job EXCEPT ![j].pc = pc, ![j].new = new]
Release(j) == lock' = [p \in Personas |-> IF lock[p] = j THEN None ELSE lock[p]]
Stop(j) == job' = [job EXCEPT ![j] = NoJob] /\ Release(j)

\* The INSERT waits for another one of the same slug; the slug is unique.
InsertRow(j) ==
  LET p == job[j].persona IN
  /\ job[j].pc = "begin" /\ job[j].op = "create" /\ Free(j, p)
  /\ IF row[p].version > 0
       THEN Stop(j)
       ELSE /\ Step(j, "snapshot", Original(job[j].patch))
            /\ lock' = [lock EXCEPT ![p] = j]
  /\ UNCHANGED <<row, history, wronged, desk>>

Override(form, patch) == [f \in Fields |-> IF f \in DOMAIN patch THEN patch[f] ELSE form[f]]

\* Bound: one personality at a time is edited, and not more often than that.
Bounded(p) == row[p].version < MaxVersions /\ \A q \in Personas \ {p} : row[q].version <= 1

\* Mutant: the row is read without FOR UPDATE.
ReadRowUnlocked(j) ==
  LET p == job[j].persona IN
  /\ job[j].pc = "begin" /\ job[j].op = "update"
  /\ IF row[p].version = 0
       THEN Stop(j)
       ELSE /\ Bounded(p)
            /\ Step(j, "update", [version |-> row[p].version + 1,
                                  form |-> Override(row[p].form, job[j].patch)])
            /\ UNCHANGED lock
  /\ UNCHANGED <<row, history, wronged, desk>>

\* SELECT ... FOR UPDATE waits for whoever is writing the row.
ReadRow(j) ==
  LET p == job[j].persona IN
  /\ job[j].pc = "begin" /\ job[j].op = "update" /\ Free(j, p)
  /\ IF row[p].version = 0
       THEN Stop(j)
       ELSE /\ Bounded(p)
            /\ Step(j, "update", [version |-> row[p].version + 1,
                                  form |-> Override(row[p].form, job[j].patch)])
            /\ lock' = [lock EXCEPT ![p] = j]
  /\ UNCHANGED <<row, history, wronged, desk>>

UpdateRow(j) ==
  LET p == job[j].persona IN
  /\ job[j].pc = "update" /\ Free(j, p)
  /\ lock' = [lock EXCEPT ![p] = j]
  /\ Step(j, "snapshot", job[j].new)
  /\ UNCHANGED <<row, history, wronged, desk>>

\* The version is inserted; a second one of its number is refused.
InsertVersion(j) ==
  LET p == job[j].persona
      taken == \E v \in history[p] : v.version = job[j].new.version
  IN
  /\ job[j].pc = "snapshot"
  /\ wronged' = (wronged \/ taken)
  /\ IF taken THEN Stop(j) ELSE Step(j, "commit", job[j].new) /\ UNCHANGED lock
  /\ UNCHANGED <<row, history, desk>>

\* COMMIT; the answer closes whatever dialog is open when it comes, if the
\* tab has asked.
Commit(j) ==
  LET p == job[j].persona
      built == row[p].version = 0 \/ job[j].new.form = Override(row[p].form, job[j].patch)
  IN
  /\ job[j].pc = "commit"
  /\ row' = [row EXCEPT ![p] = job[j].new]
  /\ history' = [history EXCEPT ![p] = @ \cup {job[j].new}]
  /\ wronged' = (wronged \/ ~built)
  /\ editor' \in {editor, "shut"}
  /\ Stop(j)
  /\ UNCHANGED <<opened, busy>>

\* A statement fails or the connection breaks: ROLLBACK.
Rollback(j) ==
  /\ job[j].pc # "idle"
  /\ Stop(j)
  /\ UNCHANGED <<row, history, wronged, desk>>

Transactions ==
  \E j \in Jobs :
    \/ InsertRow(j) \/ ReadRow(j) \/ UpdateRow(j) \/ InsertVersion(j)
    \/ Commit(j) \/ Rollback(j)

\* The tab, on its own ...
EditsHere ==
  \/ StartCreate \/ Cancel \/ SendTest \/ TestArrives
  \/ \E p \in Personas : StartEdit(p) \/ EditArrives(p)
  \/ \E j \in Jobs : Save(j)
  \/ Transactions

\* ... and other clients, who take any step it takes in the database.
EditsElsewhere ==
  \/ \E j \in Jobs, p \in Personas, patch \in Patches : SaveElsewhere(j, p, patch)
  \/ Transactions

-----------------------------------------------------------------------------

\* Every edit that was accepted is a version of its own: the versions of a
\* personality are numbered from 1 without a gap and the last is what it is
\* now.  No edit undoes what another one has written to a field it does not
\* name, or fails because another one was under way.
EditsAreAllKept ==
  /\ ~wronged
  /\ \A p \in Personas :
       /\ {v.version : v \in history[p]} = 1 .. row[p].version
       /\ Cardinality(history[p]) = row[p].version
       /\ row[p].version > 0 => row[p] \in history[p]

=============================================================================
