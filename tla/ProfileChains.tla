---------------------------- MODULE ProfileChains ----------------------------
(***************************************************************************)
(* The chain of models of a logical profile: how the panel's routes check, *)
(* store and cut it (apps/api/src/routes/ai-routes.js, saveProfile() and   *)
(* deleteModel() in packages/db/src/repo/ai-config.js).                    *)
(* The code compares ids by ===, so an id is modelled with its type: pg    *)
(* hands a bigint column over as a string, while Number() makes a number.  *)
(* Left out are the other columns of the profile and who reads it.         *)
(***************************************************************************)
EXTENDS Sequences, SequencesExt

CONSTANTS
  Models,       \* rows of the table models
  Owner,        \* the tenant of every model's provider
  Home,         \* the tenant of the panel's administrators
  None,
  MaxChain      \* bound: length of a chain in the editor

VARIABLES
  row,      \* status of every model: "active", "disabled" or "gone"
  chain,    \* model_profile_models of the profile
  job,      \* [pc, list, seen]: PUT /model-profiles/:key; seen: what it found active
  doomed    \* the model that DELETE /models/:id has let pass, or None

vars == <<row, chain, job, doomed>>

\* The two types of ids; they are equal by === if type and value are.
Column(x) == [type |-> "string", value |-> x]
Numeric(x) == [type |-> "number", value |-> x]

Panel == Column(Home)    \* req.admin.tenantId, of the row of the administrator

Active == {m \in Models : row[m] = "active"}
OwnedBy(tenant) == {m \in Models : Column(Owner[m]) = tenant}

NoJob == [pc |-> "idle", list |-> <<>>, seen |-> {}]

Init ==
  /\ row = [m \in Models |-> "active"] /\ chain = <<>>
  /\ job = NoJob /\ doomed = None

-----------------------------------------------------------------------------
(* The routes of the panel.                                                 *)

\* What the editor can send: any list of models, with repetitions.
Drafts == SeqOf(Models, MaxChain)

\* [...new Set(models)]: every model once, where it occurs first.
Once(list) ==
  LET add(kept, m) == IF Contains(kept, m) THEN kept ELSE Append(kept, m)
  IN  FoldLeft(add, <<>>, list)

Save(draft) ==
  /\ job.pc # "check" /\ job.pc # "store"
  /\ job' = [NoJob EXCEPT !.pc = "check", !.list = Once(draft)]
  /\ UNCHANGED <<row, chain, doomed>>

\* Every id of the request must be among those of the active models.
CheckModels ==
  /\ job.pc = "check"
  /\ LET allowed == {Column(m) : m \in Active \cap OwnedBy(Panel)}
         found == \A m \in Range(job.list) : Numeric(m) \in allowed
     IN  job' = [job EXCEPT !.pc = IF found THEN "store" ELSE "refused", !.seen = Active]
  /\ UNCHANGED <<row, chain, doomed>>

\* saveProfile() is one transaction: it replaces the chain, or is rolled back
\* because a model is gone by now or a query fails.
StoreChain ==
  /\ job.pc = "store"
  /\ \/ /\ \A m \in Range(job.list) : row[m] # "gone"
        /\ chain' = job.list
        /\ job' = [job EXCEPT !.pc = "stored"]
     \/ job' = [job EXCEPT !.pc = "failed"] /\ UNCHANGED chain
  /\ UNCHANGED <<row, doomed>>

\* DELETE /models/:id is refused when a profile uses the model, unless by
\* force ...
CheckUsage(m, force) ==
  /\ doomed = None
  /\ row[m] # "gone" /\ Owner[m] = Home
  /\ Contains(chain, m) => force
  /\ doomed' = m
  /\ UNCHANGED <<row, chain, job>>

\* ... and takes the model out of every chain.
DeleteModel ==
  /\ doomed # None
  /\ row' = [row EXCEPT ![doomed] = "gone"]
  /\ chain' = SelectSeq(chain, LAMBDA m : m # doomed)
  /\ doomed' = None
  /\ UNCHANGED <<job>>

\* PATCH /models/:id.
SetStatus(m, status) ==
  /\ row[m] \notin {"gone", status} /\ Owner[m] = Home
  /\ row' = [row EXCEPT ![m] = status]
  /\ UNCHANGED <<chain, job, doomed>>

-----------------------------------------------------------------------------

Next ==
  \/ \E draft \in Drafts : Save(draft)
  \/ CheckModels \/ StoreChain
  \/ \E m \in Models, force \in BOOLEAN : CheckUsage(m, force)
  \/ DeleteModel
  \/ \E m \in Models, status \in {"active", "disabled"} : SetStatus(m, status)

Spec == Init /\ [][Next]_vars

-----------------------------------------------------------------------------

\* A chain is refused (ai-routes.js, PUT /model-profiles/:key) only when one of
\* its models does not belong to the tenant or was not active, as the message
\* of the refusal says.
ActiveChainsAreStored ==
  job.pc = "refused" => \E m \in Range(job.list) : Owner[m] # Home \/ m \notin job.seen

=============================================================================
