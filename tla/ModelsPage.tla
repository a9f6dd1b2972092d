------------------------------ MODULE ModelsPage ------------------------------
(***************************************************************************)
(* The models page of the panel (apps/admin/src/pages/ModelsPage.jsx) over *)
(* the routes for models (apps/api/src/routes/ai-routes.js): the catalogue *)
(* of a provider is fetched, models are picked and registered, edited and  *)
(* deleted.  Answers come in any order and find whatever dialog is open by *)
(* then; a dialog covers the page, so that none is opened over another.    *)
(* The logical profiles of the same page are ProfileChains.                *)
(***************************************************************************)
EXTENDS Integers, FiniteSets

CONSTANTS
  Providers,   \* the provider rows
  First,       \* providers[0], the one a new dialog starts with
  Catalogue,   \* what each provider serves: sets of identifiers
  None,
  MaxAsks,     \* bound: requests under way together
  MaxRows      \* bound: models registered at the start

Identifiers == UNION {Catalogue[p] : p \in Providers}
Keys == Providers \X Identifiers   \* UNIQUE (provider_id, identifier)

VARIABLES
  models,     \* the rows of the table, and their status
  used,       \* the rows some profile refers to
  shown,      \* the page: the models it lists
  discovery,  \* the discovery dialog
  form,       \* the form: shut, for a new model, or the registered model it is for
  confirm,    \* the dialog that asks whether to delete a model
  asks,       \* requests under way
  warned      \* history: models whose deletion the server has refused

vars == <<models, used, shown, discovery, form, confirm, asks, warned>>
table == <<models, used>>
dialogs == <<discovery, form, confirm>>

Unregistered == "none"
Shut == <<>>
Known(p) == {i \in Identifiers : models[<<p, i>>] # Unregistered}

Closed == [open |-> FALSE, provider |-> First, loading |-> FALSE,
           data |-> {}, known |-> {}, picked |-> {}, importing |-> FALSE]
Fresh(p) == [Closed EXCEPT !.open = TRUE, !.provider = p]
NoConfirm == [key |-> None, blocker |-> FALSE]

Ask(op, p, ids, status, force) ==
  [op |-> op, provider |-> p, ids |-> ids, status |-> status, force |-> force,
   pc |-> "sent", known |-> {}]

Init ==
  /\ \E rows \in SUBSET {k \in Keys : k[2] \in Catalogue[k[1]]} :
       /\ Cardinality(rows) <= MaxRows
       /\ models = [k \in Keys |-> IF k \in rows THEN "active" ELSE Unregistered]
  /\ used \in SUBSET {k \in Keys : models[k] = "active"}
  /\ shown = {k \in Keys : models[k] = "active"}
  /\ discovery = Closed /\ form = Shut /\ confirm = NoConfirm
  /\ asks = {} /\ warned = {}

Covered == discovery.open \/ form # Shut \/ confirm.key # None
Sends(ask) == Cardinality(asks) < MaxAsks /\ ask \notin asks /\ asks' = asks \cup {ask}
Ends(ask) == asks' = asks \ {ask}
Serves(ask, pc, known) ==
  asks' = (asks \ {ask}) \cup {[ask EXCEPT !.pc = pc, !.known = known]}

-----------------------------------------------------------------------------
(* Discovery.                                                               *)

OpenDiscovery ==
  /\ ~Covered
  /\ discovery' = Fresh(First)
  /\ UNCHANGED <<table, shown, form, confirm, asks, warned>>

ChooseProvider(p) ==
  /\ discovery.open /\ ~discovery.loading
  /\ discovery' = [Fresh(p) EXCEPT !.importing = discovery.importing]
  /\ UNCHANGED <<table, shown, form, confirm, asks, warned>>

\* fetchModels, from the dialog or from the form of a new model, which gives
\* way to the dialog.
FetchModels(p) ==
  /\ \/ discovery.open /\ ~discovery.loading /\ p = discovery.provider
     \/ form = <<"new">>
  /\ discovery' = [Fresh(p) EXCEPT !.loading = TRUE, !.importing = discovery.importing]
  /\ form' = Shut
  /\ Sends(Ask("discover", p, {}, "active", FALSE))
  /\ UNCHANGED <<table, shown, confirm, warned>>

\* The provider answers through the server, which marks what is registered;
\* or the catalogue is not supported, or the request fails.
ServeDiscover(ask) ==
  /\ ask.op = "discover" /\ ask.pc = "sent"
  /\ Serves(ask, "ok", Known(ask.provider)) \/ Serves(ask, "failed", {})
  /\ UNCHANGED <<table, shown, dialogs, warned>>

\* A dialog that was closed stays closed; one that was opened since gets the
\* answer, whatever provider it is for.
DiscoverArrives(ask) ==
  /\ ask.op = "discover" /\ ask.pc # "sent"
  /\ discovery' =
       IF discovery.open
         THEN [discovery EXCEPT !.loading = FALSE,
                 !.data = IF ask.pc = "ok" THEN Catalogue[ask.provider] ELSE {},
                 !.known = ask.known]
         ELSE discovery
  /\ Ends(ask)
  /\ UNCHANGED <<table, shown, form, confirm, warned>>

\* Registered models have no live checkbox.
TogglePick(i) ==
  /\ discovery.open /\ i \in discovery.data \ discovery.known
  /\ discovery' = [discovery EXCEPT
       !.picked = IF i \in @ THEN @ \ {i} ELSE @ \cup {i}]
  /\ UNCHANGED <<table, shown, form, confirm, asks, warned>>

\* All that match the search and are not registered are picked, or if they
\* are, none.
PickAllVisible(visible) ==
  /\ discovery.open /\ visible \subseteq discovery.data
  /\ LET selectable == visible \ discovery.known
         all == selectable # {} /\ selectable \subseteq discovery.picked
     IN  discovery' = [discovery EXCEPT
           !.picked = IF all THEN @ \ selectable ELSE @ \cup selectable]
  /\ UNCHANGED <<table, shown, form, confirm, asks, warned>>

ImportPicked ==
  /\ discovery.open /\ ~discovery.importing
  /\ LET items == discovery.data \cap discovery.picked IN
       /\ items # {}
       /\ Sends(Ask("import", discovery.provider, items, "active", FALSE))
  /\ discovery' = [discovery EXCEPT !.importing = TRUE]
  /\ UNCHANGED <<table, shown, form, confirm, warned>>

\* The server registers item by item; a row the table does not take (a
\* capability it has no name for) is reported and the rest goes on.
ServeImport(ask) ==
  /\ ask.op = "import" /\ ask.pc = "sent"
  /\ \/ \E taken \in SUBSET ask.ids :
          /\ models' = [k \in Keys |-> IF k[1] = ask.provider /\ k[2] \in taken
                                         THEN "active" ELSE models[k]]
          /\ Serves(ask, "ok", {})
     \/ Serves(ask, "failed", {}) /\ UNCHANGED models
  /\ UNCHANGED <<used, shown, dialogs, warned>>

\* A success closes the dialog, also one that was opened in the meantime.
ImportArrives(ask) ==
  /\ ask.op = "import" /\ ask.pc # "sent"
  /\ discovery' = IF ask.pc = "ok" THEN Closed ELSE [discovery EXCEPT !.importing = FALSE]
  /\ Ends(ask)
  /\ UNCHANGED <<table, shown, form, confirm, warned>>

\* A single model goes through the form.
ImportOne(i) ==
  /\ discovery.open /\ i \in discovery.data \ discovery.known
  /\ form' = <<"new">>
  /\ discovery' = Closed
  /\ UNCHANGED <<table, shown, confirm, asks, warned>>

-----------------------------------------------------------------------------
(* The form.                                                                *)

\* An empty form, from the page or for a provider without a catalogue.
StartAddModel(p) ==
  /\ \/ ~Covered /\ p = First
     \/ discovery.open /\ ~discovery.loading /\ discovery.data = {} /\ p = discovery.provider
  /\ form' = <<"new">>
  /\ discovery' = Closed
  /\ UNCHANGED <<table, shown, confirm, asks, warned>>

StartEditModel(k) ==
  /\ ~Covered /\ k \in shown
  /\ form' = k
  /\ UNCHANGED <<table, shown, discovery, confirm, asks, warned>>

\* What is filled in; a registered model keeps its provider and identifier.
SaveModel(k, status) ==
  /\ form \in {k, <<"new">>}
  /\ Sends(Ask(IF form = k THEN "update" ELSE "create", k[1], {k[2]}, status, FALSE))
  /\ UNCHANGED <<table, shown, dialogs, warned>>

\* upsertModel for a new model, updateModel for a registered one, if there
\* still is one.  Either fails on a capability the table does not know.
ServeSave(ask) ==
  /\ ask.op \in {"create", "update"} /\ ask.pc = "sent"
  /\ LET k == <<ask.provider, CHOOSE i \in ask.ids : TRUE>> IN
     \/ /\ ask.op = "create" \/ models[k] # Unregistered
        /\ models' = [models EXCEPT ![k] = ask.status]
        /\ Serves(ask, "ok", {})
     \/ Serves(ask, "failed", {}) /\ UNCHANGED models
  /\ UNCHANGED <<used, shown, dialogs, warned>>

SaveArrives(ask) ==
  /\ ask.op \in {"create", "update"} /\ ask.pc # "sent"
  /\ form' = IF ask.pc = "ok" THEN Shut ELSE form
  /\ Ends(ask)
  /\ UNCHANGED <<table, shown, discovery, confirm, warned>>

-----------------------------------------------------------------------------
(* Deletion.                                                                *)

AskWhether(k) ==
  /\ ~Covered /\ k \in shown
  /\ confirm' = [key |-> k, blocker |-> FALSE]
  /\ UNCHANGED <<table, shown, discovery, form, asks, warned>>

\* The dialog closes as soon as it is confirmed; it carries force once the
\* server has refused.
DeleteModel ==
  /\ confirm.key # None
  /\ Sends(Ask("delete", confirm.key[1], {confirm.key[2]}, "active", confirm.blocker))
  /\ confirm' = NoConfirm
  /\ UNCHANGED <<table, shown, discovery, form, warned>>

KeyOf(ask) == <<ask.provider, CHOOSE i \in ask.ids : TRUE>>

\* Whether a profile uses the model, and then the deletion.  What comes
\* between these two statements is the subject of ProfileChains.
ServeDelete(ask) ==
  /\ ask.op = "delete" /\ ask.pc = "sent"
  /\ LET k == KeyOf(ask) IN
     CASE models[k] = Unregistered -> Serves(ask, "failed", {}) /\ UNCHANGED table
       [] models[k] # Unregistered /\ k \in used /\ ~ask.force ->
            Serves(ask, "refused", {}) /\ UNCHANGED table
       [] OTHER -> /\ models' = [models EXCEPT ![k] = Unregistered]
                   /\ used' = used \ {k}
                   /\ Serves(ask, "ok", {})
  /\ UNCHANGED <<shown, dialogs, warned>>

\* Mutant: the refusal is shown by whatever dialog is open by then.
DeleteArrivesAnywhere(ask) ==
  /\ ask.op = "delete" /\ ask.pc # "sent"
  /\ confirm' = CASE ask.pc = "ok" -> NoConfirm
                  [] ask.pc = "refused" -> [confirm EXCEPT !.blocker = TRUE]
                  [] OTHER -> confirm
  /\ warned' = IF ask.pc = "refused" THEN warned \cup {KeyOf(ask)} ELSE warned
  /\ Ends(ask)
  /\ UNCHANGED <<table, shown, discovery, form>>

\* A refusal opens the dialog again, for the model it is about; a success
\* closes any dialog that has been opened since.
DeleteArrives(ask) ==
  /\ ask.op = "delete" /\ ask.pc # "sent"
  /\ confirm' = CASE ask.pc = "ok" -> NoConfirm
                  [] ask.pc = "refused" -> [key |-> KeyOf(ask), blocker |-> TRUE]
                  [] OTHER -> confirm
  /\ warned' = IF ask.pc = "refused" THEN warned \cup {KeyOf(ask)} ELSE warned
  /\ Ends(ask)
  /\ UNCHANGED <<table, shown, discovery, form>>

-----------------------------------------------------------------------------

\* load(): every change is followed by one, and its answer shows what was
\* active at some time since.
Load ==
  /\ shown' = {k \in Keys : models[k] = "active"}
  /\ shown' # shown
  /\ UNCHANGED <<table, dialogs, asks, warned>>

Cancel ==
  /\ Covered
  /\ discovery' = Closed /\ form' = Shut /\ confirm' = NoConfirm
  /\ UNCHANGED <<table, shown, asks, warned>>

\* Another administrator: profiles and models change.
Elsewhere(k) ==
  /\ models[k] # Unregistered
  /\ \/ used' = (used \ {k}) \cup ({k} \ used) /\ UNCHANGED models
     \/ models' = [models EXCEPT ![k] = Unregistered] /\ used' = used \ {k}
  /\ UNCHANGED <<shown, dialogs, asks, warned>>

Serve(ask) == ServeDiscover(ask) \/ ServeImport(ask) \/ ServeSave(ask) \/ ServeDelete(ask)
Arrives(ask) == DiscoverArrives(ask) \/ ImportArrives(ask) \/ SaveArrives(ask) \/ DeleteArrives(ask)

Answers == \E ask \in asks : Serve(ask) \/ Arrives(ask)
FillIn(statuses) == \E k \in Keys, status \in statuses : SaveModel(k, status)

\* The operator registers models from the catalogues ...
Registers ==
  \/ OpenDiscovery \/ ImportPicked \/ FillIn({"active"}) \/ Cancel
  \/ \E p \in Providers : ChooseProvider(p) \/ FetchModels(p)
  \/ \E i \in Identifiers : TogglePick(i) \/ ImportOne(i)
  \/ \E visible \in SUBSET discovery.data : PickAllVisible(visible)
  \/ \E p \in Providers : StartAddModel(p)
  \/ Answers

\* ... or edits and deletes those on the page.
Maintains ==
  \/ \E k \in Keys : StartEditModel(k) \/ AskWhether(k) \/ Elsewhere(k)
  \/ FillIn({"disabled"}) \/ DeleteModel \/ Load \/ Cancel
  \/ Answers

-----------------------------------------------------------------------------

\* A model is deleted by force only after the server has said which profiles
\* use it, however late that answer comes and whatever dialog is open by
\* then: the warning of one model is never taken for that of another.
ForcedDeletesWereWarned ==
  \A ask \in asks : ask.force => KeyOf(ask) \in warned

=============================================================================
