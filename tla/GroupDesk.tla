------------------------------- MODULE GroupDesk -------------------------------
(***************************************************************************)
(* The groups page of the panel (apps/admin/src/pages/GroupsPage.jsx) over *)
(* the routes for groups, bulk operations and templates (apps/api/src/     *)
(* routes/community-routes.js and debug-routes.js).  The settings dialog   *)
(* opens when the settings have come, so that the page stays live while    *)
(* they are under way, and answers may come in any order.                  *)
(***************************************************************************)
EXTENDS Integers, FiniteSets

CONSTANTS
  Groups,
  Values,      \* what a group's settings may be, one model value for each
  Templates,
  Preset,      \* the settings of each template
  None,
  MaxAsks      \* bound: requests under way together

VARIABLES
  stored,      \* group_settings on the server
  barred,      \* blacklists: groups
  rows,        \* the groups the page lists
  editing,     \* the group named by the settings dialog
  settings,    \* [of, value]: the draft in the dialog, and the group it was loaded from
  template,    \* [key, preview]: what is chosen in the dialog and what it shows
  selected, bulk,   \* the selection and the bulk operation chosen for it
  confirming,  \* the dialog that asks whether to blacklist
  debug,       \* the group whose configuration is shown
  asks         \* requests under way

page == <<rows, editing, settings, template, selected, bulk, confirming, debug>>
vars == <<stored, barred, page, asks>>

NoDraft == [of |-> None, value |-> None]
NoTemplate == [key |-> None, preview |-> None]
NoBulk == [action |-> None, value |-> None]

Init ==
  /\ stored \in [Groups -> Values]
  /\ barred = {} /\ rows = Groups
  /\ editing = None /\ settings = NoDraft /\ template = NoTemplate
  /\ selected = {} /\ bulk = NoBulk /\ confirming = FALSE /\ debug = None
  /\ asks = {}

Ask(op, ids, draft, action) ==
  [op |-> op, ids |-> ids, draft |-> draft, action |-> action, pc |-> "sent"]
Sends(ask) == Cardinality(asks) < MaxAsks /\ ask \notin asks /\ asks' = asks \cup {ask}
Ends(ask) == asks' = asks \ {ask}
Serves(ask, pc, value) ==
  asks' = (asks \ {ask}) \cup {[ask EXCEPT !.pc = pc, !.draft.value = value]}
Is(ask, op, pc) == ask.op = op /\ ask.pc = pc
Target(ask) == CHOOSE g \in ask.ids : TRUE

EditorOpen == editing # None /\ settings # NoDraft
Covered == EditorOpen \/ confirming \/ debug # None

CloseEditor == editing' = None /\ settings' = NoDraft /\ template' = NoTemplate

-----------------------------------------------------------------------------
(* The settings of one group.                                               *)

OpenSettings(g) ==
  /\ ~Covered /\ g \in rows
  /\ Sends(Ask("open", {g}, [of |-> g, value |-> None], None))
  /\ UNCHANGED <<stored, barred, page>>

\* GET /groups/:id: the defaults stand in for what is not stored.
ServeOpen(ask) ==
  /\ Is(ask, "open", "sent")
  /\ Serves(ask, "ok", stored[Target(ask)])
  /\ UNCHANGED <<stored, barred, page>>

\* Mutant: the page is told which group is edited as soon as it is clicked,
\* and gets the settings when they come.
OpenArrivesLate(ask) ==
  /\ Is(ask, "open", "ok")
  /\ editing' = IF EditorOpen THEN editing ELSE Target(ask)
  /\ settings' = ask.draft /\ template' = NoTemplate
  /\ Ends(ask)
  /\ UNCHANGED <<stored, barred, rows, selected, bulk, confirming, debug>>

\* Group and settings come together, whatever the page shows by then.
OpenArrives(ask) ==
  /\ Is(ask, "open", "ok")
  /\ editing' = Target(ask) /\ settings' = ask.draft /\ template' = NoTemplate
  /\ Ends(ask)
  /\ UNCHANGED <<stored, barred, rows, selected, bulk, confirming, debug>>

Type(v) ==
  /\ EditorOpen /\ settings.value # v
  /\ settings' = [settings EXCEPT !.value = v]
  /\ UNCHANGED <<stored, barred, rows, editing, template, selected, bulk, confirming, debug, asks>>

SaveSettings ==
  /\ EditorOpen
  /\ Sends(Ask("patch", {editing}, settings, None))
  /\ UNCHANGED <<stored, barred, page>>

\* PATCH /groups/:id/settings writes the columns it is given.
ServePatch(ask) ==
  /\ Is(ask, "patch", "sent")
  /\ stored' = [stored EXCEPT ![Target(ask)] = ask.draft.value]
  /\ Serves(ask, "ok", ask.draft.value)
  /\ UNCHANGED <<barred, page>>

\* Saving and applying close whatever editor is open by then.
ClosingArrives(ask) ==
  /\ ask.op \in {"patch", "apply"} /\ ask.pc = "ok"
  /\ CloseEditor
  /\ Ends(ask)
  /\ UNCHANGED <<stored, barred, rows, selected, bulk, confirming, debug>>

-----------------------------------------------------------------------------
(* Templates.                                                               *)

ChooseTemplate(k) ==
  /\ EditorOpen /\ template.key # k
  /\ template' = [key |-> k, preview |-> None]
  /\ UNCHANGED <<stored, barred, rows, editing, settings, selected, bulk, confirming, debug, asks>>

\* POST /groups/:id/apply-template, to preview the template or to apply it.
UseTemplate(op) ==
  /\ EditorOpen /\ template.key # None
  /\ Sends(Ask(op, {editing}, NoDraft, template.key))
  /\ UNCHANGED <<stored, barred, page>>

ServeTemplate(ask) ==
  /\ ask.op \in {"preview", "apply"} /\ ask.pc = "sent"
  /\ stored' = IF ask.op = "apply"
                 THEN [stored EXCEPT ![Target(ask)] = Preset[ask.action]] ELSE stored
  /\ Serves(ask, "ok", Preset[ask.action])
  /\ UNCHANGED <<barred, page>>

\* A late preview is shown under whatever template is chosen by then.
PreviewArrives(ask) ==
  /\ Is(ask, "preview", "ok")
  /\ template' = [template EXCEPT !.preview = ask.draft.value]
  /\ Ends(ask)
  /\ UNCHANGED <<stored, barred, rows, editing, settings, selected, bulk, confirming, debug>>

-----------------------------------------------------------------------------
(* Bulk operations.                                                         *)

Toggle(g) ==
  /\ ~Covered /\ g \in rows
  /\ selected' = (selected \ {g}) \cup ({g} \ selected)
  /\ UNCHANGED <<stored, barred, rows, editing, settings, template, bulk, confirming, debug, asks>>

\* A search narrows the list but not the selection.
ToggleAll ==
  /\ ~Covered
  /\ selected' = IF rows # {} /\ rows \subseteq selected THEN {} ELSE rows
  /\ UNCHANGED <<stored, barred, rows, editing, settings, template, bulk, confirming, debug, asks>>

ClearSelection ==
  /\ ~Covered /\ selected # {}
  /\ selected' = {}
  /\ UNCHANGED <<stored, barred, rows, editing, settings, template, bulk, confirming, debug, asks>>

\* "set" stands for the operations that write one of the settings.
ChooseBulk(b) ==
  /\ ~Covered /\ selected # {} /\ bulk # b
  /\ bulk' = b
  /\ UNCHANGED <<stored, barred, rows, editing, settings, template, selected, confirming, debug, asks>>

BulkChoices == {[action |-> "blacklist", value |-> None]} \cup {[action |-> "set", value |-> v] : v \in Values}
SendBulk == Sends(Ask("bulk", selected, [of |-> None, value |-> bulk.value], bulk.action))

\* Blacklisting asks first.
RunBulk ==
  /\ ~Covered /\ selected # {} /\ bulk.action # None
  /\ IF bulk.action = "blacklist" THEN confirming' = TRUE /\ UNCHANGED asks
                                  ELSE SendBulk /\ UNCHANGED confirming
  /\ UNCHANGED <<stored, barred, rows, editing, settings, template, selected, bulk, debug>>

\* The answer to another operation may have emptied the selection by now.
ConfirmBulk ==
  /\ confirming
  /\ SendBulk
  /\ confirming' = FALSE
  /\ UNCHANGED <<stored, barred, rows, editing, settings, template, selected, bulk, debug>>

\* Group by group, each statement on its own; it ends where one fails.  An
\* empty selection is refused.
ServeBulk(ask) ==
  /\ Is(ask, "bulk", "sent")
  /\ \E done \in SUBSET ask.ids :
       /\ stored' = [g \in Groups |-> IF ask.action = "set" /\ g \in done
                                        THEN ask.draft.value ELSE stored[g]]
       /\ barred' = IF ask.action = "blacklist" THEN barred \cup done ELSE barred
       /\ Serves(ask, IF done = ask.ids /\ done # {} THEN "ok" ELSE "failed", ask.draft.value)
  /\ UNCHANGED page

BulkArrives(ask) ==
  /\ Is(ask, "bulk", "ok")
  /\ selected' = {} /\ bulk' = NoBulk
  /\ Ends(ask)
  /\ UNCHANGED <<stored, barred, rows, editing, settings, template, confirming, debug>>

-----------------------------------------------------------------------------

OpenDebug(g) ==
  /\ ~Covered /\ g \in rows
  /\ Sends(Ask("debug", {g}, NoDraft, None))
  /\ UNCHANGED <<stored, barred, page>>

\* GET /groups/:id/debug shows the layers the settings come from.
DebugArrives(ask) ==
  /\ Is(ask, "debug", "sent")
  /\ debug' = Target(ask)
  /\ Ends(ask)
  /\ UNCHANGED <<stored, barred, rows, editing, settings, template, selected, bulk, confirming>>

\* A request fails: the page says so and stays as it is.
Fails(ask) ==
  /\ Ends(ask)
  /\ UNCHANGED <<stored, barred, page>>

\* The list is loaded again, for the words that are in the search field.
Load(found) ==
  /\ rows # found /\ rows' = found
  /\ UNCHANGED <<stored, barred, editing, settings, template, selected, bulk, confirming, debug, asks>>

Close ==
  /\ Covered
  /\ IF EditorOpen THEN CloseEditor ELSE UNCHANGED <<editing, settings, template>>
  /\ confirming' = FALSE /\ debug' = None
  /\ UNCHANGED <<stored, barred, rows, selected, bulk, asks>>

Answers(ask) ==
  \/ ServeOpen(ask) \/ OpenArrives(ask) \/ ServePatch(ask) \/ ClosingArrives(ask)
  \/ ServeTemplate(ask) \/ PreviewArrives(ask) \/ ServeBulk(ask) \/ BulkArrives(ask)
  \/ DebugArrives(ask) \/ Fails(ask)

\* An administrator edits settings, over the page that shows them ...
Edits ==
  \/ \E g \in Groups : OpenSettings(g) \/ OpenDebug(g)
  \/ \E v \in Values : Type(v)
  \/ \E k \in Templates : ChooseTemplate(k)
  \/ \E found \in {Groups, {}} : Load(found)
  \/ UseTemplate("preview") \/ UseTemplate("apply") \/ SaveSettings \/ Close
  \/ \E ask \in asks : Answers(ask)

\* ... or works on many groups together.
WorksInBulk ==
  \/ \E g \in Groups : Toggle(g)
  \/ \E b \in BulkChoices : ChooseBulk(b)
  \/ ToggleAll \/ ClearSelection \/ RunBulk \/ ConfirmBulk \/ Close
  \/ \E ask \in asks : Answers(ask)

-----------------------------------------------------------------------------

\* The settings that are shown, and those that are saved, are the ones that
\* were loaded from the group in the title, in whatever order the answers of
\* several groups come: no group gets the settings of another.
SettingsGoToTheirGroup ==
  /\ EditorOpen => settings.of = editing
  /\ \A ask \in asks : ask.op = "patch" => ask.draft.of = Target(ask)

=============================================================================
