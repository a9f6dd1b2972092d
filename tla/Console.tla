-------------------------------- MODULE Console --------------------------------
(***************************************************************************)
(* The parts of the panel and of the API behind it that an administrator's *)
(* work goes through.  They share the database but no table and no state   *)
(* of the tab, so that a behaviour is about one of them, which is chosen   *)
(* at the start, while the others stay as they are.                        *)
(***************************************************************************)
EXTENDS Integers, Sequences, FiniteSets

CONSTANTS
  None,
  Calls, MaxSessions,                               \* PanelClient
  Providers, First, Catalogue, MaxAsks, MaxRows,    \* ModelsPage; MaxAsks also of GroupDesk
  Groups, Values, Templates, Preset,                \* GroupDesk
  Personas, Fields, Contents, Jobs, MaxVersions,    \* PersonaDesk
  Api, Scripts, Files, MaxStarts                    \* Startup

ASSUME BoundsAssumption == {MaxSessions, MaxAsks, MaxRows, MaxVersions, Files, MaxStarts} \subseteq Nat
ASSUME CatalogueAssumption == First \in Providers /\ DOMAIN Catalogue = Providers
ASSUME PresetAssumption == Preset \in [Templates -> Values]
ASSUME StudioAssumption == None \notin Jobs
ASSUME ClientAssumption == None \notin Calls
ASSUME ContainerAssumption == Api \notin Scripts

VARIABLES
  desk,     \* what the behaviour is about
  me, ready, token, cookie, expired, live, issued, call, flight, refreshing, excused, thrown,
  models, used, shown, discovery, form, confirm, asks, warned,
  stored, barred, rows, editing, settings, template, selected, bulk, confirming, debug, groupAsks,
  persona, history, personaLock, edits, wronged, editor, opened, busy,
  schema, recorded, proc, accounts, supers, health, starts

client == <<me, ready, token, cookie, expired, live, issued, call, flight, refreshing, excused, thrown>>
page == <<models, used, shown, discovery, form, confirm, asks, warned>>
group == <<stored, barred, rows, editing, settings, template, selected, bulk, confirming, debug, groupAsks>>
studio == <<persona, history, personaLock, edits, wronged, editor, opened, busy>>
container == <<schema, recorded, proc, accounts, supers, health, starts>>
vars == <<desk, client, page, group, studio, container>>

Client == INSTANCE PanelClient
Page == INSTANCE ModelsPage
Group == INSTANCE GroupDesk WITH asks <- groupAsks
Persona == INSTANCE PersonaDesk WITH row <- persona, lock <- personaLock, job <- edits
Container == INSTANCE Startup

Desks == {"session", "register", "maintain", "groups", "bulk", "persona", "elsewhere", "startup"}

\* A desk that may start in several ways starts in one when it is idle, and
\* so do the groups and the catalogue where that makes no difference.
Init ==
  /\ desk \in Desks
  /\ Client!Init /\ Page!Init /\ Group!Init /\ Persona!Init /\ Container!Init
  /\ desk # "session" => cookie = None /\ live = {}
  /\ desk # "maintain" => shown = {}
  /\ \A g, h \in Groups : stored[g] = stored[h] /\ stored[g] = CHOOSE v \in Values : TRUE
  /\ desk \notin {"persona", "elsewhere"} => \A p \in Personas : persona[p].version = 0
  /\ desk # "startup" => recorded = {}

\* The work of one desk; all the others keep what they have.
Next ==
  \/ /\ desk = "session" /\ Client!Next
     /\ UNCHANGED <<desk, page, group, studio, container>>
  \/ /\ \/ desk = "register" /\ Page!Registers
        \/ desk = "maintain" /\ Page!Maintains
     /\ UNCHANGED <<desk, client, group, studio, container>>
  \/ /\ \/ desk = "groups" /\ Group!Edits
        \/ desk = "bulk" /\ Group!WorksInBulk
     /\ UNCHANGED <<desk, client, page, studio, container>>
  \/ /\ \/ desk = "persona" /\ Persona!EditsHere
        \/ desk = "elsewhere" /\ Persona!EditsElsewhere
     /\ UNCHANGED <<desk, client, page, group, container>>
  \/ /\ desk = "startup" /\ Container!Next
     /\ UNCHANGED <<desk, client, page, group, studio>>

Spec == Init /\ [][Next]_vars

-----------------------------------------------------------------------------

\* The panel throws an administrator out (api.js) only when his session has
\* ended or the network has failed, however his requests and refreshes cross.
NoNeedlessLogout == Client!NoNeedlessLogout

\* The models page deletes by force only what the server has warned of,
\* however late the warning comes and whatever dialog is open by then.
ForcedDeletesWereWarned == Page!ForcedDeletesWereWarned

\* The groups page shows and saves settings under the group they were loaded
\* from, in whatever order the answers of several groups come.
SettingsGoToTheirGroup == Group!SettingsGoToTheirGroup

\* Every accepted edit of a personality (updatePersonality) is a version of
\* its own, and neither undoes another one nor fails because of it.
EditsAreAllKept == Persona!EditsAreAllKept

\* Every migration takes effect once (runMigrations), however often it is
\* run, by how many processes at once, and wherever they die.
EveryMigrationOnce == Container!EveryMigrationOnce

=============================================================================
