----------------------------- MODULE VpsMonitor -----------------------------
(***************************************************************************)
(* The monitoring of the server, end to end: the worker collects readings    *)
(* and sends heartbeats (apps/worker/src/index.js, jobs/metrics.js), the API *)
(* judges how old they are and how bad (platform-routes.js), and the panel   *)
(* polls it (VpsPage.jsx), several polls under way at a time.                *)
(*                                                                           *)
(* A tick is the 30 s of the heartbeat timer.  What matters of a stored time *)
(* is its age, which is counted up to OldAge.  A reading is what each metric *)
(* was measured to be, in percent, with Unknown for a probe that timed out.  *)
(***************************************************************************)
EXTENDS Integers, FiniteSets

CONSTANTS
    Measured,       \* what the probes may bring home: readings
    Thresholds,     \* [metric -> [warning, high, critical]]
    Unknown,        \* NULL
    MaxPolls,       \* bound: answers on their way to the page
    MaxBeats,       \* bound: heartbeats on their way to the database
    AliveTicks,     \* 120 s in ticks (4)
    FreshTicks,     \* 60 s in ticks (2)
    OldAge          \* bound: ages are not told apart beyond this

Metrics == {"cpu", "ram", "load"}

ASSUME MonitorAssumption ==
    /\ Measured \subseteq [Metrics -> Nat \union {Unknown}]
    /\ DOMAIN Thresholds = Metrics
    /\ {AliveTicks, FreshTicks, OldAge} \subseteq Nat
    /\ OldAge >= AliveTicks /\ OldAge > FreshTicks

VARIABLES
    host,       \* what the probes bring home, the same throughout a behaviour
    process,    \* the worker: "down", "starting", "up" or "closing"
    beatDue,    \* the heartbeat timer has not fired in this tick yet
    flying,     \* heartbeats on their way to the database
    lost,       \* history: heartbeats sent since the last one that arrived
    reported,   \* history: one has arrived since the worker came up
    service,    \* the row of service_health: status and the age of its heartbeat
    latest,     \* the newest row of resource_metrics: age and reading
    polls,      \* answers on their way to the page
    paused,     \* whether the user has paused the page
    shown,      \* the reading, its score and the diagnosis that the page shows
    error,      \* whether it has an error text, to be seen without a reading
    history     \* whether the charts have rows

monitorVars == <<host, process, beatDue, flying, lost, reported, service, latest,
                 polls, paused, shown, error, history>>

collector == <<host, process, beatDue, flying, lost, reported, service, latest>>
page == <<polls, paused, shown, error, history>>

Never == OldAge
Older(age) == IF age < OldAge THEN age + 1 ELSE age

\* pick(): the rank of the level, from 1, excellent, to 5, critical.
Pick(pct, t) ==
    IF pct >= t.critical THEN 5 ELSE IF pct >= t.high THEN 4 ELSE IF pct >= t.warning THEN 3 ELSE 2

Known(reading) == {x \in Metrics : reading[x] # Unknown}

\* The comfort rule looks at cpu and memory (and disk), not at the load.
Comfortable(reading) ==
    /\ reading["ram"] = Unknown \/ reading["ram"] < 50
    /\ reading["cpu"] = Unknown \/ reading["cpu"] < 40

\* computeHealthScore(); 0 is "unknown".
Score(reading) ==
    LET ranks == {Pick(reading[x], Thresholds[x]) : x \in Known(reading)}
        worst == CHOOSE r \in ranks : \A q \in ranks : q <= r
    IN  IF ranks = {} THEN 0
        ELSE IF worst = 2 /\ Comfortable(reading) THEN 1 ELSE worst

\* Mutant: the age of the heartbeat does not count.
AliveOnline == service.status = "online"

\* workerAlive, as the API judges it.
Alive == service.status = "online" /\ service.age < AliveTicks

\* The answer of GET /resources/latest: the newest row, if there is one, with
\* what the API makes of it.  When the query for service_health fails, it says
\* that the worker is not alive.
Answer(answered) ==
    [available |-> latest.there, alive |-> answered /\ Alive, reading |-> latest.reading,
     stale |-> latest.age > FreshTicks,
     score |-> IF latest.there THEN Score(latest.reading) ELSE 0]

\* The probes of the processor may time out, each for itself.  The processor has
\* a second source, memory and load have one that cannot fail.
Probes == {"hostCpuPercent", "currentLoad"}
Measure(reading, failed) ==
    [reading EXCEPT !.cpu = IF failed = Probes THEN Unknown ELSE @]

Nothing == [x \in Metrics |-> Unknown]
Blank == [available |-> FALSE, alive |-> FALSE, reading |-> Nothing, stale |-> TRUE, score |-> 0]
-----------------------------------------------------------------------------
MonitorInit ==
    /\ \E reading \in Measured : \E failed \in SUBSET Probes : host = Measure(reading, failed)
    /\ process = "down" /\ beatDue = FALSE
    /\ flying = 0 /\ lost = 0 /\ reported = FALSE
    /\ service = [status |-> "none", age |-> Never]
    /\ latest = [there |-> FALSE, age |-> Never, reading |-> Nothing]
    /\ polls = {}
    /\ paused = FALSE
    /\ shown = Blank /\ error = FALSE
    /\ history = FALSE

\* --- the worker and the tables ---
\* Mutant: a later heartbeat leaves the status alone.
BeatedKeepsStatus == [service EXCEPT !.age = 0,
                         !.status = IF service.status = "none" THEN "online" ELSE @]

\* heartbeat(): INSERT ... ON CONFLICT DO UPDATE.
Beated == [status |-> "online", age |-> 0]

\* startWorker() waits for its first heartbeat, whether it arrives or not.
StartWorker ==
    /\ process = "down"
    /\ process' = "starting"
    /\ UNCHANGED <<host, beatDue, flying, lost, reported, service, latest, page>>

FirstBeat ==
    /\ process = "starting"
    /\ process' = "up"
    /\ \/ service' = Beated /\ lost' = 0 /\ reported' = TRUE
       \/ lost' = Older(lost) /\ reported' = FALSE /\ UNCHANGED service
    /\ UNCHANGED <<host, beatDue, flying, latest, page>>

\* The timer does not wait for the heartbeat before.
SendBeat ==
    /\ process = "up" /\ beatDue /\ flying < MaxBeats
    /\ beatDue' = FALSE
    /\ flying' = flying + 1
    /\ lost' = Older(lost)
    /\ UNCHANGED <<host, process, reported, service, latest, page>>

BeatArrives ==
    /\ flying > 0
    /\ flying' = flying - 1
    /\ service' = Beated
    /\ lost' = 0 /\ reported' = (reported \/ process = "up")
    /\ UNCHANGED <<host, process, beatDue, latest, page>>

BeatIsLost ==
    /\ flying > 0
    /\ flying' = flying - 1
    /\ UNCHANGED <<host, process, beatDue, lost, reported, service, latest, page>>

\* collect-metrics: memory always has a figure, so that the job never finds
\* that the probes returned no data.  A collector that throws stores nothing.
Collect ==
    /\ process \in {"up", "closing"}
    /\ latest' = [there |-> TRUE, age |-> 0, reading |-> host]
    /\ UNCHANGED <<host, process, beatDue, flying, lost, reported, service, page>>

Shutdown ==
    /\ process = "up"
    /\ process' = "closing" /\ beatDue' = FALSE
    /\ UNCHANGED <<host, flying, lost, reported, service, latest, page>>

\* markOffline() may fail; the process exits all the same.
MarkOffline ==
    /\ process = "closing"
    /\ process' = "down"
    /\ \/ service' = [status |-> "offline", age |-> 0]
       \/ UNCHANGED service
    /\ UNCHANGED <<host, beatDue, flying, lost, reported, latest, page>>

Die ==
    /\ process # "down"
    /\ process' = "down" /\ beatDue' = FALSE
    /\ UNCHANGED <<host, flying, lost, reported, service, latest, page>>

\* 30 s pass; every timer has fired before.
Tick ==
    /\ ~ beatDue
    /\ beatDue' = (process = "up")
    /\ service' = [service EXCEPT !.age = Older(@)]
    /\ latest' = [latest EXCEPT !.age = IF @ > FreshTicks THEN @ ELSE @ + 1]
    /\ UNCHANGED <<host, process, flying, lost, reported, page>>

\* --- the page ---
\* tick() runs every 2 s and does not wait for the poll before; the API answers.
Poll ==
    /\ ~ paused /\ Cardinality(polls) < MaxPolls
    /\ \E answered \in BOOLEAN :
          polls' = polls \union {[cancelled |-> FALSE, answer |-> Answer(answered)]}
    /\ UNCHANGED <<collector, paused, shown, error, history>>

\* Mutant: an answer counts whatever became of the page since.
ArriveAnyway(p) ==
    /\ polls' = polls \ {p}
    /\ shown' = p.answer /\ error' = ~ p.answer.available
    /\ UNCHANGED <<collector, paused, history>>

\* An answer to an effect that was cleaned up is dropped.  One without a
\* reading takes the reading off the page and gives the reason.
Arrive(p) ==
    /\ polls' = polls \ {p}
    /\ IF p.cancelled THEN UNCHANGED <<shown, error>>
                      ELSE shown' = p.answer /\ error' = ~ p.answer.available
    /\ UNCHANGED <<collector, paused, history>>

\* A poll that fails puts its error on the page, cancelled or not; it is to be
\* seen when there is no reading.
PollFails(p) ==
    /\ polls' = polls \ {p} /\ error' = TRUE
    /\ UNCHANGED <<collector, paused, shown, history>>

\* setPaused() cleans the effect up and runs it again.  What the polls under
\* way will bring no longer matters.
TogglePause ==
    /\ paused' = ~ paused
    /\ polls' = {[cancelled |-> TRUE, answer |-> Blank] : p \in polls}
    /\ UNCHANGED <<collector, shown, error, history>>

\* loadHistory() is called whenever the effect runs, when the page is paused as
\* well, and every 15 s after that.  An answer may be on its way at any time: it
\* tells of the table as it is or was, and is never dropped.
HistoryArrives ==
    /\ history' \in {latest.there, FALSE}
    /\ UNCHANGED <<collector, polls, paused, shown, error>>
-----------------------------------------------------------------------------
MonitorNext ==
    \/ StartWorker \/ FirstBeat \/ SendBeat \/ BeatArrives \/ BeatIsLost \/ Collect
    \/ Shutdown \/ MarkOffline \/ Die \/ Tick \/ TogglePause \/ Poll
    \/ \E p \in polls : Arrive(p) \/ PollFails(p)
    \/ HistoryArrives

MonitorSpec == MonitorInit /\ [][MonitorNext]_monitorVars

\* Time passes, the page polls, and a poll that is tried again and again
\* succeeds now and then.
MonitorFairness == WF_monitorVars(Tick) /\ WF_monitorVars(Poll) /\ SF_monitorVars(\E p \in polls : Arrive(p))

FairMonitorSpec == MonitorSpec /\ MonitorFairness
-----------------------------------------------------------------------------
(***************************************************************************)
(* Properties                                                                *)
(***************************************************************************)
\* A worker that has been heard since it came up is called dead only after
\* three of its heartbeats in a row have not arrived (index.js sends one in
\* 30 s, platform-routes.js waits for 120 s), though heartbeats overtake each
\* other and the one before it was shut down.
LiveWorkerLooksAlive == process = "up" /\ reported /\ lost < AliveTicks - 1 => Alive

\* While the page is paused its reading, its score and its diagnosis stay as
\* they are, whatever polls are still under way (the cancelled flag of
\* VpsPage.jsx).  The error text and the charts may change.
PausedReadingIsStill == [][paused => shown' = shown]_monitorVars

\* A worker that stays down, however it went down and whatever heartbeats of it
\* were still under way, is shown as gone and its last reading as old, on a
\* page that keeps polling.
SilentWorkerIsNoticed ==
    <>[](process = "down" /\ ~ paused) => <>[](~ shown.alive /\ shown.stale)
=============================================================================
