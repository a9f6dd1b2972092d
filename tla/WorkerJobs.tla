----------------------------- MODULE WorkerJobs -----------------------------
(***************************************************************************)
(* The background worker (apps/worker): recurring maintenance jobs and the   *)
(* extraction of memories, taken from BullMQ queues and carried out await by *)
(* await.  Every statement of a job may fail, a failed job is tried again a  *)
(* few times, and a worker that dies leaves its jobs to be found stalled.    *)
(*                                                                           *)
(* BullMQ is modelled by what the code relies on: a queue hands out as many  *)
(* jobs as its worker's concurrency allows, a job that throws is delayed and *)
(* tried again, a stalled job is put back once.  Time is not a clock: an     *)
(* automation comes due, the hour of a daily one ends and a notification     *)
(* leaves the ten minutes of notify() as steps of their own.                 *)
(***************************************************************************)
EXTENDS Integers, Sequences, FiniteSets, SequencesExt

CONSTANTS
    Jobs,           \* slots of jobs in the queues
    Mixes,          \* bound: the slots used together, and the faults they meet
    KindOf,         \* the kind of the job in a slot
    AutomationList, \* the enabled time automations, in the order of the query
    ActionOf,       \* an automation's action.type; "unknown" always throws
    Daily,          \* the automations with a dailyAt trigger
    ProviderList,   \* the active providers
    Anomalies,      \* what a scan may find, as notification keys
    MaxItems,       \* memories extracted at most (3)
    Attempts,       \* attempts of a recurring job (3); an extraction has 2
    MaxStalls,      \* BullMQ puts a stalled job back this often (1)
    BackfillLimit   \* LIMIT of the backfill's query (25)

Automations == Range(AutomationList)
Providers == Range(ProviderList)
Keys == Automations \union Providers \union Anomalies
JobKinds == {"tick", "health", "scan", "backfill", "extract"}

ASSUME WorkerAssumption ==
    /\ IsFiniteSet(Jobs) /\ KindOf \in [Jobs -> JobKinds]
    /\ Mixes \subseteq [slots : SUBSET Jobs, faults : Nat]
    /\ ActionOf \in [Automations -> {"send", "notify", "config", "unknown"}]
    /\ Daily \subseteq Automations
    /\ {MaxItems, Attempts, MaxStalls, BackfillLimit} \subseteq Nat

VARIABLES
    worker,     \* the process: "up", "closing" (after SIGTERM) or "down"
    job,        \* the job of a slot
    due,        \* the automations that isDue() finds due
    acts,       \* history: how often an automation acted since it came due
    excuses,    \* history: how often it may act again
    recent,     \* notifications of a key in the last ten minutes
    health,     \* providers.health
    stored,     \* history: memories an extraction has stored
    bare,       \* active memories without an embedding, newest first
    faults      \* faults still to come: statements that fail, and crashes

vars == <<worker, job, due, acts, excuses, recent, health, stored, bare, faults>>

automation == <<due, acts, excuses>>
memory == <<stored, bare>>

\* A job that is not active; an active job's todo holds the rows it has read,
\* the head being the one in hand, seen the automations due by their row.
Parked(state, made, stalls) ==
    [state |-> state, made |-> made, stalls |-> stalls,
     pc |-> "none", todo |-> <<>>, seen |-> {}, result |-> "none"]

AttemptsOf(j) == IF KindOf[j] = "extract" THEN 2 ELSE Attempts

\* The queue of a kind and the concurrency of its worker.
Lane(j) == IF KindOf[j] = "extract" THEN "ai" ELSE "maintenance"

\* Mutant: the maintenance worker takes two jobs at a time.
CapacityTwo(lane) == 2

Capacity(lane) == IF lane = "ai" THEN 2 ELSE 1

Running(j, pc) == worker # "down" /\ job[j].state = "active" /\ job[j].pc = pc
Item(j) == Head(job[j].todo)
HasItem(j) == job[j].todo # <<>>
Is(j, kind) == KindOf[j] = kind

Goto(j, pc) == job' = [job EXCEPT ![j].pc = pc]
Advance(j) == job' = [job EXCEPT ![j].pc = "item", ![j].todo = Tail(@),
                                 ![j].seen = @ \ {Item(j)}, ![j].result = "none"]

\* A recurring job makes room for the next one of its kind.
Ended(j) == Parked(IF KindOf[j] = "extract" THEN "finished" ELSE "idle", 0, 0)
Finish(j) == job' = [job EXCEPT ![j] = Ended(j)]

\* What the worker leaves behind when it dies.
Orphaned == [j \in Jobs |->
    IF job[j].state = "active" THEN Parked("orphan", job[j].made, job[j].stalls) ELSE job[j]]

Fault == faults > 0 /\ faults' = faults - 1
Fine == UNCHANGED faults

\* The job throws: BullMQ delays it, or leaves it in the dead-letter window.
Throw(j) ==
    job' = [job EXCEPT ![j] =
               IF @.made + 1 < AttemptsOf(j)
               THEN Parked("delayed", @.made + 1, @.stalls)
               ELSE Ended(j)]
-----------------------------------------------------------------------------
Init ==
    /\ worker = "up"
    /\ \E mix \in Mixes :
          /\ job = [j \in Jobs |-> Parked(IF j \in mix.slots THEN "idle" ELSE "finished", 0, 0)]
          /\ faults = mix.faults
    /\ due = {}
    /\ acts = [a \in Automations |-> 0]
    /\ excuses = [a \in Automations |-> 0]
    /\ recent = [k \in Keys |-> 0]
    /\ health = [p \in Providers |-> "unknown"]
    /\ stored = [j \in Jobs |-> 0]
    /\ bare = <<>>

\* --- the queues and the life of the worker ---
\* A recurring job is repeated; the bot enqueues an extraction.
Schedule(j) ==
    /\ job[j].state = "idle"
    /\ ~ \E i \in Jobs : KindOf[i] = KindOf[j] /\ job[i].state = "waiting"
    /\ job' = [job EXCEPT ![j].state = "waiting"]
    /\ UNCHANGED <<worker, automation, recent, health, memory, faults>>

\* The rows a job begins with.  Those of an extraction come from the model.
Rows(j) ==
    CASE Is(j, "tick") -> {AutomationList}
      [] Is(j, "health") -> {ProviderList}
      [] Is(j, "scan") -> {SetToSeq(found) : found \in SUBSET Anomalies}
      [] Is(j, "backfill") -> {SubSeq(bare, 1, IF Len(bare) < BackfillLimit
                                               THEN Len(bare) ELSE BackfillLimit)}
      [] Is(j, "extract") -> {<<>>}

Start(j) ==
    /\ worker = "up" /\ job[j].state = "waiting"
    /\ Cardinality({i \in Jobs : Lane(i) = Lane(j) /\ job[i].state = "active"}) < Capacity(Lane(j))
    /\ \E rows \in Rows(j) :
          job' = [job EXCEPT ![j] = [@ EXCEPT !.state = "active", !.todo = rows,
                                        !.seen = IF Is(j, "tick") THEN due ELSE {},
                                        !.pc = IF Is(j, "extract") THEN "chat" ELSE "item"]]
    /\ UNCHANGED <<worker, automation, recent, health, memory, faults>>

\* The query a job begins with fails.
StartFails(j) ==
    /\ worker = "up" /\ job[j].state = "waiting" /\ ~ Is(j, "extract")
    /\ Fault /\ Throw(j)
    /\ UNCHANGED <<worker, automation, recent, health, memory>>

BackoffPasses(j) ==
    /\ job[j].state = "delayed"
    /\ job' = [job EXCEPT ![j].state = "waiting"]
    /\ UNCHANGED <<worker, automation, recent, health, memory, faults>>

Terminate ==
    /\ worker = "up"
    /\ worker' = "closing"
    /\ UNCHANGED <<job, automation, recent, health, memory, faults>>

\* Mutant: the shutdown does not wait for the jobs under way.
CloseAtOnce ==
    /\ worker = "closing"
    /\ worker' = "down"
    /\ job' = Orphaned
    /\ UNCHANGED <<automation, recent, health, memory, faults>>

\* workers.map(w => w.close()) waits for the jobs under way.
Close ==
    /\ worker = "closing"
    /\ \A j \in Jobs : job[j].state # "active"
    /\ worker' = "down"
    /\ UNCHANGED <<job, automation, recent, health, memory, faults>>

\* An automation that has acted and is not stamped yet will act again.
Crash ==
    /\ worker # "down" /\ Fault
    /\ worker' = "down"
    /\ job' = Orphaned
    /\ excuses' = [a \in Automations |->
                      IF \E j \in Jobs : Running(j, "stamp") /\ Item(j) = a
                      THEN excuses[a] + 1 ELSE excuses[a]]
    /\ UNCHANGED <<due, acts, recent, health, memory>>

\* restart: unless-stopped
Restart ==
    /\ worker = "down"
    /\ worker' = "up"
    /\ UNCHANGED <<job, automation, recent, health, memory, faults>>

\* BullMQ finds a job whose worker is gone and puts it back, once.
Stalled(j) ==
    /\ worker = "up" /\ job[j].state = "orphan"
    /\ job' = [job EXCEPT ![j] =
                  IF @.stalls < MaxStalls
                  THEN Parked("waiting", @.made, @.stalls + 1)
                  ELSE Ended(j)]
    /\ UNCHANGED <<worker, automation, recent, health, memory, faults>>

\* --- time ---
ComesDue(a) ==
    /\ a \notin due /\ \E j \in Jobs : Is(j, "tick") /\ job[j].state # "finished"
    /\ ~ \E j \in Jobs : job[j].state = "active" /\ Is(j, "tick") /\ HasItem(j) /\ Item(j) = a
    /\ due' = due \union {a}
    /\ acts' = [acts EXCEPT ![a] = 0]
    /\ excuses' = [excuses EXCEPT ![a] = 0]
    /\ UNCHANGED <<worker, job, recent, health, memory, faults>>

\* A daily automation is due until its hour ends, whether it has run or not.
HourEnds(a) ==
    /\ a \in due \intersect Daily
    /\ due' = due \ {a}
    /\ job' = [j \in Jobs |-> [job[j] EXCEPT !.seen = @ \ {a}]]
    /\ UNCHANGED <<worker, acts, excuses, recent, health, memory, faults>>

WindowPasses(k) ==
    /\ recent[k] > 0
    /\ recent' = [recent EXCEPT ![k] = 0]
    /\ UNCHANGED <<worker, job, automation, health, memory, faults>>

\* --- notify() and the end of any job ---
Done(j) ==
    /\ Running(j, "item") /\ ~ HasItem(j)
    /\ Finish(j)
    /\ UNCHANGED <<worker, automation, recent, health, memory, faults>>

\* What a failed statement does to the job: the tick goes on to log it.
Breaks(j) == IF Is(j, "tick") THEN Goto(j, "logFailed") ELSE Throw(j)

\* After notify() an automation also tells the owner, whatever comes of it.
Notified(j) ==
    IF Is(j, "tick")
    THEN Goto(j, "stamp") /\ acts' = [acts EXCEPT ![Item(j)] = @ + 1] /\ UNCHANGED <<due, excuses>>
    ELSE Advance(j) /\ UNCHANGED automation

Look(j) ==
    /\ Running(j, "look")
    /\ \/ recent[Item(j)] > 0 /\ Notified(j) /\ Fine
       \/ recent[Item(j)] = 0 /\ Goto(j, "insert") /\ UNCHANGED automation /\ Fine
       \/ Fault /\ Breaks(j) /\ UNCHANGED automation
    /\ UNCHANGED <<worker, recent, health, memory>>

Insert(j) ==
    /\ Running(j, "insert")
    /\ \/ /\ recent' = [recent EXCEPT ![Item(j)] = @ + 1]
          /\ Notified(j) /\ Fine
       \/ Fault /\ Breaks(j) /\ UNCHANGED <<automation, recent>>
    /\ UNCHANGED <<worker, health, memory>>

FindAnomaly(j) ==
    /\ Running(j, "item") /\ Is(j, "scan") /\ HasItem(j)
    /\ Goto(j, "look")
    /\ UNCHANGED <<worker, automation, recent, health, memory, faults>>

\* --- runAutomations() ---
\* isDue() looks at the clock now and at the row as it was read.
IsDue(j, a) == a \in due \/ a \in job[j].seen

SkipAutomation(j) ==
    /\ Running(j, "item") /\ Is(j, "tick") /\ HasItem(j)
    /\ ~ IsDue(j, Item(j))
    /\ Advance(j)
    /\ UNCHANGED <<worker, automation, recent, health, memory, faults>>

Acted(a) == acts' = [acts EXCEPT ![a] = @ + 1]
Excuse(a) == excuses' = [excuses EXCEPT ![a] = @ + 1]

\* sendMessage or updateGroupSettings(): done, or refused, or done and the
\* answer lost.  notify_admin begins with notify().
Act(j) ==
    /\ Running(j, "item") /\ Is(j, "tick") /\ HasItem(j)
    /\ IsDue(j, Item(j))
    /\ CASE ActionOf[Item(j)] = "notify" ->
              Goto(j, "look") /\ Fine /\ UNCHANGED <<acts, excuses>>
         [] ActionOf[Item(j)] = "unknown" ->
              Goto(j, "logFailed") /\ Fine /\ UNCHANGED <<acts, excuses>>
         [] OTHER ->
              \/ Goto(j, "stamp") /\ Acted(Item(j)) /\ Fine /\ UNCHANGED excuses
              \/ Goto(j, "logFailed") /\ Fault /\ UNCHANGED <<acts, excuses>>
              \/ Goto(j, "logFailed") /\ Fault /\ Acted(Item(j)) /\ Excuse(Item(j))
    /\ UNCHANGED <<worker, due, recent, health, memory>>

\* UPDATE automations SET last_run_at = now()
Stamp(j) ==
    /\ Running(j, "stamp")
    /\ \/ due' = due \ {Item(j)} /\ Goto(j, "log") /\ Fine /\ UNCHANGED excuses
       \/ Fault /\ Goto(j, "logFailed") /\ Excuse(Item(j)) /\ UNCHANGED due
    /\ UNCHANGED <<worker, acts, recent, health, memory>>

Log(j) ==
    /\ Running(j, "log")
    /\ \/ Advance(j) /\ Fine
       \/ Fault /\ Goto(j, "logFailed")
    /\ UNCHANGED <<worker, automation, recent, health, memory>>

\* Mutant: the catch ends the loop.
LogFailedEndsLoop(j) ==
    /\ Running(j, "logFailed")
    /\ Finish(j)
    /\ UNCHANGED <<worker, automation, recent, health, memory, faults>>

\* The INSERT in the catch is not guarded itself.
LogFailed(j) ==
    /\ Running(j, "logFailed")
    /\ \/ Advance(j) /\ Fine
       \/ Fault /\ Throw(j)
    /\ UNCHANGED <<worker, automation, recent, health, memory>>

\* --- runProviderHealth() ---
\* The key query may throw; the check itself never does.
Probe(j) ==
    /\ Running(j, "item") /\ Is(j, "health") /\ HasItem(j)
    /\ \/ \E result \in {"healthy", "degraded", "down"} :
             job' = [job EXCEPT ![j].result = result, ![j].pc = "update"]
          /\ Fine
       \/ Fault /\ Throw(j)
    /\ UNCHANGED <<worker, automation, recent, health, memory>>

Update(j) ==
    /\ Running(j, "update")
    /\ \/ health' = [health EXCEPT ![Item(j)] = job[j].result] /\ Goto(j, "record") /\ Fine
       \/ Fault /\ Throw(j) /\ UNCHANGED health
    /\ UNCHANGED <<worker, automation, recent, memory>>

\* Mutant: only a provider that is down is announced.
RecordDownOnly(j) ==
    /\ Running(j, "record")
    /\ \/ job[j].result # "down" /\ Advance(j) /\ Fine
       \/ job[j].result = "down" /\ Goto(j, "look") /\ Fine
       \/ Fault /\ Throw(j)
    /\ UNCHANGED <<worker, automation, recent, health, memory>>

Record(j) ==
    /\ Running(j, "record")
    /\ \/ job[j].result = "healthy" /\ Advance(j) /\ Fine
       \/ job[j].result # "healthy" /\ Goto(j, "look") /\ Fine
       \/ Fault /\ Throw(j)
    /\ UNCHANGED <<worker, automation, recent, health, memory>>

\* --- runMemoryExtraction() and the backfill ---
\* A model that fails or does not answer with a list ends the job in peace.
Chat(j) ==
    /\ Running(j, "chat")
    /\ \E n \in 0..MaxItems :
          job' = [job EXCEPT ![j].pc = "item", ![j].todo = [i \in 1..n |-> <<j, stored[j] + i>>]]
    /\ UNCHANGED <<worker, automation, recent, health, memory, faults>>

Create(j) ==
    /\ Running(j, "item") /\ Is(j, "extract") /\ HasItem(j)
    /\ \/ /\ stored' = [stored EXCEPT ![j] = @ + 1]
          /\ bare' = <<Item(j)>> \o bare
          /\ Goto(j, "embed") /\ Fine
       \/ Fault /\ Throw(j) /\ UNCHANGED memory
    /\ UNCHANGED <<worker, automation, recent, health>>

\* embed() answers with null when no model can; every failure is swallowed.
Embed(j) ==
    /\ Running(j, "embed")
    /\ \/ bare' = SelectSeq(bare, LAMBDA m : m # Item(j))
       \/ UNCHANGED bare
    /\ Advance(j)
    /\ UNCHANGED <<worker, automation, recent, health, stored, faults>>

\* A memory that no model can embed.
Hopeless(m) == m[2] = 2

\* Only a statement that fails breaks the loop.
Backfill(j) ==
    /\ Running(j, "item") /\ Is(j, "backfill") /\ HasItem(j)
    /\ \/ /\ ~ Hopeless(Item(j))
          /\ bare' = SelectSeq(bare, LAMBDA m : m # Item(j))
          /\ Advance(j) /\ Fine
       \/ Hopeless(Item(j)) /\ Advance(j) /\ Fine /\ UNCHANGED bare
       \/ Fault /\ Finish(j) /\ UNCHANGED bare
    /\ UNCHANGED <<worker, automation, recent, health, stored>>
-----------------------------------------------------------------------------
Step(j) ==
    \/ Done(j) \/ Look(j) \/ Insert(j) \/ FindAnomaly(j)
    \/ SkipAutomation(j) \/ Act(j) \/ Stamp(j) \/ Log(j) \/ LogFailed(j)
    \/ Probe(j) \/ Update(j) \/ Record(j)
    \/ Chat(j) \/ Create(j) \/ Embed(j) \/ Backfill(j)

Next ==
    \/ \E j \in Jobs : Schedule(j) \/ Start(j) \/ StartFails(j) \/ BackoffPasses(j) \/ Stalled(j)
    \/ \E j \in Jobs : Step(j)
    \/ Terminate \/ Close \/ Crash \/ Restart
    \/ \E a \in Automations : ComesDue(a) \/ HourEnds(a)
    \/ \E k \in Keys : WindowPasses(k)

Spec == Init /\ [][Next]_vars

\* Statements and probes return, repeats recur, queues hand out what waits and
\* Docker restarts the container.  Nothing is said of which job comes first.
Fairness ==
    /\ WF_vars(Restart \/ Close)
    /\ WF_vars(\E j \in Jobs : Schedule(j) \/ BackoffPasses(j))
    /\ SF_vars(\E j \in Jobs : Start(j) \/ Stalled(j))
    /\ WF_vars(\E j \in Jobs : Step(j))

FairSpec == Spec /\ Fairness
-----------------------------------------------------------------------------
(***************************************************************************)
(* Properties                                                                *)
(***************************************************************************)
\* What a job does is repeated by its own faults only (automations.js,
\* memory-extract.js).  The action of an automation is repeated before its time
\* only if its stamp was lost: the action's answer, the UPDATE or the worker
\* itself failed in between; retries, stalled jobs, restarts and failures to
\* log the run never repeat it.  An extraction stores at most MaxItems memories
\* per time it was started.
RepeatedOnlyByItsOwnFaults ==
    /\ \A a \in Automations : acts[a] <= 1 + excuses[a]
    /\ \A j \in Jobs : stored[j] <= MaxItems *
          IF job[j].state = "finished" THEN AttemptsOf(j) + MaxStalls
                                       ELSE 1 + job[j].made + job[j].stalls

\* notify() inserts no second notification of a key within the window, though
\* it looks and inserts in two statements (ops.js): the jobs that call it run
\* one at a time.
NotifiedOncePerWindow == \A k \in Keys : recent[k] <= 1

\* An automation that is due is run or misses its hour, whatever the ones
\* before it do, also if one of them can never succeed (automations.js).
AutomationsAreReached ==
    \A a \in Automations : ActionOf[a] # "unknown" => (a \in due ~> a \notin due)

\* A provider that a check found ill is announced, unless a later check finds
\* it well, although the announcement is the last of four awaits and a retried
\* job begins with a new check (maintenance.js).
IllnessIsAnnounced == \A p \in Providers :
    health[p] \in {"degraded", "down"} ~> recent[p] > 0 \/ health[p] = "healthy"
=============================================================================
