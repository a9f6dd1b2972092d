# Tinko: specifications and proofs

Tinko is a Persian-language Telegram bot with AI answers, an API, a worker and an
admin panel. This directory holds TLA+ modules of the parts whose correctness
depends on order: requests that interleave at awaits and SQL statements, stages
that fail half-way, processes that crash, answers that overtake each other, clocks
that run on. TLC checks them on small instances; TLAPS proves every invariant, every
action property and the refinement that TLC checks, for instances of any size.

`tlc -config X.cfg M` runs a model, `tlapm M.tla` checks the proofs.

## 1. Inventory

Paths are relative to the repository. "State" is what outlives one call.

| Component | Code | State | Operations | Interacts with |
|---|---|---|---|---|
| Circuit breaker | `packages/ai/src/circuit-breaker.js` | per provider: state, failures, openedAt | canPass, getState, recordSuccess, recordFailure | one instance per router, shared by all requests |
| AI router | `packages/ai/src/router.js` | the breaker, a cache of adapters | chat, chatStream, transcribe, embed, candidates | configuration store, adapters, usage ledger; called by bot, worker and API |
| Provider adapters | `packages/ai/src/*.js` | none | chat, chatStream, embed, transcribe, listModels, healthCheck | HTTP |
| AI configuration store | `packages/db/src/repo/ai-config.js` | models, providers, keys, profiles, personalities | candidates, getActiveKeySecret, saveProfile, updatePersonality, deleteModel | PostgreSQL; router, API routes |
| Accounts and sessions | `apps/api/src/auth.js`, `packages/db/src/repo/admin.js` | admin_users, admin_sessions | login, refresh, logout, revoke, 2FA setup/enable/disable, authenticate | panel (HTTP), command line (same tables) |
| Admin command line | `scripts/admin.js` | same tables | create, list, promote, reset, disable, enable | runs in a process of its own |
| Roles | `packages/core/src/rbac.js` | constant table | membership test | API routes |
| API server | `apps/api/src/server.js`, `scripts/migrate.js`, `packages/db/src/migrate.js` | schema, first owner, service_health | migrate, bootstrap, listen, heartbeat, shut down | PostgreSQL, Docker |
| API routes | `apps/api/src/routes/*` | none | CRUD over the repositories | repositories, router, Redis |
| Bot pipeline | `apps/bot/src/pipeline.js` | none; each message has a context | sixteen stages and the runner | Redis, repositories, router, Telegram |
| Moderation, anti-spam | `apps/bot/src/moderation/*` | Redis counters, warnings, raid mode | checkFlood, checkDuplicate, checkMentionSpam, checkRaid, activateRaidMode | pipeline, join handler |
| Bot life cycle | `apps/bot/src/index.js` | identity, maintenance flag, token | start, token watcher, message and member handlers, automations, shutdown | settings, Telegram |
| Bot tools | `apps/bot/src/tools.js` | none | tool loop of the classic answer | router, repositories |
| Worker and jobs | `apps/worker/src` | BullMQ queues, automations, memories, notifications | automations, memory extraction, backfill, provider health, anomalies, clean-up | Redis, repositories, router, Telegram |
| Monitoring | `apps/worker/src/index.js`, `jobs/metrics.js`, `routes/platform-routes.js`, `VpsPage.jsx` | resource_metrics, service_health, the page | collect, heartbeat, judge, poll, pause | worker, API, panel |
| Panel: session client | `apps/admin/src/lib/api.js`, `state/store.jsx` | access token, one shared refresh | request, refresh, login, logout | API |
| Panel: pages | `apps/admin/src/pages/*` | what each page shows, dialogs, requests under way | load, edit, save, delete, bulk operations | API |
| Repositories | `packages/db/src/repo/*` | PostgreSQL tables | mostly one SQL statement per call; few transactions | everyone |
| Core library | `packages/core/src` | none | crypto, config, text | everyone |
| Install and release scripts | `tinko`, `scripts` | files, containers | install, update, maintenance | docker compose |

How they interact: Telegram hands updates to the bot; a message runs through the
pipeline, which reads users, groups and settings from PostgreSQL and counts in
Redis, and ends in a call of the router; the router walks down a list of candidate
models, guarded by the breaker, calls an adapter and writes the usage ledger; jobs
extract memories afterwards. The panel changes the same tables through the API at
any time, from several tabs and by several administrators. Only profiles,
personalities and migrations are written in transactions, so nearly everything that
takes two statements can be interleaved or cut in half.

What is hard, per component, and what makes it correct:

- *Breaker and router.* Concurrent requests feed one breaker; a success may arrive
  long after the circuit opened; a stream can break after text was shown; the ledger
  can fail after the provider answered. Correct: a flood of failures opens the
  circuit, a cooling circuit admits nobody, a caller sees the text of one model,
  every answer is accounted for, every request ends.
- *Adapters.* A stream is cut anywhere, within a character too; errors are told
  apart to be retried or not. Correct: deltas arrive as they were sent, requests go
  to addresses that exist, are repeated as often as they may and no more, calls settle.
- *Accounts and sessions.* A login is four statements on a row read before; the
  command line resets and disables in between. Correct: what stands against a request
  from its arrival on keeps it out, consecutive failures lock, a reset ends old
  sessions, a revocation is the owner's.
- *Pipeline and anti-spam.* A stage that throws is skipped; the update is marked as
  seen before it is handled; INCR and EXPIRE are two commands; warnings are inserted
  and counted in two; settings change under way. Correct: the unwelcome are not
  answered, the welcome are not ignored, an update is handled once, overlapping
  deliveries leave no counter without an end, limits hold, offences are not undercounted.
- *Streamed reply.* Edits of the placeholder are not awaited and may overtake each
  other, the deletion of the placeholder and the end of the exchange. Correct: one
  answer remains, nobody is left in silence, every exchange ends.
- *Life cycle.* Updates come again after a crash, loads of the settings overlap, the
  token changes at any time. Correct: the stored status follows the membership, a
  spike arms raid mode, the token and the maintenance mode in force take over.
- *Worker jobs.* Send, mark and log are separate steps of jobs that are retried,
  stall and outlive restarts. Correct: nothing is repeated but by a fault of its own,
  nobody is told twice, everything due is reached, an illness is announced.
- *Monitoring.* Heartbeats and polls are late, lost and overtaken. Correct: a worker
  that has been heard is not called dead for one lost heartbeat, a paused reading stands
  still, and who stays away is noticed.
- *Panel.* Answers come in any order and find whatever is open by then; calls share
  one refresh that rotates the session. Correct: nobody is thrown out needlessly,
  what is deleted by force was warned of, settings go to their own group.
- *Configuration store, start.* Ids that are strings here and numbers there; row locks
  and rollback; several migration runners. Correct: what is there is found, edits are all
  kept, a migration takes effect once.

`PROJECT.json` lists the hazards line by line with the properties that cover them.

## 2. Modules

| Module | Models | Used by |
|---|---|---|
| `CircuitBreaker` | the breaker as operators from a circuit to the circuit left behind | `AiRouter` |
| `AiGateway` | what the router promises: a request tries candidates in order, each at most once, and ends answered by one of them or rejected | `AiRouter` (refinement) |
| `AiRouter` | `chat()` and `chatStream()`, await by await | `MCAiRouter`, `AiRouterProofs` |
| `AiRouterProofs` | inductive invariant and theorems | |
| `ProviderCall` | one call of an adapter, from the address to the last byte of a stream; `embed()`, `transcribe()`, `testProvider()`, `listProviderModels()` | `MCAnswers`, `AnswerProofs` |
| `AdminAuth` | accounts, sessions, 2FA and the command line, statement by statement | `MCAdminAuth`, `AdminAuthProofs` |
| `AdminAuthProofs` | inductive invariant and theorems | |
| `RedisCounter` | INCR and EXPIRE counters | `BotPipeline` |
| `BotPipeline` | the stages from update to answer, await by await | `MCBotPipeline`, `BotPipelineProofs` |
| `BotReply` | how an answer is delivered: placeholder, edits under way, classic answer | `MCAnswers`, `AnswerProofs` |
| `BotLifecycle` | the process: token, watcher, settings, polling, membership, raids | `MCBotLifecycle`, `BotLifecycleProofs` |
| `WorkerJobs` | queues, retries, restarts, and the jobs statement by statement | `MCWorkerJobs`, `WorkerProofs` |
| `VpsMonitor` | readings and heartbeats from the probe to the page | `MCVpsMonitor`, `WorkerProofs` |
| `PanelClient` | the panel's session in one tab | `Console` |
| `ModelsPage` | discovery, registration, editing and deletion of models | `Console` |
| `ProfileChains` | checking, storing and cutting the chain of a profile, with the types of ids | `MCProfileChains` |
| `GroupDesk` | the groups page: settings, templates, selection, bulk operations | `Console` |
| `PersonaDesk` | the personalities page and the transactions behind it | `Console` |
| `Startup` | migrations, the first owner, the server's start and end | `Console` |
| `Console` | composes `PanelClient`, `ModelsPage`, `GroupDesk`, `PersonaDesk` and `Startup` | `MCConsole`, `ConsoleProofs` |
| `Places` | what is left of a sequence at some of its places (a filter that can be proved about) | `ProviderCall` |
| `BotPipelineProofs`, `AnswerProofs`, `BotLifecycleProofs`, `WorkerProofs`, `ConsoleProofs` | inductive invariants and theorems of the modules they extend | |
| `PlacesProofs` | lemmas about parts of sequences and about places | `AnswerProofs`, `ConsoleProofs` |

Conventions. A step is the code between two awaits (between two SQL statements or
Redis commands), `pc` names the await a request is suspended at. Variables commented
*history* are not in the code; they remember what a property needs and are never
read by a guard. *Bound* marks what exists only to keep instances finite. Operators
commented *Mutant* are faulty versions of the operator after them; nothing uses them
unless a definition is replaced by one to see a property fail.

**AiRouter.** `pc` goes idle → keyLookup → calling → savingUsage → answered, with
falls back to the next keyLookup, and savingError or rejected at the end of the list.
`Resume` is the candidate loop: it skips cooling circuits without an await, turning
open circuits half-open on the way (`canPass()` has that side effect even when the
candidate then has no key). `Fail` is the catch block, `Delta` an `onDelta` call.
A usage insert that fails is caught by the same `catch` as the call and counts as a
failure of the provider. Candidate lists, keys and provider outcomes are
nondeterministic.

**ProviderCall.** `call` says what is asked of which candidate and how far it is;
`wire` is what the provider has still to send, a sequence of bytes in which each
delta is a character of two, `reader` the decoder's held bytes, the line buffer and
the deltas handed on. `Decode` is `TextDecoder` with `stream: true`,
`TakeLine` and `KeepRest` the split at newlines. `Classify` makes an error's class of
a status; `Repeats` is the loop of `requestJson`, `Skips` what `embed()` and
`transcribe()` do with a candidate. `Address` is `openAiUrl` on sequences of segments,
of which it knows some as versions (`v1`) and some not (`v1beta`), anywhere in the base
URL and at the start of the path; `home` is where the provider really is. `heard` keeps
how the requests to a candidate have ended. No caller passes a signal, so only the timeout aborts.

**AdminAuth.** A request keeps the row it selected (`row`) and goes on from it.
`account` and `session` are the tables. `Abort` is a failing statement or a process
that dies. Recovery codes are modelled by what is hashed: `StoredHash` keeps the dash
that `UsedHash` has lost.

**BotPipeline.** A delivery of an update has a context `ctx` (what the stages have put
into `pctx`). `Onward` is the runner together with the early returns: it names the next
stage that has something to await. `Fail` is the runner's `catch`: the next stage runs
with the context as it is; `Undefined` are the places where a later stage then
dereferences what is missing. The panel's edits, raid mode, crashes and failures happen
at any time, as far as the constant `Events` lets them. Messages are records of what
the stages tell apart. Deliveries overlap as the webhook receiver lets them; long
polling handles them one by one, which is one of the interleavings.

**BotReply** refines the one step `Ask` of `BotPipeline` for a single exchange. A text
is its length. `edits` is the set of `editMessage` calls under way: `Land` applies or
refuses any of them at any time, also after the exchange has ended. A refused edit is
an unhandled rejection (the router calls the asynchronous `onDelta` without awaiting
it, and no handler is installed), which ends a Node.js process: `running` becomes
false and no exchange goes on. Everything else that can fail (the placeholder, its
deletion, the usage row, a chunk) fails where the code has its `catch`.

**BotLifecycle.** `queue` is what Telegram keeps, `fetched` and `handled` how far the
process is: `Poll` confirms what was handled and fetches, `Crash` forgets both, so that
unconfirmed updates come again. A message to a group touches its row; a `my_chat_member`
update sets the status; a join goes through `checkRaid` command by command.
`WatchToken` compares the token in use with `Resolved`, what a start would take now,
and ends the process when they differ. `load` are the overlapping calls of
`loadIdentity()`, each with the answer it has read and not yet applied. The branch that
waits for a token (index.js 54–66) is unreachable and left out, see section 6.

**WorkerJobs.** `job` is a slot of a BullMQ queue; `Start` respects the concurrency of
its lane, `Throw` delays it for its next attempt, `Crash` orphans what is active,
`Stalled` puts that back once, `Close` waits for what is under way. An active job's
`todo` are the rows it has read, `pc` the statement it waits for. `Act`, `Stamp`, `Log`
and `LogFailed` are the body and the catch of the automation loop; `Probe`, `Update`,
`Record`, `Look`, `Insert` the health check up to its notification; `Chat`, `Create`,
`Embed` an extraction, `Backfill` the catching up. Time is events: an automation comes
due, the hour of a daily one ends, a notification's ten minutes pass.

**VpsMonitor.** A tick is the 30 s of the heartbeat timer; what matters of a stored
time is its age. `Answer` is the API's judgement (`workerAlive`, stale, `Score`) at the
time of the poll, `Arrive` the page's handling of it, `TogglePause` the clean-up of the
React effect, whose `cancelled` flag drops the answers under way. It does not drop
errors (`PollFails`) nor the rows of the charts, which are loaded in the paused page,
too (`HistoryArrives`). The probes that may time out and the second sources they have
are `Measure`. `lost` and `reported` are history: heartbeats sent since the last one
that arrived, the first one of a start included, and whether one has arrived since the
worker came up.

**PanelClient.** Tokens and cookies are named by their session. A call is sent with the
token of that moment; a 401 makes it start the refresh or join the one under way
(`refreshing`), then it is sent again once. `live` are the sessions the server accepts;
a rotation ends the old one. In the code and so in the model: a second 401 is just an
error; a network failure during the refresh logs out; a logout that races a refresh
leaves the rotated session alive; a handler's own 401 (a wrong code for 2FA) costs a
rotation and repeats the handler. A second tab is left out.

**ModelsPage, GroupDesk, PersonaDesk.** `asks` are requests under way: `Serves` is the
server's part, at any time; an `...Arrives` action is the code after the `await`, which
finds whatever dialog is open by then. A dialog covers the page, so nothing else can be
opened over it, but it may be closed and another opened. `used`, `barred`, `stored` are
the tables. `GroupDesk` opens its dialog only when the settings have come, so the page
stays live in between: `editing` (the name on the dialog) and `settings.of` (where the
draft comes from) are kept apart. In `PersonaDesk` an edit is a transaction: `ReadRow`
takes the row's lock (`FOR UPDATE`), then come the row, the version and the commit;
the readers of a table see what is committed.

**ProfileChains.** An id has a type besides its value: `Column` is what pg makes of a
`bigint`, a string, `Numeric` what `Number()` makes. `CheckModels` compares them as the
code does, by `===`. `StoreChain` is the transaction of `saveProfile()`. As `CheckModels`
lets no chain pass but the empty one, what comes after it has nothing to store; so the
module has a run that shows this, and no property of stored chains, which only rows
written by other means could put to the test. `Once` takes the first place of every
model, as the route's `Set` does.

**Startup.** `proc` is a process with what it has read (`seen`), the file it is at and
what its open transaction has done (`did`); `Crash` rolls it back. `tinko migrate` and
`tinko admin` are the `Scripts` that run beside the container's own `Api`.

**Console.** Five modules whose tables and state are disjoint. A behaviour is about one
*desk*, chosen at the start (eight: session, register, maintain, groups, bulk,
persona, elsewhere, startup), while the rest stays as it is; nothing is lost by that,
as no desk reads what another writes, and the product of the five is not explored. A
module's alternatives that share nothing (registering and maintaining models, settings
and bulk operations) are desks of their own.

## 3. Runs

| Run | Instance | Shows |
|---|---|---|
| `router` | 2 requests, 3 models of 2 providers (one streams), lists of 0, 2 and 3 candidates in which two share a provider, depth cap 2, threshold 2, window 2, cool-off 1, time 0–2 | `FloodOpensCircuit`, `AdmissionRespectsCoolOff`, `OneVisibleSource`, `AnswersAreAccounted`, refinement `ImplementsGateway`, liveness `RequestsEnd` |
| `answers` | calls: lists of two of fifteen provider rows (eight of them OpenAI-compatible with other addresses), every operation, 2 retries, streams of 0–2 deltas with comments, junk and a missing last newline, cut anywhere; replies: 1 exchange, texts of 0–5 units, 2 units per chunk, 4 per message and edit, 2 streaming candidates | `StreamsArriveIntact`, `AddressesAreKnown`, `RetriesAreDue`, `OneAnswerRemains`, `NoExchangeEndsInSilence`, liveness `EveryCallSettles`, `ExchangesEnd` |
| `admin_sessions` | 2 accounts, 3 sessions, 2 requests, 2 passwords; login, refresh, logout, revocations, reset, disable | `EndedSessionsAreRefused`, `ResetEndsOldSessions`, `OnlyOwnersRevoke` |
| `admin_login` | 1 account, 3 requests, 1 secret, 1 recovery code; logins and 2FA changes | `BarredLoginsGetNoSession`, `ConsecutiveFailuresLock` |
| `bot_gates` | 1 message of each kind, 6 settings, two of failure, crash, edit, raid alarm | `UnwelcomeMessagesAreNotAnswered`, `NoSilence` |
| `bot_counters` | 3 deliveries of 2 updates, profane or repeated texts, 1 crash, time 0–1 | `OneHandlingPerUpdate`, `CountersExpire`, `AtMostTwiceTheLimit`, `NoMilderSanction` |
| `bot_lifecycle` | 3 tokens, 1 group; mixes of up to 5 updates, 3 edits, 2 faults and 2 overlapping loads, with and without joins being delivered | `StatusFollowsMembership`, `SpikeArmsRaidMode`, liveness `TokenTakesOver`, `MaintenanceIsHonoured` |
| `worker` | mixes of one or two jobs with up to 3 faults, 3 automations (one broken, one daily), 1 provider, 2 attempts, 1 stall | `RepeatedOnlyByItsOwnFaults`, `NotifiedOncePerWindow`, liveness `AutomationsAreReached`, `IllnessIsAnnounced` |
| `vps` | beats: 3 heartbeats under way, waits of 4 ticks and 2, no polls; page: 2 polls and 1 heartbeat under way, waits of 2 ticks and 1; a host without a figure for its processor | `LiveWorkerLooksAlive`, `PausedReadingIsStill`, liveness `SilentWorkerIsNoticed` |
| `console` | two of everything that may cross; 3 sessions, 2 requests, 2 rows, 3 versions, 2 migrations, 5 starts | `NoNeedlessLogout`, `ForcedDeletesWereWarned`, `SettingsGoToTheirGroup`, `EditsAreAllKept`, `EveryMigrationOnce` |
| `recovery_codes_accepted` | as `admin_login`, 1 request | finds `RecoveryCodesAreAccepted` violated |
| `profile_chains` | 3 models of 2 tenants, chains of up to 2 | finds `ActiveChainsAreStored` violated |

`answers` has two subjects that share nothing, `vps` one at two sizes; a behaviour, as in
`Console`, is about one of the two. The violations are explained in section 6.

`UnwelcomeMessagesAreNotAnswered` is the conjunction of two named properties,
`UnwelcomeMessagesAreNotAsked /\ BlockedUsersGetNothing`. The type invariants of `AiRouter` and
`AdminAuth` are proved and no longer run.

Why the bounds are enough. Interesting cases need two actors at one shared record
(breaker, account, session, counter, row, dialog), plus one that has already finished:
two or three requests. The router needs one list in which two candidates share a
provider, a list longer than the cap and more ticks than the cool-off; thresholds of 2
are the smallest at which "the last failure" and "an earlier failure" differ. The lock
needs a third login to fall between two others. The limits are 1 or 2 and three
deliveries can exceed twice a limit of 1 at once; the ladder is shortened to 2, 3 and 4
and a user may start right below its first rung, so that three offences reach its last.
In `bot_gates` messages do not overlap: the gates read only their own context and what
panel and raid mode write, and these write at any time; what deliveries share (seen
keys, counters, warnings) is in `bot_counters`. In `answers` one exchange is enough
because exchanges share nothing but the process; five units make texts that are too
long for an edit, texts of several chunks with and without a remainder, and four edits
under way at once. Jobs of different kinds share nothing but the queue's concurrency,
which two ticks show; a fault more than a job has attempts is enough to see it given
up. Five updates are a threshold of joins, one more, and a change of membership around
them. The API's two waits are four and two ticks for the beats of `vps`, as in the code,
and ages beyond them are all alike; three lost heartbeats are one less than the wait, and
as many may be under way. For its page the waits are two and one: their order, and that
a reading gets old before the worker does, is all that its properties depend on, and the
polls make the instance large. In a page, two requests under way are a request and the one that
overtakes it; three versions are a personality and two edits of it; five starts are
each process once, and again after a crash. Symmetry is used for interchangeable
requests, accounts, sessions, deliveries and updates in runs without liveness.

Bounded by constants only: `MaxTime` (clocks), `MaxEvents` and `Events` (how often and
what happens around the pipeline), `Messages`, `Settings`, `Operations`,
`CandidateLists`, `Lists`, `Scripts`, `Mixes`, `Measured` (inputs), `Deliveries`,
`Sessions`, `MaxPolls`, `MaxBeats`, `OldAge`, `MaxItems`, `MaxAsks`, `MaxRows`,
`MaxChain`, `MaxSessions`, `MaxVersions`, `MaxStarts`. In the pages, further: one
personality is edited at a time by the tab, with one of two forms, others create plain
ones and `EndElsewhere` ends another session once. Deadlock is checked in `worker`
and `vps`, whose systems never stop. In the others it is not: when all
requests have ended and clocks and bounds are used up there is nothing left to do.

Fairness. In `AiRouter`, `FairSpec` gives every request weak fairness of its own
progress. The code justifies it: the event loop resumes what is ready, and a query, a
provider call or an insert ends or times out (adapters pass an `AbortSignal`), success
and failure both being progress. No fairness is put on the choice between success and
failure, nor on the clock. In `ProviderCall` it is weak fairness of the code's own
steps and of the network's answer, which may be the timeout. In `BotReply` the same
holds of an exchange's own awaits and of every edit under way (the Telegram client has
a timeout); the number of candidates and the length of a stream are bounded. In
`BotLifecycle`, weak fairness of the start, of the two timers with the loads they
begin, and of polling and handling; faults are bounded, so a query that keeps failing
is no excuse. In `WorkerJobs`, weak fairness of the statements of jobs, of Docker's
restart, of repetition and back-off; strong fairness that some waiting or stalled job
is taken up, because a queue that hands out jobs may be interrupted by restarts; which
job comes first is left open. In `VpsMonitor`, time passes and the page polls (weak);
of the polls under way some arrive again and again (strong), as a request on a network
that is not down for ever.

## 4. Theorems

Every invariant, action property and refinement that a passing run checks is a theorem,
for every value of the constants that their assumptions allow. Each proof has the same
form: an inductive invariant that implies the property, holds at the start and is kept
by every step, one lemma per action or per conjunct the action can disturb; TLC has
checked the properties before.

In `AiRouterProofs`, for arbitrary `Requests`, `Models`, `Providers`,
`CandidateLists` and thresholds, under `BreakerAssumption` and `RouterAssumption`
(types of the constants; thresholds and windows at least 1).

| Theorem | Statement |
|---|---|
| `TypeCorrect` | `Spec => []TypeOK` |
| `FloodOpens` | `Spec => []FloodOpensCircuit` |
| `OneSource` | `Spec => []OneVisibleSource` |
| `Accounted` | `Spec => []AnswersAreAccounted` |
| `AdmissionSafe` | `Spec => AdmissionRespectsCoolOff` |
| `RouterImplementsGateway` | `Spec => ImplementsGateway` |

The argument. `IInv == TypeOK /\ Position /\ Sources /\ AnswersAreAccounted /\ BreakerOK`
is inductive. *Position* ties the place in the list to the await (whoever waits for a
key or a call is within the capped list); without it a success row could carry position
0 or a position past the end. *Sources* says that only streams show deltas, at the
current candidate, and none before the call: it is what makes the catch block's
"already streamed" test protect the caller. *BreakerOK* relates each circuit to the
history of failures since the last success: whatever is recent in the history is still
in the breaker's own list, or the circuit is not closed. It is needed because the
breaker prunes its list in `getState()` and because other requests record failures
between a request's awaits. The lemmas: `BreakerTypes`, `BreakerHonest` (each method
preserves that relation), `HonestLater` (so does the clock), `ResumeFacts` and
`FailFacts` (what the candidate loop and the catch block leave behind), one lemma per
conjunct of the invariant. Refinement follows from `IInv` by cases on the step.

In `AdminAuthProofs`, for arbitrary sets of requests, accounts, sessions, passwords,
secrets and recovery codes, any lock threshold, durations and clock bound, under
`AuthAssumption` (types; `None` is no value; TOTP secrets are no recovery codes):

| Theorem | Statement |
|---|---|
| `TypeCorrect` | `Spec => []TypeOK` |
| `BarredLogins` | `Spec => []BarredLoginsGetNoSession` |
| `EndedSessions` | `Spec => []EndedSessionsAreRefused` |
| `FailuresLock` | `Spec => []ConsecutiveFailuresLock` |
| `ResetEnds` | `Spec => []ResetEndsOldSessions` |
| `OwnersRevoke` | `Spec => OnlyOwnersRevoke` |

The argument. `IInv` adds four parts to the properties. *Shape* ties what a request
asks for to the statement it waits for, and the session it presents to its account:
owners never change, so `logout` and `refresh` revoke only the caller's. *Struck*
says that what can still have stood against a request since its arrival shrinks with
each check: `verifyCredentials` strikes off all but the second factor, the row it has
read decides whether a code was missing then, and the recovery statement looks at the
account of that moment; `authenticate` strikes off the status first and the session
second, `refresh` the other way round. *Counted* equates the column `failed_attempts`
with the history. *CleanIssues* is what `ResetEndsOldSessions` lacks to be inductive:
while an account is clean, every login or refresh past its checks carries the current
password. It is kept because a reset makes the account clean only if nothing is
half-way through, and because a new login verifies, and a new refresh presents, the
current password. Dropping that condition from `CliRevoke`'s history gives the
violation of section 6, 3.

In `BotPipelineProofs`, for any deliveries, updates, users, groups, messages and
settings, any limits, windows and warnings, and any failures, crashes and edits, under
`PipelineAssumption`:

| Theorem | Statement |
|---|---|
| `HandledOnce` | `Spec => []OneHandlingPerUpdate` |
| `SanctionsAreHardEnough` | `Spec => []NoMilderSanction` |
| `CountersAreGivenATerm` | `Spec => []CountersExpire` |
| `TwiceTheLimitAtMost` | `Spec => []AtMostTwiceTheLimit` |
| `TheUnwelcomeAreKeptOut` | `Spec => []UnwelcomeMessagesAreNotAnswered` |
| `NoMessageIsSwallowed` | `Spec => []NoSilence` |

The argument. `CourseInv` says what each stage has put into the context by the time a
later one reads it, for every set of stages that may have failed; it is what the runner
gives all the other proofs (a stage is reached only through `Onward`, which is taken
apart once, in `Ways` and `Skips`). On top of it: `DedupeInv`, a key lives until
`DedupeTtl` after its delivery was accepted; `SanctionInv`, warnings only grow, so that
whoever counts finds at least the rank of his own insertion, and the ladder asks no less
of more; `ExpireInv`, a counter without a time to live belongs to a delivery whose
EXPIRE is to come, was lost or has thrown (a counter that has lost it does last for
ever, section 6, 25); `WindowInv`, for each counter there is an
instant at which its present window began, at most the limit was let pass since, at most
the limit in the window's length before, and at most twice the limit in any earlier
stretch of that length (`Windowed`); `MemoryInv`, what the panel says now lies between what it has always said
and what it has ever said during the delivery. `WelcomeInv` adds to that what each gate
has noticed, `SilenceInv` what a delivery that goes on in silence is excused by; neither
property is inductive without knowing what the context was read from.

In `AnswerProofs`, for any exchanges and lengths of texts under `ReplyAssumption`, and
for any list of two providers, number of retries and streams under `ListsAssumption`,
`RetriesAssumption` and `ScriptsAssumption`:

| Theorem | Statement |
|---|---|
| `OneAnswerIsLeft` | `Spec => []OneAnswerRemains` |
| `NobodyIsLeftInSilence` | `Spec => []NoExchangeEndsInSilence` |
| `StreamsComeThrough` | `CallSpec => []StreamsArriveIntact` |
| `AddressesStayKnown` | `CallSpec => []AddressesAreKnown` |
| `RetriesStayDue` | `CallSpec => []RetriesAreDue` |

The argument. `ReplyInv` has a conjunct for each hazard of the edits under way: none
brings a text longer than what had arrived (*Timely*), once the classic answer is asked
for none can bring a text back (*Retired*: the placeholder is gone, or it is empty and
no edit is under way), the chunks sent cover the text (*Chunked*), and a stream that has
ended is on the screen or on the way to it (*Streamed*). `CallInv` cuts the stream at
three places, k, h and r: k bytes have been taken as whole lines and their deltas handed
on, the bytes from k to h are the buffer, and those from h to r are what the decoder
holds, at most the first half of a character. Reading a chunk moves r and h, taking a
line moves k to a newline. `ScriptsAssumption` says that a provider keeps to its
protocol: characters are whole, a delta is a data line of its own, `[DONE]` comes after
the last one. How the network cuts and breaks the stream is not restricted. The addresses
are reasoned about as sequences of any length: `WellGiven` says which spellings of a
provider's address an administrator may use, and `Address` is shown to lead home from
each (`VersionOfTheBase` and the lemmas after it). For the retries, `heard` is as long as
the attempt that is counted, all that it holds but the last were transient, and who has
stopped had reached the limit or heard something final.

In `BotLifecycleProofs`, for any mixes of updates, edits, faults and loads and any
threshold of at least 1, under `LifecycleAssumption`: `StatusFollowsTheQueue`
(`Spec => []StatusFollowsMembership`) and `SpikesArmTheRaidMode`
(`Spec => []SpikeArmsRaidMode`). `MemberInv` lets the row be ahead of the place in the
queue, as it is after a crash: it is right for some place k, and no update handled again
before k bears on the membership (*Right*); *Chain* says that joining and leaving
alternate. `RaidInv` follows one join from INCR to the alarm: the counter is over the
threshold only if raid mode is on, or the join that sets it is in hand, or one that might
have has been missed. Raid mode and the window run out each by itself; a raid mode that
an earlier spike has set and that ends within the window counts as missed until the next
join sets it again.

In `WorkerProofs`, for any jobs, automations, providers, anomalies, retries, stalls and
faults under `WorkerAssumption` (the slots are finitely many), and any readings,
thresholds and waits under `MonitorAssumption`:

| Theorem | Statement |
|---|---|
| `NoKeyIsNotifiedTwice` | `Spec => []NotifiedOncePerWindow` |
| `RetriesRepeatNothing` | `Spec => []RepeatedOnlyByItsOwnFaults` |
| `TheLivingLookAlive` | `MonitorSpec => []LiveWorkerLooksAlive` |
| `NoReadingMovesWhilePaused` | `MonitorSpec => PausedReadingIsStill` |

`QueueInv` has that at most one maintenance job is active (*Alone*), which counts active
jobs and is the reason why look-then-insert of a notification is safe (`NotifyInv`: who
is about to insert still finds none). `TickInv` says of every automation that as often
as it has acted it was excused, but once, and that whoever has it still to act on is
before its action; `StoreInv` bounds what an extraction has stored by its starts so far,
with room for the rows it still holds. `BeatInv` bounds the age of the heartbeat of
a worker that has been heard by the beats lost since it arrived, plus the one that is due;
`PageInv` says that while the page is paused all answers under way are cancelled.

In `ConsoleProofs`, for any calls, providers, models, groups,
personalities, processes and bounds, under the assumptions of `Console` (among them that
`None` is no call and no job):

| Theorem | Statement |
|---|---|
| `LogoutsHaveAReason` | `Spec => []NoNeedlessLogout` |
| `DeletionsByForceWereWarned` | `Spec => []ForcedDeletesWereWarned` |
| `SettingsStayWithTheirGroup` | `Spec => []SettingsGoToTheirGroup` |
| `MigrationsRunOnce` | `Spec => []EveryMigrationOnce` |
| `EveryEditIsKept` | `Spec => []EditsAreAllKept` |

`ClientInv`: as long as the tab believes in a session, it has one that lives, in the
cookie or in the refresh under way, or an excuse; a second refresh would break it, so
that there is one at a time. `PageInv` and `GroupInv` carry the warning and the group
along in requests under way and in the dialog. `ContainerInv`: files are recorded in
their order, each has taken effect as often as it is recorded, and two processes do not
have the same file's SQL under way. `StudioInv`: who is past his lock holds it and builds
on the committed row, and a personality of version n has the versions 1 to n.

Lists. What SelectSeq and FoldLeft compute cannot be proved here: the library's
induction takes an operator as a parameter. Where a proof needs what is left of a
sequence, `ProviderCall` defines it by places instead: `Picked(s, places)` has at n the
element at the n-th place, and `Rank` counts the places passed. `PlacesProofs` shows
that the rank rises from one place to the next by one and that no two places share it
(`RankOfNext`, `RankIsUnique`), from the fact that a nonempty set of numbers has a least
one (`LeastNumber`).

## 5. Model-checked only, and not modelled

Model-checked only:

- every liveness property (`RequestsEnd`, `EveryCallSettles`, `ExchangesEnd`,
  `TokenTakesOver`, `MaintenanceIsHonoured`, `AutomationsAreReached`,
  `IllnessIsAnnounced`, `SilentWorkerIsNoticed`): liveness under fairness is out of
  the prover's reach.

That `BotReply` refines the step `Ask` of `BotPipeline` is how the modules are meant, and
neither checked nor proved.

Not modelled; `components` in `PROJECT.json` gives the reason for each part:

- roles, bot tools, the core library, shell scripts, the panel's lists, charts and
  shared components (but for `Modal` and `ConfirmDialog`, whose covering and closing
  is in the pages' models);
- webhook mode, the menu's commands, retention and backups, aggregation of metrics;
- providers and their keys as tables; each of their operations is one statement;
- contents: prompts, memories, templates, pictures, audit rows, catalogues' details;
- the login rate limit, the expiry of warnings after 24 hours, a second tab sharing
  the refresh cookie, the router's cache of adapters.

Ids have their types in `ProfileChains` only. What follows from their comparison there is
left out elsewhere: `AiRouter`, `ProviderCall`, `BotPipeline`, `BotReply` and `WorkerJobs`
take lists of candidates as given, though the bot and the worker, which ask with the
number 1, find none as the code stands; `ModelsPage` has models that are `used` by a
profile, which only rows written by other than the panel's means can be.

Hazards that are known and for which no property stands: the choice of the least
recently used key takes two statements (ai-config.js:50), so that concurrent requests
may take the same one, which costs nothing but evenness; the setup, enabling and
disabling of 2FA read and write in two statements (auth.js:154), of which `admin_login`
covers what bears on a login; cutting an answer into chunks (pipeline.js:585) is a pure
function of the text, to be tested; and 4, 9, 19, 21, 25 and 26 of section 6, where it is
known what happens. Two refreshes of one cookie at a time both get a session
(auth.js:201): `AdminAuth` has them, and nothing is said against it. Polls of the
monitoring page that overtake each other may show the older answer for two seconds.

## 6. Where code and documentation disagree

Shown by a run of its own:

| Run | Claim | What the code does |
|---|---|---|
| `recovery_codes_accepted` | auth.js:133, recovery codes | stored hash has the dash, used hash has not: no code is ever accepted |
| `profile_chains` | ai-routes.js:185, a model is foreign or inactive | numbers are looked up among the strings that pg makes of `bigint`: every chain that has a model is refused |

`profile_chains` rests on pg's default, to hand 64-bit integers over as strings, which
nothing in the repository changes (no `types.setTypeParser`); the tests make their rows
by hand, with numbers. The router compares in the same way. A request of the bot asks for
the tenant 1, a number (pipeline.js:469), and router.js:51 finds none of the tenant's
models; and if it did, or for the panel's requests, router.js:62–66 looks the numbers of
`json_build_object` up in a map whose keys are strings and appends all usable models
instead of the chain.

The following were met while modelling. The models follow the code; those marked with
a module are in it as described. Paths as in section 1.

1. `AiRouter`, `CircuitBreaker`: circuit-breaker.js:2 says CLOSED → OPEN → HALF_OPEN →
   CLOSED; a late success closes an open circuit without cool-off (line 43).
2. `BotReply`: bot/src/index.js:278 says never to crash the worker; a refused edit of a
   streamed answer is an unhandled rejection, because router.js:202 does not await
   `onDelta`.
3. `AdminAuth`: scripts/admin.js:49 says that sessions are revoked; a login or refresh
   past its checks issues a session after the revocation. `ResetEndsOldSessions` states
   what holds: resets that find nothing half-way through.
4. `AdminAuth`: admin.js:41 says locked for 15 minutes; a success in flight resets the
   counter, and the next failure writes NULL over the lock.
5. `BotPipeline`: pipeline.js:303 speaks of the context of recent messages; NULLs never
   conflict in the UNIQUE constraint that ops.js:9 relies on, so that each message
   outside a topic opens a new conversation.
6. `BotPipeline`: the rate limit is called a sliding window (pipeline.js:65) and is a
   fixed one; `AtMostTwiceTheLimit` states what holds instead.
7. `AiRouter`: router.js:12 says that usage is recorded for every attempt; attempts that
   fail before one succeeds leave no row, and `AnswersAreAccounted` states what is.
8. `BotPipeline`: a stage that throws is passed over (pipeline.js:24), the blacklist and
   moderation too; the properties about gates speak of messages whose stages did not fail.
9. `WorkerJobs`: maintenance.js:5 says that auth failures disable the first key; nothing
   does. memory-extract.js:78 ends the backfill when there seems to be no embedding
   model, but `embed()` answers with null then and does not throw; and as the newest
   memories come first, those that cannot be embedded keep their place in its LIMIT.
   disable_ai in automations.js ignores `action.groupId`; a message is sent with the
   token of the environment; a daily automation whose hour passes between two ticks is
   missed that day.
10. `BotLifecycle`: an empty token in the environment leaves the bot idle for ever,
    whatever the panel stores (index.js 27–30 before 54–66), while debug-routes.js:240
    promises a start within 15 s and `tinko`:90 installs with an empty token.
    `TokenTakesOver` therefore asks for a token in the environment.
11. `BotLifecycle`: bot_status never returns from `left`; the status of a blacklisted
    group is overwritten by orphaned and then active; a failing
    `getChatAdministrators` clears the group's admins.
12. `BotLifecycle`: anti-spam.js:8 says `>= raidJoins`; the code compares with `>`.
    anti-spam.js:40 says that emergency mode triggers on the crossing tick only; it does on
    any join above the threshold while raid mode is off. CHANGELOG.md:92 promises the
    detection by `chat_member` updates; Telegram sends these only when asked, and
    index.js:316–326 starts polling without `allowed_updates`, so that by default no join
    is counted. `subscribed` says whether they come.
    Webhook mode handles updates without `bot.init()` and drops what waits.
13. `ProviderCall`: `wrapNetworkError` takes an AbortError for a timeout, but
    `AbortSignal.timeout` raises a TimeoutError, which becomes `network`. A stream
    without a last newline loses its last line and counts as a success. The mock and
    Anthropic adapters declare capabilities they lack; a `custom_http` with
    `api_key_query` cannot be used; an unknown kind throws.
14. `PanelClient`: a network failure during the refresh logs the administrator out; a
    logout that races a refresh leaves the session alive; a wrong 2FA code rotates the
    session and is sent again.
15. `VpsMonitor`: debug-routes.js:14 gives load thresholds as a ratio of the cores,
    `computeHealthScore` compares a percentage with them. index.js:41 of the worker
    guards against readings without data, which do not occur. A heartbeat under way at
    SIGTERM may land after `markOffline`. The page keeps a reading as live when polls
    fail. VpsPage.jsx:82 sets the error without looking at `cancelled`, and the charts are
    loaded while the page is paused (84–88). platform-routes.js:119–120 says that the
    reason without a reading names the actual cause; the first heartbeat is not repeated
    when it fails (worker index.js:81), and for half a minute a worker that is up is given
    as out of reach, with the advice to start it. `reported` keeps this apart.
16. `ModelsPage`: an answer to `fetchModels` is not checked against the provider chosen
    by then (ModelsPage.jsx, discovery); a late import closes a dialog opened since; a
    disabled model disappears from the list. The dialog offers the capability `json`,
    which the CHECK of 0001_init.sql:208 refuses.
17. `GroupDesk`: the selection survives a change of the search; a late save closes the
    dialog of another group; a template's preview may stand under another key
    (GroupsPage.jsx:315); the templates are replaced read-modify-write (lost update); a
    bulk operation that fails half-way leaves no audit row.
18. `PersonaDesk`: PersonalitiesPage.jsx:294 says that one can go back to earlier
    versions; there is no route for it, and the list of versions has no snapshots. The
    dialog saves the whole form: the last writer wins field by field what he did not
    touch. A late answer of the test chat lands in another personality's chat.
19. `Startup`: a crash between the creation of the first owner and the assignment of his
    role leaves an owner without `super_admin` for good (server.js:169).
20. `ConfirmDialog` (ui.jsx 512–533) runs `onConfirm()` and then `onClose()` without
    waiting for the answer.
21. Metrics: the aggregation overwrites a full minute by a partial one
    (maintenance.js:71); the 5-minute and hourly tables it prunes are never written.
22. Blacklists: POST /blacklists passes `telegram_id`, `blacklist.add` reads
    `telegramId` (ops.js:163).
23. The router's map of adapters is never invalidated (router.js 18–43): a changed
    address of a provider is used after a restart only.
24. `ProviderCall`: a host that serves its endpoints without a version cannot be given:
    `openAiUrl` adds `/v1` to it, as line 9 says. It also adds one to a base URL whose
    version is not a number, like `/v1beta/openai` (line 224), though lines 4–5 speak of
    any OpenAI-compatible service. `AddressesAreKnown` is about the other rows.
25. `BotPipeline`: INCR and EXPIRE are two commands (pipeline.js:71); a bot that dies
    between them, or a failing EXPIRE, leaves a counter that never ends, and its user is
    limited for good. `CountersExpire` covers deliveries that overlap.
26. `BotReply`: CHANGELOG.md:55 says that the final message replaces the edited one; an
    older edit that Telegram applies later replaces it again (pipeline.js:497–501).

## 7. Plan

Done: the modules of section 2, and the proofs of everything but liveness that their
runs check. In this order, what is left:

1. The delivery of an answer as `BotPipeline` sees it (one step that ends with a text, an
   explanation or a failure) as an abstract specification that `BotReply` implements.
2. Types of the state of `WorkerJobs`, `VpsMonitor` and the desks of `Console`, as far as
   the invariants of section 4 do not say them, as theorems of their own.
3. `splitForTelegram` against a reference definition, over bounded texts.
4. The providers page and the keys' rotation; webhook mode; the aggregation of metrics.
