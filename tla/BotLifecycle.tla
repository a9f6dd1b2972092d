---------------------------- MODULE BotLifecycle ----------------------------
(***************************************************************************)
(* The life of the bot process (apps/bot/src/index.js): which token it runs  *)
(* on while the panel changes it, the settings it reads every minute, and    *)
(* the updates about groups and their members that it takes from Telegram by *)
(* long polling, one after the other, across crashes and restarts.           *)
(*                                                                           *)
(* Telegram keeps an update until a later getUpdates confirms it, so what a  *)
(* process had fetched when it ended is delivered again.  The message        *)
(* pipeline itself is BotPipeline; here a message only touches its group.    *)
(* The branch that waits for a token (lines 54-66) is unreachable and left   *)
(* out: without a token in the environment the process is idle already.      *)
(*                                                                           *)
(* bot.start() names no allowed_updates, so that Telegram keeps the setting  *)
(* it has for the token, which leaves chat_member out unless some other      *)
(* program subscribed to it: only then does the bot hear of joins at all.    *)
(***************************************************************************)
EXTENDS Integers, Sequences

CONSTANTS
    EnvTokens,      \* what TELEGRAM_BOT_TOKEN may be, None included
    PanelTokens,    \* what the panel may store: Telegram accepted it
    Accepted,       \* the tokens that getMe accepts
    None,
    Threshold,      \* joins within a minute that are no raid yet: 4 or 6
    Mixes           \* bound: what a behaviour starts with (see Init), whether
                    \* the token is subscribed to chat_member, what may happen
                    \* and how often

ASSUME LifecycleAssumption ==
    /\ PanelTokens \subseteq Accepted /\ None \notin Accepted
    /\ Threshold \in Nat \ {0}
    /\ Mixes \subseteq [env : EnvTokens, stored : PanelTokens \union {None}, updates : Nat,
                        edits : Nat, faults : Nat, loads : 0..2, subscribed : BOOLEAN]

VARIABLES
    env,        \* TELEGRAM_BOT_TOKEN
    stored,     \* system_settings: the token and the maintenance mode
    pc,         \* the process: where its start is, "running", "idle", "down"
    token,      \* botToken, which the process authorized itself with
    inMaintenance, \* maintenanceMode, as loadIdentity() has it
    load,       \* the calls of loadIdentity() under way
    member,     \* whether the bot is a member of the group
    queue,      \* the updates Telegram keeps for the bot
    fetched,    \* how many of them the process has fetched
    handled,    \* and how many of those it is through with
    step,       \* the await of the update in hand, and its count of joins
    status,     \* telegram_groups.status
    joins,      \* Redis, as:raid:*: the count, and whether it will expire
    raidMode,   \* Redis, as:raidmode:*: "off", "fresh" when it was set in the
                \* minute that is still counted, "old" when before that
    missed,     \* history: an update was given up; a raid was not armed, or
                \* its raid mode has run out since the last join
    budget      \* bound: the updates, edits and faults still to come

process == <<pc, token, inMaintenance, load>>
delivery == <<fetched, handled, step>>
redis == <<joins, raidMode>>
vars == <<env, stored, process, member, queue, delivery, status, redis, missed, budget>>

NoStep == [at |-> "none", count |-> 0]
Loads == {1, 2}     \* bound: loads that overlap
NoLoads == [l \in Loads |-> "none"]
NoJoins == [count |-> 0, expires |-> TRUE]

Spend(what) == budget[what] > 0 /\ budget' = [budget EXCEPT ![what] = @ - 1]
Fault == Spend("faults")
Fine == UNCHANGED budget

\* The panel's token wins over the one in the environment.
Resolved == IF stored.token # None THEN stored.token ELSE env

Init ==
    /\ budget \in Mixes
    /\ env = budget.env /\ stored = [token |-> budget.stored, maintenance |-> FALSE]
    /\ pc = "down" /\ token = None /\ inMaintenance = FALSE /\ load = NoLoads
    /\ member = TRUE /\ queue = <<>> /\ fetched = 0 /\ handled = 0 /\ step = NoStep
    /\ status = "active"
    /\ joins = NoJoins /\ raidMode = "off"
    /\ missed = [update |-> FALSE, raid |-> FALSE]
-----------------------------------------------------------------------------
\* --- the panel: PUT and DELETE /settings/bot-token, the maintenance row ---
SetToken(t) ==
    /\ t \in PanelTokens /\ Spend("edits")
    /\ stored' = [stored EXCEPT !.token = t]
    /\ UNCHANGED <<env, process, member, queue, delivery, status, redis, missed>>

RemoveToken ==
    /\ stored.token # None /\ Spend("edits")
    /\ stored' = [stored EXCEPT !.token = None]
    /\ UNCHANGED <<env, process, member, queue, delivery, status, redis, missed>>

SetMaintenance(m) ==
    /\ stored.maintenance # m /\ Spend("edits")
    /\ stored' = [stored EXCEPT !.maintenance = m]
    /\ UNCHANGED <<env, process, member, queue, delivery, status, redis, missed>>

\* --- the process ---
\* What ends with the process; the raid it was about to arm is missed.
Ends ==
    /\ pc' = "down" /\ token' = None /\ inMaintenance' = FALSE /\ load' = NoLoads
    /\ fetched' = 0 /\ handled' = 0 /\ step' = NoStep
    /\ missed' = [missed EXCEPT !.raid = @ \/ step.at \in {"expire", "check", "arm"}]

IdleWithoutToken ==
    /\ pc = "down" /\ env = None
    /\ pc' = "idle"
    /\ UNCHANGED <<env, stored, token, inMaintenance, load, member, queue, delivery,
                   status, redis, missed, budget>>

\* resolveBotToken(): a query that fails leaves the token of the environment.
Resolve ==
    /\ pc = "down" /\ env # None
    /\ \/ token' = Resolved /\ Fine
       \/ token' = env /\ Fault
    /\ pc' = "authorizing"
    /\ UNCHANGED <<env, stored, inMaintenance, load, member, queue, delivery, status, redis, missed>>

\* getMe() throws for a token that Telegram refuses, and without the network.
Authorize ==
    /\ pc = "authorizing"
    /\ \/ /\ token \in Accepted /\ Fine
          /\ pc' = "loading" /\ load' = [NoLoads EXCEPT ![1] = "asked"]
          /\ UNCHANGED <<token, inMaintenance, fetched, handled, step, missed>>
       \/ token \notin Accepted /\ Fine /\ Ends
       \/ Fault /\ Ends
    /\ UNCHANGED <<env, stored, member, queue, status, redis>>

\* Mutant: updates that came in the meantime are dropped.
StartPollingAfresh ==
    /\ pc = "loading" /\ load = NoLoads
    /\ pc' = "running" /\ queue' = <<>>
    /\ UNCHANGED <<env, stored, token, inMaintenance, load, member, delivery,
                   status, redis, missed, budget>>

StartPolling ==
    /\ pc = "loading" /\ load = NoLoads
    /\ pc' = "running"
    /\ UNCHANGED <<env, stored, token, inMaintenance, load, member, queue, delivery,
                   status, redis, missed, budget>>

\* Mutant: the watcher gives up on a token that is gone from the panel.
WatchTokenInPanel ==
    /\ pc = "running" /\ stored.token \notin {token, None}
    /\ Fine /\ Ends
    /\ UNCHANGED <<env, stored, member, queue, status, redis>>

\* tokenWatcher, every 15 seconds.
WatchToken ==
    /\ pc = "running"
    /\ \/ Resolved # token /\ Fine
       \/ env # token /\ Fault
    /\ Ends
    /\ UNCHANGED <<env, stored, member, queue, status, redis>>

Crash ==
    /\ pc \notin {"down", "idle"} /\ Fault
    /\ Ends
    /\ UNCHANGED <<env, stored, member, queue, status, redis>>

\* --- loadIdentity(), every minute ---
LoadBegins(l) ==
    /\ pc = "running" /\ load[l] = "none" /\ l <= budget.loads
    /\ load' = [load EXCEPT ![l] = "asked"]
    /\ UNCHANGED <<env, stored, pc, token, inMaintenance, member, queue, delivery,
                   status, redis, missed, budget>>

\* A query that fails keeps what was known before.
LoadReads(l) ==
    /\ load[l] = "asked"
    /\ \/ load' = [load EXCEPT ![l] = IF stored.maintenance THEN "on" ELSE "off"] /\ Fine
       \/ load' = [load EXCEPT ![l] = "none"] /\ Fault
    /\ UNCHANGED <<env, stored, pc, token, inMaintenance, member, queue, delivery,
                   status, redis, missed>>

\* Mutant: maintenance is only ever switched on.
LoadAppliesOn(l) ==
    /\ load[l] \in {"on", "off"}
    /\ inMaintenance' = (inMaintenance \/ load[l] = "on")
    /\ load' = [load EXCEPT ![l] = "none"]
    /\ UNCHANGED <<env, stored, pc, token, member, queue, delivery, status, redis, missed, budget>>

LoadApplies(l) ==
    /\ load[l] \in {"on", "off"}
    /\ inMaintenance' = (load[l] = "on")
    /\ load' = [load EXCEPT ![l] = "none"]
    /\ UNCHANGED <<env, stored, pc, token, member, queue, delivery, status, redis, missed, budget>>

\* --- Telegram and getUpdates ---
\* The bot is removed or added, somebody joins, or somebody writes.
Happens(u) ==
    /\ Spend("updates")
    /\ u = "join" => budget.subscribed
    /\ member' = (u # "left")
    /\ member = (u # "added")
    /\ queue' = Append(queue, u)
    /\ UNCHANGED <<env, stored, process, delivery, status, redis, missed>>

\* The next getUpdates confirms what was handled.
Poll ==
    /\ pc = "running" /\ step = NoStep /\ handled = fetched
    /\ handled < Len(queue)
    /\ queue' = SubSeq(queue, handled + 1, Len(queue))
    /\ fetched' = Len(queue) - handled
    /\ handled' = 0
    /\ UNCHANGED <<env, stored, process, member, step, status, redis, missed, budget>>

Update == queue[handled + 1]
At(place) == step.at = place
Goto(place) == step' = [step EXCEPT !.at = place] /\ UNCHANGED handled
Finish == step' = NoStep /\ handled' = handled + 1

\* Only the platform's owner gets past the maintenance mode with a message.
Receive ==
    /\ pc = "running" /\ step = NoStep /\ handled < fetched
    /\ IF Update = "message" /\ inMaintenance THEN Finish ELSE Goto("group")
    /\ UNCHANGED <<env, stored, process, member, queue, fetched, status, redis, missed, budget>>

Gone == Update = "left"

\* markGroupLeft() or upsertGroup(), of the sort of update in hand.
Mark ==
    /\ At("group")
    /\ \/ /\ status' = IF Gone THEN "orphaned" ELSE "active"
          /\ IF Update = "join" THEN Goto("count") /\ UNCHANGED missed
                                ELSE Finish /\ missed' = [missed EXCEPT !.update = FALSE]
          /\ Fine
       \/ /\ Fault /\ Finish /\ UNCHANGED status
          /\ missed' = [missed EXCEPT !.update = @ \/ Update \in {"left", "added"}]
    /\ UNCHANGED <<env, stored, process, member, queue, fetched, redis>>

\* --- checkRaid() ---
\* The settings query or INCR may fail; EXPIRE follows the first INCR.
CountJoin ==
    /\ At("count")
    /\ \/ /\ joins' = [joins EXCEPT !.count = @ + 1, !.expires = @ /\ joins.count > 0]
          /\ step' = [at |-> IF joins.count = 0 THEN "expire" ELSE "check", count |-> joins.count + 1]
          /\ Fine /\ UNCHANGED handled
       \/ Fault /\ Finish /\ UNCHANGED joins
    /\ UNCHANGED <<env, stored, process, member, queue, fetched, status, raidMode, missed>>

Expire ==
    /\ At("expire")
    /\ \/ joins' = [joins EXCEPT !.expires = TRUE] /\ Goto("check") /\ Fine
       \/ Fault /\ Finish /\ UNCHANGED joins
    /\ UNCHANGED <<env, stored, process, member, queue, fetched, status, raidMode, missed>>

\* Mutant: only the join that crosses the threshold counts.
TriggeredOnce(n) == n = Threshold + 1 /\ raidMode = "off"

Triggered(n) == n > Threshold /\ raidMode = "off"

Check ==
    /\ At("check")
    /\ \/ /\ IF Triggered(step.count) THEN Goto("arm") ELSE Finish
          /\ Fine /\ missed' = [missed EXCEPT !.raid = FALSE]
       \/ Fault /\ Finish /\ missed' = [missed EXCEPT !.raid = TRUE]
    /\ UNCHANGED <<env, stored, process, member, queue, fetched, status, redis>>

\* activateRaidMode(); the event, the notification and the reply come after it.
Arm ==
    /\ At("arm")
    /\ \/ /\ raidMode' = IF joins.count > 0 THEN "fresh" ELSE "old"
          /\ Finish /\ Fine /\ missed' = [missed EXCEPT !.raid = FALSE]
       \/ Fault /\ Finish /\ UNCHANGED raidMode /\ missed' = [missed EXCEPT !.raid = TRUE]
    /\ UNCHANGED <<env, stored, process, member, queue, fetched, status, joins>>

MinutePasses ==
    /\ joins.count > 0 /\ joins.expires
    /\ joins' = NoJoins /\ missed' = [missed EXCEPT !.raid = FALSE]
    /\ raidMode' = IF raidMode = "fresh" THEN "old" ELSE raidMode
    /\ UNCHANGED <<env, stored, process, member, queue, delivery, status, budget>>

\* Ten minutes after it was set: not in the minute it was set in, but maybe
\* in the middle of a later one.
RaidModeEnds ==
    /\ raidMode = "old" \/ (raidMode = "fresh" /\ ~ joins.expires)
    /\ raidMode' = "off"
    /\ missed' = [missed EXCEPT !.raid = @ \/ joins.count > 0]
    /\ UNCHANGED <<env, stored, process, member, queue, delivery, status, joins, budget>>
-----------------------------------------------------------------------------
Handle == Receive \/ Mark \/ CountJoin \/ Expire \/ Check \/ Arm
Updates == {"left", "added", "join", "message"}

Next ==
    \/ \E t \in PanelTokens : SetToken(t)
    \/ \E m \in BOOLEAN : SetMaintenance(m)
    \/ RemoveToken
    \/ IdleWithoutToken \/ Resolve \/ Authorize \/ StartPolling \/ WatchToken \/ Crash
    \/ \E l \in Loads : LoadBegins(l) \/ LoadReads(l) \/ LoadApplies(l)
    \/ \E u \in Updates : Happens(u)
    \/ Poll \/ Handle
    \/ MinutePasses \/ RaidModeEnds

Spec == Init /\ [][Next]_vars

\* Docker restarts the process, its queries and its timers come back.
Fairness ==
    /\ WF_vars(Resolve \/ Authorize \/ StartPolling)
    /\ WF_vars(WatchToken)
    /\ WF_vars(\E l \in Loads : LoadReads(l) \/ LoadApplies(l))
    /\ WF_vars(\E l \in Loads : LoadBegins(l))
    /\ WF_vars(Poll \/ Handle)

FairSpec == Spec /\ Fairness
-----------------------------------------------------------------------------
(***************************************************************************)
(* Properties                                                                *)
(***************************************************************************)
Ready == Resolved \in Accepted /\ env # None

\* Whatever is changed in the panel, and however often queries fail meanwhile,
\* the bot comes to run on the token that stays there (index.js: resolution,
\* watcher and restart together), if the environment has a token at all.
TokenTakesOver ==
    \A t \in Accepted :
        Ready /\ Resolved = t ~> Resolved # t \/ (pc = "running" /\ token = t)

\* The maintenance mode that stays in the settings becomes the one that the
\* message handler goes by, and stays it, though loads overlap, fail and come
\* late: an older answer may undo a newer one, but not for good.
MaintenanceIsHonoured ==
    \A m \in BOOLEAN :
        <>[](Ready /\ stored.maintenance = m) => <>[](pc = "running" /\ inMaintenance = m)

\* When the bot is through with what Telegram has for it, the group's row says
\* whether the bot is still a member, also when updates were delivered again
\* after a crash or came while the bot was down; unless a query failed.
StatusFollowsMembership ==
    pc = "running" /\ handled = Len(queue) /\ step = NoStep /\ ~ missed.update
        => (status = "orphaned") = ~ member

\* As long as the window of a spike of joins is open the raid mode is on, if
\* Redis answered the last join and the bot lived to set it (checkRaid).  A
\* raid mode that an earlier spike set may run out within the window: then the
\* next join must set it again.
SpikeArmsRaidMode ==
    joins.count > Threshold /\ joins.expires /\ step = NoStep /\ ~ missed.raid
        => raidMode # "off"
=============================================================================
