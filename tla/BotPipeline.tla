---------------------------- MODULE BotPipeline ----------------------------
(***************************************************************************)
(* The message pipeline of the bot (apps/bot/src/pipeline.js, wired together  *)
(* in apps/bot/src/index.js): from a Telegram update to the model's answer.   *)
(*                                                                           *)
(* Updates are handled concurrently, as in webhook mode; polling handles      *)
(* them one after the other, which is one of these interleavings.  A step is  *)
(* one await, or several of one stage with nothing of interest in between,    *)
(* with the code up to the next one: stages that do not apply to a message    *)
(* are passed in the same step (Onward).  A stage that throws is skipped and  *)
(* the pipeline goes on with what the context holds by then (Fail).           *)
(*                                                                           *)
(* The answer itself (streaming, edits, tools) is one step here.  Left out:   *)
(* texts, pictures, the prompt (personality, memories, history), the typing   *)
(* indicator, the extraction jobs, the commands /start, /help and /settings.  *)
(***************************************************************************)
EXTENDS RedisCounter, FiniteSets, Sequences

CONSTANTS
    Deliveries,         \* bound: updates handed to the bot, duplicates included
    UpdateIds,          \* update.update_id
    Users,
    Owners,             \* PLATFORM_OWNER_TELEGRAM_ID
    Groups,
    Private,            \* the chat of a private message
    None,
    Messages,           \* bound: the messages that are sent
    Settings,           \* bound: the settings the panel gives a group
    Automated,          \* groups with a keyword automation, which always matches
    AiModerates,        \* feature flag ai_moderation_enabled
    Limit,              \* [rate, flood, duplicate] messages per window
    Window,             \* [rate, flood, duplicate] windows, in ticks
    DedupeTtl,          \* 120 s, in ticks
    MuteAt, LongMuteAt, BanAt,  \* the ladder: 3, 5 and 8 warnings
    MaxTime,            \* bound of the clock
    Events,             \* bound: what may happen to the pipeline in this model
    MaxEvents           \* bound: and how often in all

Chats == Groups \union {Private}
\* What is said: a repeated text is long and always the same, mentions are
\* eight or more, a memory command is what memoryCommandsStage recognises.
Kinds == {"plain", "profane", "voice", "memory", "mentions", "repeated"}
Counted == {"rate", "flood", "duplicate"}

ASSUME PipelineAssumption ==
    /\ Messages \subseteq [user : Users, chat : Chats, topic : BOOLEAN,
                           kind : Kinds, addressed : BOOLEAN]
    /\ Settings \subseteq [policy : {"off", "relaxed", "balanced", "strict"},
                           mode : {"silent", "mention_reply", "always"},
                           ai : BOOLEAN, status : {"active", "blacklisted"}]
    /\ Limit \in [Counted -> Nat \ {0}] /\ Window \in [Counted -> Nat \ {0}]
    /\ DedupeTtl \in Nat \ {0}
    /\ MuteAt \in Nat \ {0} /\ LongMuteAt \in Nat /\ BanAt \in Nat
    /\ LongMuteAt > MuteAt /\ BanAt > LongMuteAt
    /\ None \notin Deliveries \union UpdateIds \union Settings
    /\ Events \subseteq {"failure", "crash", "edit", "raid"}
    /\ MaxTime \in Nat /\ MaxEvents \in Nat
    /\ Owners \subseteq Users /\ Automated \subseteq Groups /\ Private \notin Groups

VARIABLES
    now,
    message,    \* the message of every update
    update,     \* the update of a delivery
    pc,         \* the await a delivery is at, or how it ended
    ctx,        \* pctx, what the stages have put into it
    spoken,     \* the kinds of messages the bot has sent in reply
    asked,      \* whether the model was asked for an answer
    conversation, \* the conversation row a delivery uses, named by its creator
    seen,       \* Redis, tg:update:*: when the key expires
    counter,    \* Redis, rl:ai:*, as:flood:*, as:dup:*
    raid,       \* Redis, as:raidmode:*
    panel,      \* what the panel has set: status and listing of the users,
                \* settings and status of the groups
    warnings,   \* warnings of the last 24 hours, counted by user and group
    events,     \* bound: failures, crashes, edits and raid alarms so far
    accepted,   \* history: when a delivery passed the dedupe stage
    admitted,   \* history: what the counters let pass, and when
    rank,       \* history: which warning of its user a delivery has caused
    sanction,   \* history: the rung of the ladder a delivery was put on
    failed,     \* history: the stages that failed
    facts       \* history: what has been the case since a message arrived, all
                \* the time (always) and at any time (ever)

redis == <<seen, counter, raid>>
output == <<spoken, asked, conversation>>
history == <<accepted, admitted, rank, sanction, failed>>
vars == <<now, message, update, pc, ctx, output, redis, panel, warnings, events, history, facts>>

Ends == {"done", "failed", "lost"}

\* The first places of the stages, in their order.  The stage relevance has no
\* await: it applies to the messages it stops.
Order == <<"dedupe", "user", "automations", "rate", "media", "moderation", "raid",
           "aiModeration", "relevance", "conversation", "memory", "ai", "respond", "done">>

\* The stage of every place, by its first place.
Stage == [dedupe |-> "dedupe", user |-> "user", group |-> "user", blacklist |-> "user",
          automations |-> "automations", rate |-> "rate", rateExpire |-> "rate",
          media |-> "media", moderation |-> "moderation", count |-> "moderation",
          escalate |-> "moderation", raid |-> "raid", flood |-> "raid", floodExpire |-> "raid",
          duplicate |-> "raid", duplicateExpire |-> "raid", spam |-> "raid",
          aiModeration |-> "aiModeration", conversation |-> "conversation",
          memory |-> "memory", ai |-> "ai", respond |-> "respond"]

Pcs == DOMAIN Stage \union Ends \union {"new"}

Msg(d) == message[update[d]]
InGroup(d) == Msg(d).chat # Private

Blank == [user |-> FALSE, group |-> FALSE, settings |-> None, shadow |-> FALSE,
          text |-> FALSE, result |-> "none"]

\* The stages have the defaults of getGroupSettings() for a context without.
Policy(c) == IF c.settings = None THEN "balanced" ELSE c.settings.policy
Mode(c) == IF c.settings = None THEN "mention_reply" ELSE c.settings.mode

Key(d, kind) == <<kind, Msg(d).user, IF ctx[d].group THEN Msg(d).chat ELSE Private>>

\* The ladder of moderationStage: warning only, 10 minutes, an hour, ban.
Rung(n) == CASE n >= BanAt -> 3
             [] n >= LongMuteAt /\ n < BanAt -> 2
             [] n >= MuteAt /\ n < LongMuteAt -> 1
             [] OTHER -> 0
Moderated(c) == c.text /\ c.group /\ Policy(c) # "off"

\* Mutant: being called overrides the response mode.
RelevantWhenCalled(m, mode) == m.chat = Private \/ mode = "always" \/ m.addressed

\* Whether a message is addressed to the bot is what the response mode makes
\* of mention, reply, command and text.
Relevant(m, mode) ==
    m.chat = Private \/ mode = "always" \/ (mode # "silent" /\ m.addressed)

\* Whether the stage with this first place has anything to await with context c.
Applies(d, place, c) ==
    CASE place = "automations" -> c.group /\ c.text /\ Msg(d).chat \in Automated
      [] place = "rate" -> ~ c.shadow
      [] place = "media" -> Msg(d).kind = "voice" /\ (Msg(d).addressed \/ ~ InGroup(d))
      [] place = "moderation" -> Moderated(c) /\ Msg(d).kind = "profane"
      [] place = "raid" -> Moderated(c) /\ ~ c.shadow
      [] place = "aiModeration" ->
             AiModerates /\ Moderated(c) /\ Policy(c) # "relaxed" /\ ~ c.shadow
      [] place = "relevance" -> ~ Relevant(Msg(d), Mode(c))
      [] place \in {"conversation", "ai"} -> ~ c.shadow
      [] place = "memory" -> c.text /\ Msg(d).kind = "memory"
      [] place = "respond" -> c.result = "content"
      [] OTHER -> TRUE

\* Where a message goes on after the stage of a place, with context c.
Onward(d, place, c) ==
    LET at == CHOOSE i \in DOMAIN Order : Order[i] = Stage[place]
        next == CHOOSE i \in (at + 1)..Len(Order) :
                   /\ Applies(d, Order[i], c)
                   /\ \A j \in (at + 1)..(i - 1) : ~ Applies(d, Order[j], c)
    IN  IF Order[next] = "relevance" THEN "done" ELSE Order[next]
-----------------------------------------------------------------------------
\* A user has earlier warnings only where all his messages add to them.
Init ==
    /\ now = 0
    /\ message \in [UpdateIds -> Messages]
    /\ update = [d \in Deliveries |-> None]
    /\ pc = [d \in Deliveries |-> "new"]
    /\ ctx = [d \in Deliveries |-> Blank]
    /\ spoken = [d \in Deliveries |-> {}]
    /\ asked = [d \in Deliveries |-> FALSE]
    /\ conversation = [d \in Deliveries |-> None]
    /\ seen = [u \in UpdateIds |-> 0]
    /\ counter = [k \in Counted \X Users \X Chats |-> NoKey]
    /\ raid = [g \in Groups |-> FALSE]
    /\ \E s \in [Groups -> Settings] :
          panel = [status |-> [u \in Users |-> "active"],
                   listing |-> [u \in Users |-> "none"],
                   setting |-> s]
    /\ \E n \in {0, MuteAt - 1} :
          /\ n = 0 \/ \A u \in UpdateIds : message[u].kind = "profane"
          /\ warnings = [k \in Users \X Groups |-> n]
    /\ events = 0
    /\ accepted = [d \in Deliveries |-> None]
    /\ admitted = {}
    /\ rank = [d \in Deliveries |-> 0]
    /\ sanction = [d \in Deliveries |-> 0]
    /\ failed = [d \in Deliveries |-> {}]
    /\ facts = [d \in Deliveries |-> [always |-> {}, ever |-> {}]]

Goto(d, place) == pc' = [pc EXCEPT ![d] = place]
Put(d, c) == ctx' = [ctx EXCEPT ![d] = c]
Say(d, what) == spoken' = [spoken EXCEPT ![d] = @ \union {what}]

\* The stage of a place is over, the context is now c.
Proceed(d, place, c) == Put(d, c) /\ Goto(d, Onward(d, place, c))

\* The pipeline stops with a reply.
StopSaying(d, what) == Goto(d, "done") /\ Say(d, what)

still == <<now, message, panel, events>>

Happens(event) == event \in Events /\ events < MaxEvents /\ events' = events + 1

\* --- the updates, and the stages that find out who and where ---
\* Maintenance mode answers everybody but the owner before the pipeline runs.
Arrive(d) ==
    /\ pc[d] = "new"
    /\ \E u \in UpdateIds :
          /\ update' = [update EXCEPT ![d] = u]
          /\ Put(d, [Blank EXCEPT !.text = message[u].kind # "voice"])
          /\ \/ Goto(d, "dedupe") /\ UNCHANGED spoken
             \/ message[u].user \notin Owners /\ StopSaying(d, "maintenance")
    /\ UNCHANGED <<still, asked, conversation, redis, warnings, history>>

\* Mutant: SET without NX.
DedupeWithoutNx(d) ==
    /\ pc[d] = "dedupe"
    /\ seen' = [seen EXCEPT ![update[d]] = now + DedupeTtl]
    /\ accepted' = [accepted EXCEPT ![d] = now]
    /\ Goto(d, "user")
    /\ UNCHANGED <<still, update, ctx, output, counter, raid, warnings,
                   admitted, rank, sanction, failed>>

\* SET NX EX.
Dedupe(d) ==
    /\ pc[d] = "dedupe"
    /\ \/ /\ now >= seen[update[d]]
          /\ seen' = [seen EXCEPT ![update[d]] = now + DedupeTtl]
          /\ accepted' = [accepted EXCEPT ![d] = now]
          /\ Goto(d, "user")
       \/ now < seen[update[d]] /\ Goto(d, "done") /\ UNCHANGED <<seen, accepted>>
    /\ UNCHANGED <<still, update, ctx, output, counter, raid, warnings,
                   admitted, rank, sanction, failed>>

quiet == <<still, update, output, redis, warnings, history>>

ResolveUser(d) ==
    /\ pc[d] = "user"
    /\ Put(d, [ctx[d] EXCEPT !.user = TRUE,
                             !.shadow = panel.status[Msg(d).user] = "shadow_ignored"])
    /\ Goto(d, IF InGroup(d) THEN "group" ELSE "blacklist")
    /\ UNCHANGED quiet

ResolveGroup(d) ==
    /\ pc[d] = "group"
    /\ LET s == panel.setting[Msg(d).chat]
       IN  /\ Put(d, [ctx[d] EXCEPT !.group = TRUE, !.settings = s])
           /\ Goto(d, IF s.status = "blacklisted" THEN "done" ELSE "blacklist")
    /\ UNCHANGED quiet

CheckBlacklist(d) ==
    /\ pc[d] = "blacklist"
    /\ LET listing == panel.listing[Msg(d).user]
       IN  \/ listing = "block" /\ Goto(d, "done") /\ UNCHANGED ctx
           \/ /\ listing # "block"
              /\ Proceed(d, "blacklist", [ctx[d] EXCEPT !.shadow = @ \/ listing = "shadow"])
    /\ UNCHANGED quiet

\* Keyword automations answer for themselves; the message goes on.
Automate(d) ==
    /\ pc[d] = "automations"
    /\ Proceed(d, "automations", ctx[d])
    /\ UNCHANGED spoken \/ Say(d, "automation")
    /\ UNCHANGED <<still, update, asked, conversation, redis, warnings, history>>

\* --- the counters ---
Incremented(d, kind) == AfterIncr(counter[Key(d, kind)], now)
Incr(d, kind) == counter' = [counter EXCEPT ![Key(d, kind)] = Incremented(d, kind)]
Admit(d, kind) ==
    admitted' = admitted \union {[key |-> Key(d, kind), delivery |-> d, at |-> now]}
Over(d, kind) == Exceeds(Incremented(d, kind).count, Limit[kind])

\* Mutant: the EXPIRE is sent by whoever counts second.
CountsExpireSecond(d, kind, expiring, next) ==
    /\ Incr(d, kind)
    /\ ~ Over(d, kind)
    /\ Admit(d, kind)
    /\ Goto(d, IF Incremented(d, kind).count = 2 THEN expiring ELSE next)

\* Whoever counts first has to send the EXPIRE next.
Counts(d, kind, expiring, next) ==
    /\ Incr(d, kind)
    /\ ~ Over(d, kind)
    /\ Admit(d, kind)
    /\ Goto(d, IF Incremented(d, kind).count = 1 THEN expiring ELSE next)

Expires(d, kind, next) ==
    /\ counter' = [counter EXCEPT ![Key(d, kind)] = AfterExpire(@, now, Window[kind])]
    /\ Goto(d, next)
    /\ UNCHANGED <<still, update, ctx, output, seen, raid, warnings, history>>

RateLimit(d) ==
    /\ pc[d] = "rate"
    /\ \/ Counts(d, "rate", "rateExpire", Onward(d, "rate", ctx[d])) /\ UNCHANGED spoken
       \/ Incr(d, "rate") /\ Over(d, "rate") /\ StopSaying(d, "limited") /\ UNCHANGED admitted
    /\ UNCHANGED <<still, update, ctx, asked, conversation, seen, raid, warnings,
                   accepted, rank, sanction, failed>>

RateExpire(d) == pc[d] = "rateExpire" /\ Expires(d, "rate", Onward(d, "rate", ctx[d]))

\* --- media, moderation and anti-spam ---
\* A voice message becomes text, stays without (an empty file) or ends here.
Media(d) ==
    /\ pc[d] = "media"
    /\ \/ \E heard \in BOOLEAN :
             Proceed(d, "media", [ctx[d] EXCEPT !.text = heard]) /\ UNCHANGED spoken
       \/ StopSaying(d, "voice") /\ UNCHANGED ctx
    /\ UNCHANGED <<still, update, asked, conversation, redis, warnings, history>>

WarnedIn(d) == <<Msg(d).user, Msg(d).chat>>
Warned(d) == warnings' = [warnings EXCEPT ![WarnedIn(d)] = @ + 1]
Ranked(d) == rank' = [rank EXCEPT ![d] = warnings[WarnedIn(d)] + 1]

\* addWarning(): INSERT, then (Judge) the number of recent warnings.
Warn(d) ==
    /\ pc[d] = "moderation"
    /\ Warned(d) /\ Ranked(d)
    /\ Goto(d, "count")
    /\ UNCHANGED <<still, update, ctx, output, redis, accepted, admitted, sanction, failed>>

\* Mutant: the warnings are counted without the new one.
JudgeOlderWarnings(d) ==
    /\ pc[d] = "count"
    /\ LET rung == Rung(warnings[WarnedIn(d)] - 1)
       IN  /\ sanction' = [sanction EXCEPT ![d] = rung]
           /\ Goto(d, IF rung = 0 THEN "done" ELSE "escalate")
    /\ Say(d, "warned")
    /\ UNCHANGED <<still, update, ctx, asked, conversation, redis, warnings,
                   accepted, admitted, rank, failed>>

Judge(d) ==
    /\ pc[d] = "count"
    /\ LET rung == Rung(warnings[WarnedIn(d)])
       IN  /\ sanction' = [sanction EXCEPT ![d] = rung]
           /\ Goto(d, IF rung = 0 THEN "done" ELSE "escalate")
    /\ Say(d, "warned")
    /\ UNCHANGED <<still, update, ctx, asked, conversation, redis, warnings,
                   accepted, admitted, rank, failed>>

RecordEscalation(d) ==
    /\ pc[d] = "escalate"
    /\ Goto(d, "done")
    /\ UNCHANGED <<ctx, quiet>>

CheckRaid(d) ==
    /\ pc[d] = "raid"
    /\ Goto(d, IF raid[Msg(d).chat] THEN "done" ELSE "flood")
    /\ UNCHANGED <<ctx, quiet>>

\* What follows the flood check: only long texts are counted as duplicates,
\* and the number of mentions is known without waiting.
AfterFlood(d) ==
    CASE Msg(d).kind = "repeated" -> "duplicate"
      [] Msg(d).kind = "mentions" -> "spam"
      [] OTHER -> Onward(d, "flood", ctx[d])

CountsAgainstSpam(d, kind, expiring, next) ==
    /\ \/ Counts(d, kind, expiring, next)
       \/ Incr(d, kind) /\ Over(d, kind) /\ Goto(d, "spam") /\ UNCHANGED admitted
    /\ UNCHANGED <<still, update, ctx, output, seen, raid, warnings,
                   accepted, rank, sanction, failed>>

CheckFlood(d) ==
    pc[d] = "flood" /\ CountsAgainstSpam(d, "flood", "floodExpire", AfterFlood(d))

FloodExpire(d) == pc[d] = "floodExpire" /\ Expires(d, "flood", AfterFlood(d))

CheckDuplicate(d) ==
    /\ pc[d] = "duplicate"
    /\ CountsAgainstSpam(d, "duplicate", "duplicateExpire", Onward(d, "duplicate", ctx[d]))

DuplicateExpire(d) ==
    pc[d] = "duplicateExpire" /\ Expires(d, "duplicate", Onward(d, "duplicate", ctx[d]))

\* recordAndWarn(): spam counts as a warning and is met with silence.
PunishSpam(d) ==
    /\ pc[d] = "spam"
    /\ Warned(d) /\ Ranked(d)
    /\ Goto(d, "done")
    /\ UNCHANGED <<still, update, ctx, output, redis, accepted, admitted, sanction, failed>>

\* The model finds a message safe (or fails), worth a warning, or to be deleted.
AiModerate(d) ==
    /\ pc[d] = "aiModeration"
    /\ \/ /\ Proceed(d, "aiModeration", ctx[d])
          /\ UNCHANGED spoken \/ Say(d, "warned")
       \/ StopSaying(d, "deleted") /\ UNCHANGED ctx
    /\ UNCHANGED <<still, update, asked, conversation, redis, warnings, history>>

\* --- the answer ---
\* The stages use what resolution has put into the context, and throw if it
\* is not there.
Undefined(d) ==
    \/ pc[d] = "conversation" /\ (~ ctx[d].user \/ (InGroup(d) /\ ~ ctx[d].group))
    \/ pc[d] \in {"memory", "ai"} /\ ~ ctx[d].user

\* ON CONFLICT (tenant_id, group_id, user_id, topic_id): columns that are NULL
\* never conflict, so that only a forum topic of a group has a row to find.
SameConversation(d, e) ==
    /\ InGroup(d) /\ Msg(d).topic
    /\ Msg(d).user = Msg(e).user /\ Msg(d).chat = Msg(e).chat /\ Msg(e).topic

ResolveConversation(d) ==
    LET rows == {conversation[e] : e \in {e \in Deliveries :
                    conversation[e] # None /\ SameConversation(d, e)}}
    IN  /\ pc[d] = "conversation"
        /\ ~ Undefined(d)
        /\ \E c \in IF rows = {} THEN {d} ELSE rows :
              conversation' = [conversation EXCEPT ![d] = c]
        /\ Proceed(d, "conversation", ctx[d])
        /\ UNCHANGED <<still, update, spoken, asked, redis, warnings, history>>

MemoryCommand(d) ==
    /\ pc[d] = "memory"
    /\ ~ Undefined(d)
    /\ StopSaying(d, "memory")
    /\ UNCHANGED <<still, update, ctx, asked, conversation, redis, warnings, history>>

AiOff(c) == c.settings # None /\ ~ c.settings.ai

\* Mutant: a failed request is not explained.
AskSilently(d) ==
    /\ pc[d] = "ai"
    /\ ~ Undefined(d)
    /\ ~ AiOff(ctx[d])
    /\ asked' = [asked EXCEPT ![d] = TRUE]
    /\ Goto(d, "done")
    /\ UNCHANGED <<still, update, ctx, spoken, conversation, redis, warnings, history>>

\* The answer is streamed, comes as a whole, or does not come.
Ask(d) ==
    /\ pc[d] = "ai"
    /\ ~ Undefined(d)
    /\ \/ /\ AiOff(ctx[d])
          /\ StopSaying(d, "maintenance")
          /\ UNCHANGED <<ctx, asked>>
       \/ /\ ~ AiOff(ctx[d])
          /\ asked' = [asked EXCEPT ![d] = TRUE]
          /\ \/ Proceed(d, "ai", [ctx[d] EXCEPT !.result = "streamed"]) /\ Say(d, "answer")
             \/ Proceed(d, "ai", [ctx[d] EXCEPT !.result = "content"]) /\ UNCHANGED spoken
             \/ StopSaying(d, "unavailable") /\ UNCHANGED ctx
    /\ UNCHANGED <<still, update, conversation, redis, warnings, history>>

Respond(d) ==
    /\ pc[d] = "respond"
    /\ StopSaying(d, "answer")
    /\ UNCHANGED <<still, update, ctx, asked, conversation, redis, warnings, history>>

\* A stage throws: the error is logged and the next stage runs; only respond
\* throws on.  The group may have been loaded without its settings.  The stages
\* automations, aiModeration and ai catch what fails in them.
Fail(d) ==
    /\ pc[d] \notin Ends \union {"new", "automations", "aiModeration"}
    /\ IF Undefined(d)
       THEN UNCHANGED events
       ELSE pc[d] # "ai" /\ Happens("failure")
    /\ failed' = [failed EXCEPT ![d] = @ \union {Stage[pc[d]]}]
    /\ \/ pc[d] = "respond" /\ Goto(d, "failed") /\ UNCHANGED ctx
       \/ pc[d] # "respond" /\ Proceed(d, pc[d], ctx[d])
       \/ pc[d] = "group" /\ Proceed(d, pc[d], [ctx[d] EXCEPT !.group = TRUE])
    /\ UNCHANGED <<now, message, panel, update, output, redis, warnings,
                   accepted, admitted, rank, sanction>>

\* --- around the pipeline ---
\* The process ends and starts again: what was under way is lost.
Crash ==
    /\ Happens("crash")
    /\ pc' = [d \in Deliveries |-> IF pc[d] \in Ends \union {"new"} THEN pc[d] ELSE "lost"]
    /\ UNCHANGED <<now, message, panel, update, ctx, output, redis, warnings, history>>

\* The admin panel writes a user's status, the blacklist or a group's settings.
Edit ==
    /\ Happens("edit")
    /\ \/ \E u \in Users, s \in {"active", "shadow_ignored"} :
             panel' = [panel EXCEPT !.status[u] = s]
       \/ \E u \in Users, l \in {"none", "block", "shadow"} :
             panel' = [panel EXCEPT !.listing[u] = l]
       \/ \E g \in Groups, s \in Settings : panel' = [panel EXCEPT !.setting[g] = s]
    /\ panel' # panel
    /\ UNCHANGED <<now, message, update, pc, ctx, output, redis, warnings, history>>

\* A spike of joins sets the raid mode of a group; its key expires.
RaidMode(g) ==
    /\ Happens("raid")
    /\ raid' = [raid EXCEPT ![g] = ~ @]
    /\ UNCHANGED <<now, message, panel, update, pc, ctx, output, seen, counter, warnings, history>>

Tick ==
    /\ now < MaxTime
    /\ now' = now + 1
    /\ UNCHANGED <<message, panel, events, update, pc, ctx, output, redis, warnings, history>>

Handle(d) ==
    \/ Dedupe(d) \/ ResolveUser(d) \/ ResolveGroup(d) \/ CheckBlacklist(d) \/ Automate(d)
    \/ RateLimit(d) \/ RateExpire(d) \/ Media(d)
    \/ Warn(d) \/ Judge(d) \/ RecordEscalation(d)
    \/ CheckRaid(d) \/ CheckFlood(d) \/ FloodExpire(d) \/ CheckDuplicate(d)
    \/ DuplicateExpire(d) \/ PunishSpam(d) \/ AiModerate(d)
    \/ ResolveConversation(d) \/ MemoryCommand(d) \/ Ask(d) \/ Respond(d) \/ Fail(d)

\* What bears on a message, as things are now.
Facts(d) ==
    LET m == Msg(d)
        s == panel.setting[m.chat]
    IN  {f \in {"blocked", "shadowListed", "shadowIgnored"} :
            \/ f = "blocked" /\ panel.listing[m.user] = "block"
            \/ f = "shadowListed" /\ panel.listing[m.user] = "shadow"
            \/ f = "shadowIgnored" /\ panel.status[m.user] = "shadow_ignored"}
        \union
        {f \in {"groupBlocked", "aiOff", "silent", "moderated", "raid"} :
            /\ m.chat # Private
            /\ \/ f = "groupBlocked" /\ s.status = "blacklisted"
               \/ f = "aiOff" /\ ~ s.ai
               \/ f = "silent" /\ s.mode = "silent"
               \/ f = "moderated" /\ s.policy # "off"
               \/ f = "raid" /\ raid[m.chat]}

Remember ==
    facts' = [d \in Deliveries |->
        CASE pc'[d] = "new" -> facts[d]
          [] pc'[d] # "new" /\ pc[d] = "new" ->
                 [always |-> Facts(d)', ever |-> Facts(d)']
          [] OTHER -> [always |-> facts[d].always \intersect Facts(d)',
                       ever |-> facts[d].ever \union Facts(d)']]

Next ==
    /\ \/ \E d \in Deliveries : Arrive(d) \/ Handle(d)
       \/ Crash \/ Edit \/ Tick
       \/ \E g \in Groups : RaidMode(g)
    /\ Remember

Spec == Init /\ [][Next]_vars
-----------------------------------------------------------------------------
(* Properties *)

\* An update that Telegram delivers more than once is handled once within the
\* time to live of its key, however its deliveries overlap and whatever fails
\* or crashes, as long as Redis answers.
OneHandlingPerUpdate ==
    \A d, e \in Deliveries :
        /\ d # e /\ update[d] = update[e]
        /\ accepted[d] # None /\ accepted[e] # None
        => accepted[d] + DedupeTtl <= accepted[e] \/ accepted[e] + DedupeTtl <= accepted[d]

Silencing == {"blocked", "shadowListed", "shadowIgnored", "groupBlocked", "silent"}

\* What is unwelcome all the time since it arrived (its sender blacklisted or
\* shadow-ignored, its group blacklisted, silent or without AI, its text profane
\* or its group in raid mode under moderation) never makes the bot ask the
\* model, unless the stage that had to notice it has failed.  (In raid mode, a
\* voice message in which nothing was heard passes.)
UnwelcomeMessagesAreNotAsked ==
    \A d \in Deliveries :
        /\ pc[d] # "new" /\ failed[d] \intersect {"user", "moderation", "raid"} = {}
        /\ \/ facts[d].always \intersect (Silencing \union {"aiOff"}) # {}
           \/ /\ "moderated" \in facts[d].always
              /\ \/ Msg(d).kind = "profane"
                 \/ "raid" \in facts[d].always /\ Msg(d).kind # "voice"
        => ~ asked[d]

\* The bot neither replies to a blacklisted user nor stores the message.
BlockedUsersGetNothing ==
    \A d \in Deliveries :
        "blocked" \in facts[d].always /\ "user" \notin failed[d]
            => spoken[d] \subseteq {"maintenance"} /\ conversation[d] = None

\* The stages keep out who is not welcome, together and one by one.
UnwelcomeMessagesAreNotAnswered == UnwelcomeMessagesAreNotAsked /\ BlockedUsersGetNothing

\* A counter without a time to live, which would limit its user for ever, is
\* one whose EXPIRE is still to come (rateLimitStage, slidingCount): deliveries
\* that overlap never leave it to each other.  A failure or a crash between INCR
\* and EXPIRE does lose it.
CountersExpire ==
    \A k \in DOMAIN counter :
        counter[k].count > 0 /\ counter[k].expires = 0 =>
            \E d \in Deliveries :
                /\ update[d] # None /\ Key(d, k[1]) = k
                /\ \/ pc[d] \in {"rateExpire", "floodExpire", "duplicateExpire", "lost"}
                   \/ failed[d] \intersect {"rate", "raid"} # {}

\* The windows are fixed, but in any stretch of time as long as a window no
\* counter lets more than twice its limit pass.
AtMostTwiceTheLimit ==
    \A k \in DOMAIN counter : \A t \in 0..MaxTime :
        Cardinality({a \in admitted : a.key = k /\ a.at \in t..(t + Window[k[1]] - 1)})
            <= 2 * Limit[k[1]]

\* Offences handled at the same time do not hide each other: nobody gets a
\* milder sanction than the number of his warnings asks for.
NoMilderSanction ==
    \A d \in Deliveries :
        /\ pc[d] \notin {"new", "count", "lost"} /\ "moderation" \notin failed[d]
        /\ Msg(d).kind = "profane"
        => sanction[d] >= Rung(rank[d])

\* A message that is addressed to the bot and is no spam is not met with
\* silence, unless the panel has silenced it, its group is in raid mode, or a
\* stage has failed.
NoSilence ==
    \A d \in Deliveries :
        /\ pc[d] = "done" /\ accepted[d] # None
        /\ failed[d] = {} /\ facts[d].ever \intersect (Silencing \union {"raid"}) = {}
        /\ Msg(d).kind # "profane" => rank[d] = 0
        /\ InGroup(d) => Msg(d).addressed
        => spoken[d] # {}
=============================================================================
