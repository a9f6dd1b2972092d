--------------------------- MODULE BotPipelineProofs ---------------------------
(***************************************************************************)
(* Proofs about BotPipeline, for any deliveries, users, groups, settings   *)
(* and messages, any limits and windows, and any number of failures,       *)
(* crashes, edits and raid alarms.                                         *)
(***************************************************************************)
EXTENDS BotPipeline, FiniteSetTheorems, TLAPS

-----------------------------------------------------------------------------
(* The order of the stages.                                                 *)

\* The stages one by one,
LEMMA OrderIs ==
  /\ Len(Order) = 14 /\ DOMAIN Order = 1 .. 14
  /\ Order[1] = "dedupe" /\ Order[2] = "user" /\ Order[3] = "automations" /\ Order[4] = "rate"
  /\ Order[5] = "media" /\ Order[6] = "moderation" /\ Order[7] = "raid"
  /\ Order[8] = "aiModeration" /\ Order[9] = "relevance" /\ Order[10] = "conversation"
  /\ Order[11] = "memory" /\ Order[12] = "ai" /\ Order[13] = "respond" /\ Order[14] = "done"
BY DEF Order

\* The number of a stage, and the stages by their numbers.
IndexOf(s) == CHOOSE i \in DOMAIN Order : Order[i] = s

\* and back from a stage to its number.
LEMMA IndexIs ==
  /\ IndexOf("dedupe") = 1 /\ IndexOf("user") = 2 /\ IndexOf("automations") = 3
  /\ IndexOf("rate") = 4 /\ IndexOf("media") = 5 /\ IndexOf("moderation") = 6
  /\ IndexOf("raid") = 7 /\ IndexOf("aiModeration") = 8 /\ IndexOf("conversation") = 10
  /\ IndexOf("memory") = 11 /\ IndexOf("ai") = 12 /\ IndexOf("respond") = 13
<1>1. ASSUME NEW s, NEW n \in 1 .. 14, Order[n] = s,
             \A i \in 1 .. 14 : Order[i] = s => i = n
      PROVE  IndexOf(s) = n
  BY <1>1, OrderIs DEF IndexOf
<1>2. \A i \in 1 .. 14 :
        i = 1 \/ i = 2 \/ i = 3 \/ i = 4 \/ i = 5 \/ i = 6 \/ i = 7 \/ i = 8 \/ i = 9 \/ i = 10
        \/ i = 11 \/ i = 12 \/ i = 13 \/ i = 14
  OBVIOUS
<1>3. \A i, j \in 1 .. 14 : Order[i] = Order[j] => i = j
  BY <1>2, OrderIs
<1>. QED
  BY <1>1, <1>3, OrderIs

\* A set of numbers that holds 14 has a first one above any smaller number.
LEMMA FirstOne ==
  ASSUME NEW at \in 1 .. 13, NEW S, 14 \in S
  PROVE  \E i \in (at + 1) .. 14 : i \in S /\ \A j \in (at + 1) .. (i - 1) : j \notin S
OBVIOUS

\* The number of the stage of a place.
At(place) == IndexOf(Stage[place])

\* The places that are past the stage with a number.
Past(p, n) == p \in DOMAIN Stage /\ At(p) > n

\* The places by their stages.
LEMMA PlacesAre ==
  /\ DOMAIN Stage = {"dedupe", "user", "group", "blacklist", "automations", "rate", "rateExpire",
                     "media", "moderation", "count", "escalate", "raid", "flood", "floodExpire",
                     "duplicate", "duplicateExpire", "spam", "aiModeration", "conversation",
                     "memory", "ai", "respond"}
  /\ At("dedupe") = 1 /\ At("user") = 2 /\ At("group") = 2 /\ At("blacklist") = 2
  /\ At("automations") = 3 /\ At("rate") = 4 /\ At("rateExpire") = 4 /\ At("media") = 5
  /\ At("moderation") = 6 /\ At("count") = 6 /\ At("escalate") = 6
  /\ At("raid") = 7 /\ At("flood") = 7 /\ At("floodExpire") = 7 /\ At("duplicate") = 7
  /\ At("duplicateExpire") = 7 /\ At("spam") = 7 /\ At("aiModeration") = 8
  /\ At("conversation") = 10 /\ At("memory") = 11 /\ At("ai") = 12 /\ At("respond") = 13
BY IndexIs DEF At, Stage

\* Every place has a stage that can be followed by another.
LEMMA AtType == ASSUME NEW p \in DOMAIN Stage PROVE At(p) \in 1 .. 13
BY PlacesAre

\* The stage done has no condition.
LEMMA DoneApplies == ASSUME NEW d, NEW c PROVE Applies(d, "done", c)
BY DEF Applies

\* A stage is followed by the first one after it that applies; relevance stops.
LEMMA OnwardFinds ==
  ASSUME NEW d, NEW c, NEW p \in DOMAIN Stage
  PROVE  \E n \in (At(p) + 1) .. 14 :
           /\ Applies(d, Order[n], c)
           /\ \A j \in (At(p) + 1) .. (n - 1) : ~ Applies(d, Order[j], c)
           /\ Onward(d, p, c) = IF Order[n] = "relevance" THEN "done" ELSE Order[n]
<1>. DEFINE S == {i \in 1 .. 14 : Applies(d, Order[i], c)}
            Found(i) == /\ Applies(d, Order[i], c)
                        /\ \A j \in (At(p) + 1) .. (i - 1) : ~ Applies(d, Order[j], c)
            n == CHOOSE i \in (At(p) + 1) .. 14 : Found(i)
<1>1. At(p) \in 1 .. 13
  BY AtType
<1>2. 14 \in S
  BY DoneApplies, OrderIs
<1>3. PICK i \in (At(p) + 1) .. 14 : i \in S /\ \A j \in (At(p) + 1) .. (i - 1) : j \notin S
  <2>. HIDE DEF S
  <2>. QED
    BY <1>1, <1>2, FirstOne
<1>4. Found(i)
  <2>1. \A j \in (At(p) + 1) .. (i - 1) : j \in 1 .. 14
    BY <1>1, <1>3
  <2>. QED
    BY <1>3, <2>1
<1>5. n \in (At(p) + 1) .. 14 /\ Found(n)
  <2>. HIDE DEF Found
  <2>. QED
    BY <1>3, <1>4
<1>6. Onward(d, p, c) = IF Order[n] = "relevance" THEN "done" ELSE Order[n]
  BY OrderIs DEF Onward, At, IndexOf
<1>. QED
  BY <1>5, <1>6

\* Where a message can come to: a later stage that applies, or the end.
Entrances == {"user", "automations", "rate", "media", "moderation", "raid", "aiModeration",
              "conversation", "memory", "ai", "respond"}

\* What the way from a place to the next stage says about the stages between.
LEMMA OnwardLeads ==
  ASSUME NEW d, NEW c, NEW p \in DOMAIN Stage
  PROVE  /\ Onward(d, p, c) \in Entrances \union {"done"}
         /\ Onward(d, p, c) # "done" =>
              /\ At(Onward(d, p, c)) > At(p) /\ Applies(d, Onward(d, p, c), c)
              /\ At(p) < 6 /\ At(Onward(d, p, c)) > 6 => ~ Applies(d, "moderation", c)
              /\ At(p) < 7 /\ At(Onward(d, p, c)) > 7 => ~ Applies(d, "raid", c)
              /\ At(p) < 9 /\ At(Onward(d, p, c)) > 9 => ~ Applies(d, "relevance", c)
         /\ Onward(d, p, c) = "done" =>
              /\ At(p) < 9 => Applies(d, "relevance", c) \/ ~ Applies(d, "conversation", c)
              /\ At(p) < 12 => Applies(d, "relevance", c) \/ ~ Applies(d, "ai", c)
              /\ At(p) < 13 => Applies(d, "relevance", c) \/ ~ Applies(d, "respond", c)
<1>1. PICK n \in (At(p) + 1) .. 14 :
        /\ Applies(d, Order[n], c)
        /\ \A j \in (At(p) + 1) .. (n - 1) : ~ Applies(d, Order[j], c)
        /\ Onward(d, p, c) = IF Order[n] = "relevance" THEN "done" ELSE Order[n]
  BY OnwardFinds
<1>2. At(p) \in 1 .. 13
  BY AtType
<1>. DEFINE a == At(p)
            q == Onward(d, p, c)
<1>3. /\ n > 6 /\ a < 6 => ~ Applies(d, "moderation", c)
      /\ n > 7 /\ a < 7 => ~ Applies(d, "raid", c)
      /\ n > 9 /\ a < 9 => ~ Applies(d, "relevance", c)
      /\ n > 10 /\ a < 10 => ~ Applies(d, "conversation", c)
      /\ n > 12 /\ a < 12 => ~ Applies(d, "ai", c)
      /\ n > 13 /\ a < 13 => ~ Applies(d, "respond", c)
  <2>1. \A j \in 1 .. 13 : a < j /\ j < n => ~ Applies(d, Order[j], c)
    BY <1>1, <1>2
  <2>. QED
    BY <1>2, <2>1, OrderIs
<1>4. CASE n = 9
  BY <1>1, <1>2, <1>4, OrderIs
<1>5. CASE n = 14
  BY <1>1, <1>2, <1>3, <1>5, OrderIs
<1>6. CASE n # 9 /\ n # 14
  <2>1. n \in {2, 3, 4, 5, 6, 7, 8, 10, 11, 12, 13}
    BY <1>1, <1>2, <1>6
  <2>2. q = Order[n] /\ q \in Entrances /\ At(q) = n
    <3>1. Order[n] # "relevance" /\ Order[n] \in Entrances
      BY <2>1, OrderIs DEF Entrances
    <3>2. At(Order[n]) = n
      BY <2>1, OrderIs, PlacesAre
    <3>. QED
      BY <1>1, <3>1, <3>2
  <2>3. q # "done"
    BY <2>2 DEF Entrances
  <2>. HIDE DEF q
  <2>. QED
    BY <1>1, <1>2, <1>3, <2>2, <2>3 DEF q
<1>. QED
  BY <1>4, <1>5, <1>6

\* Every place of the list of entrances is a place, and no end.
LEMMA EntrancesArePlaces ==
  /\ Entrances \subseteq DOMAIN Stage /\ DOMAIN Stage \subseteq Pcs /\ Ends \subseteq Pcs
  /\ "new" \in Pcs /\ "new" \notin DOMAIN Stage \union Ends
  /\ \A p \in DOMAIN Stage : p \notin Ends
BY PlacesAre DEF Entrances, Pcs, Ends

-----------------------------------------------------------------------------
(* The state of the deliveries.                                             *)

Ctx(user, group, settings, shadow, text, result) ==
  [user |-> user, group |-> group, settings |-> settings, shadow |-> shadow,
   text |-> text, result |-> result]

IsCtx(c) == c = Ctx(c.user, c.group, c.settings, c.shadow, c.text, c.result)

\* What the fields of a context are read back as.
LEMMA CtxFields ==
  \A a, b, c, d, e, f :
    /\ Ctx(a, b, c, d, e, f).user = a /\ Ctx(a, b, c, d, e, f).group = b
    /\ Ctx(a, b, c, d, e, f).settings = c /\ Ctx(a, b, c, d, e, f).shadow = d
    /\ Ctx(a, b, c, d, e, f).text = e /\ Ctx(a, b, c, d, e, f).result = f
BY DEF Ctx

\* A context with its user changed.
LEMMA UserGoes ==
  ASSUME NEW c, IsCtx(c), NEW v
  PROVE  [c EXCEPT !.user = v] = Ctx(v, c.group, c.settings, c.shadow, c.text, c.result)
BY DEF IsCtx, Ctx

\* A context with its group changed.
LEMMA GroupGoes ==
  ASSUME NEW c, IsCtx(c), NEW v
  PROVE  [c EXCEPT !.group = v] = Ctx(c.user, v, c.settings, c.shadow, c.text, c.result)
BY DEF IsCtx, Ctx

\* A context with its settings changed.
LEMMA SettingsGoes ==
  ASSUME NEW c, IsCtx(c), NEW v
  PROVE  [c EXCEPT !.settings = v] = Ctx(c.user, c.group, v, c.shadow, c.text, c.result)
BY DEF IsCtx, Ctx

\* A context with its shadow changed.
LEMMA ShadowGoes ==
  ASSUME NEW c, IsCtx(c), NEW v
  PROVE  [c EXCEPT !.shadow = v] = Ctx(c.user, c.group, c.settings, v, c.text, c.result)
BY DEF IsCtx, Ctx

\* A context with its text changed.
LEMMA TextGoes ==
  ASSUME NEW c, IsCtx(c), NEW v
  PROVE  [c EXCEPT !.text = v] = Ctx(c.user, c.group, c.settings, c.shadow, v, c.result)
BY DEF IsCtx, Ctx

\* A context with its result changed.
LEMMA ResultGoes ==
  ASSUME NEW c, IsCtx(c), NEW v
  PROVE  [c EXCEPT !.result = v] = Ctx(c.user, c.group, c.settings, c.shadow, c.text, v)
BY DEF IsCtx, Ctx

\* A context made of fields is a context.
LEMMA CtxIsCtx == ASSUME NEW a, NEW b, NEW c, NEW d, NEW e, NEW f PROVE IsCtx(Ctx(a, b, c, d, e, f))
BY DEF IsCtx, Ctx

\* The context of an update that has just come, field by field.
LEMMA BlankIs ==
  /\ Blank = Ctx(FALSE, FALSE, None, FALSE, FALSE, "none") /\ IsCtx(Blank)
  /\ \A v : [Blank EXCEPT !.text = v] = Ctx(FALSE, FALSE, None, FALSE, v, "none")
<1>1. Blank = Ctx(FALSE, FALSE, None, FALSE, FALSE, "none")
  BY DEF Blank, Ctx
<1>2. IsCtx(Blank)
  BY <1>1, CtxIsCtx
<1>3. ASSUME NEW v PROVE [Blank EXCEPT !.text = v] = Ctx(FALSE, FALSE, None, FALSE, v, "none")
  <2>1. [Blank EXCEPT !.text = v]
          = Ctx(Blank.user, Blank.group, Blank.settings, Blank.shadow, v, Blank.result)
    BY <1>2, TextGoes
  <2>2. /\ Blank.user = FALSE /\ Blank.group = FALSE /\ Blank.settings = None
        /\ Blank.shadow = FALSE /\ Blank.result = "none"
    BY DEF Blank
  <2>. QED
    BY <2>1, <2>2
<1>. QED
  BY <1>1, <1>2, <1>3

Shape ==
  /\ now \in Nat
  /\ message \in [UpdateIds -> Messages]
  /\ update \in [Deliveries -> UpdateIds \union {None}]
  /\ pc \in [Deliveries -> Pcs]
  /\ ctx = [d \in Deliveries |-> ctx[d]] /\ \A d \in Deliveries : IsCtx(ctx[d])
  /\ spoken = [d \in Deliveries |-> spoken[d]] /\ asked = [d \in Deliveries |-> asked[d]]
  /\ conversation = [d \in Deliveries |-> conversation[d]]
  /\ accepted = [d \in Deliveries |-> accepted[d]] /\ rank = [d \in Deliveries |-> rank[d]]
  /\ sanction = [d \in Deliveries |-> sanction[d]]
  /\ failed = [d \in Deliveries |-> failed[d]]
  /\ \A d \in Deliveries : pc[d] = "new" <=> update[d] = None

\* A delivery goes on to a place, with a context.
Moved(d, place, c) == Goto(d, place) /\ Put(d, c)

\* Places of one stage that follow each other.
Within == {<<"rate", "rateExpire">>, <<"moderation", "count">>, <<"count", "escalate">>,
           <<"raid", "flood">>, <<"flood", "floodExpire">>, <<"flood", "duplicate">>,
           <<"flood", "spam">>, <<"floodExpire", "duplicate">>, <<"floodExpire", "spam">>,
           <<"duplicate", "duplicateExpire">>, <<"duplicate", "spam">>}

\* The places that leave the context alone and go on to the next stage.
Passing == {"automations", "rate", "rateExpire", "flood", "floodExpire", "duplicate",
            "duplicateExpire", "aiModeration", "conversation"}

\* How a delivery can go on from where it is, once it has arrived.
Stops(d, q, c) == q \in {"done", "failed"} /\ c = ctx[d] /\ pc[d] \in DOMAIN Stage

Finds(d, q, c) ==
  \/ pc[d] = "dedupe" /\ q = "user" /\ c = ctx[d]
  \/ /\ pc[d] = "user" /\ q = (IF InGroup(d) THEN "group" ELSE "blacklist")
     /\ c = Ctx(TRUE, ctx[d].group, ctx[d].settings,
                panel.status[Msg(d).user] = "shadow_ignored", ctx[d].text, ctx[d].result)
  \/ /\ pc[d] = "group"
     /\ q = IF panel.setting[Msg(d).chat].status = "blacklisted" THEN "done" ELSE "blacklist"
     /\ c = Ctx(ctx[d].user, TRUE, panel.setting[Msg(d).chat], ctx[d].shadow,
                ctx[d].text, ctx[d].result)
  \/ /\ pc[d] = "blacklist" /\ q = Onward(d, "blacklist", c)
     /\ panel.listing[Msg(d).user] # "block"
     /\ c = Ctx(ctx[d].user, ctx[d].group, ctx[d].settings,
                ctx[d].shadow \/ panel.listing[Msg(d).user] = "shadow", ctx[d].text, ctx[d].result)

GoesOn(d, q, c) ==
  \/ pc[d] \in Passing /\ q = Onward(d, pc[d], c) /\ c = ctx[d]
  \/ <<pc[d], q>> \in Within /\ c = ctx[d]
  \/ /\ pc[d] = "media" /\ q = Onward(d, "media", c)
     /\ \E heard \in BOOLEAN : c = Ctx(ctx[d].user, ctx[d].group, ctx[d].settings, ctx[d].shadow,
                                       heard, ctx[d].result)
  \/ /\ pc[d] = "ai" /\ q = Onward(d, "ai", c)
     /\ \E r \in {"streamed", "content"} :
          c = Ctx(ctx[d].user, ctx[d].group, ctx[d].settings, ctx[d].shadow, ctx[d].text, r)

Skips(d, q, c) ==
  /\ pc[d] \in DOMAIN Stage /\ q = Onward(d, pc[d], c)
  /\ \/ c = ctx[d]
     \/ pc[d] = "group" /\ c = Ctx(ctx[d].user, TRUE, ctx[d].settings, ctx[d].shadow,
                                   ctx[d].text, ctx[d].result)

Ways(d, q, c) == Stops(d, q, c) \/ Finds(d, q, c) \/ GoesOn(d, q, c)

\* A function with one value changed.
LEMMA Becomes ==
  ASSUME NEW S, NEW f, f = [s \in S |-> f[s]], NEW x \in S, NEW v, NEW g, g = [f EXCEPT ![x] = v]
  PROVE  g = [s \in S |-> g[s]] /\ g[x] = v /\ \A s \in S : s # x => g[s] = f[s]
OBVIOUS

\* The context is left alone.
LEMMA Remains ==
  ASSUME Shape, NEW d \in Deliveries, UNCHANGED ctx PROVE Put(d, ctx[d])
BY DEF Shape, Put

\* Where a handler other than a failing one leads.
LEMMA HandlersLead ==
  ASSUME Shape, NEW d \in Deliveries, Handle(d), ~ Fail(d)
  PROVE  UNCHANGED failed /\ \E q, c : Moved(d, q, c) /\ Ways(d, q, c)
<1>. USE PlacesAre
<1>0. IsCtx(ctx[d])
  BY DEF Shape
<1>1. CASE Dedupe(d)
  <2>1. UNCHANGED failed /\ Put(d, ctx[d]) /\ pc[d] = "dedupe" /\ (Goto(d, "user") \/ Goto(d, "done"))
    BY <1>1, Remains DEF Dedupe
  <2>. QED
    BY <2>1 DEF Moved, Ways, Finds, Stops
<1>2. CASE ResolveUser(d)
  <2>. DEFINE c == [ctx[d] EXCEPT !.user = TRUE,
                                  !.shadow = panel.status[Msg(d).user] = "shadow_ignored"]
  <2>1. c = Ctx(TRUE, ctx[d].group, ctx[d].settings,
                panel.status[Msg(d).user] = "shadow_ignored", ctx[d].text, ctx[d].result)
    <3>1. PICK yes, w : yes = TRUE /\ w = (panel.status[Msg(d).user] = "shadow_ignored")
      OBVIOUS
    <3>2. PICK b : b = [ctx[d] EXCEPT !.user = yes]
      OBVIOUS
    <3>3. /\ b = Ctx(yes, ctx[d].group, ctx[d].settings, ctx[d].shadow, ctx[d].text, ctx[d].result)
          /\ IsCtx(b)
      BY <1>0, <3>2, UserGoes, CtxIsCtx
    <3>4. [b EXCEPT !.shadow = w]
            = Ctx(yes, ctx[d].group, ctx[d].settings, w, ctx[d].text, ctx[d].result)
      BY <3>3, ShadowGoes, CtxFields
    <3>5. c = [b EXCEPT !.shadow = w]
      BY <3>1, <3>2
    <3>. QED
      BY <3>1, <3>4, <3>5
  <2>2. UNCHANGED failed /\ Put(d, c) /\ pc[d] = "user" /\ Goto(d, IF InGroup(d) THEN "group" ELSE "blacklist")
    BY <1>2 DEF ResolveUser, quiet, history
  <2>. HIDE DEF c
  <2>. QED
    BY <2>1, <2>2 DEF Moved, Ways, Finds
<1>3. CASE ResolveGroup(d)
  <2>. DEFINE s == panel.setting[Msg(d).chat]
              c == [ctx[d] EXCEPT !.group = TRUE, !.settings = s]
  <2>1. c = Ctx(ctx[d].user, TRUE, s, ctx[d].shadow, ctx[d].text, ctx[d].result)
    <3>1. PICK yes : yes = TRUE
      OBVIOUS
    <3>2. PICK b : b = [ctx[d] EXCEPT !.group = yes]
      OBVIOUS
    <3>3. /\ b = Ctx(ctx[d].user, yes, ctx[d].settings, ctx[d].shadow, ctx[d].text, ctx[d].result)
          /\ IsCtx(b)
      BY <1>0, <3>2, GroupGoes, CtxIsCtx
    <3>4. [b EXCEPT !.settings = s]
            = Ctx(ctx[d].user, yes, s, ctx[d].shadow, ctx[d].text, ctx[d].result)
      BY <3>3, SettingsGoes, CtxFields
    <3>5. c = [b EXCEPT !.settings = s]
      BY <3>1, <3>2
    <3>. QED
      BY <3>1, <3>4, <3>5
  <2>2. /\ UNCHANGED failed /\ Put(d, c) /\ pc[d] = "group"
        /\ Goto(d, IF s.status = "blacklisted" THEN "done" ELSE "blacklist")
    BY <1>3 DEF ResolveGroup, quiet, history
  <2>. HIDE DEF c
  <2>. QED
    BY <2>1, <2>2 DEF Moved, Ways, Finds
<1>4. CASE CheckBlacklist(d)
  <2>. DEFINE l == panel.listing[Msg(d).user]
              c == [ctx[d] EXCEPT !.shadow = @ \/ l = "shadow"]
  <2>1. c = Ctx(ctx[d].user, ctx[d].group, ctx[d].settings, ctx[d].shadow \/ l = "shadow",
                ctx[d].text, ctx[d].result)
    BY <1>0, ShadowGoes
  <2>2. /\ UNCHANGED failed /\ pc[d] = "blacklist"
        /\ \/ Goto(d, "done") /\ UNCHANGED ctx
           \/ l # "block" /\ Put(d, c) /\ Goto(d, Onward(d, "blacklist", c))
    BY <1>4 DEF CheckBlacklist, Proceed, quiet, history
  <2>. HIDE DEF c
  <2>. QED
    BY <2>1, <2>2, Remains DEF Moved, Ways, Finds, Stops
<1>5. CASE Automate(d)
  BY <1>5 DEF Automate, Proceed, Moved, Ways, GoesOn, Passing, history
<1>6. CASE RateLimit(d)
  <2>1. /\ UNCHANGED failed /\ Put(d, ctx[d]) /\ pc[d] = "rate"
        /\ Goto(d, "rateExpire") \/ Goto(d, "done") \/ Goto(d, Onward(d, "rate", ctx[d]))
    BY <1>6, Remains DEF RateLimit, Counts, StopSaying
  <2>. QED
    BY <2>1 DEF Moved, Ways, Stops, GoesOn, Passing, Within
<1>7. CASE RateExpire(d)
  <2>1. /\ UNCHANGED failed /\ Put(d, ctx[d]) /\ pc[d] = "rateExpire"
        /\ Goto(d, Onward(d, "rate", ctx[d]))
    BY <1>7, Remains DEF RateExpire, Expires, history
  <2>2. Onward(d, "rate", ctx[d]) = Onward(d, "rateExpire", ctx[d])
    BY DEF Onward, Stage
  <2>. QED
    BY <2>1, <2>2 DEF Moved, Ways, GoesOn, Passing
<1>8. CASE Media(d)
  <2>1. ASSUME NEW heard \in BOOLEAN
        PROVE  [ctx[d] EXCEPT !.text = heard]
                 = Ctx(ctx[d].user, ctx[d].group, ctx[d].settings, ctx[d].shadow, heard, ctx[d].result)
    BY <1>0, TextGoes
  <2>2. UNCHANGED failed /\ pc[d] = "media"
    BY <1>8 DEF Media, history
  <2>3. ASSUME NEW heard \in BOOLEAN, Proceed(d, "media", [ctx[d] EXCEPT !.text = heard])
        PROVE  \E q, c : Moved(d, q, c) /\ Ways(d, q, c)
    BY <2>1, <2>2, <2>3 DEF Proceed, Moved, Ways, GoesOn
  <2>4. ASSUME Goto(d, "done"), UNCHANGED ctx PROVE \E q, c : Moved(d, q, c) /\ Ways(d, q, c)
    BY <2>2, <2>4, Remains DEF Moved, Ways, Stops
  <2>. QED
    BY <1>8, <2>2, <2>3, <2>4 DEF Media, StopSaying
<1>9. CASE Warn(d)
  <2>1. UNCHANGED failed /\ Put(d, ctx[d]) /\ pc[d] = "moderation" /\ Goto(d, "count")
    BY <1>9, Remains DEF Warn
  <2>. QED
    BY <2>1 DEF Moved, Ways, GoesOn, Within
<1>10. CASE Judge(d)
  <2>1. /\ UNCHANGED failed /\ Put(d, ctx[d]) /\ pc[d] = "count"
        /\ Goto(d, "done") \/ Goto(d, "escalate")
    BY <1>10, Remains DEF Judge
  <2>. QED
    BY <2>1 DEF Moved, Ways, GoesOn, Within, Stops
<1>11. CASE RecordEscalation(d)
  <2>1. UNCHANGED failed /\ Put(d, ctx[d]) /\ pc[d] = "escalate" /\ Goto(d, "done")
    BY <1>11, Remains DEF RecordEscalation, quiet, history
  <2>. QED
    BY <2>1 DEF Moved, Ways, Stops
<1>12. CASE CheckRaid(d)
  <2>1. /\ UNCHANGED failed /\ Put(d, ctx[d]) /\ pc[d] = "raid"
        /\ Goto(d, "done") \/ Goto(d, "flood")
    BY <1>12, Remains DEF CheckRaid, quiet, history
  <2>. QED
    BY <2>1 DEF Moved, Ways, GoesOn, Within, Stops
<1>13. AfterFlood(d) \in {"duplicate", "spam", Onward(d, "flood", ctx[d])}
  BY DEF AfterFlood
<1>14. CASE CheckFlood(d)
  <2>1. /\ UNCHANGED failed /\ Put(d, ctx[d]) /\ pc[d] = "flood"
        /\ Goto(d, "spam") \/ Goto(d, "floodExpire") \/ Goto(d, AfterFlood(d))
    BY <1>14, Remains DEF CheckFlood, CountsAgainstSpam, Counts
  <2>. QED
    BY <1>13, <2>1 DEF Moved, Ways, GoesOn, Within, Passing
<1>15. CASE FloodExpire(d)
  <2>1. UNCHANGED failed /\ Put(d, ctx[d]) /\ pc[d] = "floodExpire" /\ Goto(d, AfterFlood(d))
    BY <1>15, Remains DEF FloodExpire, Expires, history
  <2>2. Onward(d, "flood", ctx[d]) = Onward(d, "floodExpire", ctx[d])
    BY DEF Onward, Stage
  <2>. QED
    BY <1>13, <2>1, <2>2 DEF Moved, Ways, GoesOn, Within, Passing
<1>16. CASE CheckDuplicate(d)
  <2>1. /\ UNCHANGED failed /\ Put(d, ctx[d]) /\ pc[d] = "duplicate"
        /\ \/ Goto(d, "spam") \/ Goto(d, "duplicateExpire")
           \/ Goto(d, Onward(d, "duplicate", ctx[d]))
    BY <1>16, Remains DEF CheckDuplicate, CountsAgainstSpam, Counts
  <2>. QED
    BY <2>1 DEF Moved, Ways, GoesOn, Within, Passing
<1>17. CASE DuplicateExpire(d)
  <2>1. /\ UNCHANGED failed /\ Put(d, ctx[d]) /\ pc[d] = "duplicateExpire"
        /\ Goto(d, Onward(d, "duplicate", ctx[d]))
    BY <1>17, Remains DEF DuplicateExpire, Expires, history
  <2>2. Onward(d, "duplicate", ctx[d]) = Onward(d, "duplicateExpire", ctx[d])
    BY DEF Onward, Stage
  <2>. QED
    BY <2>1, <2>2 DEF Moved, Ways, GoesOn, Passing
<1>18. CASE PunishSpam(d)
  <2>1. UNCHANGED failed /\ Put(d, ctx[d]) /\ pc[d] = "spam" /\ Goto(d, "done")
    BY <1>18, Remains DEF PunishSpam
  <2>. QED
    BY <2>1 DEF Moved, Ways, Stops
<1>19. CASE AiModerate(d)
  <2>1. /\ UNCHANGED failed /\ Put(d, ctx[d]) /\ pc[d] = "aiModeration"
        /\ Goto(d, "done") \/ Goto(d, Onward(d, "aiModeration", ctx[d]))
    BY <1>19, Remains DEF AiModerate, Proceed, StopSaying, history
  <2>. QED
    BY <2>1 DEF Moved, Ways, GoesOn, Passing, Stops
<1>20. CASE ResolveConversation(d)
  BY <1>20 DEF ResolveConversation, Proceed, Moved, Ways, GoesOn, Passing, history
<1>21. CASE MemoryCommand(d)
  <2>1. UNCHANGED failed /\ Put(d, ctx[d]) /\ pc[d] = "memory" /\ Goto(d, "done")
    BY <1>21, Remains DEF MemoryCommand, StopSaying, history
  <2>. QED
    BY <2>1 DEF Moved, Ways, Stops
<1>22. CASE Ask(d)
  <2>1. UNCHANGED failed /\ pc[d] = "ai"
    BY <1>22 DEF Ask, history
  <2>2. ASSUME NEW r \in {"streamed", "content"}, Proceed(d, "ai", [ctx[d] EXCEPT !.result = r])
        PROVE  \E q, c : Moved(d, q, c) /\ Ways(d, q, c)
    <3>1. [ctx[d] EXCEPT !.result = r]
            = Ctx(ctx[d].user, ctx[d].group, ctx[d].settings, ctx[d].shadow, ctx[d].text, r)
      BY <1>0, ResultGoes
    <3>. QED
      BY <2>1, <2>2, <3>1 DEF Proceed, Moved, Ways, GoesOn
  <2>3. ASSUME Goto(d, "done"), UNCHANGED ctx PROVE \E q, c : Moved(d, q, c) /\ Ways(d, q, c)
    BY <2>1, <2>3, Remains DEF Moved, Ways, Stops
  <2>. QED
    BY <1>22, <2>1, <2>2, <2>3 DEF Ask, StopSaying
<1>23. CASE Respond(d)
  <2>1. UNCHANGED failed /\ Put(d, ctx[d]) /\ pc[d] = "respond" /\ Goto(d, "done")
    BY <1>23, Remains DEF Respond, StopSaying, history
  <2>. QED
    BY <2>1 DEF Moved, Ways, Stops
<1>. QED
  BY <1>1, <1>2, <1>3, <1>4, <1>5, <1>6, <1>7, <1>8, <1>9, <1>10, <1>11, <1>12, <1>14, <1>15,
     <1>16, <1>17, <1>18, <1>19, <1>20, <1>21, <1>22, <1>23 DEF Handle

\* Where a failing stage leads.
LEMMA FailuresLead ==
  ASSUME Shape, NEW d \in Deliveries, Fail(d)
  PROVE  /\ failed' = [failed EXCEPT ![d] = failed[d] \union {Stage[pc[d]]}]
         /\ \E q, c : Moved(d, q, c) /\ (Stops(d, q, c) \/ Skips(d, q, c))
<1>0. IsCtx(ctx[d])
  BY DEF Shape
<1>1. pc[d] \in DOMAIN Stage
  BY DEF Fail, Shape, Pcs
<1>2. failed' = [failed EXCEPT ![d] = failed[d] \union {Stage[pc[d]]}]
  BY DEF Fail
<1>3. ASSUME Goto(d, "failed"), UNCHANGED ctx PROVE \E q, c : Moved(d, q, c) /\ Stops(d, q, c)
  BY <1>1, <1>3, Remains DEF Moved, Stops
<1>4. ASSUME Proceed(d, pc[d], ctx[d]) PROVE \E q, c : Moved(d, q, c) /\ Skips(d, q, c)
  BY <1>1, <1>4 DEF Proceed, Moved, Skips
<1>5. ASSUME pc[d] = "group", Proceed(d, pc[d], [ctx[d] EXCEPT !.group = TRUE])
      PROVE  \E q, c : Moved(d, q, c) /\ Skips(d, q, c)
  <2>1. PICK yes : yes = TRUE
    OBVIOUS
  <2>2. [ctx[d] EXCEPT !.group = yes]
          = Ctx(ctx[d].user, yes, ctx[d].settings, ctx[d].shadow, ctx[d].text, ctx[d].result)
    BY <1>0, GroupGoes
  <2>. QED
    BY <1>1, <1>5, <2>1, <2>2 DEF Proceed, Moved, Skips
<1>. QED
  BY <1>2, <1>3, <1>4, <1>5 DEF Fail

\* A step of a delivery changes a function of the deliveries for itself only.
Touched(d, f, g) == g = [e \in Deliveries |-> g[e]] /\ \A e \in Deliveries : e # d => g[e] = f[e]

\* What is said of a delivery belongs to it alone.
LEMMA HandlersTouch ==
  ASSUME Shape, NEW d \in Deliveries, Handle(d)
  PROVE  /\ Touched(d, spoken, spoken') /\ Touched(d, asked, asked')
         /\ Touched(d, conversation, conversation') /\ Touched(d, accepted, accepted')
         /\ Touched(d, rank, rank') /\ Touched(d, sanction, sanction')
         /\ Touched(d, failed, failed')
         /\ UNCHANGED <<now, message, update, panel>>
<1>. USE DEF Touched, Shape, still, quiet, redis, output, history
<1>1. CASE Dedupe(d)
  BY <1>1 DEF Dedupe, Goto
<1>2. CASE ResolveUser(d)
  BY <1>2 DEF ResolveUser
<1>3. CASE ResolveGroup(d)
  BY <1>3 DEF ResolveGroup
<1>4. CASE CheckBlacklist(d)
  BY <1>4 DEF CheckBlacklist
<1>5. CASE Automate(d)
  BY <1>5 DEF Automate, Say
<1>6. CASE RateLimit(d)
  BY <1>6 DEF RateLimit, Counts, StopSaying, Say
<1>7. CASE RateExpire(d)
  BY <1>7 DEF RateExpire, Expires
<1>8. CASE Media(d)
  BY <1>8 DEF Media, StopSaying, Say
<1>9. CASE Warn(d)
  BY <1>9 DEF Warn, Ranked
<1>10. CASE Judge(d)
  BY <1>10 DEF Judge, Say
<1>11. CASE RecordEscalation(d)
  BY <1>11 DEF RecordEscalation
<1>12. CASE CheckRaid(d)
  BY <1>12 DEF CheckRaid
<1>13. CASE CheckFlood(d)
  BY <1>13 DEF CheckFlood, CountsAgainstSpam
<1>14. CASE FloodExpire(d)
  BY <1>14 DEF FloodExpire, Expires
<1>15. CASE CheckDuplicate(d)
  BY <1>15 DEF CheckDuplicate, CountsAgainstSpam
<1>16. CASE DuplicateExpire(d)
  BY <1>16 DEF DuplicateExpire, Expires
<1>17. CASE PunishSpam(d)
  BY <1>17 DEF PunishSpam, Ranked
<1>18. CASE AiModerate(d)
  BY <1>18 DEF AiModerate, StopSaying, Say
<1>19. CASE ResolveConversation(d)
  BY <1>19 DEF ResolveConversation
<1>20. CASE MemoryCommand(d)
  BY <1>20 DEF MemoryCommand, StopSaying, Say
<1>21. CASE Ask(d)
  BY <1>21 DEF Ask, StopSaying, Say
<1>22. CASE Respond(d)
  BY <1>22 DEF Respond, StopSaying, Say
<1>23. CASE Fail(d)
  BY <1>23 DEF Fail
<1>. QED
  BY <1>1, <1>2, <1>3, <1>4, <1>5, <1>6, <1>7, <1>8, <1>9, <1>10, <1>11, <1>12, <1>13,
     <1>14, <1>15, <1>16, <1>17, <1>18, <1>19, <1>20, <1>21, <1>22, <1>23 DEF Handle

\* An update arrives.
LEMMA ArrivalsLead ==
  ASSUME Shape, NEW d \in Deliveries, Arrive(d)
  PROVE  /\ pc[d] = "new"
         /\ \E u \in UpdateIds : \E text \in BOOLEAN : \E q \in {"dedupe", "done"} :
              /\ update' = [update EXCEPT ![d] = u] /\ (text <=> message[u].kind # "voice")
              /\ Moved(d, q, Ctx(FALSE, FALSE, None, FALSE, text, "none"))
              /\ q = "dedupe" => UNCHANGED spoken
         /\ Touched(d, spoken, spoken')
         /\ UNCHANGED <<now, message, panel, asked, conversation, redis, warnings, history>>
<1>1. PICK u \in UpdateIds :
        /\ update' = [update EXCEPT ![d] = u]
        /\ Put(d, [Blank EXCEPT !.text = message[u].kind # "voice"])
        /\ \/ Goto(d, "dedupe") /\ UNCHANGED spoken
           \/ message[u].user \notin Owners /\ StopSaying(d, "maintenance")
  BY DEF Arrive
<1>2. PICK text \in BOOLEAN : text = (message[u].kind # "voice")
  OBVIOUS
<1>3. [Blank EXCEPT !.text = text] = Ctx(FALSE, FALSE, None, FALSE, text, "none")
  BY BlankIs
<1>4. Put(d, Ctx(FALSE, FALSE, None, FALSE, text, "none"))
  BY <1>1, <1>2, <1>3
<1>5. Touched(d, spoken, spoken')
  BY <1>1 DEF StopSaying, Say, Touched, Shape
<1>. QED
  BY <1>1, <1>2, <1>4, <1>5 DEF Arrive, Moved, StopSaying, still

-----------------------------------------------------------------------------
(* The course of a delivery: what its place says about its message, its     *)
(* context and the stages that have failed.                                 *)

Resolving == {"new", "dedupe", "user", "group"}
AntiSpam == {"raid", "flood", "floodExpire", "duplicate", "duplicateExpire", "spam"}

\* What is known of the group and of the text so far.
Grounded(m, p, c) ==
  /\ p \in Resolving => ~ c.group /\ c.settings = None
  /\ p \in {"new", "dedupe", "user"} => ~ c.shadow
  /\ c.group => m.chat # Private
  /\ p = "group" => m.chat # Private
  /\ m.kind # "voice" /\ p # "new" => c.text
  /\ p = "media" => m.kind = "voice"

\* A stage is entered only if it applies, and its condition holds until the next.
Entered(m, p, c) ==
  /\ p \in {"moderation", "count", "escalate"} => Moderated(c) /\ m.kind = "profane"
  /\ p \in AntiSpam \union {"aiModeration"} => Moderated(c) /\ ~ c.shadow
  /\ p \in {"conversation", "ai"} => ~ c.shadow
  /\ Past(p, 9) => Relevant(m, Mode(c))

\* What the stages passed would have stopped, and those that failed.
Passed(m, p, c, f) ==
  /\ Past(p, 6) /\ m.kind = "profane" /\ "moderation" \notin f => ~ Moderated(c)
  /\ f \intersect {"rate", "raid"} # {} => p \notin Resolving

Course(m, p, c, f) == Grounded(m, p, c) /\ Entered(m, p, c) /\ Passed(m, p, c, f)

\* An end says nothing about the stages.
LEMMA CourseEnds ==
  ASSUME NEW m, NEW p, NEW c, NEW f, NEW q \in Ends, NEW g,
         c.group => m.chat # Private, m.kind # "voice" => c.text
  PROVE  Course(m, q, c, g)
BY PlacesAre DEF Course, Grounded, Entered, Passed, Past, Ends, Resolving, AntiSpam

\* The course over the stages between a place and the next one that applies.
LEMMA CourseOnward ==
  ASSUME NEW d, NEW p \in DOMAIN Stage, NEW k, NEW f, Course(Msg(d), p, k, f),
         NEW c, NEW g, f \subseteq g,
         c.group => InGroup(d), Msg(d).kind # "voice" => c.text,
         p = "dedupe" => c = k,
         At(p) >= 6 => (Moderated(c) <=> Moderated(k)) /\ Mode(c) = Mode(k),
         At(p) = 6 => "moderation" \in g,
         g \intersect {"rate", "raid"} # {} => p \notin Resolving
  PROVE  Course(Msg(d), Onward(d, p, c), c, g)
<1>. DEFINE m == Msg(d)
<1>1. PICK q : q = Onward(d, p, c)
  OBVIOUS
<1>2. q \in Entrances \union {"done"}
  BY <1>1, OnwardLeads
<1>3. CASE q = "done"
  <2>1. Course(m, q, c, g)
    BY <1>3, CourseEnds DEF InGroup, Ends
  <2>. QED
    BY <1>1, <2>1
<1>4. CASE q \in Entrances
  <2>1. q # "done" /\ q \in DOMAIN Stage
    BY <1>4, EntrancesArePlaces DEF Ends
  <2>2. /\ At(q) > At(p) /\ Applies(d, q, c)
        /\ At(p) < 6 /\ At(q) > 6 => ~ Applies(d, "moderation", c)
        /\ At(p) < 9 /\ At(q) > 9 => ~ Applies(d, "relevance", c)
    BY <1>1, <2>1, OnwardLeads
  <2>3. At(p) \in 1 .. 13 /\ At(q) \in 1 .. 13 /\ At(p) # 9
    BY <2>1, AtType, PlacesAre
  <2>4. q = "user" => p = "dedupe"
    BY <2>2, <2>3, PlacesAre
  <2>5. Grounded(m, q, c)
    <3>1. q \in Resolving => q = "user"
      BY <1>4 DEF Resolving, Entrances
    <3>2. q = "media" => m.kind = "voice"
      BY <2>2 DEF Applies
    <3>3. q # "new" /\ q # "dedupe" /\ q # "group"
      BY <1>4 DEF Entrances
    <3>4. p = "dedupe" => ~ k.group /\ k.settings = None /\ ~ k.shadow
      BY DEF Course, Grounded, Resolving
    <3>. QED
      BY <2>4, <3>1, <3>2, <3>3, <3>4 DEF Grounded, InGroup
  <2>6. Entered(m, q, c)
    <3>1. q = "moderation" => Moderated(c) /\ m.kind = "profane"
      BY <2>2 DEF Applies
    <3>2. q = "raid" => Moderated(c) /\ ~ c.shadow
      BY <2>2 DEF Applies
    <3>3. q = "aiModeration" => Moderated(c) /\ ~ c.shadow
      BY <2>2 DEF Applies
    <3>4. q \in {"conversation", "ai"} => ~ c.shadow
      BY <2>2 DEF Applies
    <3>5. At(q) > 9 => Relevant(m, Mode(c))
      <4>1. CASE At(p) < 9
        BY <2>2, <4>1 DEF Applies
      <4>2. CASE At(p) > 9
        <5>1. Relevant(m, Mode(k))
          BY <4>2 DEF Course, Entered, Past
        <5>2. Mode(c) = Mode(k)
          BY <2>3, <4>2
        <5>. QED
          BY <5>1, <5>2
      <4>. QED
        BY <2>3, <4>1, <4>2
    <3>. QED
      BY <1>4, <3>1, <3>2, <3>3, <3>4, <3>5 DEF Entered, AntiSpam, Entrances, Past
  <2>7. Passed(m, q, c, g)
    <3>1. ASSUME At(q) > 6, m.kind = "profane", "moderation" \notin g PROVE ~ Moderated(c)
      <4>1. CASE At(p) < 6
        BY <2>2, <3>1, <4>1 DEF Applies
      <4>2. CASE At(p) > 6
        <5>1. ~ Moderated(k)
          BY <3>1, <4>2 DEF Course, Passed, Past
        <5>2. Moderated(c) <=> Moderated(k)
          BY <2>3, <4>2
        <5>. QED
          BY <5>1, <5>2
      <4>. QED
        BY <2>3, <3>1, <4>1, <4>2
    <3>2. q \in Resolving => p \in Resolving
      BY <1>4, <2>4 DEF Resolving, Entrances
    <3>. QED
      BY <3>1, <3>2 DEF Passed, Past
  <2>. QED
    BY <1>1, <2>5, <2>6, <2>7 DEF Course
<1>. QED
  BY <1>2, <1>3, <1>4

\* The group and the text a delivery knows of are those of its message.
LEMMA KnownContext ==
  ASSUME NEW d, NEW f, pc[d] # "new", Course(Msg(d), pc[d], ctx[d], f)
  PROVE  (ctx[d].group => InGroup(d)) /\ (Msg(d).kind # "voice" => ctx[d].text)
BY DEF Course, Grounded, InGroup

\* The next stage of a place from which nothing has failed.
LEMMA CoursePasses ==
  ASSUME NEW d, NEW f, pc[d] \in DOMAIN Stage, Course(Msg(d), pc[d], ctx[d], f), At(pc[d]) # 6,
         f \intersect {"rate", "raid"} # {} => pc[d] \notin Resolving
  PROVE  Course(Msg(d), Onward(d, pc[d], ctx[d]), ctx[d], f)
<1>1. pc[d] # "new"
  BY PlacesAre
<1>. QED
  BY <1>1, KnownContext, CourseOnward

\* The stages that find out who and where keep the course.
LEMMA CourseFinds ==
  ASSUME NEW d, NEW f, Course(Msg(d), pc[d], ctx[d], f), NEW q, NEW c, Finds(d, q, c)
  PROVE  Course(Msg(d), q, c, f)
<1>. USE DEF Course, Grounded, Entered, Passed, Resolving, AntiSpam
<1>0. /\ ~ Past("user", 6) /\ ~ Past("group", 6) /\ ~ Past("blacklist", 6)
      /\ ~ Past("user", 9) /\ ~ Past("group", 9) /\ ~ Past("blacklist", 9)
      /\ ~ Past("done", 6) /\ ~ Past("done", 9)
  BY PlacesAre DEF Past
<1>1. CASE pc[d] = "dedupe" /\ q = "user" /\ c = ctx[d]
  BY <1>0, <1>1
<1>2. CASE pc[d] = "user" /\ ~ (pc[d] = "blacklist")
  <2>1. /\ q = (IF InGroup(d) THEN "group" ELSE "blacklist")
        /\ c.group = ctx[d].group /\ c.settings = ctx[d].settings /\ c.text = ctx[d].text
    <3>1. q = (IF InGroup(d) THEN "group" ELSE "blacklist")
      BY <1>2 DEF Finds
    <3>2. PICK yes, w : c = Ctx(yes, ctx[d].group, ctx[d].settings, w, ctx[d].text, ctx[d].result)
      BY <1>2 DEF Finds
    <3>. QED
      BY <3>1, <3>2, CtxFields
  <2>. QED
    BY <1>0, <1>2, <2>1 DEF InGroup
<1>3. CASE pc[d] = "group"
  <2>1. q \in {"done", "blacklist"} /\ c.text = ctx[d].text
    <3>1. q \in {"done", "blacklist"}
      BY <1>3 DEF Finds
    <3>2. PICK yes : c = Ctx(ctx[d].user, yes, panel.setting[Msg(d).chat], ctx[d].shadow,
                             ctx[d].text, ctx[d].result)
      BY <1>3 DEF Finds
    <3>. QED
      BY <3>1, <3>2, CtxFields
  <2>. QED
    BY <1>0, <1>3, <2>1
<1>4. CASE pc[d] = "blacklist"
  <2>1. /\ c.group = ctx[d].group /\ c.text = ctx[d].text /\ q = Onward(d, "blacklist", c)
    BY <1>4, CtxFields DEF Finds
  <2>2. (ctx[d].group => InGroup(d)) /\ (Msg(d).kind # "voice" => ctx[d].text)
    BY <1>4, KnownContext
  <2>3. (c.group => InGroup(d)) /\ (Msg(d).kind # "voice" => c.text)
    BY <2>1, <2>2
  <2>4. "blacklist" \in DOMAIN Stage /\ At("blacklist") = 2
    BY PlacesAre
  <2>5. Course(Msg(d), "blacklist", ctx[d], f) /\ (f \intersect {"rate", "raid"} # {} => "blacklist" \notin Resolving)
    BY <1>4
  <2>. HIDE DEF Course, Grounded, Entered, Passed
  <2>6. Course(Msg(d), Onward(d, "blacklist", c), c, f)
    BY <2>3, <2>4, <2>5, CourseOnward
  <2>. QED
    BY <2>1, <2>6
<1>. QED
  BY <1>1, <1>2, <1>3, <1>4 DEF Finds

\* So do the handlers that follow.
LEMMA CourseGoesOn ==
  ASSUME NEW d, NEW f, Course(Msg(d), pc[d], ctx[d], f), NEW q, NEW c, GoesOn(d, q, c)
  PROVE  Course(Msg(d), q, c, f)
<1>1. CASE pc[d] \in Passing /\ q = Onward(d, pc[d], c) /\ c = ctx[d]
  <2>1. pc[d] \in DOMAIN Stage /\ At(pc[d]) # 6 /\ pc[d] \notin Resolving
    BY <1>1, PlacesAre DEF Passing, Resolving
  <2>. QED
    BY <1>1, <2>1, CoursePasses
<1>2. CASE <<pc[d], q>> \in Within /\ c = ctx[d]
  <2>1. /\ pc[d] \in {"rate", "moderation", "count", "raid", "flood", "floodExpire", "duplicate"}
        /\ q \in DOMAIN Stage /\ At(q) = At(pc[d]) /\ q \notin Resolving \union {"media"}
        /\ q \in {"count", "escalate"} => pc[d] \in {"moderation", "count"}
        /\ q \in AntiSpam => pc[d] \in AntiSpam
        /\ q \notin {"moderation", "aiModeration", "conversation", "ai"}
    BY <1>2, PlacesAre DEF Within, Resolving, AntiSpam
  <2>2. pc[d] \in DOMAIN Stage
    BY <2>1, PlacesAre
  <2>3. pc[d] \notin Resolving /\ pc[d] # "new"
    BY <2>1 DEF Resolving
  <2>. QED
    BY <1>2, <2>1, <2>2, <2>3 DEF Course, Grounded, Entered, Passed, Past, Resolving
<1>3. CASE pc[d] = "media" /\ q = Onward(d, "media", c)
  <2>1. /\ c.group = ctx[d].group /\ Msg(d).kind = "voice"
    BY <1>3, CtxFields DEF GoesOn, Passing, Within, Course, Grounded
  <2>2. ctx[d].group => InGroup(d)
    BY <1>3, KnownContext
  <2>3. c.group => InGroup(d)
    BY <2>1, <2>2
  <2>4. "media" \in DOMAIN Stage /\ At("media") = 5 /\ "media" \notin Resolving
    BY PlacesAre DEF Resolving
  <2>5. Course(Msg(d), "media", ctx[d], f)
    BY <1>3
  <2>6. Course(Msg(d), Onward(d, "media", c), c, f)
    BY <2>1, <2>3, <2>4, <2>5, CourseOnward
  <2>. QED
    BY <1>3, <2>6
<1>4. CASE pc[d] = "ai" /\ q = Onward(d, "ai", c)
  <2>1. /\ c.group = ctx[d].group /\ c.text = ctx[d].text /\ c.settings = ctx[d].settings
    BY <1>4, CtxFields DEF GoesOn, Passing, Within
  <2>2. (ctx[d].group => InGroup(d)) /\ (Msg(d).kind # "voice" => ctx[d].text)
    BY <1>4, KnownContext
  <2>3. (c.group => InGroup(d)) /\ (Msg(d).kind # "voice" => c.text)
    BY <2>1, <2>2
  <2>4. "ai" \in DOMAIN Stage /\ At("ai") = 12 /\ "ai" \notin Resolving
    BY PlacesAre DEF Resolving
  <2>5. Course(Msg(d), "ai", ctx[d], f)
    BY <1>4
  <2>6. (Moderated(c) <=> Moderated(ctx[d])) /\ Mode(c) = Mode(ctx[d])
    BY <2>1 DEF Moderated, Mode, Policy
  <2>7. Course(Msg(d), Onward(d, "ai", c), c, f)
    BY <2>3, <2>4, <2>5, <2>6, CourseOnward
  <2>. QED
    BY <1>4, <2>7
<1>. QED
  BY <1>1, <1>2, <1>3, <1>4 DEF GoesOn

\* A handler that ends a delivery keeps its context.
LEMMA CourseStops ==
  ASSUME NEW d, NEW f, NEW g, Course(Msg(d), pc[d], ctx[d], f), NEW q, NEW c, Stops(d, q, c)
  PROVE  Course(Msg(d), q, c, g)
<1>1. pc[d] # "new" /\ q \in Ends /\ c = ctx[d]
  BY PlacesAre DEF Stops, Ends
<1>2. (ctx[d].group => InGroup(d)) /\ (Msg(d).kind # "voice" => ctx[d].text)
  BY <1>1, KnownContext
<1>. QED
  BY <1>1, <1>2, CourseEnds DEF InGroup

\* A stage that fails is skipped.
LEMMA CourseSkips ==
  ASSUME NEW d, NEW f, Course(Msg(d), pc[d], ctx[d], f), NEW q, NEW c, Skips(d, q, c)
  PROVE  Course(Msg(d), q, c, f \union {Stage[pc[d]]})
<1>. DEFINE g == f \union {Stage[pc[d]]}
<1>1. pc[d] \in DOMAIN Stage /\ pc[d] # "new" /\ q = Onward(d, pc[d], c)
  BY PlacesAre DEF Skips
<1>2. (c.group => InGroup(d)) /\ c.text = ctx[d].text
  <2>1. CASE c = ctx[d]
    BY <1>1, <2>1, KnownContext
  <2>2. CASE c # ctx[d]
    <3>1. PICK yes : c = Ctx(ctx[d].user, yes, ctx[d].settings, ctx[d].shadow,
                             ctx[d].text, ctx[d].result)
      BY <2>2 DEF Skips
    <3>2. pc[d] = "group"
      BY <2>2 DEF Skips
    <3>. QED
      BY <3>1, <3>2, CtxFields DEF Course, Grounded, InGroup
  <2>. QED
    BY <2>1, <2>2
<1>3. Msg(d).kind # "voice" => c.text
  BY <1>1, <1>2, KnownContext
<1>4. c # ctx[d] => pc[d] = "group" /\ At(pc[d]) = 2
  BY PlacesAre DEF Skips
<1>5. At(pc[d]) = 6 => "moderation" \in g
  <2>1. At(pc[d]) = 6 => pc[d] \in {"moderation", "count", "escalate"}
    BY <1>1, PlacesAre
  <2>. QED
    BY <2>1 DEF Stage
<1>6. g \intersect {"rate", "raid"} # {} => pc[d] \notin Resolving
  <2>1. pc[d] \in Resolving => Stage[pc[d]] \notin {"rate", "raid"}
    BY <1>1 DEF Resolving, Stage
  <2>. QED
    BY <2>1 DEF Course, Passed
<1>7. (pc[d] = "dedupe" => c = ctx[d]) /\ (At(pc[d]) >= 6 => c = ctx[d])
  BY <1>4
<1>. HIDE DEF g
<1>8. f \subseteq g
  BY DEF g
<1>9. Course(Msg(d), Onward(d, pc[d], c), c, g)
  BY <1>1, <1>2, <1>3, <1>5, <1>6, <1>7, <1>8, CourseOnward
<1>. QED
  BY <1>1, <1>9 DEF g

\* A delivery goes on to a place, with a context, and never back to its arrival.
LEMMA WaysType ==
  ASSUME Shape, NEW d \in Deliveries, NEW q, NEW c, Ways(d, q, c) \/ Skips(d, q, c)
  PROVE  IsCtx(c) /\ q \in Pcs \ {"new", "dedupe"} /\ pc[d] \in DOMAIN Stage
<1>0. /\ \A place \in DOMAIN Stage : \A k : Onward(d, place, k) \in Pcs \ {"new", "dedupe"}
      /\ {"done", "failed", "user", "group", "blacklist"} \subseteq Pcs
      /\ pc[d] \in Pcs /\ IsCtx(ctx[d])
  <2>1. ASSUME NEW place \in DOMAIN Stage, NEW k PROVE Onward(d, place, k) \in Pcs \ {"new", "dedupe"}
    <3>1. Onward(d, place, k) \in Entrances \union {"done"}
      BY OnwardLeads
    <3>. QED
      BY <3>1, PlacesAre DEF Entrances, Pcs, Ends
  <2>. QED
    BY <2>1, PlacesAre DEF Shape, Pcs, Ends
<1>1. \A a1, a2, a3, a4, a5, a6 : IsCtx(Ctx(a1, a2, a3, a4, a5, a6))
  BY CtxIsCtx
<1>2. PICK yes : yes = TRUE
  OBVIOUS
<1>3. CASE Stops(d, q, c)
  BY <1>0, <1>3 DEF Stops
<1>4. CASE Finds(d, q, c)
  <2>1. pc[d] \in DOMAIN Stage
    BY <1>4, PlacesAre DEF Finds
  <2>2. IsCtx(c)
    <3>1. \/ c = ctx[d]
          \/ \E w : c = Ctx(yes, ctx[d].group, ctx[d].settings, w, ctx[d].text, ctx[d].result)
          \/ \E s : c = Ctx(ctx[d].user, yes, s, ctx[d].shadow, ctx[d].text, ctx[d].result)
          \/ \E w : c = Ctx(ctx[d].user, ctx[d].group, ctx[d].settings, w, ctx[d].text, ctx[d].result)
      <4>1. PICK w : w = (panel.status[Msg(d).user] = "shadow_ignored")
        OBVIOUS
      <4>2. PICK z : z = (ctx[d].shadow \/ panel.listing[Msg(d).user] = "shadow")
        OBVIOUS
      <4>. QED
        BY <1>2, <1>4, <4>1, <4>2 DEF Finds
    <3>. QED
      BY <1>0, <1>1, <3>1
  <2>3. q \in Pcs \ {"new", "dedupe"}
    BY <1>0, <1>4, PlacesAre, ZenonT(40) DEF Finds
  <2>. QED
    BY <2>1, <2>2, <2>3
<1>5. CASE GoesOn(d, q, c)
  <2>1. pc[d] \in DOMAIN Stage
    BY <1>5, PlacesAre DEF GoesOn, Passing, Within
  <2>2. IsCtx(c)
    BY <1>0, <1>1, <1>5 DEF GoesOn
  <2>3. q \in Pcs \ {"new", "dedupe"}
    <3>1. <<pc[d], q>> \in Within => q \in DOMAIN Stage \ {"new", "dedupe"}
      BY PlacesAre DEF Within
    <3>. QED
      BY <1>0, <1>5, <2>1, <3>1, EntrancesArePlaces DEF GoesOn
  <2>. QED
    BY <2>1, <2>2, <2>3
<1>6. CASE Skips(d, q, c)
  BY <1>0, <1>1, <1>2, <1>6 DEF Skips
<1>. QED
  BY <1>3, <1>4, <1>5, <1>6 DEF Ways

CourseInv ==
  Shape /\ \A d \in Deliveries : Course(Msg(d), pc[d], ctx[d], failed[d])

\* A handler leaves the other deliveries where they are.
Apart(d) ==
  \A e \in Deliveries : e # d =>
    /\ pc'[e] = pc[e] /\ ctx'[e] = ctx[e] /\ update'[e] = update[e]
    /\ spoken'[e] = spoken[e] /\ asked'[e] = asked[e] /\ conversation'[e] = conversation[e]
    /\ accepted'[e] = accepted[e] /\ rank'[e] = rank[e] /\ sanction'[e] = sanction[e]
    /\ failed'[e] = failed[e]

\* Where a handler has brought its own delivery.
Lands(d, q, c) ==
  /\ pc'[d] = q /\ ctx'[d] = c
  /\ \/ Ways(d, q, c) /\ failed'[d] = failed[d]
     \/ (Stops(d, q, c) \/ Skips(d, q, c)) /\ failed'[d] = failed[d] \union {Stage[pc[d]]} /\ Fail(d)

\* The messages stay those of their updates.
LEMMA MessagesStay ==
  ASSUME UNCHANGED message, NEW d, update'[d] = update[d]
  PROVE  (Msg(d))' = Msg(d)
BY DEF Msg

\* What every handler does to the deliveries.
LEMMA HandlersMove ==
  ASSUME Shape, NEW d \in Deliveries, Handle(d)
  PROVE  /\ Shape' /\ Apart(d) /\ UNCHANGED <<now, message, update, panel>>
         /\ \E q, c : Lands(d, q, c)
         /\ pc[d] \in DOMAIN Stage /\ pc'[d] \notin {"new", "dedupe"}
<1>1. PICK q, c : Moved(d, q, c) /\ (Ways(d, q, c) \/ Skips(d, q, c))
  BY HandlersLead, FailuresLead DEF Ways
<1>2. IsCtx(c) /\ q \in Pcs \ {"new", "dedupe"} /\ pc[d] \in DOMAIN Stage
  BY <1>1, WaysType
<1>3. pc' = [pc EXCEPT ![d] = q] /\ ctx' = [ctx EXCEPT ![d] = c]
  BY <1>1 DEF Moved, Goto, Put
<1>4. /\ pc' \in [Deliveries -> Pcs] /\ pc'[d] = q /\ \A e \in Deliveries : e # d => pc'[e] = pc[e]
  BY <1>2, <1>3 DEF Shape
<1>5. /\ ctx' = [e \in Deliveries |-> ctx'[e]] /\ ctx'[d] = c
      /\ \A e \in Deliveries : e # d => ctx'[e] = ctx[e]
  BY <1>3 DEF Shape
<1>6. /\ Touched(d, spoken, spoken') /\ Touched(d, asked, asked')
      /\ Touched(d, conversation, conversation') /\ Touched(d, accepted, accepted')
      /\ Touched(d, rank, rank') /\ Touched(d, sanction, sanction')
      /\ Touched(d, failed, failed')
      /\ UNCHANGED <<now, message, update, panel>>
  BY HandlersTouch
<1>7. Apart(d)
  BY <1>4, <1>5, <1>6 DEF Apart, Touched
<1>8. \A e \in Deliveries : IsCtx(ctx'[e])
  BY <1>2, <1>5 DEF Shape
<1>9. \A e \in Deliveries : pc'[e] = "new" <=> update'[e] = None
  <2>1. pc[d] # "new"
    BY <1>2, PlacesAre
  <2>. QED
    BY <1>2, <1>4, <1>6, <2>1 DEF Shape
<1>10. Shape'
  BY <1>4, <1>5, <1>6, <1>8, <1>9 DEF Shape, Touched
<1>11. \E a, b : Lands(d, a, b)
  <2>1. CASE Fail(d)
    <3>1. PICK a, b : Moved(d, a, b) /\ (Stops(d, a, b) \/ Skips(d, a, b))
      BY <2>1, FailuresLead
    <3>2. pc'[d] = a /\ ctx'[d] = b
      BY <3>1 DEF Moved, Goto, Put, Shape
    <3>3. failed'[d] = failed[d] \union {Stage[pc[d]]}
      BY <2>1, FailuresLead DEF Shape
    <3>. QED
      BY <2>1, <3>1, <3>2, <3>3 DEF Lands
  <2>2. CASE ~ Fail(d)
    <3>1. PICK a, b : Moved(d, a, b) /\ Ways(d, a, b)
      BY <2>2, HandlersLead
    <3>2. pc'[d] = a /\ ctx'[d] = b
      BY <3>1 DEF Moved, Goto, Put, Shape
    <3>3. failed'[d] = failed[d]
      BY <2>2, HandlersLead
    <3>. QED
      BY <3>1, <3>2, <3>3 DEF Lands
  <2>. QED
    BY <2>1, <2>2
<1>. QED
  BY <1>2, <1>4, <1>6, <1>7, <1>10, <1>11

\* What an arrival does to the deliveries.
LEMMA ArrivalsMove ==
  ASSUME Shape, NEW d \in Deliveries, Arrive(d)
  PROVE  /\ Shape' /\ Apart(d) /\ pc[d] = "new" /\ pc'[d] \in {"dedupe", "done"}
         /\ \E u \in UpdateIds : \E text \in BOOLEAN :
              /\ update'[d] = u /\ (text <=> (Msg(d)').kind # "voice")
              /\ ctx'[d] = Ctx(FALSE, FALSE, None, FALSE, text, "none")
         /\ pc'[d] = "dedupe" => spoken'[d] = spoken[d]
         /\ UNCHANGED <<now, message, panel, asked, conversation, redis, warnings, history>>
<1>1. PICK u \in UpdateIds, text \in BOOLEAN, q \in {"dedupe", "done"} :
        /\ update' = [update EXCEPT ![d] = u] /\ (text <=> message[u].kind # "voice")
        /\ Moved(d, q, Ctx(FALSE, FALSE, None, FALSE, text, "none"))
        /\ q = "dedupe" => UNCHANGED spoken
  BY ArrivalsLead
<1>2. /\ pc[d] = "new" /\ Touched(d, spoken, spoken')
      /\ UNCHANGED <<now, message, panel, asked, conversation, redis, warnings, history>>
  BY ArrivalsLead
<1>3. PICK c : c = Ctx(FALSE, FALSE, None, FALSE, text, "none")
  OBVIOUS
<1>4. PICK no : no = FALSE
  OBVIOUS
<1>5. c = Ctx(no, no, None, no, text, "none")
  BY <1>3, <1>4
<1>6. IsCtx(c)
  BY <1>5, CtxIsCtx
<1>7. pc' = [pc EXCEPT ![d] = q] /\ ctx' = [ctx EXCEPT ![d] = c]
  BY <1>1, <1>3 DEF Moved, Goto, Put
<1>8. /\ pc' \in [Deliveries -> Pcs] /\ pc'[d] = q /\ \A e \in Deliveries : e # d => pc'[e] = pc[e]
  BY <1>7, PlacesAre DEF Shape, Pcs, Ends
<1>9. /\ ctx' = [e \in Deliveries |-> ctx'[e]] /\ ctx'[d] = c
      /\ \A e \in Deliveries : e # d => ctx'[e] = ctx[e]
  BY <1>7 DEF Shape
<1>10. /\ update' \in [Deliveries -> UpdateIds \union {None}] /\ update'[d] = u
       /\ \A e \in Deliveries : e # d => update'[e] = update[e]
  BY <1>1 DEF Shape
<1>11. \A e \in Deliveries : IsCtx(ctx'[e])
  BY <1>6, <1>9 DEF Shape
<1>12. \A e \in Deliveries : pc'[e] = "new" <=> update'[e] = None
  BY <1>8, <1>10, PipelineAssumption DEF Shape
<1>13. UNCHANGED <<accepted, rank, sanction, failed>>
  BY <1>2 DEF history
<1>14. Shape'
  BY <1>2, <1>8, <1>9, <1>10, <1>11, <1>12, <1>13 DEF Shape, Touched
<1>15. Apart(d)
  BY <1>2, <1>8, <1>9, <1>10, <1>13 DEF Apart, Touched
<1>16. text <=> (Msg(d)').kind # "voice"
  BY <1>1, <1>2, <1>10 DEF Msg
<1>. QED
  BY <1>1, <1>2, <1>3, <1>8, <1>9, <1>10, <1>14, <1>15, <1>16

\* The steps around the pipeline: a delivery stays where it is, or is lost.
Around == Crash \/ Edit \/ Tick \/ \E g \in Groups : RaidMode(g)

\* What the steps around the pipeline do to the deliveries.
LEMMA AroundMoves ==
  ASSUME Shape, Around
  PROVE  /\ Shape' /\ now' \in Nat /\ now' >= now
         /\ \A e \in Deliveries : pc'[e] = pc[e] \/ (pc[e] \in DOMAIN Stage /\ pc'[e] = "lost")
         /\ UNCHANGED <<message, update, ctx, output, history, seen, counter, warnings>>
<1>1. UNCHANGED <<message, update, ctx, output, history, seen, counter, warnings>>
  BY DEF Around, Crash, Edit, Tick, RaidMode, redis
<1>2. now' \in Nat /\ now' >= now
  BY DEF Around, Crash, Edit, Tick, RaidMode, Shape
<1>3. /\ pc' = [e \in Deliveries |-> pc'[e]]
      /\ \A e \in Deliveries : pc'[e] = pc[e] \/ (pc[e] \in DOMAIN Stage /\ pc'[e] = "lost")
  <2>1. CASE Crash
    BY <2>1 DEF Crash, Shape, Pcs, Ends
  <2>2. CASE ~ Crash
    BY <2>2 DEF Around, Edit, Tick, RaidMode, Shape
  <2>. QED
    BY <2>1, <2>2
<1>4. pc' \in [Deliveries -> Pcs] /\ \A e \in Deliveries : pc'[e] = "new" <=> pc[e] = "new"
  BY <1>3, PlacesAre DEF Shape, Pcs, Ends
<1>5. Shape'
  BY <1>1, <1>2, <1>3, <1>4 DEF Shape, output, history
<1>. QED
  BY <1>1, <1>2, <1>3, <1>5

\* The three kinds of steps.
LEMMA StepsAre ==
  ASSUME Next
  PROVE  Remember /\ ((\E d \in Deliveries : Arrive(d) \/ Handle(d)) \/ Around)
BY DEF Next, Around

\* At the start no update has arrived.
LEMMA CourseInit == Init => CourseInv
<1>. SUFFICES ASSUME Init PROVE CourseInv
  OBVIOUS
<1>1. Shape
  <2>1. \A d \in Deliveries : IsCtx(ctx[d])
    BY BlankIs DEF Init
  <2>. QED
    BY <2>1 DEF Init, Shape, Pcs
<1>2. ASSUME NEW d \in Deliveries PROVE Course(Msg(d), pc[d], ctx[d], failed[d])
  <2>1. pc[d] = "new" /\ ctx[d] = Blank /\ failed[d] = {}
    BY <1>2 DEF Init
  <2>2. Blank.group = FALSE /\ Blank.settings = None /\ Blank.shadow = FALSE
    BY DEF Blank
  <2>3. ~ Past("new", 6) /\ ~ Past("new", 9)
    BY PlacesAre DEF Past
  <2>. QED
    BY <2>1, <2>2, <2>3 DEF Course, Grounded, Entered, Passed, AntiSpam
<1>. QED
  BY <1>1, <1>2 DEF CourseInv

\* A delivery that is left alone keeps its course.
LEMMA CourseApart ==
  ASSUME CourseInv, NEW d \in Deliveries, Apart(d), UNCHANGED message,
         NEW e \in Deliveries, e # d
  PROVE  Course(Msg(e), pc[e], ctx[e], failed[e])'
BY DEF CourseInv, Apart, Msg, Course

\* A handler keeps the course of its own delivery.
LEMMA CourseHandled ==
  ASSUME CourseInv, NEW d \in Deliveries, Handle(d)
  PROVE  CourseInv'
<1>1. PICK q, c : Lands(d, q, c)
  BY HandlersMove DEF CourseInv
<1>2. Shape' /\ Apart(d) /\ UNCHANGED <<now, message, update, panel>>
  BY HandlersMove DEF CourseInv
<1>3. Course(Msg(d), pc[d], ctx[d], failed[d])
  BY DEF CourseInv
<1>5. Course(Msg(d), q, c, failed'[d])
  <2>1. CASE Ways(d, q, c) /\ failed'[d] = failed[d]
    <3>1. CASE Stops(d, q, c)
      BY <1>3, <2>1, <3>1, CourseStops
    <3>2. CASE Finds(d, q, c)
      BY <1>3, <2>1, <3>2, CourseFinds
    <3>3. CASE GoesOn(d, q, c)
      BY <1>3, <2>1, <3>3, CourseGoesOn
    <3>. QED
      BY <2>1, <3>1, <3>2, <3>3 DEF Ways
  <2>2. CASE Stops(d, q, c)
    BY <1>3, <2>2, CourseStops
  <2>3. CASE Skips(d, q, c) /\ failed'[d] = failed[d] \union {Stage[pc[d]]}
    BY <1>3, <2>3, CourseSkips, SMTT(30)
  <2>. QED
    BY <1>1, <2>1, <2>2, <2>3 DEF Lands
<1>6. (Msg(d))' = Msg(d) /\ pc'[d] = q /\ ctx'[d] = c
  BY <1>1, <1>2 DEF Msg, Lands
<1>7. ASSUME NEW e \in Deliveries PROVE Course(Msg(e), pc[e], ctx[e], failed[e])'
  <2>1. CASE e = d
    BY <1>5, <1>6, <2>1 DEF Course
  <2>2. CASE e # d
    BY <1>2, <2>2, CourseApart
  <2>. QED
    BY <2>1, <2>2
<1>. QED
  BY <1>2, <1>7 DEF CourseInv

\* An arrival begins a course.
LEMMA CourseArrives ==
  ASSUME CourseInv, NEW d \in Deliveries, Arrive(d)
  PROVE  CourseInv'
<1>1. /\ Shape' /\ Apart(d) /\ pc[d] = "new" /\ pc'[d] \in {"dedupe", "done"}
      /\ UNCHANGED message /\ UNCHANGED failed
  BY ArrivalsMove DEF CourseInv, history
<1>2. PICK text \in BOOLEAN :
        /\ text <=> (Msg(d)').kind # "voice"
        /\ ctx'[d] = Ctx(FALSE, FALSE, None, FALSE, text, "none")
  BY ArrivalsMove DEF CourseInv
<1>3. PICK no : no = FALSE
  OBVIOUS
<1>4. /\ ctx'[d].group = no /\ ctx'[d].settings = None /\ ctx'[d].shadow = no
      /\ ctx'[d].text = text
  <2>1. ctx'[d] = Ctx(no, no, None, no, text, "none")
    BY <1>2, <1>3
  <2>. QED
    BY <2>1, CtxFields
<1>5. failed'[d] \intersect {"rate", "raid"} = {}
  BY <1>1 DEF CourseInv, Course, Passed, Resolving
<1>6. Course(Msg(d)', pc'[d], ctx'[d], failed'[d])
  <2>1. /\ ~ ctx'[d].group /\ ctx'[d].settings = None /\ ~ ctx'[d].shadow
        /\ (Msg(d)').kind # "voice" => ctx'[d].text
    BY <1>2, <1>3, <1>4
  <2>2. pc'[d] # "new" /\ ~ Past(pc'[d], 6) /\ ~ Past(pc'[d], 9)
    BY <1>1, PlacesAre DEF Past
  <2>. QED
    BY <1>1, <1>5, <2>1, <2>2 DEF Course, Grounded, Entered, Passed, AntiSpam
<1>7. ASSUME NEW e \in Deliveries PROVE Course(Msg(e), pc[e], ctx[e], failed[e])'
  <2>1. CASE e = d
    BY <1>6, <2>1 DEF Course
  <2>2. CASE e # d
    BY <1>1, <2>2, CourseApart
  <2>. QED
    BY <2>1, <2>2
<1>. QED
  BY <1>1, <1>7 DEF CourseInv

\* A delivery that is lost has no course to keep.
LEMMA CourseAround == ASSUME CourseInv, Around PROVE CourseInv'
<1>1. /\ Shape' /\ UNCHANGED <<message, update, ctx, failed>>
      /\ \A e \in Deliveries : pc'[e] = pc[e] \/ (pc[e] \in DOMAIN Stage /\ pc'[e] = "lost")
  BY AroundMoves DEF CourseInv, history
<1>2. ASSUME NEW e \in Deliveries PROVE Course(Msg(e), pc[e], ctx[e], failed[e])'
  <2>1. Msg(e)' = Msg(e) /\ ctx'[e] = ctx[e] /\ failed'[e] = failed[e]
    BY <1>1 DEF Msg
  <2>2. Course(Msg(e), pc[e], ctx[e], failed[e])
    BY DEF CourseInv
  <2>3. CASE pc'[e] = pc[e]
    BY <2>1, <2>2, <2>3 DEF Course
  <2>4. CASE pc[e] \in DOMAIN Stage /\ pc'[e] = "lost"
    <3>1. pc[e] # "new"
      BY <2>4, PlacesAre
    <3>2. (ctx[e].group => InGroup(e)) /\ (Msg(e).kind # "voice" => ctx[e].text)
      BY <2>2, <3>1, KnownContext
    <3>3. Course(Msg(e), "lost", ctx[e], failed[e])
      BY <3>2, CourseEnds DEF InGroup, Ends
    <3>. QED
      BY <2>1, <2>4, <3>3 DEF Course
  <2>. QED
    BY <1>1, <2>3, <2>4
<1>. QED
  BY <1>1, <1>2 DEF CourseInv

\* Nothing happens.
LEMMA CourseRests == ASSUME CourseInv, UNCHANGED vars PROVE CourseInv'
<1>1. UNCHANGED <<now, message, update, pc, ctx, spoken, asked, conversation, accepted, rank,
                  sanction, failed>>
  BY DEF vars, output, history
<1>2. Shape'
  BY <1>1 DEF CourseInv, Shape
<1>3. ASSUME NEW e \in Deliveries PROVE Course(Msg(e), pc[e], ctx[e], failed[e])'
  BY <1>1 DEF CourseInv, Course, Msg
<1>. QED
  BY <1>2, <1>3 DEF CourseInv

\* The course of the deliveries is kept by every step.
LEMMA CourseNext == CourseInv /\ [Next]_vars => CourseInv'
BY CourseHandled, CourseArrives, CourseAround, CourseRests, StepsAre

-----------------------------------------------------------------------------
(* The dedupe stage.                                                        *)

\* The key of an update lives for as long as it was last set for.
Reserved(d) ==
  /\ pc[d] \in {"new", "dedupe"} => accepted[d] = None
  /\ accepted[d] # None =>
       accepted[d] \in Nat /\ accepted[d] <= now /\ accepted[d] + DedupeTtl <= seen[update[d]]

DedupeInv ==
  /\ Shape /\ seen \in [UpdateIds -> Nat]
  /\ \A d \in Deliveries : Reserved(d)
  /\ OneHandlingPerUpdate

\* At the start no update has been seen.
LEMMA DedupeInit == Init => DedupeInv
<1>. SUFFICES ASSUME Init PROVE DedupeInv
  OBVIOUS
<1>1. Shape
  BY CourseInit DEF CourseInv
<1>2. \A d \in Deliveries : accepted[d] = None
  BY DEF Init
<1>. QED
  BY <1>1, <1>2 DEF DedupeInv, Reserved, OneHandlingPerUpdate, Init

\* Only the dedupe stage sets the key of an update.
LEMMA OnlyDedupeReserves ==
  ASSUME NEW d \in Deliveries, Handle(d), ~ Dedupe(d)
  PROVE  UNCHANGED <<seen, accepted>>
BY DEF Handle, ResolveUser, ResolveGroup, CheckBlacklist, Automate, RateLimit, RateExpire, Expires,
       Media, Warn, Judge, RecordEscalation, CheckRaid, CheckFlood, FloodExpire, CheckDuplicate,
       DuplicateExpire, CountsAgainstSpam, PunishSpam, AiModerate, ResolveConversation,
       MemoryCommand, Ask, Respond, Fail, quiet, redis, history

\* The dedupe stage lets an update pass only when its key has expired.
LEMMA DedupeReserves ==
  ASSUME DedupeInv, NEW d \in Deliveries, Dedupe(d)
  PROVE  DedupeInv'
<1>1. /\ Shape' /\ Apart(d) /\ UNCHANGED <<now, update>> /\ pc'[d] \notin {"new", "dedupe"}
      /\ pc[d] \in DOMAIN Stage
  BY HandlersMove DEF DedupeInv, Handle
<1>2. /\ pc[d] = "dedupe" /\ accepted[d] = None /\ update[d] \in UpdateIds /\ now \in Nat
      /\ seen \in [UpdateIds -> Nat] /\ accepted = [e \in Deliveries |-> accepted[e]]
  BY <1>1, PlacesAre DEF Dedupe, DedupeInv, Reserved, Shape
<1>3. CASE UNCHANGED <<seen, accepted>>
  BY <1>1, <1>2, <1>3 DEF DedupeInv, Reserved, OneHandlingPerUpdate, Apart
<1>4. CASE /\ now >= seen[update[d]]
           /\ seen' = [seen EXCEPT ![update[d]] = now + DedupeTtl]
           /\ accepted' = [accepted EXCEPT ![d] = now]
  <2>1. /\ seen' \in [UpdateIds -> Nat] /\ seen'[update[d]] = now + DedupeTtl
        /\ \A u \in UpdateIds : u # update[d] => seen'[u] = seen[u]
    BY <1>2, <1>4, PipelineAssumption
  <2>2. accepted'[d] = now /\ \A e \in Deliveries : e # d => accepted'[e] = accepted[e]
    BY <1>2, <1>4
  <2>3. ASSUME NEW e \in Deliveries PROVE Reserved(e)'
    <3>1. CASE e = d
      BY <1>1, <1>2, <2>1, <2>2, <3>1 DEF Reserved
    <3>2. CASE e # d
      <4>1. Reserved(e) /\ pc'[e] = pc[e] /\ accepted'[e] = accepted[e]
        BY <1>1, <2>2, <3>2 DEF DedupeInv, Apart
      <4>2. ASSUME accepted[e] # None PROVE accepted[e] + DedupeTtl <= seen'[update[e]]
        <5>1. CASE update[e] = update[d]
          BY <1>2, <2>1, <4>1, <4>2, <5>1, PipelineAssumption DEF Reserved
        <5>2. CASE update[e] # update[d]
          <6>1. update[e] \in UpdateIds
            BY <4>1, <4>2 DEF Reserved, DedupeInv, Shape
          <6>. QED
            BY <2>1, <4>1, <4>2, <5>2, <6>1 DEF Reserved
        <5>. QED
          BY <5>1, <5>2
      <4>. QED
        BY <1>1, <4>1, <4>2 DEF Reserved
    <3>. QED
      BY <3>1, <3>2
  <2>4. OneHandlingPerUpdate'
    <3>1. ASSUME NEW e \in Deliveries, e # d, update[e] = update[d], accepted[e] # None
          PROVE  accepted[e] + DedupeTtl <= now
      <4>1. Reserved(e)
        BY DEF DedupeInv
      <4>2. accepted[e] + DedupeTtl <= seen[update[d]] /\ accepted[e] \in Nat /\ seen[update[d]] \in Nat
        BY <1>2, <3>1, <4>1 DEF Reserved
      <4>. QED
        BY <1>2, <1>4, <4>2, PipelineAssumption
    <3>. QED
      BY <1>1, <2>2, <3>1 DEF OneHandlingPerUpdate, DedupeInv
  <2>. QED
    BY <1>1, <2>1, <2>3, <2>4 DEF DedupeInv
<1>. QED
  BY <1>3, <1>4 DEF Dedupe

\* Every step keeps the reservations.
LEMMA DedupeNext == DedupeInv /\ [Next]_vars => DedupeInv'
<1>. SUFFICES ASSUME DedupeInv, [Next]_vars PROVE DedupeInv'
  OBVIOUS
<1>1. ASSUME NEW d \in Deliveries, Handle(d), ~ Dedupe(d) PROVE DedupeInv'
  <2>1. /\ Shape' /\ Apart(d) /\ UNCHANGED <<now, update>> /\ pc'[d] \notin {"new", "dedupe"}
    BY <1>1, HandlersMove DEF DedupeInv
  <2>2. UNCHANGED <<seen, accepted>>
    BY <1>1, OnlyDedupeReserves
  <2>. QED
    BY <2>1, <2>2 DEF DedupeInv, Reserved, OneHandlingPerUpdate, Apart
<1>2. ASSUME NEW d \in Deliveries, Arrive(d) PROVE DedupeInv'
  <2>1. /\ Shape' /\ Apart(d) /\ pc[d] = "new" /\ UNCHANGED <<now, seen, accepted>>
    BY <1>2, ArrivalsMove DEF DedupeInv, redis, history
  <2>2. accepted[d] = None
    BY <2>1 DEF DedupeInv, Reserved
  <2>3. ASSUME NEW e \in Deliveries PROVE Reserved(e)'
    <3>1. CASE e = d
      BY <2>1, <2>2, <3>1 DEF Reserved
    <3>2. CASE e # d
      BY <2>1, <3>2 DEF DedupeInv, Reserved, Apart
    <3>. QED
      BY <3>1, <3>2
  <2>. QED
    BY <2>1, <2>2, <2>3 DEF DedupeInv, OneHandlingPerUpdate, Apart
<1>3. CASE Around
  <2>1. /\ Shape' /\ now' \in Nat /\ now' >= now /\ UNCHANGED <<update, accepted, seen>>
        /\ \A e \in Deliveries : pc'[e] = pc[e] \/ (pc[e] \in DOMAIN Stage /\ pc'[e] = "lost")
    BY <1>3, AroundMoves DEF DedupeInv, history
  <2>2. now \in Nat
    BY DEF DedupeInv, Shape
  <2>. QED
    BY <2>1, <2>2 DEF DedupeInv, Reserved, OneHandlingPerUpdate
<1>4. CASE UNCHANGED vars
  <2>1. Shape'
    BY <1>4 DEF DedupeInv, Shape, vars, output, history
  <2>. QED
    BY <1>4, <2>1 DEF DedupeInv, Reserved, OneHandlingPerUpdate, vars, redis, history
<1>. QED
  BY <1>1, <1>2, <1>3, <1>4, DedupeReserves, StepsAre

\* An update that is delivered more than once is accepted once per time to
\* live of its key.
THEOREM HandledOnce == Spec => []OneHandlingPerUpdate
<1>1. DedupeInv => OneHandlingPerUpdate
  BY DEF DedupeInv
<1>. QED
  BY <1>1, DedupeInit, DedupeNext, PTL DEF Spec

-----------------------------------------------------------------------------
(* The ladder of sanctions.                                                 *)

\* The places up to the warning.
Unwarned(p) == p \in {"new", "moderation"} \/ (p \in DOMAIN Stage /\ At(p) < 6)

\* A warning is ranked when it is written and judged by at least that rank.
Judged(d) ==
  /\ rank[d] \in Nat /\ sanction[d] \in 0 .. 3
  /\ Unwarned(pc[d]) => rank[d] = 0
  /\ pc[d] = "count" => rank[d] <= warnings[WarnedIn(d)]
  /\ pc[d] \notin {"new", "count", "lost"} /\ "moderation" \notin failed[d]
     /\ Msg(d).kind = "profane" => sanction[d] >= Rung(rank[d])

SanctionInv ==
  /\ CourseInv /\ warnings \in [Users \X Groups -> Nat]
  /\ \A d \in Deliveries : Judged(d)

\* More warnings never ask for less.
LEMMA RungRises ==
  ASSUME NEW m \in Nat, NEW n \in Nat, m <= n
  PROVE  Rung(m) <= Rung(n) /\ Rung(n) \in 0 .. 3 /\ Rung(0) = 0
BY PipelineAssumption DEF Rung

\* A delivery never goes back to a stage before its own.
LEMMA StagesAreInOrder ==
  ASSUME NEW d, NEW q, NEW c, Ways(d, q, c) \/ Skips(d, q, c), q \in DOMAIN Stage
  PROVE  /\ At(q) >= At(pc[d]) /\ (q = "moderation" => At(pc[d]) < 6)
         /\ q = "count" => pc[d] = "moderation" /\ Ways(d, q, c)
<1>1. ASSUME NEW p \in DOMAIN Stage, q = Onward(d, p, c)
      PROVE  At(q) > At(p) /\ q \in Entrances
  <2>1. q # "done"
    BY PlacesAre
  <2>. QED
    BY <1>1, <2>1, OnwardLeads
<1>2. \A p \in DOMAIN Stage : At(p) \in 1 .. 13
  BY AtType
<1>3. "count" \notin Entrances /\ At("moderation") = 6
  BY PlacesAre DEF Entrances
<1>4. CASE Skips(d, q, c)
  BY <1>1, <1>2, <1>3, <1>4 DEF Skips
<1>5. CASE Stops(d, q, c)
  BY <1>5, PlacesAre DEF Stops
<1>6. CASE Finds(d, q, c)
  <2>1. "blacklist" \in DOMAIN Stage
    BY PlacesAre
  <2>2. CASE pc[d] = "blacklist" /\ q = Onward(d, "blacklist", c)
    BY <1>1, <1>2, <1>3, <2>1, <2>2
  <2>3. CASE pc[d] \in {"dedupe", "user", "group"} /\ q \in {"user", "group", "blacklist", "done"}
    BY <2>3, PlacesAre
  <2>. QED
    BY <1>6, <2>2, <2>3 DEF Finds
<1>7. CASE GoesOn(d, q, c)
  <2>1. CASE <<pc[d], q>> \in Within
    BY <1>7, <2>1, PlacesAre DEF Within, Ways
  <2>2. CASE ~ (<<pc[d], q>> \in Within)
    <3>1. pc[d] \in DOMAIN Stage /\ q = Onward(d, pc[d], c)
      BY <1>7, <2>2, PlacesAre DEF GoesOn, Passing
    <3>. QED
      BY <1>1, <1>2, <1>3, <3>1
  <2>. QED
    BY <2>1, <2>2
<1>. QED
  BY <1>4, <1>5, <1>6, <1>7 DEF Ways

\* Where a handler that neither warns nor judges leaves its delivery.
LEMMA HandlersKeepTheOrder ==
  ASSUME Shape, NEW d \in Deliveries, Handle(d)
  PROVE  /\ pc'[d] \in DOMAIN Stage =>
              At(pc'[d]) >= At(pc[d]) /\ (pc'[d] = "moderation" => At(pc[d]) < 6)
         /\ pc'[d] = "count" => pc[d] = "moderation" /\ ~ Fail(d)
         /\ Fail(d) => failed'[d] = failed[d] \union {Stage[pc[d]]}
         /\ ~ Fail(d) => failed'[d] = failed[d]
<1>1. PICK q, c : Lands(d, q, c)
  BY HandlersMove
<1>2. Ways(d, q, c) \/ Skips(d, q, c)
  BY <1>1 DEF Lands, Ways
<1>3. Fail(d) => failed'[d] = failed[d] \union {Stage[pc[d]]}
  BY FailuresLead DEF Shape
<1>4. ~ Fail(d) => failed'[d] = failed[d]
  BY HandlersLead
<1>5. ASSUME pc'[d] = "count", Fail(d) PROVE FALSE
  <2>1. PICK a, b : Moved(d, a, b) /\ (Stops(d, a, b) \/ Skips(d, a, b))
    BY <1>5, FailuresLead
  <2>2. a = "count"
    BY <1>5, <2>1 DEF Moved, Goto, Shape
  <2>3. Skips(d, a, b) /\ a = Onward(d, pc[d], b) /\ pc[d] \in DOMAIN Stage
    BY <2>1, <2>2 DEF Stops, Skips
  <2>. QED
    BY <2>2, <2>3, OnwardLeads DEF Entrances
<1>6. pc'[d] = q
  BY <1>1 DEF Lands
<1>7. "count" \in DOMAIN Stage
  BY PlacesAre
<1>. QED
  BY <1>2, <1>3, <1>4, <1>5, <1>6, <1>7, StagesAreInOrder

\* Only three handlers write warnings, ranks and sanctions.
LEMMA OnlyThreePunish ==
  ASSUME NEW d \in Deliveries, Handle(d), ~ Warn(d), ~ Judge(d), ~ PunishSpam(d)
  PROVE  /\ UNCHANGED <<warnings, rank, sanction>>
         /\ pc[d] \in {"moderation", "count"} => Fail(d)
BY DEF Handle, Dedupe, ResolveUser, ResolveGroup, CheckBlacklist, Automate, RateLimit, RateExpire,
       Expires, Media, RecordEscalation, CheckRaid, CheckFlood, FloodExpire, CheckDuplicate,
       DuplicateExpire, CountsAgainstSpam, AiModerate, ResolveConversation,
       MemoryCommand, Ask, Respond, Fail, quiet, redis, history

\* At the start nobody is ranked.
LEMMA SanctionInit == Init => SanctionInv
<1>. SUFFICES ASSUME Init PROVE SanctionInv
  OBVIOUS
<1>1. warnings \in [Users \X Groups -> Nat]
  <2>1. MuteAt - 1 \in Nat
    BY PipelineAssumption
  <2>. QED
    BY <2>1 DEF Init
<1>2. \A d \in Deliveries : pc[d] = "new" /\ rank[d] = 0 /\ sanction[d] = 0
  BY DEF Init
<1>. QED
  BY <1>1, <1>2, CourseInit DEF SanctionInv, Judged

\* A warning is written where its delivery is a member of a group.
LEMMA WarningsAreKept ==
  ASSUME CourseInv, warnings \in [Users \X Groups -> Nat], NEW d \in Deliveries,
         pc[d] \in {"moderation", "spam", "count"}
  PROVE  WarnedIn(d) \in Users \X Groups /\ Moderated(ctx[d])
<1>1. /\ Shape /\ Course(Msg(d), pc[d], ctx[d], failed[d]) /\ pc[d] # "new"
  BY DEF CourseInv
<1>2. Moderated(ctx[d]) /\ ctx[d].group
  BY <1>1 DEF Course, Entered, AntiSpam, Moderated
<1>3. InGroup(d)
  BY <1>1, <1>2, KnownContext
<1>4. update[d] \in UpdateIds /\ Msg(d) \in Messages
  BY <1>1 DEF Shape, Msg
<1>5. Msg(d).user \in Users /\ Msg(d).chat \in Chats
  BY <1>4, PipelineAssumption
<1>. QED
  BY <1>2, <1>3, <1>5 DEF WarnedIn, InGroup, Chats

\* A delivery that is left alone stays judged, since warnings are never taken back.
LEMMA OthersStayJudged ==
  ASSUME SanctionInv, NEW d \in Deliveries, Apart(d), UNCHANGED message,
         NEW e \in Deliveries, e # d, warnings'[WarnedIn(e)] >= warnings[WarnedIn(e)],
         pc[e] = "count" => warnings[WarnedIn(e)] \in Nat /\ warnings'[WarnedIn(e)] \in Nat
  PROVE  Judged(e)'
<1>1. /\ Judged(e) /\ pc'[e] = pc[e] /\ rank'[e] = rank[e] /\ sanction'[e] = sanction[e]
      /\ failed'[e] = failed[e] /\ Msg(e)' = Msg(e) /\ WarnedIn(e)' = WarnedIn(e)
  BY DEF SanctionInv, Apart, Msg, WarnedIn
<1>2. ASSUME pc[e] = "count" PROVE rank[e] <= warnings'[WarnedIn(e)]
  BY <1>1, <1>2 DEF Judged
<1>. QED
  BY <1>1, <1>2 DEF Judged

\* A handler keeps the judgements.
LEMMA SanctionHandled ==
  ASSUME SanctionInv, NEW d \in Deliveries, Handle(d)
  PROVE  SanctionInv'
<1>1. CourseInv' /\ Shape
  BY CourseHandled DEF SanctionInv, CourseInv
<1>2. /\ Shape' /\ Apart(d) /\ UNCHANGED <<now, message, update, panel>>
      /\ pc[d] \in DOMAIN Stage /\ pc'[d] \notin {"new", "dedupe"}
  BY <1>1, HandlersMove
<1>3. /\ Judged(d) /\ pc[d] # "new" /\ pc[d] # "lost"
      /\ rank = [e \in Deliveries |-> rank[e]] /\ sanction = [e \in Deliveries |-> sanction[e]]
      /\ warnings \in [Users \X Groups -> Nat]
  BY <1>1, <1>2, PlacesAre DEF SanctionInv, Shape, Ends
<1>4. Msg(d)' = Msg(d) /\ WarnedIn(d)' = WarnedIn(d)
  BY <1>2 DEF Msg, WarnedIn
<1>5. Course(Msg(d), pc[d], ctx[d], failed[d])
  BY DEF SanctionInv, CourseInv
<1>6. \A e \in Deliveries : pc[e] = "count" => WarnedIn(e) \in Users \X Groups
  BY <1>3, WarningsAreKept DEF SanctionInv
<1>7. CASE Warn(d) \/ PunishSpam(d)
  <2>1. pc[d] \in {"moderation", "spam"} /\ Warned(d) /\ Ranked(d) /\ UNCHANGED <<sanction, failed>>
    BY <1>7 DEF Warn, PunishSpam
  <2>2. WarnedIn(d) \in Users \X Groups /\ Moderated(ctx[d])
    BY <1>3, <2>1, WarningsAreKept DEF SanctionInv
  <2>3. PICK n \in Nat : n = warnings[WarnedIn(d)]
    BY <1>3, <2>2
  <2>4. /\ warnings' \in [Users \X Groups -> Nat] /\ warnings'[WarnedIn(d)] = n + 1
        /\ \A k \in Users \X Groups : warnings'[k] >= warnings[k]
    BY <1>3, <2>1, <2>2, <2>3 DEF Warned
  <2>5. rank'[d] = n + 1
    BY <1>3, <2>1, <2>3 DEF Ranked
  <2>6. pc'[d] = (IF Warn(d) THEN "count" ELSE "done") /\ (~ Warn(d) => pc[d] = "spam")
    BY <1>1, <1>7 DEF Warn, PunishSpam, Goto, Shape
  <2>7. Judged(d)'
    <3>1. CASE Warn(d)
      BY <1>3, <1>4, <2>1, <2>3, <2>4, <2>5, <2>6, <3>1, PlacesAre DEF Judged, Unwarned
    <3>2. CASE ~ Warn(d)
      <4>1. ~ (Msg(d).kind = "profane" /\ "moderation" \notin failed[d])
        BY <1>5, <2>2, <2>6, <3>2, PlacesAre DEF Course, Passed, Past
      <4>2. ~ Unwarned(pc'[d])
        BY <2>6, <3>2, PlacesAre DEF Unwarned
      <4>. QED
        BY <1>3, <1>4, <2>1, <2>3, <2>5, <2>6, <3>2, <4>1, <4>2 DEF Judged
    <3>. QED
      BY <3>1, <3>2
  <2>8. ASSUME NEW e \in Deliveries, e # d PROVE Judged(e)'
    <3>1. CASE pc[e] = "count"
      BY <1>2, <1>3, <1>6, <2>4, <2>8, <3>1, OthersStayJudged
    <3>2. CASE pc[e] # "count"
      BY <1>2, <2>8, <3>2 DEF Judged, SanctionInv, Apart, Msg
    <3>. QED
      BY <3>1, <3>2
  <2>. QED
    BY <1>1, <2>4, <2>7, <2>8 DEF SanctionInv
<1>8. CASE ~ Warn(d) /\ ~ PunishSpam(d)
  <2>1. UNCHANGED <<warnings, rank>>
    BY <1>8, OnlyThreePunish DEF Judge
  <2>2. ASSUME NEW e \in Deliveries, e # d PROVE Judged(e)'
    BY <1>2, <2>1, <2>2 DEF Judged, SanctionInv, Apart, Msg, WarnedIn
  <2>3. Unwarned(pc'[d]) => rank[d] = 0
    <3>1. pc'[d] \in DOMAIN Stage =>
              At(pc'[d]) >= At(pc[d]) /\ (pc'[d] = "moderation" => At(pc[d]) < 6)
      BY <1>1, HandlersKeepTheOrder
    <3>2. Unwarned(pc'[d]) => Unwarned(pc[d])
      <4>1. /\ "moderation" \in DOMAIN Stage
            /\ \A p \in DOMAIN Stage : At(p) \in 1 .. 13
        BY PlacesAre, AtType
      <4>. QED
        BY <1>2, <3>1, <4>1 DEF Unwarned
    <3>. QED
      BY <1>3, <3>2 DEF Judged
  <2>4. pc'[d] # "count"
    BY <1>1, <1>8, HandlersKeepTheOrder, OnlyThreePunish DEF Judge
  <2>5. CASE Judge(d)
    <3>1. WarnedIn(d) \in Users \X Groups /\ pc[d] = "count"
      BY <1>3, <2>5, WarningsAreKept DEF SanctionInv, Judge
    <3>2. PICK n \in Nat : n = warnings[WarnedIn(d)]
      BY <1>3, <3>1
    <3>3. sanction'[d] = Rung(n) /\ UNCHANGED failed
      BY <1>3, <2>5, <3>2 DEF Judge
    <3>4. rank[d] \in Nat /\ rank[d] <= n
      BY <1>3, <3>1, <3>2 DEF Judged
    <3>5. Rung(rank[d]) <= Rung(n) /\ Rung(n) \in 0 .. 3 /\ Rung(rank[d]) \in 0 .. 3
      BY <3>4, RungRises
    <3>6. Judged(d)'
      BY <1>4, <2>1, <2>3, <2>4, <3>3, <3>4, <3>5 DEF Judged
    <3>. QED
      BY <1>1, <1>3, <2>1, <2>2, <3>6 DEF SanctionInv
  <2>6. CASE ~ Judge(d)
    <3>1. UNCHANGED sanction /\ (pc[d] \in {"moderation", "count"} => Fail(d))
      BY <1>8, <2>6, OnlyThreePunish
    <3>2. /\ failed[d] \subseteq failed'[d]
          /\ pc[d] = "count" => "moderation" \in failed'[d]
      <4>1. CASE Fail(d)
        <5>1. failed'[d] = failed[d] \union {Stage[pc[d]]}
          BY <1>1, <4>1, HandlersKeepTheOrder
        <5>. QED
          BY <5>1 DEF Stage
      <4>2. CASE ~ Fail(d)
        BY <1>1, <3>1, <4>2, HandlersKeepTheOrder
      <4>. QED
        BY <4>1, <4>2
    <3>3. Judged(d)'
      BY <1>3, <1>4, <2>1, <2>3, <2>4, <3>1, <3>2 DEF Judged
    <3>. QED
      BY <1>1, <1>3, <2>1, <2>2, <3>3 DEF SanctionInv
  <2>. QED
    BY <2>5, <2>6
<1>. QED
  BY <1>7, <1>8

\* Every step keeps the judgements.
LEMMA SanctionNext == SanctionInv /\ [Next]_vars => SanctionInv'
<1>. SUFFICES ASSUME SanctionInv, [Next]_vars PROVE SanctionInv'
  OBVIOUS
<1>1. CourseInv' /\ Shape
  BY CourseNext DEF SanctionInv, CourseInv
<1>2. ASSUME NEW d \in Deliveries, Arrive(d) PROVE SanctionInv'
  <2>1. /\ Apart(d) /\ pc[d] = "new" /\ pc'[d] \in {"dedupe", "done"}
        /\ UNCHANGED <<message, warnings, rank, sanction>>
    BY <1>1, <1>2, ArrivalsMove DEF history
  <2>2. ASSUME NEW e \in Deliveries, e # d PROVE Judged(e)'
    BY <2>1, <2>2 DEF Judged, SanctionInv, Apart, Msg, WarnedIn
  <2>3. rank[d] = 0 /\ sanction[d] \in 0 .. 3
    BY <2>1 DEF SanctionInv, Judged, Unwarned
  <2>4. Rung(0) = 0
    BY RungRises
  <2>5. Judged(d)'
    BY <2>1, <2>3, <2>4 DEF Judged
  <2>. QED
    BY <1>1, <2>1, <2>2, <2>5 DEF SanctionInv
<1>3. CASE Around
  <2>1. /\ UNCHANGED <<message, update, warnings, rank, sanction, failed>>
        /\ \A e \in Deliveries : pc'[e] = pc[e] \/ (pc[e] \in DOMAIN Stage /\ pc'[e] = "lost")
    BY <1>1, <1>3, AroundMoves DEF history
  <2>2. ~ Unwarned("lost")
    BY PlacesAre DEF Unwarned
  <2>3. ASSUME NEW e \in Deliveries PROVE Judged(e)'
    <3>1. Judged(e) /\ Msg(e)' = Msg(e) /\ WarnedIn(e)' = WarnedIn(e)
      BY <2>1 DEF SanctionInv, Msg, WarnedIn
    <3>. QED
      BY <2>1, <2>2, <3>1 DEF Judged
  <2>. QED
    BY <1>1, <2>1, <2>3 DEF SanctionInv
<1>4. CASE UNCHANGED vars
  BY <1>1, <1>4 DEF SanctionInv, Judged, Msg, WarnedIn, vars, history
<1>. QED
  BY <1>2, <1>3, <1>4, SanctionHandled, StepsAre

\* Offences handled at the same time do not hide each other: the sanction is
\* the one that the number of warnings asks for, or a harder one.
THEOREM SanctionsAreHardEnough == Spec => []NoMilderSanction
<1>1. SanctionInv => NoMilderSanction
  BY DEF SanctionInv, Judged, NoMilderSanction
<1>. QED
  BY <1>1, SanctionInit, SanctionNext, PTL DEF Spec

-----------------------------------------------------------------------------
(* The counters.                                                            *)

Keys == Counted \X Users \X Chats

CounterOf(n, t) == [count |-> n, expires |-> t]

IsCounter(c) == c = CounterOf(c.count, c.expires) /\ c.count \in Nat /\ c.expires \in Nat

CountersTyped == counter \in [Keys -> {CounterOf(n, t) : n \in Nat, t \in Nat}]

\* Where the EXPIRE of a counter is sent.
ExpirePlace == [rate |-> "rateExpire", flood |-> "floodExpire", duplicate |-> "duplicateExpire"]

\* What the fields of a counter are read back as.
LEMMA CounterFields ==
  \A n, t : CounterOf(n, t).count = n /\ CounterOf(n, t).expires = t
BY DEF CounterOf

\* INCR counts on while the key lives, and begins a new one without a time to
\* live when it does not.
LEMMA IncrCounts ==
  ASSUME NEW n \in Nat, NEW t \in Nat, NEW at \in Nat
  PROVE  /\ Live(CounterOf(n, t), at) <=> n > 0 /\ (t = 0 \/ at < t)
         /\ AfterIncr(CounterOf(n, t), at) =
              IF Live(CounterOf(n, t), at) THEN CounterOf(n + 1, t) ELSE CounterOf(1, 0)
BY DEF AfterIncr, CounterOf, Live

\* EXPIRE gives a key that lives a time to live.
LEMMA ExpireEnds ==
  ASSUME NEW n \in Nat, NEW t \in Nat, NEW at \in Nat, NEW w \in Nat
  PROVE  AfterExpire(CounterOf(n, t), at, w) =
           IF Live(CounterOf(n, t), at) THEN CounterOf(n, at + w) ELSE CounterOf(n, t)
BY DEF AfterExpire, CounterOf

\* The key of a delivery is the key of a counter.
LEMMA KeysAreCounters ==
  ASSUME Shape, NEW d \in Deliveries, pc[d] # "new", NEW kind \in Counted
  PROVE  Key(d, kind) \in Keys /\ Key(d, kind)[1] = kind
<1>1. Msg(d) \in Messages
  BY DEF Shape, Msg
<1>2. Msg(d).user \in Users /\ Msg(d).chat \in Chats /\ Private \in Chats
  BY <1>1, PipelineAssumption DEF Chats
<1>. QED
  BY <1>2 DEF Key, Keys

\* A handler counts, gives a counter its time to live, or leaves them alone.
CountingStep(d, kind) ==
  /\ pc[d] = kind /\ Incr(d, kind)
  /\ \/ /\ ~ Over(d, kind) /\ Admit(d, kind)
        /\ Incremented(d, kind).count = 1 => pc'[d] = ExpirePlace[kind]
     \/ Over(d, kind) /\ UNCHANGED admitted

ExpiringStep(d, kind) ==
  /\ pc[d] = ExpirePlace[kind] /\ UNCHANGED admitted
  /\ counter' = [counter EXCEPT ![Key(d, kind)] =
                   AfterExpire(counter[Key(d, kind)], now, Window[kind])]

\* The counters are touched by three handlers, and given their time to live by three.
LEMMA HandlersCount ==
  ASSUME Shape, CountersTyped, NEW d \in Deliveries, Handle(d)
  PROVE  \/ UNCHANGED <<counter, admitted>> /\ (pc[d] \in {"rateExpire", "floodExpire", "duplicateExpire"} => Fail(d))
         \/ \E kind \in Counted : ~ Fail(d) /\ (CountingStep(d, kind) \/ ExpiringStep(d, kind))
<1>1. ASSUME NEW kind \in Counted, NEW place \in {"rateExpire", "floodExpire", "duplicateExpire"}, NEW next,
             pc[d] = kind, ExpirePlace[kind] = place, Counts(d, kind, place, next)
      PROVE  CountingStep(d, kind)
  BY <1>1 DEF Counts, CountingStep, Goto, Shape
<1>2. ASSUME NEW kind \in Counted, pc[d] = kind, Incr(d, kind), Over(d, kind), UNCHANGED admitted
      PROVE  CountingStep(d, kind)
  BY <1>2 DEF CountingStep
<1>3. ASSUME NEW kind \in Counted, NEW next, pc[d] = ExpirePlace[kind], Expires(d, kind, next)
      PROVE  ExpiringStep(d, kind)
  BY <1>3 DEF Expires, ExpiringStep, history
<1>4. /\ ExpirePlace["rate"] = "rateExpire" /\ ExpirePlace["flood"] = "floodExpire"
      /\ ExpirePlace["duplicate"] = "duplicateExpire"
      /\ "rate" \in Counted /\ "flood" \in Counted /\ "duplicate" \in Counted
  BY DEF ExpirePlace, Counted
<1>5. CASE RateLimit(d)
  <2>1. CountingStep(d, "rate")
    BY <1>1, <1>2, <1>4, <1>5 DEF RateLimit
  <2>2. CASE Fail(d)
    BY <1>5, <2>2 DEF RateLimit, Fail, redis
  <2>. QED
    BY <1>4, <2>1, <2>2
<1>6. CASE CheckFlood(d)
  <2>1. CountingStep(d, "flood")
    BY <1>1, <1>2, <1>4, <1>6 DEF CheckFlood, CountsAgainstSpam
  <2>2. CASE Fail(d)
    BY <1>6, <2>2 DEF CheckFlood, Fail, redis
  <2>. QED
    BY <1>4, <2>1, <2>2
<1>7. CASE CheckDuplicate(d)
  <2>1. CountingStep(d, "duplicate")
    BY <1>1, <1>2, <1>4, <1>7 DEF CheckDuplicate, CountsAgainstSpam
  <2>2. CASE Fail(d)
    BY <1>7, <2>2 DEF CheckDuplicate, Fail, redis
  <2>. QED
    BY <1>4, <2>1, <2>2
<1>8. CASE RateExpire(d) \/ FloodExpire(d) \/ DuplicateExpire(d)
  <2>1. CASE Fail(d)
    BY <1>8, <2>1 DEF Fail, redis
  <2>. QED
    BY <1>3, <1>4, <1>8, <2>1 DEF RateExpire, FloodExpire, DuplicateExpire
<1>9. CASE /\ ~ RateLimit(d) /\ ~ CheckFlood(d) /\ ~ CheckDuplicate(d)
           /\ ~ RateExpire(d) /\ ~ FloodExpire(d) /\ ~ DuplicateExpire(d)
  BY <1>9
     DEF Handle, Dedupe, ResolveUser, ResolveGroup, CheckBlacklist, Automate, Media, Warn, Judge,
         RecordEscalation, CheckRaid, PunishSpam, AiModerate, ResolveConversation,
         MemoryCommand, Ask, Respond, Fail, quiet, redis, history
<1>. QED
  BY <1>5, <1>6, <1>7, <1>8, <1>9

\* A delivery that owes a counter its time to live, or has lost it.
Owes(d, k) ==
  /\ update[d] # None /\ Key(d, k[1]) = k
  /\ \/ pc[d] = ExpirePlace[k[1]]
     \/ pc[d] = "lost"
     \/ failed[d] \intersect {"rate", "raid"} # {}

ExpireInv ==
  /\ CourseInv /\ CountersTyped
  /\ \A k \in Keys : counter[k].count > 0 /\ counter[k].expires = 0 => \E d \in Deliveries : Owes(d, k)

\* At the start there are no counters.
LEMMA CountersInit == Init => CountersTyped /\ (\A k \in Keys : counter[k] = CounterOf(0, 0)) /\ admitted = {}
<1>. SUFFICES ASSUME Init PROVE CountersTyped /\ (\A k \in Keys : counter[k] = CounterOf(0, 0)) /\ admitted = {}
  OBVIOUS
<1>1. counter = [k \in Keys |-> CounterOf(0, 0)] /\ admitted = {}
  BY DEF Init, Keys, NoKey, CounterOf
<1>2. CounterOf(0, 0) \in {CounterOf(n, t) : n \in Nat, t \in Nat}
  OBVIOUS
<1>3. PICK zero : zero = CounterOf(0, 0)
  OBVIOUS
<1>. QED
  BY <1>1, <1>2, <1>3 DEF CountersTyped

\* Once its group is known, a delivery counts under the same keys.
LEMMA KeyStays ==
  ASSUME CourseInv, NEW d \in Deliveries, Handle(d), pc[d] # "group", NEW kind
  PROVE  Key(d, kind)' = Key(d, kind)
<1>1. PICK q, c : Lands(d, q, c)
  BY HandlersMove DEF CourseInv
<1>2. UNCHANGED <<message, update>> /\ ctx'[d] = c
  BY <1>1, HandlersMove DEF CourseInv, Lands
<1>3. c.group = ctx[d].group
  <2>1. CASE Stops(d, q, c)
    BY <2>1 DEF Stops
  <2>2. CASE Finds(d, q, c)
    <3>1. PICK yes, w, z :
            /\ yes = TRUE /\ w = (panel.status[Msg(d).user] = "shadow_ignored")
            /\ z = (ctx[d].shadow \/ panel.listing[Msg(d).user] = "shadow")
      OBVIOUS
    <3>2. \/ c = ctx[d]
          \/ c = Ctx(yes, ctx[d].group, ctx[d].settings, w, ctx[d].text, ctx[d].result)
          \/ c = Ctx(ctx[d].user, ctx[d].group, ctx[d].settings, z, ctx[d].text, ctx[d].result)
      BY <2>2, <3>1 DEF Finds
    <3>. QED
      BY <3>2, CtxFields
  <2>3. CASE GoesOn(d, q, c)
    BY <2>3, CtxFields DEF GoesOn
  <2>4. CASE Skips(d, q, c)
    BY <2>4 DEF Skips
  <2>. QED
    BY <1>1, <2>1, <2>2, <2>3, <2>4 DEF Lands, Ways
<1>. QED
  BY <1>2, <1>3 DEF Key, Msg

\* A counter step changes one counter.
LEMMA OneCounter ==
  ASSUME CountersTyped, NEW k \in Keys, NEW n \in Nat, NEW t \in Nat,
         counter' = [counter EXCEPT ![k] = CounterOf(n, t)]
  PROVE  /\ CountersTyped' /\ counter'[k] = CounterOf(n, t)
         /\ \A j \in Keys : j # k => counter'[j] = counter[j]
BY DEF CountersTyped

\* Who owes a counter its time to live goes on owing it, until it is paid.
LEMMA DebtsStay ==
  ASSUME CourseInv, NEW d \in Deliveries, Handle(d), NEW k \in Keys, NEW e \in Deliveries,
         Owes(e, k), e = d /\ pc[d] = ExpirePlace[k[1]] => Fail(d)
  PROVE  Owes(e, k)'
<1>1. /\ Shape /\ Apart(d) /\ UNCHANGED <<message, update>> /\ pc[d] \in DOMAIN Stage
  BY HandlersMove DEF CourseInv
<1>2. CASE e # d
  BY <1>1, <1>2 DEF Owes, Apart, Key, Msg
<1>3. CASE e = d
  <2>1. pc[d] # "lost"
    BY <1>1, PlacesAre
  <2>2. pc[d] = ExpirePlace[k[1]] => pc[d] \in {"rateExpire", "floodExpire", "duplicateExpire"}
    BY DEF Keys, Counted, ExpirePlace
  <2>3. pc[d] # "group"
    <3>1. Course(Msg(d), pc[d], ctx[d], failed[d])
      BY DEF CourseInv
    <3>. QED
      BY <1>3, <2>1, <2>2, <3>1 DEF Owes, Course, Passed, Resolving
  <2>4. Key(d, k[1])' = Key(d, k[1])
    BY <2>3, KeyStays
  <2>5. failed'[d] \intersect {"rate", "raid"} # {}
    <3>1. Fail(d) => failed'[d] = failed[d] \union {Stage[pc[d]]}
      BY <1>1, HandlersKeepTheOrder
    <3>2. ~ Fail(d) => failed'[d] = failed[d]
      BY <1>1, HandlersKeepTheOrder
    <3>3. CASE pc[d] = ExpirePlace[k[1]]
      BY <1>3, <2>2, <3>1, <3>3 DEF Stage
    <3>4. CASE pc[d] # ExpirePlace[k[1]]
      BY <1>3, <2>1, <3>1, <3>2, <3>4 DEF Owes
    <3>. QED
      BY <3>3, <3>4
  <2>. QED
    BY <1>1, <1>3, <2>4, <2>5 DEF Owes
<1>. QED
  BY <1>2, <1>3

\* A handler pays, or leaves a debt.
LEMMA ExpireHandled ==
  ASSUME ExpireInv, NEW d \in Deliveries, Handle(d)
  PROVE  ExpireInv'
<1>1. CourseInv' /\ Shape /\ CourseInv /\ CountersTyped
  BY CourseHandled DEF ExpireInv, CourseInv
<1>2. /\ UNCHANGED <<message, update, now>> /\ pc[d] \in DOMAIN Stage /\ pc[d] # "new"
      /\ update[d] # None /\ now \in Nat
  BY <1>1, HandlersMove, PlacesAre DEF Shape
<1>3. \A kind \in Counted : ExpirePlace[kind] \in {"rateExpire", "floodExpire", "duplicateExpire"}
  BY DEF ExpirePlace, Counted
<1>4. CASE UNCHANGED <<counter, admitted>> /\ (pc[d] \in {"rateExpire", "floodExpire", "duplicateExpire"} => Fail(d))
  <2>1. ASSUME NEW k \in Keys, counter'[k].count > 0, counter'[k].expires = 0
        PROVE  \E e \in Deliveries : Owes(e, k)'
    <3>1. PICK e \in Deliveries : Owes(e, k)
      BY <1>4, <2>1 DEF ExpireInv
    <3>2. pc[d] = ExpirePlace[k[1]] => Fail(d)
      BY <1>3, <1>4 DEF Keys
    <3>. QED
      BY <1>1, <3>1, <3>2, DebtsStay
  <2>. QED
    BY <1>1, <1>4, <2>1 DEF ExpireInv, CountersTyped
<1>5. ASSUME NEW kind \in Counted, CountingStep(d, kind) PROVE ExpireInv'
  <2>. DEFINE j == Key(d, kind)
  <2>1. j \in Keys /\ j[1] = kind
    BY <1>1, <1>2, KeysAreCounters
  <2>2. PICK n \in Nat, t \in Nat : counter[j] = CounterOf(n, t)
    BY <1>1, <2>1 DEF CountersTyped
  <2>3. PICK m \in Nat, u \in Nat :
          /\ Incremented(d, kind) = CounterOf(m, u)
          /\ IF n > 0 /\ (t = 0 \/ now < t) THEN m = n + 1 /\ u = t ELSE m = 1 /\ u = 0
    <3>1. /\ Live(CounterOf(n, t), now) <=> n > 0 /\ (t = 0 \/ now < t)
          /\ AfterIncr(CounterOf(n, t), now) =
               IF Live(CounterOf(n, t), now) THEN CounterOf(n + 1, t) ELSE CounterOf(1, 0)
      BY <1>2, IncrCounts
    <3>2. Incremented(d, kind) = AfterIncr(CounterOf(n, t), now)
      BY <2>2 DEF Incremented
    <3>. QED
      BY <3>1, <3>2
  <2>4. counter' = [counter EXCEPT ![j] = CounterOf(m, u)]
    BY <1>5, <2>3 DEF CountingStep, Incr
  <2>5. /\ CountersTyped' /\ counter'[j] = CounterOf(m, u)
        /\ \A k \in Keys : k # j => counter'[k] = counter[k]
    BY <1>1, <2>1, <2>4, OneCounter
  <2>6. pc[d] \notin {"rateExpire", "floodExpire", "duplicateExpire", "group"}
    BY <1>5 DEF CountingStep, Counted
  <2>7. ASSUME NEW k \in Keys, counter'[k].count > 0, counter'[k].expires = 0
        PROVE  \E e \in Deliveries : Owes(e, k)'
    <3>1. CASE counter[k].count > 0 /\ counter[k].expires = 0
      <4>1. PICK e \in Deliveries : Owes(e, k)
        BY <3>1 DEF ExpireInv
      <4>2. pc[d] # ExpirePlace[k[1]]
        BY <1>3, <2>6 DEF Keys
      <4>. QED
        BY <1>1, <4>1, <4>2, DebtsStay
    <3>2. CASE ~ (counter[k].count > 0 /\ counter[k].expires = 0)
      <4>1. k = j
        BY <2>5, <2>7, <3>2
      <4>2. m = 1
        BY <2>2, <2>3, <2>5, <2>7, <3>2, <4>1, CounterFields
      <4>3. Incremented(d, kind).count = 1
        BY <2>3, <4>2, CounterFields
      <4>4. ~ Over(d, kind)
        BY <4>3, PipelineAssumption DEF Over, Exceeds
      <4>5. pc'[d] = ExpirePlace[kind]
        BY <1>5, <4>3, <4>4 DEF CountingStep
      <4>6. Key(d, kind)' = j
        BY <1>1, <2>6, KeyStays
      <4>7. Owes(d, k)'
        BY <1>2, <2>1, <4>1, <4>5, <4>6 DEF Owes
      <4>. QED
        BY <4>7
    <3>. QED
      BY <3>1, <3>2
  <2>. QED
    BY <1>1, <2>5, <2>7 DEF ExpireInv
<1>6. ASSUME NEW kind \in Counted, ExpiringStep(d, kind), ~ Fail(d) PROVE ExpireInv'
  <2>. DEFINE j == Key(d, kind)
  <2>1. j \in Keys /\ j[1] = kind
    BY <1>1, <1>2, KeysAreCounters
  <2>2. PICK n \in Nat, t \in Nat : counter[j] = CounterOf(n, t)
    BY <1>1, <2>1 DEF CountersTyped
  <2>3. PICK u \in Nat :
          /\ AfterExpire(counter[j], now, Window[kind]) = CounterOf(n, u)
          /\ n > 0 => u > 0
    <3>1. Window[kind] \in Nat /\ Window[kind] > 0
      BY PipelineAssumption
    <3>2. AfterExpire(CounterOf(n, t), now, Window[kind]) =
            IF Live(CounterOf(n, t), now) THEN CounterOf(n, now + Window[kind]) ELSE CounterOf(n, t)
      BY <1>2, <3>1, ExpireEnds
    <3>3. Live(CounterOf(n, t), now) <=> n > 0 /\ (t = 0 \/ now < t)
      BY <1>2, IncrCounts
    <3>. QED
      BY <1>2, <2>2, <3>1, <3>2, <3>3
  <2>4. counter' = [counter EXCEPT ![j] = CounterOf(n, u)]
    BY <1>6, <2>3 DEF ExpiringStep
  <2>5. /\ CountersTyped' /\ counter'[j] = CounterOf(n, u)
        /\ \A k \in Keys : k # j => counter'[k] = counter[k]
    BY <1>1, <2>1, <2>4, OneCounter
  <2>6. ASSUME NEW k \in Keys, counter'[k].count > 0, counter'[k].expires = 0
        PROVE  \E e \in Deliveries : Owes(e, k)'
    <3>1. k # j
      BY <2>3, <2>5, <2>6, CounterFields
    <3>2. PICK e \in Deliveries : Owes(e, k)
      BY <2>5, <2>6, <3>1 DEF ExpireInv
    <3>3. ~ (e = d /\ pc[d] = ExpirePlace[k[1]])
      <4>1. SUFFICES ASSUME e = d, pc[d] = ExpirePlace[k[1]] PROVE FALSE
        OBVIOUS
      <4>2. k[1] \in Counted /\ ExpirePlace[k[1]] = ExpirePlace[kind]
        BY <1>6, <4>1 DEF ExpiringStep, Keys
      <4>3. k[1] = kind
        BY <4>2 DEF ExpirePlace, Counted
      <4>. QED
        BY <3>1, <3>2, <4>1, <4>3 DEF Owes
    <3>. QED
      BY <1>1, <3>2, <3>3, DebtsStay
  <2>. QED
    BY <1>1, <2>5, <2>6 DEF ExpireInv
<1>. QED
  BY <1>1, <1>4, <1>5, <1>6, HandlersCount

\* Every step leaves somebody who owes, where a counter has no time to live.
LEMMA ExpireNext == ExpireInv /\ [Next]_vars => ExpireInv'
<1>. SUFFICES ASSUME ExpireInv, [Next]_vars PROVE ExpireInv'
  OBVIOUS
<1>1. CourseInv' /\ Shape /\ CourseInv /\ CountersTyped
  BY CourseNext DEF ExpireInv, CourseInv
<1>2. ASSUME UNCHANGED counter, \A k \in Keys : \A e \in Deliveries : Owes(e, k) => Owes(e, k)'
      PROVE  ExpireInv'
  BY <1>1, <1>2 DEF ExpireInv, CountersTyped
<1>3. ASSUME NEW d \in Deliveries, Arrive(d) PROVE ExpireInv'
  <2>1. Apart(d) /\ pc[d] = "new" /\ UNCHANGED <<message, counter, failed>>
    BY <1>1, <1>3, ArrivalsMove DEF redis, history
  <2>2. update[d] = None
    BY <1>1, <2>1 DEF Shape
  <2>3. ASSUME NEW k \in Keys, NEW e \in Deliveries, Owes(e, k) PROVE Owes(e, k)'
    BY <2>1, <2>2, <2>3 DEF Owes, Apart, Key, Msg
  <2>. QED
    BY <1>2, <2>1, <2>3
<1>4. CASE Around
  <2>1. /\ UNCHANGED <<message, update, ctx, failed, counter>>
        /\ \A e \in Deliveries : pc'[e] = pc[e] \/ pc'[e] = "lost"
    BY <1>1, <1>4, AroundMoves DEF history
  <2>2. ASSUME NEW k \in Keys, NEW e \in Deliveries, Owes(e, k) PROVE Owes(e, k)'
    BY <2>1, <2>2 DEF Owes, Key, Msg
  <2>. QED
    BY <1>2, <2>1, <2>2
<1>5. CASE UNCHANGED vars
  <2>1. UNCHANGED <<message, update, ctx, failed, counter, pc>>
    BY <1>5 DEF vars, redis, history
  <2>2. ASSUME NEW k \in Keys, NEW e \in Deliveries, Owes(e, k) PROVE Owes(e, k)'
    BY <2>1, <2>2 DEF Owes, Key, Msg
  <2>. QED
    BY <1>2, <2>1, <2>2
<1>. QED
  BY <1>3, <1>4, <1>5, ExpireHandled, StepsAre

\* A counter without a time to live is one whose EXPIRE is still to come, or
\* was lost with its delivery.
THEOREM CountersAreGivenATerm == Spec => []CountersExpire
<1>1. Init => ExpireInv
  BY CourseInit, CountersInit, CounterFields DEF ExpireInv
<1>2. ExpireInv => CountersExpire
  <2>1. SUFFICES ASSUME ExpireInv, NEW k \in DOMAIN counter,
                        counter[k].count > 0, counter[k].expires = 0
                 PROVE  \E d \in Deliveries :
                          /\ update[d] # None /\ Key(d, k[1]) = k
                          /\ \/ pc[d] \in {"rateExpire", "floodExpire", "duplicateExpire", "lost"}
                             \/ failed[d] \intersect {"rate", "raid"} # {}
    BY DEF CountersExpire
  <2>2. k \in Keys
    BY <2>1 DEF ExpireInv, CountersTyped
  <2>3. PICK d \in Deliveries : Owes(d, k)
    BY <2>1, <2>2 DEF ExpireInv
  <2>4. ExpirePlace[k[1]] \in {"rateExpire", "floodExpire", "duplicateExpire"}
    BY <2>2 DEF Keys, Counted, ExpirePlace
  <2>. QED
    BY <2>3, <2>4 DEF Owes
<1>. QED
  BY <1>1, <1>2, ExpireNext, PTL DEF Spec

-----------------------------------------------------------------------------
(* The windows of a counter.                                                *)

\* Of a set of admissions, those from a time on, and those of a stretch of
\* time that ends before another time.
From(A, s) == {a \in A : a.at >= s}
Stretch(A, t, w, s) == {a \in A : t <= a.at /\ a.at < t + w /\ a.at < s}

\* A window of w ticks began at s, and lets max messages pass; all that was
\* let pass is in A, the counter has come to n and expires at x.
Windowed(A, n, x, s, w, max, time) ==
  /\ IsFiniteSet(A) /\ \A a \in A : a.at \in 0 .. time
  /\ s \in 0 .. time
  /\ n = 0 => A = {}
  /\ n > 0 /\ x # 0 => x >= s + w /\ \A a \in A : a.at < x
  /\ Cardinality(From(A, s)) <= max /\ Cardinality(From(A, s)) <= n
  /\ Cardinality(Stretch(A, s - w, w, s)) <= max
  /\ \A t \in Int : Cardinality(Stretch(A, t, w, s)) <= 2 * max

\* A part is no larger than the whole.
LEMMA PartsAreSmaller ==
  ASSUME NEW T, IsFiniteSet(T), NEW S, S \subseteq T
  PROVE  /\ IsFiniteSet(S) /\ Cardinality(S) \in Nat /\ Cardinality(T) \in Nat
         /\ Cardinality(S) <= Cardinality(T)
BY FS_Subset, FS_CardinalityType

\* Nor larger than the sum of its parts.
LEMMA PartsAddUp ==
  ASSUME NEW T, IsFiniteSet(T), NEW U, IsFiniteSet(U), NEW S, S \subseteq T \union U
  PROVE  /\ Cardinality(S) \in Nat /\ Cardinality(T) \in Nat /\ Cardinality(U) \in Nat
         /\ Cardinality(S) <= Cardinality(T) + Cardinality(U)
<1>1. /\ IsFiniteSet(T \union U)
      /\ Cardinality(T \union U) = Cardinality(T) + Cardinality(U) - Cardinality(T \cap U)
  BY FS_Union
<1>2. Cardinality(T) \in Nat /\ Cardinality(U) \in Nat
  BY FS_CardinalityType
<1>3. Cardinality(T \cap U) \in Nat
  BY PartsAreSmaller
<1>4. Cardinality(S) \in Nat /\ Cardinality(S) <= Cardinality(T \union U)
  BY <1>1, PartsAreSmaller
<1>. QED
  BY <1>1, <1>2, <1>3, <1>4

\* One more is at most one more.
LEMMA OneMore ==
  ASSUME NEW T, IsFiniteSet(T), NEW b, NEW S, S \subseteq T \union {b}
  PROVE  Cardinality(S) \in Nat /\ Cardinality(T) \in Nat /\ Cardinality(S) <= Cardinality(T) + 1
<1>1. IsFiniteSet({b}) /\ Cardinality({b}) = 1
  BY FS_Singleton
<1>. QED
  BY <1>1, PartsAddUp

\* Any stretch of time of the length of a window lies in two windows at most.
LEMMA TwoWindows ==
  ASSUME NEW A, NEW n, NEW x, NEW s, NEW w \in Nat \ {0}, NEW max \in Nat, NEW time \in Nat,
         Windowed(A, n, x, s, w, max, time), NEW t \in Int, NEW S,
         S \subseteq A, \A a \in S : t <= a.at /\ a.at < t + w
  PROVE  Cardinality(S) \in Nat /\ Cardinality(S) <= 2 * max
<1>1. /\ IsFiniteSet(A) /\ s \in Nat /\ \A a \in A : a.at \in Nat
      /\ Cardinality(From(A, s)) <= max
      /\ Cardinality(Stretch(A, s - w, w, s)) <= max
      /\ Cardinality(Stretch(A, t, w, s)) <= 2 * max
  BY DEF Windowed
<1>2. /\ IsFiniteSet(From(A, s)) /\ IsFiniteSet(Stretch(A, s - w, w, s))
      /\ IsFiniteSet(Stretch(A, t, w, s))
  <2>1. From(A, s) \subseteq A /\ Stretch(A, s - w, w, s) \subseteq A /\ Stretch(A, t, w, s) \subseteq A
    BY DEF From, Stretch
  <2>. QED
    BY <1>1, <2>1, PartsAreSmaller
<1>3. CASE t >= s - w
  <2>1. S \subseteq From(A, s) \union Stretch(A, s - w, w, s)
    BY <1>1, <1>3 DEF From, Stretch
  <2>. QED
    BY <1>1, <1>2, <2>1, PartsAddUp
<1>4. CASE t < s - w
  <2>1. S \subseteq Stretch(A, t, w, s)
    BY <1>1, <1>4 DEF Stretch
  <2>. QED
    BY <1>1, <1>2, <2>1, PartsAreSmaller
<1>. QED
  BY <1>1, <1>3, <1>4

\* While the key lives, another message belongs to its window.
LEMMA WindowCounts ==
  ASSUME NEW A, NEW n \in Nat, NEW x \in Nat, NEW s, NEW w \in Nat \ {0}, NEW max \in Nat,
         NEW time \in Nat, Windowed(A, n, x, s, w, max, time),
         n > 0, x = 0 \/ time < x, NEW b, b.at = time
  PROVE  /\ Windowed(A, n + 1, x, s, w, max, time)
         /\ n + 1 <= max => Windowed(A \union {b}, n + 1, x, s, w, max, time)
<1>. DEFINE B == A \union {b}
<1>1. /\ IsFiniteSet(A) /\ s \in 0 .. time /\ \A a \in A : a.at \in 0 .. time
      /\ x # 0 => x >= s + w /\ \A a \in A : a.at < x
      /\ Cardinality(From(A, s)) <= max /\ Cardinality(From(A, s)) <= n
      /\ Cardinality(Stretch(A, s - w, w, s)) <= max
      /\ \A t \in Int : Cardinality(Stretch(A, t, w, s)) <= 2 * max
  BY DEF Windowed
<1>2. From(A, s) \subseteq A
  BY DEF From
<1>3. IsFiniteSet(From(A, s)) /\ Cardinality(From(A, s)) \in Nat
  BY <1>1, <1>2, PartsAreSmaller
<1>4. Windowed(A, n + 1, x, s, w, max, time)
  BY <1>1, <1>3 DEF Windowed
<1>5. ASSUME n + 1 <= max PROVE Windowed(B, n + 1, x, s, w, max, time)
  <2>1. IsFiniteSet(B)
    BY <1>1, FS_AddElement
  <2>2. From(B, s) \subseteq From(A, s) \union {b}
    BY DEF From
  <2>3. Cardinality(From(B, s)) <= n + 1 /\ Cardinality(From(B, s)) <= max
    <3>. HIDE DEF B
    <3>1. /\ Cardinality(From(B, s)) \in Nat
          /\ Cardinality(From(B, s)) <= Cardinality(From(A, s)) + 1
      BY <1>3, <2>2, OneMore
    <3>. QED
      BY <1>1, <1>3, <1>5, <3>1
  <2>4. \A t \in Int : Stretch(B, t, w, s) = Stretch(A, t, w, s)
    BY <1>1 DEF Stretch
  <2>5. s - w \in Int
    BY <1>1
  <2>. HIDE DEF B
  <2>6. \A a \in B : a.at \in 0 .. time /\ (x # 0 => a.at < x)
    BY <1>1 DEF B
  <2>. QED
    BY <1>1, <2>1, <2>3, <2>4, <2>5, <2>6 DEF Windowed
<1>. QED
  BY <1>4, <1>5

\* When the key has expired, or was never there, the message begins a window.
LEMMA WindowBegins ==
  ASSUME NEW A, NEW n \in Nat, NEW x \in Nat, NEW s, NEW w \in Nat \ {0}, NEW max \in Nat \ {0},
         NEW time \in Nat, Windowed(A, n, x, s, w, max, time),
         ~ (n > 0 /\ (x = 0 \/ time < x)), NEW b, b.at = time
  PROVE  Windowed(A \union {b}, 1, 0, time, w, max, time)
<1>. DEFINE B == A \union {b}
<1>1. /\ IsFiniteSet(A) /\ s \in 0 .. time /\ \A a \in A : a.at \in 0 .. time
      /\ n = 0 => A = {}
      /\ n > 0 => s + w <= time /\ \A a \in A : a.at < time
      /\ Cardinality(From(A, s)) <= max
  BY DEF Windowed
<1>2. IsFiniteSet(B)
  BY <1>1, FS_AddElement
<1>3. \A a \in B : a.at \in 0 .. time
  BY <1>1
<1>4. Cardinality(From(B, time)) <= 1
  <2>1. From(B, time) \subseteq {} \union {b}
    BY <1>1 DEF From
  <2>2. IsFiniteSet({}) /\ Cardinality({}) = 0
    BY FS_EmptySet
  <2>. HIDE DEF B
  <2>3. Cardinality(From(B, time)) \in Nat /\ Cardinality(From(B, time)) <= 0 + 1
    BY <2>1, <2>2, OneMore
  <2>. QED
    BY <2>3
<1>5. Cardinality(Stretch(B, time - w, w, time)) <= max
  <2>1. Stretch(B, time - w, w, time) \subseteq From(A, s)
    BY <1>1 DEF Stretch, From
  <2>2. From(A, s) \subseteq A
    BY DEF From
  <2>3. IsFiniteSet(From(A, s)) /\ Cardinality(From(A, s)) \in Nat
    BY <1>1, <2>2, PartsAreSmaller
  <2>. HIDE DEF B
  <2>4. /\ Cardinality(Stretch(B, time - w, w, time)) \in Nat
        /\ Cardinality(Stretch(B, time - w, w, time)) <= Cardinality(From(A, s))
    BY <2>1, <2>3, PartsAreSmaller
  <2>. QED
    BY <1>1, <2>3, <2>4
<1>6. ASSUME NEW t \in Int PROVE Cardinality(Stretch(B, t, w, time)) <= 2 * max
  <2>. DEFINE S == Stretch(B, t, w, time)
  <2>1. S \subseteq A /\ \A a \in S : t <= a.at /\ a.at < t + w
    BY DEF Stretch
  <2>. HIDE DEF S, B
  <2>2. Cardinality(S) <= 2 * max
    BY <2>1, TwoWindows
  <2>. QED
    BY <2>2 DEF S
<1>. HIDE DEF B
<1>7. Cardinality(From(B, time)) <= max
  <2>1. From(B, time) \subseteq B
    BY DEF From
  <2>2. Cardinality(From(B, time)) \in Nat
    BY <1>2, <2>1, PartsAreSmaller
  <2>. QED
    BY <1>4, <2>2
<1>8. Windowed(B, 1, 0, time, w, max, time)
  BY <1>2, <1>3, <1>4, <1>5, <1>6, <1>7 DEF Windowed
<1>. QED
  BY <1>8 DEF B

\* Before the first message.
LEMMA NoWindow ==
  ASSUME NEW w \in Nat \ {0}, NEW max \in Nat PROVE Windowed({}, 0, 0, 0, w, max, 0)
<1>1. PICK A : A = {}
  OBVIOUS
<1>2. From(A, 0) = A /\ \A t : Stretch(A, t, w, 0) = A
  BY <1>1 DEF From, Stretch
<1>3. IsFiniteSet(A) /\ Cardinality(A) = 0 /\ \A a \in A : FALSE
  BY <1>1, FS_EmptySet
<1>4. /\ Cardinality(From(A, 0)) = 0 /\ Cardinality(Stretch(A, 0 - w, w, 0)) = 0
      /\ \A t \in Int : Cardinality(Stretch(A, t, w, 0)) = 0
  BY <1>2, <1>3
<1>5. 0 <= max /\ 0 <= 2 * max /\ 0 \in 0 .. 0
  OBVIOUS
<1>6. Windowed(A, 0, 0, 0, w, max, 0)
  BY <1>1, <1>3, <1>4, <1>5 DEF Windowed
<1>. QED
  BY <1>1, <1>6

\* An EXPIRE that finds the key lets it live for a window from then on.
LEMMA WindowIsSet ==
  ASSUME NEW A, NEW n \in Nat, NEW x \in Nat, NEW s, NEW w \in Nat \ {0}, NEW max \in Nat,
         NEW time \in Nat, Windowed(A, n, x, s, w, max, time)
  PROVE  Windowed(A, n, time + w, s, w, max, time)
BY DEF Windowed

\* Time goes by.
LEMMA WindowAges ==
  ASSUME NEW A, NEW n \in Nat, NEW x \in Nat, NEW s, NEW w \in Nat \ {0}, NEW max \in Nat,
         NEW time \in Nat, Windowed(A, n, x, s, w, max, time), NEW later \in Nat, later >= time
  PROVE  Windowed(A, n, x, s, w, max, later)
BY DEF Windowed

AdmissionOf(k, d, t) == [key |-> k, delivery |-> d, at |-> t]

\* What a counter has let pass.
AdmittedBy(k) == {a \in admitted : a.key = k}

WindowInv ==
  /\ CourseInv /\ CountersTyped
  /\ \A k \in Keys : \E s \in 0 .. now :
       Windowed(AdmittedBy(k), counter[k].count, counter[k].expires, s,
                Window[k[1]], Limit[k[1]], now)

\* What the fields of an admission are read back as.
LEMMA AdmissionFields ==
  \A k, d, t : AdmissionOf(k, d, t).key = k /\ AdmissionOf(k, d, t).at = t
BY DEF AdmissionOf

\* The windows and the limits are positive.
LEMMA LimitsAre ==
  ASSUME NEW k \in Keys PROVE Window[k[1]] \in Nat \ {0} /\ Limit[k[1]] \in Nat \ {0} /\ k[1] \in Counted
BY PipelineAssumption DEF Keys

\* What is let pass is let pass under one key.
LEMMA AdmissionsGoToTheirKey ==
  ASSUME NEW j \in Keys, NEW d, admitted' = admitted \union {AdmissionOf(j, d, now)}
  PROVE  /\ AdmittedBy(j)' = AdmittedBy(j) \union {AdmissionOf(j, d, now)}
         /\ \A k \in Keys : k # j => AdmittedBy(k)' = AdmittedBy(k)
<1>1. AdmissionOf(j, d, now).key = j
  BY AdmissionFields
<1>. QED
  BY <1>1 DEF AdmittedBy

\* At the start nothing has been let pass.
LEMMA WindowInit == Init => WindowInv
<1>. SUFFICES ASSUME Init PROVE WindowInv
  OBVIOUS
<1>1. /\ CourseInv /\ CountersTyped /\ \A k \in Keys : counter[k] = CounterOf(0, 0)
      /\ admitted = {} /\ now = 0
  BY CourseInit, CountersInit DEF Init
<1>2. ASSUME NEW k \in Keys
      PROVE  Windowed(AdmittedBy(k), counter[k].count, counter[k].expires, 0,
                      Window[k[1]], Limit[k[1]], now)
  <2>1. AdmittedBy(k) = {} /\ counter[k].count = 0 /\ counter[k].expires = 0
    BY <1>1, CounterFields DEF AdmittedBy
  <2>2. Windowed({}, 0, 0, 0, Window[k[1]], Limit[k[1]], 0)
    BY LimitsAre, NoWindow
  <2>. QED
    BY <1>1, <2>1, <2>2
<1>. QED
  BY <1>1, <1>2 DEF WindowInv

\* A handler counts a message in the window it belongs to.
LEMMA WindowHandled ==
  ASSUME WindowInv, NEW d \in Deliveries, Handle(d)
  PROVE  WindowInv'
<1>1. CourseInv' /\ Shape /\ CourseInv /\ CountersTyped
  BY CourseHandled DEF WindowInv, CourseInv
<1>2. /\ UNCHANGED now /\ pc[d] # "new" /\ now \in Nat
  BY <1>1, HandlersMove, PlacesAre DEF Shape
<1>3. CASE UNCHANGED <<counter, admitted>>
  <2>1. \A k \in Keys : AdmittedBy(k)' = AdmittedBy(k)
    BY <1>3 DEF AdmittedBy
  <2>. QED
    BY <1>1, <1>2, <1>3, <2>1 DEF WindowInv, CountersTyped
<1>4. ASSUME NEW kind \in Counted, CountingStep(d, kind) \/ ExpiringStep(d, kind) PROVE WindowInv'
  <2>1. PICK j : j = Key(d, kind)
    OBVIOUS
  <2>2. j \in Keys /\ j[1] = kind
    BY <1>1, <1>2, <2>1, KeysAreCounters
  <2>3. PICK n \in Nat, x \in Nat : counter[j] = CounterOf(n, x)
    BY <1>1, <2>2 DEF CountersTyped
  <2>4. PICK w, max : w = Window[kind] /\ max = Limit[kind] /\ w \in Nat \ {0} /\ max \in Nat \ {0}
    BY <2>2, LimitsAre
  <2>5. PICK A : A = AdmittedBy(j)
    OBVIOUS
  <2>6. PICK s \in 0 .. now : Windowed(A, n, x, s, w, max, now)
    BY <2>2, <2>3, <2>4, <2>5, CounterFields DEF WindowInv
  <2>7. SUFFICES \E m \in Nat, y \in Nat : \E r \in 0 .. now :
                   /\ counter' = [counter EXCEPT ![j] = CounterOf(m, y)]
                   /\ Windowed(AdmittedBy(j)', m, y, r, w, max, now)
                   /\ \A k \in Keys : k # j => AdmittedBy(k)' = AdmittedBy(k)
    <3>1. PICK m \in Nat, y \in Nat, r \in 0 .. now :
            /\ counter' = [counter EXCEPT ![j] = CounterOf(m, y)]
            /\ Windowed(AdmittedBy(j)', m, y, r, w, max, now)
            /\ \A k \in Keys : k # j => AdmittedBy(k)' = AdmittedBy(k)
      BY <2>7
    <3>2. /\ CountersTyped' /\ counter'[j] = CounterOf(m, y)
          /\ \A k \in Keys : k # j => counter'[k] = counter[k]
      BY <1>1, <2>2, <3>1, OneCounter
    <3>3. ASSUME NEW k \in Keys
          PROVE  \E z \in 0 .. now' : Windowed(AdmittedBy(k)', counter'[k].count, counter'[k].expires, z,
                                              Window[k[1]], Limit[k[1]], now')
      <4>1. CASE k = j
        BY <1>2, <2>2, <2>4, <3>1, <3>2, <4>1, CounterFields
      <4>2. CASE k # j
        BY <1>2, <3>1, <3>2, <4>2 DEF WindowInv
      <4>. QED
        BY <4>1, <4>2
    <3>. QED
      BY <1>1, <3>2, <3>3 DEF WindowInv
  <2>8. CASE CountingStep(d, kind)
    <3>1. /\ Live(CounterOf(n, x), now) <=> n > 0 /\ (x = 0 \/ now < x)
          /\ AfterIncr(CounterOf(n, x), now) =
               IF Live(CounterOf(n, x), now) THEN CounterOf(n + 1, x) ELSE CounterOf(1, 0)
      BY <1>2, IncrCounts
    <3>2. /\ Incremented(d, kind) = AfterIncr(CounterOf(n, x), now)
          /\ counter' = [counter EXCEPT ![j] = Incremented(d, kind)]
      BY <2>1, <2>3, <2>8 DEF CountingStep, Incr, Incremented
    <3>3. Over(d, kind) <=> Incremented(d, kind).count > max
      BY <2>4 DEF Over, Exceeds
    <3>4. PICK b : b = AdmissionOf(j, d, now)
      OBVIOUS
    <3>5. b.at = now
      BY <3>4, AdmissionFields
    <3>6. ASSUME ~ Over(d, kind)
          PROVE  /\ AdmittedBy(j)' = A \union {b}
                 /\ \A k \in Keys : k # j => AdmittedBy(k)' = AdmittedBy(k)
      <4>1. admitted' = admitted \union {AdmissionOf(j, d, now)}
        BY <2>1, <2>8, <3>6 DEF CountingStep, Admit, AdmissionOf
      <4>. QED
        BY <2>2, <2>5, <3>4, <4>1, AdmissionsGoToTheirKey
    <3>7. ASSUME Over(d, kind) PROVE \A k \in Keys : AdmittedBy(k)' = AdmittedBy(k)
      BY <2>8, <3>7 DEF CountingStep, AdmittedBy
    <3>8. CASE n > 0 /\ (x = 0 \/ now < x)
      <4>1. Incremented(d, kind) = CounterOf(n + 1, x) /\ n + 1 \in Nat
        BY <3>1, <3>2, <3>8
      <4>2. Over(d, kind) <=> n + 1 > max
        BY <3>3, <4>1, CounterFields
      <4>3. /\ Windowed(A, n + 1, x, s, w, max, now)
            /\ n + 1 <= max => Windowed(A \union {b}, n + 1, x, s, w, max, now)
        BY <1>2, <2>4, <2>6, <3>5, <3>8, WindowCounts
      <4>4. Windowed(AdmittedBy(j)', n + 1, x, s, w, max, now)
        <5>1. CASE Over(d, kind)
          BY <2>2, <2>5, <3>7, <4>3, <5>1
        <5>2. CASE ~ Over(d, kind)
          <6>1. n + 1 <= max
            BY <2>4, <4>2, <5>2
          <6>. QED
            BY <3>6, <4>3, <5>2, <6>1
        <5>. QED
          BY <5>1, <5>2
      <4>. QED
        BY <3>2, <3>6, <3>7, <4>1, <4>4
    <3>9. CASE ~ (n > 0 /\ (x = 0 \/ now < x))
      <4>1. Incremented(d, kind) = CounterOf(1, 0)
        BY <3>1, <3>2, <3>9
      <4>2. ~ Over(d, kind)
        BY <2>4, <3>3, <4>1, CounterFields
      <4>3. Windowed(A \union {b}, 1, 0, now, w, max, now)
        BY <1>2, <2>4, <2>6, <3>5, <3>9, WindowBegins
      <4>4. now \in 0 .. now
        BY <1>2
      <4>. QED
        BY <3>2, <3>6, <4>1, <4>2, <4>3, <4>4
    <3>. QED
      BY <3>8, <3>9
  <2>9. CASE ExpiringStep(d, kind)
    <3>1. AfterExpire(CounterOf(n, x), now, w) =
            IF Live(CounterOf(n, x), now) THEN CounterOf(n, now + w) ELSE CounterOf(n, x)
      BY <1>2, <2>4, ExpireEnds
    <3>2. counter' = [counter EXCEPT ![j] = AfterExpire(CounterOf(n, x), now, w)]
      BY <2>1, <2>3, <2>4, <2>9 DEF ExpiringStep
    <3>3. \A k \in Keys : AdmittedBy(k)' = AdmittedBy(k)
      BY <2>9 DEF ExpiringStep, AdmittedBy
    <3>4. PICK y \in {x, now + w} : counter' = [counter EXCEPT ![j] = CounterOf(n, y)]
      BY <3>1, <3>2
    <3>5. y \in Nat /\ Windowed(A, n, y, s, w, max, now)
      BY <1>2, <2>4, <2>6, <3>4, WindowIsSet
    <3>. QED
      BY <2>2, <2>5, <3>3, <3>4, <3>5
  <2>. QED
    BY <1>4, <2>8, <2>9
<1>. QED
  BY <1>1, <1>3, <1>4, HandlersCount

\* Every step keeps the windows.
LEMMA WindowNext == WindowInv /\ [Next]_vars => WindowInv'
<1>. SUFFICES ASSUME WindowInv, [Next]_vars PROVE WindowInv'
  OBVIOUS
<1>1. CourseInv' /\ Shape /\ CourseInv /\ CountersTyped /\ now \in Nat
  BY CourseNext DEF WindowInv, CourseInv, Shape
<1>2. ASSUME UNCHANGED <<counter, admitted>>, now' \in Nat, now' >= now PROVE WindowInv'
  <2>1. ASSUME NEW k \in Keys
        PROVE  \E s \in 0 .. now' : Windowed(AdmittedBy(k)', counter'[k].count, counter'[k].expires, s,
                                            Window[k[1]], Limit[k[1]], now')
    <3>1. PICK s \in 0 .. now :
            Windowed(AdmittedBy(k), counter[k].count, counter[k].expires, s,
                     Window[k[1]], Limit[k[1]], now)
      BY DEF WindowInv
    <3>2. PICK n \in Nat, x \in Nat : counter[k] = CounterOf(n, x)
      BY <1>1 DEF CountersTyped
    <3>3. counter[k].count = n /\ counter[k].expires = x
      BY <3>2, CounterFields
    <3>4. Window[k[1]] \in Nat \ {0} /\ Limit[k[1]] \in Nat
      BY LimitsAre
    <3>5. Windowed(AdmittedBy(k), n, x, s, Window[k[1]], Limit[k[1]], now')
      BY <1>1, <1>2, <3>1, <3>3, <3>4, WindowAges
    <3>6. AdmittedBy(k)' = AdmittedBy(k) /\ s \in 0 .. now'
      BY <1>1, <1>2 DEF AdmittedBy
    <3>. QED
      BY <1>2, <3>3, <3>5, <3>6
  <2>. QED
    BY <1>1, <1>2, <2>1 DEF WindowInv, CountersTyped
<1>3. ASSUME NEW d \in Deliveries, Arrive(d) PROVE UNCHANGED <<counter, admitted, now>>
  BY <1>1, <1>3, ArrivalsMove DEF redis, history
<1>4. CASE Around
  BY <1>1, <1>2, <1>4, AroundMoves DEF history
<1>5. CASE UNCHANGED vars
  BY <1>1, <1>2, <1>5 DEF vars, redis, history
<1>. QED
  BY <1>1, <1>2, <1>3, <1>4, <1>5, WindowHandled, StepsAre

\* In any stretch of time as long as a window, no counter lets more than twice
\* its limit pass.
THEOREM TwiceTheLimitAtMost == Spec => []AtMostTwiceTheLimit
<1>1. WindowInv => AtMostTwiceTheLimit
  <2>1. SUFFICES ASSUME WindowInv, NEW k \in DOMAIN counter, NEW t \in 0 .. MaxTime
                 PROVE  Cardinality({a \in admitted : a.key = k /\ a.at \in t .. (t + Window[k[1]] - 1)})
                          <= 2 * Limit[k[1]]
    BY DEF AtMostTwiceTheLimit
  <2>2. k \in Keys /\ now \in Nat /\ t \in Int
    BY <2>1, PipelineAssumption DEF WindowInv, CountersTyped, CourseInv, Shape
  <2>3. Window[k[1]] \in Nat \ {0} /\ Limit[k[1]] \in Nat
    BY <2>2, LimitsAre
  <2>4. PICK s \in 0 .. now :
          Windowed(AdmittedBy(k), counter[k].count, counter[k].expires, s,
                   Window[k[1]], Limit[k[1]], now)
    BY <2>1, <2>2 DEF WindowInv
  <2>. DEFINE S == {a \in admitted : a.key = k /\ a.at \in t .. (t + Window[k[1]] - 1)}
  <2>5. S \subseteq AdmittedBy(k) /\ \A a \in S : t <= a.at /\ a.at < t + Window[k[1]]
    BY <2>2, <2>3 DEF AdmittedBy
  <2>. HIDE DEF S
  <2>6. Cardinality(S) <= 2 * Limit[k[1]]
    BY <2>2, <2>3, <2>4, <2>5, TwoWindows
  <2>. QED
    BY <2>6 DEF S
<1>. QED
  BY <1>1, WindowInit, WindowNext, PTL DEF Spec

-----------------------------------------------------------------------------
(* What bears on a message.                                                 *)

PanelOf(status, listing, setting) == [status |-> status, listing |-> listing, setting |-> setting]

PanelTyped ==
  /\ panel = PanelOf(panel.status, panel.listing, panel.setting)
  /\ panel.setting \in [Groups -> Settings]

\* What is remembered was the case, and includes what is.
MemoryInv ==
  /\ PanelTyped
  /\ \A d \in Deliveries :
       /\ pc[d] = "new" => facts[d].always = {}
       /\ pc[d] # "new" => facts[d].always \subseteq Facts(d) /\ Facts(d) \subseteq facts[d].ever

\* The facts, one by one.
LEMMA FactsAre ==
  ASSUME NEW d
  PROVE  /\ "blocked" \in Facts(d) <=> panel.listing[Msg(d).user] = "block"
         /\ "shadowListed" \in Facts(d) <=> panel.listing[Msg(d).user] = "shadow"
         /\ "shadowIgnored" \in Facts(d) <=> panel.status[Msg(d).user] = "shadow_ignored"
         /\ "groupBlocked" \in Facts(d) <=> InGroup(d) /\ panel.setting[Msg(d).chat].status = "blacklisted"
         /\ "aiOff" \in Facts(d) <=> InGroup(d) /\ ~ panel.setting[Msg(d).chat].ai
         /\ "silent" \in Facts(d) <=> InGroup(d) /\ panel.setting[Msg(d).chat].mode = "silent"
         /\ "moderated" \in Facts(d) <=> InGroup(d) /\ panel.setting[Msg(d).chat].policy # "off"
         /\ "raid" \in Facts(d) <=> InGroup(d) /\ raid[Msg(d).chat]
BY DEF Facts, InGroup

\* What is remembered after a step.
LEMMA Remembered ==
  ASSUME Remember, NEW d \in Deliveries
  PROVE  /\ pc'[d] = "new" => facts'[d] = facts[d]
         /\ pc'[d] # "new" /\ pc[d] = "new" =>
              facts'[d].always = Facts(d)' /\ facts'[d].ever = Facts(d)'
         /\ pc'[d] # "new" /\ pc[d] # "new" =>
              /\ facts'[d].always = facts[d].always \intersect Facts(d)'
              /\ facts'[d].ever = facts[d].ever \union Facts(d)'
<1>1. facts'[d] =
        CASE pc'[d] = "new" -> facts[d]
          [] pc'[d] # "new" /\ pc[d] = "new" -> [always |-> Facts(d)', ever |-> Facts(d)']
          [] OTHER -> [always |-> facts[d].always \intersect Facts(d)',
                       ever |-> facts[d].ever \union Facts(d)']
  BY DEF Remember
<1>2. CASE pc'[d] = "new"
  BY <1>1, <1>2
<1>3. CASE pc'[d] # "new" /\ pc[d] = "new"
  <2>1. facts'[d] = [always |-> Facts(d)', ever |-> Facts(d)']
    BY <1>1, <1>3
  <2>. QED
    BY <1>3, <2>1
<1>4. CASE pc'[d] # "new" /\ pc[d] # "new"
  <2>1. facts'[d] = [always |-> facts[d].always \intersect Facts(d)',
                     ever |-> facts[d].ever \union Facts(d)']
    BY <1>1, <1>4
  <2>. QED
    BY <1>4, <2>1
<1>. QED
  BY <1>2, <1>3, <1>4

\* The panel keeps its form.
LEMMA PanelStays ==
  ASSUME Shape, PanelTyped, Next PROVE PanelTyped'
<1>1. CASE UNCHANGED panel
  BY <1>1 DEF PanelTyped
<1>2. CASE Edit
  <2>1. CASE \E u \in Users, s \in {"active", "shadow_ignored"} : panel' = [panel EXCEPT !.status[u] = s]
    <3>1. PICK u, s : panel' = [panel EXCEPT !.status[u] = s]
      BY <2>1
    <3>2. PICK f : f = [panel.status EXCEPT ![u] = s]
      OBVIOUS
    <3>3. panel' = [panel EXCEPT !.status = f]
      BY <3>1, <3>2
    <3>4. panel' = PanelOf(f, panel.listing, panel.setting)
      BY <3>3 DEF PanelTyped, PanelOf
    <3>. QED
      BY <3>4 DEF PanelTyped, PanelOf
  <2>2. CASE \E u \in Users, l \in {"none", "block", "shadow"} : panel' = [panel EXCEPT !.listing[u] = l]
    <3>1. PICK u, l : panel' = [panel EXCEPT !.listing[u] = l]
      BY <2>2
    <3>2. PICK f : f = [panel.listing EXCEPT ![u] = l]
      OBVIOUS
    <3>3. panel' = [panel EXCEPT !.listing = f]
      BY <3>1, <3>2
    <3>4. panel' = PanelOf(panel.status, f, panel.setting)
      BY <3>3 DEF PanelTyped, PanelOf
    <3>. QED
      BY <3>4 DEF PanelTyped, PanelOf
  <2>3. CASE \E g \in Groups, s \in Settings : panel' = [panel EXCEPT !.setting[g] = s]
    <3>1. PICK g \in Groups, s \in Settings : panel' = [panel EXCEPT !.setting[g] = s]
      BY <2>3
    <3>2. PICK f : f = [panel.setting EXCEPT ![g] = s]
      OBVIOUS
    <3>3. f \in [Groups -> Settings]
      BY <3>2 DEF PanelTyped
    <3>4. panel' = [panel EXCEPT !.setting = f]
      BY <3>1, <3>2
    <3>5. panel' = PanelOf(panel.status, panel.listing, f)
      BY <3>4 DEF PanelTyped, PanelOf
    <3>. QED
      BY <3>3, <3>5 DEF PanelTyped, PanelOf
  <2>. QED
    BY <1>2, <2>1, <2>2, <2>3 DEF Edit
<1>3. UNCHANGED panel \/ Edit
  <2>1. ASSUME NEW d \in Deliveries, Arrive(d) \/ Handle(d) PROVE UNCHANGED panel
    BY <2>1, ArrivalsMove, HandlersMove
  <2>2. ASSUME Around, ~ Edit PROVE UNCHANGED panel
    BY <2>2 DEF Around, Crash, Tick, RaidMode
  <2>. QED
    BY <2>1, <2>2, StepsAre
<1>. QED
  BY <1>1, <1>2, <1>3

\* At the start there is nothing to remember.
LEMMA MemoryInit == Init => MemoryInv
<1>. SUFFICES ASSUME Init PROVE MemoryInv
  OBVIOUS
<1>1. PanelTyped
  <2>1. PICK s \in [Groups -> Settings] :
          panel = PanelOf([u \in Users |-> "active"], [u \in Users |-> "none"], s)
    BY DEF Init, PanelOf
  <2>2. PICK a, b : a = [u \in Users |-> "active"] /\ b = [u \in Users |-> "none"]
    OBVIOUS
  <2>3. panel = PanelOf(a, b, s)
    BY <2>1, <2>2
  <2>. QED
    BY <2>3 DEF PanelTyped, PanelOf
<1>2. \A d \in Deliveries : pc[d] = "new" /\ facts[d].always = {}
  BY DEF Init
<1>. QED
  BY <1>1, <1>2 DEF MemoryInv

\* The memory is true to what happens.
LEMMA MemoryNext == CourseInv /\ MemoryInv /\ [Next]_vars => MemoryInv'
<1>. SUFFICES ASSUME CourseInv, MemoryInv, [Next]_vars PROVE MemoryInv'
  OBVIOUS
<1>1. CASE Next
  <2>1. PanelTyped'
    BY <1>1, PanelStays DEF CourseInv, MemoryInv
  <2>2. ASSUME NEW d \in Deliveries
        PROVE  /\ pc'[d] = "new" => facts'[d].always = {}
               /\ pc'[d] # "new" => facts'[d].always \subseteq Facts(d)' /\ Facts(d)' \subseteq facts'[d].ever
    <3>1. pc'[d] = "new" => pc[d] = "new"
      <4>1. ASSUME NEW e \in Deliveries, Handle(e) PROVE pc'[d] = "new" => pc[d] = "new"
        BY <4>1, HandlersMove DEF CourseInv, Apart
      <4>2. ASSUME NEW e \in Deliveries, Arrive(e) PROVE pc'[d] = "new" => pc[d] = "new"
        BY <4>2, ArrivalsMove DEF CourseInv, Apart
      <4>3. ASSUME Around PROVE pc'[d] = "new" => pc[d] = "new"
        BY <4>3, AroundMoves DEF CourseInv
      <4>. QED
        BY <1>1, <4>1, <4>2, <4>3, StepsAre
    <3>2. Remember
      BY <1>1, StepsAre
    <3>. QED
      BY <3>1, <3>2, Remembered DEF MemoryInv
  <2>. QED
    BY <2>1, <2>2 DEF MemoryInv
<1>2. CASE UNCHANGED vars
  <2>1. UNCHANGED <<pc, facts, panel, message, update, raid>>
    BY <1>2 DEF vars, redis
  <2>2. ASSUME NEW d \in Deliveries PROVE Facts(d)' = Facts(d)
    BY <2>1 DEF Facts, Msg
  <2>. QED
    BY <2>1, <2>2 DEF MemoryInv, PanelTyped
<1>. QED
  BY <1>1, <1>2

-----------------------------------------------------------------------------
(* The gates.                                                               *)

\* A delivery that knows its user and his group, and is not at an end.
Resolved(p) == p = "blacklist" \/ Past(p, 2)

\* What has been the case since a message arrived has been noticed by the
\* stage that had to, unless it has failed.
NoticesSender(p, c, a) ==
  /\ "blocked" \in a => p \in Resolving \union Ends \union {"blacklist"}
  /\ "shadowIgnored" \in a /\ p \in DOMAIN Stage \ {"dedupe", "user"} => c.shadow
  /\ "shadowListed" \in a /\ Past(p, 2) => c.shadow

NoticesGroup(p, c, a) ==
  /\ "groupBlocked" \in a => p \in Resolving \union Ends
  /\ "silent" \in a /\ Resolved(p) => Mode(c) = "silent"
  /\ "aiOff" \in a /\ Resolved(p) => AiOff(c)
  /\ "moderated" \in a /\ Resolved(p) => c.group /\ Policy(c) # "off"

NoticesRaid(m, p, c, f, a) ==
  {"moderated", "raid"} \subseteq a /\ m.kind # "voice" /\ "raid" \notin f
  /\ Past(p, 6) /\ p # "raid" => c.shadow

Notices(m, p, c, f, a) ==
  "user" \notin f => NoticesSender(p, c, a) /\ NoticesGroup(p, c, a) /\ NoticesRaid(m, p, c, f, a)

\* The stage after dedupe is the one that resolves the user.
LEMMA DedupeIsFollowed == ASSUME NEW d, NEW c PROVE Onward(d, "dedupe", c) = "user"
<1>1. "dedupe" \in DOMAIN Stage /\ At("dedupe") = 1
  BY PlacesAre
<1>2. PICK n \in (At("dedupe") + 1) .. 14 :
        /\ \A j \in (At("dedupe") + 1) .. (n - 1) : ~ Applies(d, Order[j], c)
        /\ Onward(d, "dedupe", c) = IF Order[n] = "relevance" THEN "done" ELSE Order[n]
  BY <1>1, OnwardFinds
<1>3. Applies(d, Order[2], c)
  BY OrderIs DEF Applies
<1>4. n = 2
  BY <1>1, <1>2, <1>3
<1>. QED
  BY <1>2, <1>4, OrderIs

\* An end notices nothing.
LEMMA EndsNotice ==
  ASSUME NEW m, NEW p \in Ends, NEW c, NEW f, NEW a PROVE Notices(m, p, c, f, a)
BY PlacesAre DEF Notices, NoticesSender, NoticesGroup, NoticesRaid, Ends, Past, Resolved

\* A fact that has ceased to be one need not have been noticed, nor what a
\* stage has failed to notice.
LEMMA NoticesLess ==
  ASSUME NEW m, NEW p, NEW c, NEW f, NEW a, Notices(m, p, c, f, a), NEW b, b \subseteq a,
         NEW g, f \subseteq g
  PROVE  Notices(m, p, c, g, b)
BY DEF Notices, NoticesSender, NoticesGroup, NoticesRaid

\* A text in a group under moderation is moderated.
LEMMA TextsAreModerated ==
  ASSUME NEW m, NEW p, NEW c, NEW f, Course(m, p, c, f), p # "new", m.kind # "voice",
         c.group, Policy(c) # "off"
  PROVE  Moderated(c)
BY DEF Course, Grounded, Moderated

\* What was noticed stays noticed on the way to the next stage that applies.
LEMMA NoticesOnward ==
  ASSUME NEW d, NEW p \in DOMAIN Stage \ {"dedupe", "user", "group"}, NEW k, NEW f, NEW a,
         Notices(Msg(d), p, k, f, a), "blocked" \in a => p # "blacklist", p = "raid" => "raid" \in f,
         NEW c, c.group = k.group, c.settings = k.settings, k.shadow => c.shadow,
         "shadowListed" \in a /\ p = "blacklist" => c.shadow, Course(Msg(d), Onward(d, p, c), c, f)
  PROVE  Notices(Msg(d), Onward(d, p, c), c, f, a)
<1>1. PICK q : q = Onward(d, p, c)
  OBVIOUS
<1>2. CASE q = "done"
  <2>1. q \in Ends
    BY <1>2 DEF Ends
  <2>. QED
    BY <1>1, <2>1, EndsNotice
<1>3. CASE q # "done"
  <2>1. /\ q \in Entrances /\ q \in DOMAIN Stage /\ At(q) > At(p) /\ Applies(d, q, c)
        /\ At(p) < 7 /\ At(q) > 7 => ~ Applies(d, "raid", c)
    BY <1>1, <1>3, OnwardLeads, EntrancesArePlaces
  <2>2. Resolved(p) /\ At(p) \in 1 .. 13 /\ At(q) \in 1 .. 13
    BY <2>1, AtType, PlacesAre DEF Resolved, Past
  <2>. SUFFICES ASSUME "user" \notin f PROVE Notices(Msg(d), q, c, f, a)
    BY <1>1 DEF Notices
  <2>3. NoticesSender(p, k, a) /\ NoticesGroup(p, k, a) /\ NoticesRaid(Msg(d), p, k, f, a)
    BY DEF Notices
  <2>4. NoticesSender(q, c, a)
    <3>1. "blocked" \notin a
      BY <2>3, PlacesAre DEF NoticesSender, Resolving, Ends
    <3>2. p # "blacklist" => Past(p, 2)
      BY <2>2 DEF Resolved
    <3>. QED
      BY <2>3, <3>1, <3>2 DEF NoticesSender
  <2>5. NoticesGroup(q, c, a)
    <3>1. "groupBlocked" \notin a
      BY <2>2, <2>3, PlacesAre DEF NoticesGroup, Resolving, Ends
    <3>2. Mode(c) = Mode(k) /\ Policy(c) = Policy(k) /\ (AiOff(c) <=> AiOff(k))
      BY DEF Mode, Policy, AiOff
    <3>. QED
      BY <2>2, <2>3, <3>1, <3>2 DEF NoticesGroup
  <2>6. NoticesRaid(Msg(d), q, c, f, a)
    <3>1. SUFFICES ASSUME "moderated" \in a, "raid" \in a, Msg(d).kind # "voice", "raid" \notin f,
                          Past(q, 6), q # "raid"
                   PROVE  c.shadow
      BY DEF NoticesRaid
    <3>2. At(q) > 7
      BY <2>1, <2>2, <3>1, PlacesAre DEF Past, Entrances
    <3>3. CASE At(p) < 7
      <4>1. c.group /\ Policy(c) # "off"
        BY <2>2, <2>3, <3>1 DEF NoticesGroup, Policy
      <4>2. Moderated(c)
        <5>1. q # "new"
          BY <2>1, PlacesAre
        <5>. QED
          BY <1>1, <3>1, <4>1, <5>1, TextsAreModerated
      <4>. QED
        BY <2>1, <3>2, <3>3, <4>2 DEF Applies
    <3>4. CASE At(p) >= 7 /\ p # "raid"
      BY <2>2, <2>3, <3>1, <3>4 DEF NoticesRaid, Past
    <3>. QED
      BY <2>2, <3>1, <3>3, <3>4
  <2>. QED
    BY <1>1, <2>4, <2>5, <2>6 DEF Notices
<1>. QED
  BY <1>2, <1>3

\* The stages that find out who and where notice what there is to notice.
LEMMA NoticesFinds ==
  ASSUME CourseInv, MemoryInv, NEW d \in Deliveries, NEW q, NEW c, Finds(d, q, c),
         Course(Msg(d), q, c, failed[d]),
         Notices(Msg(d), pc[d], ctx[d], failed[d], facts[d].always)
  PROVE  Notices(Msg(d), q, c, failed[d], facts[d].always)
<1>. DEFINE a == facts[d].always
            s == panel.setting[Msg(d).chat]
<1>1. a \subseteq Facts(d)
  <2>1. pc[d] # "new"
    BY <1>1, PlacesAre DEF Finds
  <2>. QED
    BY <2>1 DEF MemoryInv
<1>2. /\ "blocked" \in a => panel.listing[Msg(d).user] = "block"
      /\ "shadowListed" \in a => panel.listing[Msg(d).user] = "shadow"
      /\ "shadowIgnored" \in a => panel.status[Msg(d).user] = "shadow_ignored"
      /\ "groupBlocked" \in a => InGroup(d) /\ s.status = "blacklisted"
      /\ "aiOff" \in a => InGroup(d) /\ ~ s.ai
      /\ "silent" \in a => InGroup(d) /\ s.mode = "silent"
      /\ "moderated" \in a => InGroup(d) /\ s.policy # "off"
  BY <1>1, FactsAre
<1>3. InGroup(d) => s # None
  <2>1. SUFFICES ASSUME InGroup(d) PROVE s # None
    OBVIOUS
  <2>2. update[d] # None
    BY PlacesAre DEF CourseInv, Shape, Finds
  <2>3. Msg(d) \in Messages
    BY <2>2 DEF CourseInv, Shape, Msg
  <2>4. Msg(d).chat \in Groups
    BY <2>1, <2>3, PipelineAssumption DEF InGroup, Chats
  <2>5. s \in Settings
    BY <2>4 DEF MemoryInv, PanelTyped
  <2>. QED
    BY <2>5, PipelineAssumption
<1>. HIDE DEF a, s
<1>4. /\ ~ Past("user", 2) /\ ~ Past("group", 2) /\ ~ Past("blacklist", 2)
      /\ ~ Past("user", 6) /\ ~ Past("group", 6) /\ ~ Past("blacklist", 6)
      /\ ~ Resolved("user") /\ ~ Resolved("group")
  BY PlacesAre DEF Past, Resolved
<1>5. CASE pc[d] = "dedupe" /\ q = "user" /\ c = ctx[d]
  BY <1>4, <1>5 DEF Notices, NoticesSender, NoticesGroup, NoticesRaid, Resolving
<1>6. CASE pc[d] = "user" /\ q = (IF InGroup(d) THEN "group" ELSE "blacklist")
  <2>1. "shadowIgnored" \in a => c.shadow
    <3>1. PICK yes, w : /\ w = (panel.status[Msg(d).user] = "shadow_ignored")
                        /\ c = Ctx(yes, ctx[d].group, ctx[d].settings, w, ctx[d].text, ctx[d].result)
      BY <1>6 DEF Finds
    <3>2. c.shadow = w
      BY <3>1, CtxFields
    <3>. QED
      BY <1>2, <3>1, <3>2
  <2>. QED
    BY <1>2, <1>4, <1>6, <2>1 DEF Notices, NoticesSender, NoticesGroup, NoticesRaid, Resolving, a
<1>7. CASE pc[d] = "group" /\ q = (IF s.status = "blacklisted" THEN "done" ELSE "blacklist")
  <2>1. PICK yes : yes = TRUE /\ c = Ctx(ctx[d].user, yes, s, ctx[d].shadow, ctx[d].text, ctx[d].result)
    BY <1>7 DEF Finds, s
  <2>2. c.group = yes /\ c.settings = s /\ c.shadow = ctx[d].shadow
    <3>1. c = Ctx(ctx[d].user, yes, s, ctx[d].shadow, ctx[d].text, ctx[d].result)
      BY <2>1
    <3>. QED
      BY <3>1, CtxFields
  <2>3. CASE q = "done"
    <3>1. q \in Ends
      BY <2>3 DEF Ends
    <3>. QED
      BY <3>1, EndsNotice
  <2>4. CASE q # "done"
    <3>1. q = "blacklist" /\ "groupBlocked" \notin a
      BY <1>2, <1>7, <2>4
    <3>2. /\ "silent" \in a => Mode(c) = "silent"
          /\ "aiOff" \in a => AiOff(c)
          /\ "moderated" \in a => Policy(c) # "off"
      BY <1>2, <1>3, <2>2 DEF Mode, AiOff, Policy
    <3>3. "user" \notin failed[d] /\ "shadowIgnored" \in a => c.shadow
      BY <1>7, <2>2, PlacesAre DEF Notices, NoticesSender, a
    <3>. QED
      BY <1>4, <2>1, <2>2, <3>1, <3>2, <3>3
         DEF Notices, NoticesSender, NoticesGroup, NoticesRaid, a
  <2>. QED
    BY <2>3, <2>4
<1>8. CASE /\ pc[d] = "blacklist" /\ q = Onward(d, "blacklist", c)
           /\ panel.listing[Msg(d).user] # "block"
  <2>1. PICK z : /\ z = (ctx[d].shadow \/ panel.listing[Msg(d).user] = "shadow")
                 /\ c = Ctx(ctx[d].user, ctx[d].group, ctx[d].settings, z, ctx[d].text, ctx[d].result)
    BY <1>8 DEF Finds
  <2>2. c.group = ctx[d].group /\ c.settings = ctx[d].settings /\ c.shadow = z
    <3>1. c = Ctx(ctx[d].user, ctx[d].group, ctx[d].settings, z, ctx[d].text, ctx[d].result)
      BY <2>1
    <3>. QED
      BY <3>1, CtxFields
  <2>3. "blocked" \notin a /\ ("shadowListed" \in a => c.shadow) /\ (ctx[d].shadow => c.shadow)
    BY <1>2, <1>8, <2>1, <2>2
  <2>4. "blacklist" \in DOMAIN Stage \ {"dedupe", "user", "group"}
    BY PlacesAre
  <2>5. Notices(Msg(d), "blacklist", ctx[d], failed[d], a) /\ Course(Msg(d), Onward(d, "blacklist", c), c, failed[d])
    BY <1>8 DEF a
  <2>6. Notices(Msg(d), Onward(d, "blacklist", c), c, failed[d], a)
    BY <2>2, <2>3, <2>4, <2>5, NoticesOnward
  <2>. QED
    BY <1>8, <2>6 DEF a
<1>. QED
  BY <1>5, <1>6, <1>7, <1>8 DEF Finds, s

\* In raid mode nothing goes on to the flood check.
LEMMA RaidsStop ==
  ASSUME Shape, NEW d \in Deliveries, Handle(d), pc[d] = "raid", pc'[d] = "flood"
  PROVE  ~ raid[Msg(d).chat]
<1>1. CASE CheckRaid(d)
  BY <1>1 DEF CheckRaid, Goto, Shape
<1>2. CASE Fail(d)
  <2>1. PICK q, c : Moved(d, q, c) /\ (Stops(d, q, c) \/ Skips(d, q, c))
    BY <1>2, FailuresLead
  <2>2. q = "flood"
    BY <2>1 DEF Moved, Goto, Shape
  <2>. QED
    BY <2>1, <2>2, OnwardLeads DEF Stops, Skips, Entrances
<1>. QED
  BY <1>1, <1>2
     DEF Handle, Dedupe, ResolveUser, ResolveGroup, CheckBlacklist, Automate, RateLimit, RateExpire,
         Media, Warn, Judge, RecordEscalation, CheckFlood, FloodExpire, CheckDuplicate,
         DuplicateExpire, PunishSpam, AiModerate, ResolveConversation, MemoryCommand, Ask, Respond

\* The handlers after them keep to what was noticed.
LEMMA NoticesGoesOn ==
  ASSUME CourseInv, MemoryInv, NEW d \in Deliveries, Handle(d), NEW c, GoesOn(d, pc'[d], c),
         Course(Msg(d), pc'[d], c, failed[d]),
         Notices(Msg(d), pc[d], ctx[d], failed[d], facts[d].always)
  PROVE  Notices(Msg(d), pc'[d], c, failed[d], facts[d].always)
<1>1. PICK a, q : a = facts[d].always /\ q = pc'[d]
  OBVIOUS
<1>2. a \subseteq Facts(d)
  <2>1. pc[d] # "new"
    BY PlacesAre, HandlersMove DEF CourseInv
  <2>. QED
    BY <1>1, <2>1 DEF MemoryInv
<1>3. c.group = ctx[d].group /\ c.settings = ctx[d].settings /\ c.shadow = ctx[d].shadow
  BY CtxFields DEF GoesOn
<1>4. CASE <<pc[d], q>> \in Within /\ c = ctx[d]
  <2>1. /\ pc[d] \in DOMAIN Stage \ {"dedupe", "user", "blacklist"} /\ pc[d] \notin Resolving \union Ends
        /\ q \in DOMAIN Stage \ {"dedupe", "user"} /\ Past(pc[d], 2) /\ Past(q, 2)
        /\ Past(q, 6) <=> Past(pc[d], 6)
        /\ q # "raid" /\ (pc[d] = "raid" => q = "flood") /\ (pc[d] # "raid" => q # "flood")
    BY <1>4, PlacesAre DEF Within, Past, Resolving, Ends
  <2>2. pc[d] = "raid" => "raid" \notin a
    <3>1. pc[d] = "raid" => ~ raid[Msg(d).chat]
      BY <1>1, <2>1, RaidsStop DEF CourseInv
    <3>. QED
      BY <1>2, <3>1, FactsAre
  <2>. QED
    BY <1>1, <1>4, <2>1, <2>2 DEF Notices, NoticesSender, NoticesGroup, NoticesRaid, Resolved
<1>5. CASE pc[d] \in Passing \union {"media", "ai"} /\ q = Onward(d, pc[d], c)
  <2>1. pc[d] \in DOMAIN Stage \ {"dedupe", "user", "group", "blacklist", "raid"}
    BY <1>5, PlacesAre DEF Passing
  <2>. QED
    BY <1>1, <1>3, <1>5, <2>1, NoticesOnward
<1>. QED
  BY <1>1, <1>4, <1>5 DEF GoesOn

\* A stage that fails need not notice.
LEMMA NoticesSkips ==
  ASSUME CourseInv, NEW d \in Deliveries, NEW q, NEW c, Skips(d, q, c), NEW a,
         Course(Msg(d), q, c, failed[d] \union {Stage[pc[d]]}),
         Notices(Msg(d), pc[d], ctx[d], failed[d], a)
  PROVE  Notices(Msg(d), q, c, failed[d] \union {Stage[pc[d]]}, a)
<1>1. PICK f : f = failed[d] \union {Stage[pc[d]]}
  OBVIOUS
<1>2. Notices(Msg(d), pc[d], ctx[d], f, a) /\ Course(Msg(d), q, c, f)
  BY <1>1, NoticesLess
<1>3. CASE pc[d] \in {"user", "group", "blacklist"}
  <2>1. "user" \in f
    BY <1>1, <1>3 DEF Stage
  <2>. QED
    BY <1>1, <2>1 DEF Notices
<1>4. CASE pc[d] = "dedupe"
  <2>1. q = "user" /\ c = ctx[d]
    BY <1>4, DedupeIsFollowed DEF Skips
  <2>2. ~ Past("user", 2) /\ ~ Past("user", 6) /\ ~ Resolved("user")
    BY PlacesAre DEF Past, Resolved
  <2>. QED
    BY <1>1, <1>2, <2>1, <2>2 DEF Notices, NoticesSender, NoticesGroup, NoticesRaid, Resolving
<1>5. CASE pc[d] \notin {"dedupe", "user", "group", "blacklist"}
  <2>1. pc[d] \in DOMAIN Stage \ {"dedupe", "user", "group"} /\ c = ctx[d] /\ q = Onward(d, pc[d], c)
    BY <1>5 DEF Skips
  <2>2. pc[d] = "raid" => "raid" \in f
    BY <1>1 DEF Stage
  <2>. QED
    BY <1>1, <1>2, <1>5, <2>1, <2>2, NoticesOnward
<1>. QED
  BY <1>3, <1>4, <1>5

\* A handler notices, or fails.
LEMMA NoticesHandled ==
  ASSUME CourseInv, MemoryInv, NEW d \in Deliveries, Handle(d),
         Notices(Msg(d), pc[d], ctx[d], failed[d], facts[d].always)
  PROVE  Notices(Msg(d), pc'[d], ctx'[d], failed'[d], facts[d].always)
<1>1. PICK q, c : Lands(d, q, c)
  BY HandlersMove DEF CourseInv
<1>2. Course(Msg(d), pc'[d], ctx'[d], failed'[d])
  <2>1. (Msg(d))' = Msg(d)
    BY HandlersMove DEF CourseInv, Msg
  <2>2. Course(Msg(d), pc[d], ctx[d], failed[d])'
    BY CourseHandled DEF CourseInv
  <2>. QED
    BY <2>1, <2>2 DEF Course
<1>3. pc'[d] = q /\ ctx'[d] = c
  BY <1>1 DEF Lands
<1>4. CASE Stops(d, q, c)
  <2>1. q \in Ends
    BY <1>4 DEF Stops, Ends
  <2>. QED
    BY <1>3, <2>1, EndsNotice
<1>5. CASE Finds(d, q, c) /\ failed'[d] = failed[d]
  BY <1>2, <1>3, <1>5, NoticesFinds
<1>6. CASE GoesOn(d, q, c) /\ failed'[d] = failed[d]
  BY <1>2, <1>3, <1>6, NoticesGoesOn
<1>7. CASE Skips(d, q, c) /\ failed'[d] = failed[d] \union {Stage[pc[d]]}
  BY <1>2, <1>3, <1>7, NoticesSkips
<1>. QED
  BY <1>1, <1>4, <1>5, <1>6, <1>7 DEF Lands, Ways

\* Whether a message must not reach the model.
Unwelcome(d) ==
  /\ pc[d] # "new" /\ failed[d] \intersect {"user", "moderation", "raid"} = {}
  /\ \/ facts[d].always \intersect (Silencing \union {"aiOff"}) # {}
     \/ /\ "moderated" \in facts[d].always
        /\ \/ Msg(d).kind = "profane"
           \/ "raid" \in facts[d].always /\ Msg(d).kind # "voice"

\* What has been noticed about a delivery, and what has come of it.
Welcomed(d) ==
  /\ Notices(Msg(d), pc[d], ctx[d], failed[d], facts[d].always)
  /\ pc[d] = "new" => spoken[d] = {} /\ ~ asked[d] /\ conversation[d] = None
  /\ Unwelcome(d) => ~ asked[d]
  /\ "blocked" \in facts[d].always /\ "user" \notin failed[d] =>
       spoken[d] \subseteq {"maintenance"} /\ conversation[d] = None

WelcomeInv == CourseInv /\ MemoryInv /\ \A d \in Deliveries : Welcomed(d)

\* At the start nothing has been noticed, said or asked.
LEMMA WelcomeInit == Init => WelcomeInv
<1>. SUFFICES ASSUME Init PROVE WelcomeInv
  OBVIOUS
<1>1. ASSUME NEW d \in Deliveries PROVE Welcomed(d)
  <2>1. /\ pc[d] = "new" /\ facts[d].always = {} /\ spoken[d] = {} /\ asked[d] = FALSE
        /\ conversation[d] = None
    BY DEF Init
  <2>2. Notices(Msg(d), pc[d], ctx[d], failed[d], facts[d].always)
    BY <2>1 DEF Notices, NoticesSender, NoticesGroup, NoticesRaid
  <2>. QED
    BY <2>1, <2>2 DEF Welcomed, Unwelcome
<1>. QED
  BY <1>1, CourseInit, MemoryInit DEF WelcomeInv

\* A delivery that is left alone, or lost, has no more to answer for.
LEMMA WelcomeStays ==
  ASSUME NEW d \in Deliveries, Welcomed(d), Remember, (Msg(d))' = Msg(d),
         pc'[d] = pc[d] \/ (pc[d] \in DOMAIN Stage /\ pc'[d] = "lost"),
         ctx'[d] = ctx[d], failed'[d] = failed[d], spoken'[d] = spoken[d], asked'[d] = asked[d],
         conversation'[d] = conversation[d]
  PROVE  Welcomed(d)'
<1>1. (pc'[d] = "new" <=> pc[d] = "new") /\ "lost" \in Ends
  BY PlacesAre DEF Ends
<1>2. facts'[d].always \subseteq facts[d].always
  BY <1>1, Remembered
<1>3. PICK a : a = facts'[d].always
  OBVIOUS
<1>4. Notices(Msg(d), pc'[d], ctx[d], failed[d], a)
  BY <1>1, <1>2, <1>3, NoticesLess, EndsNotice DEF Welcomed
<1>5. Notices(Msg(d), pc[d], ctx[d], failed[d], facts[d].always)'
  BY <1>3, <1>4
<1>. QED
  BY <1>1, <1>2, <1>5 DEF Welcomed, Unwelcome

\* An unwelcome message that comes to the last stage finds the AI switched off.
LEMMA UnwelcomeIsNotAsked ==
  ASSUME CourseInv, MemoryInv, NEW d \in Deliveries, Welcomed(d), Unwelcome(d), pc[d] = "ai"
  PROVE  AiOff(ctx[d])
<1>. DEFINE a == facts[d].always
            c == ctx[d]
<1>1. "user" \notin failed[d] /\ "moderation" \notin failed[d] /\ "raid" \notin failed[d]
  BY DEF Unwelcome
<1>2. NoticesSender("ai", c, a) /\ NoticesGroup("ai", c, a) /\ NoticesRaid(Msg(d), "ai", c, failed[d], a)
  BY <1>1 DEF Welcomed, Notices
<1>3. /\ Past("ai", 2) /\ Past("ai", 6) /\ Past("ai", 9) /\ Resolved("ai") /\ "ai" \in DOMAIN Stage
      /\ "ai" \notin Resolving \union Ends
  BY PlacesAre DEF Past, Resolved, Resolving, Ends
<1>4. ~ c.shadow /\ Relevant(Msg(d), Mode(c))
  BY <1>3 DEF CourseInv, Course, Entered
<1>5. a \subseteq Facts(d)
  BY DEF MemoryInv
<1>6. "blocked" \notin a /\ "shadowIgnored" \notin a /\ "shadowListed" \notin a
  BY <1>2, <1>3, <1>4 DEF NoticesSender
<1>7. "groupBlocked" \notin a
  BY <1>2, <1>3 DEF NoticesGroup
<1>8. "silent" \notin a
  <2>1. SUFFICES ASSUME "silent" \in a PROVE FALSE
    OBVIOUS
  <2>2. InGroup(d)
    BY <1>5, <2>1, FactsAre
  <2>3. Mode(c) = "silent"
    BY <1>2, <1>3, <2>1 DEF NoticesGroup
  <2>. QED
    BY <1>4, <2>2, <2>3 DEF Relevant, InGroup
<1>9. ~ ("moderated" \in a /\ Msg(d).kind = "profane")
  <2>1. SUFFICES ASSUME "moderated" \in a, Msg(d).kind = "profane" PROVE FALSE
    OBVIOUS
  <2>2. c.group /\ Policy(c) # "off"
    BY <1>2, <1>3, <2>1 DEF NoticesGroup
  <2>3. Course(Msg(d), "ai", c, failed[d])
    BY DEF CourseInv
  <2>4. Moderated(c)
    BY <2>1, <2>2, <2>3, TextsAreModerated
  <2>. QED
    BY <1>1, <1>3, <2>1, <2>3, <2>4 DEF Course, Passed
<1>10. ~ ("moderated" \in a /\ "raid" \in a /\ Msg(d).kind # "voice")
  BY <1>1, <1>2, <1>3, <1>4 DEF NoticesRaid
<1>11. "aiOff" \in a
  BY <1>6, <1>7, <1>8, <1>9, <1>10 DEF Unwelcome, Silencing
<1>. QED
  BY <1>2, <1>3, <1>11 DEF NoticesGroup

\* Only one handler asks the model.
LEMMA OnlyOneAsks ==
  ASSUME NEW d \in Deliveries, Handle(d), ~ Ask(d)
  PROVE  UNCHANGED asked
BY DEF Handle, Dedupe, ResolveUser, ResolveGroup, CheckBlacklist, Automate, RateLimit, RateExpire,
       Expires, Media, Warn, Judge, RecordEscalation, CheckRaid, CheckFlood, FloodExpire,
       CheckDuplicate, DuplicateExpire, CountsAgainstSpam, PunishSpam, AiModerate,
       ResolveConversation, MemoryCommand, Respond, Fail, quiet, output

\* The stages that find out who and where say nothing and store nothing.
LEMMA ResolvingIsQuiet ==
  ASSUME NEW d \in Deliveries, Handle(d), pc[d] \in {"dedupe", "user", "group", "blacklist"}
  PROVE  UNCHANGED <<spoken, conversation>>
BY DEF Handle, Dedupe, ResolveUser, ResolveGroup, CheckBlacklist, Automate, RateLimit, RateExpire,
       Media, Warn, Judge, RecordEscalation, CheckRaid, CheckFlood, FloodExpire,
       CheckDuplicate, DuplicateExpire, PunishSpam, AiModerate,
       ResolveConversation, MemoryCommand, Ask, Respond, Fail, quiet, output

\* A handler keeps the unwelcome from the model.
LEMMA WelcomeHandled ==
  ASSUME CourseInv, MemoryInv, NEW d \in Deliveries, Welcomed(d), Handle(d), Remember
  PROVE  Welcomed(d)'
<1>1. /\ pc[d] \in DOMAIN Stage /\ pc[d] \notin Ends \union {"new"} /\ pc'[d] # "new"
      /\ (Msg(d))' = Msg(d)
  BY HandlersMove, EntrancesArePlaces DEF CourseInv, Msg
<1>2. PICK a : a = facts'[d].always
  OBVIOUS
<1>3. a \subseteq facts[d].always
  BY <1>1, <1>2, Remembered
<1>4. failed[d] \subseteq failed'[d]
  <2>1. PICK q, c : Lands(d, q, c)
    BY HandlersMove DEF CourseInv
  <2>. QED
    BY <2>1 DEF Lands
<1>5. Notices(Msg(d), pc[d], ctx[d], failed[d], facts[d].always)'
  <2>1. Notices(Msg(d), pc'[d], ctx'[d], failed'[d], facts[d].always)
    BY NoticesHandled DEF Welcomed
  <2>2. Notices(Msg(d), pc'[d], ctx'[d], failed'[d], a)
    BY <1>3, <2>1, NoticesLess
  <2>. QED
    BY <1>1, <1>2, <2>2
<1>6. Unwelcome(d)' => ~ asked'[d]
  <2>1. SUFFICES ASSUME Unwelcome(d)' PROVE ~ asked'[d]
    OBVIOUS
  <2>2. Unwelcome(d)
    BY <1>1, <1>2, <1>3, <1>4, <2>1 DEF Unwelcome
  <2>3. ~ asked[d]
    BY <2>2 DEF Welcomed
  <2>4. CASE Ask(d)
    <3>1. pc[d] = "ai"
      BY <2>4 DEF Ask
    <3>2. AiOff(ctx[d])
      BY <2>2, <3>1, UnwelcomeIsNotAsked
    <3>. QED
      BY <2>3, <2>4, <3>2 DEF Ask
  <2>5. CASE ~ Ask(d)
    BY <2>3, <2>5, OnlyOneAsks
  <2>. QED
    BY <2>4, <2>5
<1>7. ASSUME "blocked" \in a, "user" \notin failed'[d]
      PROVE  spoken'[d] \subseteq {"maintenance"} /\ conversation'[d] = None
  <2>1. "blocked" \in facts[d].always /\ "user" \notin failed[d]
    BY <1>3, <1>4, <1>7
  <2>2. pc[d] \in Resolving \union Ends \union {"blacklist"}
    BY <2>1 DEF Welcomed, Notices, NoticesSender
  <2>3. UNCHANGED <<spoken, conversation>>
    BY <1>1, <2>2, ResolvingIsQuiet DEF Resolving
  <2>. QED
    BY <2>1, <2>3 DEF Welcomed
<1>. QED
  BY <1>1, <1>2, <1>5, <1>6, <1>7 DEF Welcomed

\* An arrival has not asked and says at most that there is maintenance.
LEMMA WelcomeArrives ==
  ASSUME CourseInv, NEW d \in Deliveries, Welcomed(d), Arrive(d)
  PROVE  Welcomed(d)'
<1>1. /\ pc[d] = "new" /\ pc'[d] \in {"dedupe", "done"}
      /\ UNCHANGED <<asked, conversation>>
  BY ArrivalsMove DEF CourseInv
<1>2. spoken'[d] \subseteq {"maintenance"}
  <2>1. spoken' = spoken \/ Say(d, "maintenance")
    BY DEF Arrive, StopSaying
  <2>. QED
    BY <1>1, <2>1 DEF Say, Welcomed, CourseInv, Shape
<1>3. Notices(Msg(d), pc[d], ctx[d], failed[d], facts[d].always)'
  <2>1. PICK a, m, c, f : a = facts'[d].always /\ m = (Msg(d))' /\ c = ctx'[d] /\ f = failed'[d]
    OBVIOUS
  <2>2. Notices(m, pc'[d], c, f, a)
    <3>1. CASE pc'[d] = "done"
      BY <3>1, EndsNotice DEF Ends
    <3>2. CASE pc'[d] = "dedupe"
      <4>1. ~ Past("dedupe", 2) /\ ~ Past("dedupe", 6) /\ ~ Resolved("dedupe")
        BY PlacesAre DEF Past, Resolved
      <4>. QED
        BY <3>2, <4>1 DEF Notices, NoticesSender, NoticesGroup, NoticesRaid, Resolving
    <3>. QED
      BY <1>1, <3>1, <3>2
  <2>. QED
    BY <2>1, <2>2
<1>. QED
  BY <1>1, <1>2, <1>3 DEF Welcomed

\* The unwelcome are kept from the model by every step.
LEMMA WelcomeNext == WelcomeInv /\ [Next]_vars => WelcomeInv'
<1>. SUFFICES ASSUME WelcomeInv, [Next]_vars PROVE WelcomeInv'
  OBVIOUS
<1>1. CourseInv /\ MemoryInv /\ CourseInv' /\ MemoryInv'
  BY CourseNext, MemoryNext DEF WelcomeInv
<1>2. ASSUME NEW e \in Deliveries PROVE Welcomed(e)'
  <2>0. Welcomed(e) /\ Shape
    BY DEF WelcomeInv, CourseInv
  <2>1. ASSUME Remember, NEW d \in Deliveries, Apart(d), UNCHANGED message, e # d
        PROVE  Welcomed(e)'
    BY <2>0, <2>1, WelcomeStays DEF Apart, Msg
  <2>2. ASSUME Remember, NEW d \in Deliveries, Handle(d) PROVE Welcomed(e)'
    BY <1>1, <2>0, <2>1, <2>2, WelcomeHandled, HandlersMove
  <2>3. ASSUME Remember, NEW d \in Deliveries, Arrive(d) PROVE Welcomed(e)'
    BY <1>1, <2>0, <2>1, <2>3, WelcomeArrives, ArrivalsMove
  <2>4. ASSUME Remember, Around PROVE Welcomed(e)'
    <3>1. /\ pc'[e] = pc[e] \/ (pc[e] \in DOMAIN Stage /\ pc'[e] = "lost")
          /\ UNCHANGED <<message, update, ctx, spoken, asked, conversation, failed>>
      BY <2>0, <2>4, AroundMoves DEF output, history
    <3>. QED
      BY <2>0, <2>4, <3>1, WelcomeStays DEF Msg
  <2>5. ASSUME UNCHANGED vars PROVE Welcomed(e)'
    BY <2>0, <2>5 DEF vars, output, history, Welcomed, Unwelcome, Notices, Msg
  <2>. QED
    BY <2>2, <2>3, <2>4, <2>5, StepsAre
<1>. QED
  BY <1>1, <1>2 DEF WelcomeInv

\* Neither a blacklisted or shadow-ignored user nor a group that is blacklisted,
\* silent or without AI, neither a profane text nor a text in raid mode makes
\* the bot ask the model, whatever the order of the edits and the stages, and a
\* blacklisted user gets no reply and leaves no trace.
THEOREM TheUnwelcomeAreKeptOut == Spec => []UnwelcomeMessagesAreNotAnswered
<1>1. WelcomeInv => UnwelcomeMessagesAreNotAnswered
  BY DEF WelcomeInv, Welcomed, Unwelcome, UnwelcomeMessagesAreNotAnswered,
         UnwelcomeMessagesAreNotAsked, BlockedUsersGetNothing
<1>. QED
  BY <1>1, WelcomeInit, WelcomeNext, PTL DEF Spec

-----------------------------------------------------------------------------
(* Silence.                                                                 *)

\* A message that ends in silence for a reason.
Excused(d) ==
  \/ failed[d] # {}
  \/ facts[d].ever \intersect (Silencing \union {"raid"}) # {}
  \/ Msg(d).kind # "profane" /\ rank[d] # 0
  \/ InGroup(d) /\ ~ Msg(d).addressed

\* What the context says was once the case, and nothing is over without a word.
Heard(d) ==
  /\ ctx[d].shadow => facts[d].ever \intersect {"shadowListed", "shadowIgnored"} # {}
  /\ Mode(ctx[d]) = "silent" => "silent" \in facts[d].ever
  /\ pc[d] = "escalate" => spoken[d] # {}
  /\ pc[d] = "done" /\ accepted[d] # None => Excused(d) \/ spoken[d] # {}

SilenceInv == SanctionInv /\ MemoryInv /\ DedupeInv /\ \A d \in Deliveries : Heard(d)

\* A step that goes to a place goes there.
LEMMA GoesThere ==
  ASSUME Shape, NEW d \in Deliveries, NEW p, Goto(d, p) PROVE pc'[d] = p
BY DEF Shape, Goto

\* A step that moves on to the next stage goes there, with its context.
LEMMA ProceedsThere ==
  ASSUME Shape, NEW d \in Deliveries, NEW p, NEW c, Proceed(d, p, c)
  PROVE  pc'[d] = Onward(d, p, ctx'[d])
BY DEF Shape, Proceed, Put, Goto

\* What was said was said.
LEMMA SaysSomething ==
  ASSUME Shape, NEW d \in Deliveries, NEW w, Say(d, w) PROVE spoken'[d] # {}
BY DEF Shape, Say

\* The ways in which a delivery comes to its end without a failure.
Closed(d) ==
  \/ pc[d] = "dedupe" /\ UNCHANGED accepted
  \/ pc[d] = "group" /\ panel.setting[Msg(d).chat].status = "blacklisted"
  \/ pc[d] = "blacklist" /\ panel.listing[Msg(d).user] = "block"
  \/ pc[d] = "raid" /\ raid[Msg(d).chat]
  \/ pc[d] = "spam" /\ Ranked(d)
  \/ pc[d] = "escalate" /\ UNCHANGED spoken
  \/ spoken'[d] # {}
  \/ pc[d] \in Passing \union {"media", "blacklist"} /\ Onward(d, pc[d], ctx'[d]) = "done"
  \/ /\ pc[d] = "ai" /\ Onward(d, "ai", ctx'[d]) = "done"
     /\ Put(d, [ctx[d] EXCEPT !.result = "content"])

\* A delivery that ends without a failure ends in one of these ways.
LEMMA EndsAreClosed ==
  ASSUME Shape, NEW d \in Deliveries, Handle(d), ~ Fail(d), pc'[d] = "done"
  PROVE  Closed(d)
<1>1. CASE Dedupe(d)
  <2>1. pc[d] = "dedupe"
    BY <1>1 DEF Dedupe
  <2>2. Goto(d, "user") \/ UNCHANGED accepted
    BY <1>1 DEF Dedupe
  <2>. QED
    BY <2>1, <2>2, GoesThere DEF Closed
<1>2. CASE ResolveUser(d)
  BY <1>2, GoesThere DEF ResolveUser
<1>3. CASE ResolveGroup(d)
  BY <1>3, GoesThere DEF ResolveGroup, Closed
<1>4. CASE CheckBlacklist(d)
  <2>1. pc[d] = "blacklist"
    BY <1>4 DEF CheckBlacklist
  <2>2. CASE panel.listing[Msg(d).user] = "block"
    BY <2>1, <2>2 DEF Closed
  <2>3. CASE panel.listing[Msg(d).user] # "block"
    <3>1. PICK c : Proceed(d, "blacklist", c)
      BY <1>4, <2>3 DEF CheckBlacklist
    <3>. QED
      BY <2>1, <3>1, ProceedsThere DEF Closed
  <2>. QED
    BY <2>2, <2>3
<1>5. CASE Automate(d)
  BY <1>5, ProceedsThere DEF Automate, Closed, Passing
<1>6. CASE RateLimit(d)
  <2>1. pc[d] = "rate" /\ UNCHANGED ctx
    BY <1>6 DEF RateLimit
  <2>2. CASE Counts(d, "rate", "rateExpire", Onward(d, "rate", ctx[d]))
    <3>1. Goto(d, IF Incremented(d, "rate").count = 1 THEN "rateExpire" ELSE Onward(d, "rate", ctx[d]))
      BY <2>2 DEF Counts
    <3>2. Onward(d, "rate", ctx[d]) = "done"
      BY <3>1, GoesThere
    <3>. QED
      BY <2>1, <3>2 DEF Closed, Passing
  <2>3. CASE StopSaying(d, "limited")
    BY <2>3, SaysSomething DEF StopSaying, Closed
  <2>. QED
    BY <1>6, <2>2, <2>3 DEF RateLimit
<1>7. CASE RateExpire(d)
  <2>1. pc[d] = "rateExpire" /\ UNCHANGED ctx /\ Goto(d, Onward(d, "rate", ctx[d]))
    BY <1>7 DEF RateExpire, Expires
  <2>2. Onward(d, "rate", ctx[d]) = Onward(d, "rateExpire", ctx[d])
    BY DEF Onward, Stage
  <2>. QED
    BY <2>1, <2>2, GoesThere DEF Closed, Passing
<1>8. CASE Media(d)
  <2>1. pc[d] = "media"
    BY <1>8 DEF Media
  <2>2. CASE StopSaying(d, "voice")
    BY <2>2, SaysSomething DEF StopSaying, Closed
  <2>3. CASE ~ StopSaying(d, "voice")
    <3>1. PICK c : Proceed(d, "media", c)
      BY <1>8, <2>3 DEF Media
    <3>. QED
      BY <2>1, <3>1, ProceedsThere DEF Closed
  <2>. QED
    BY <2>2, <2>3
<1>9. CASE Warn(d)
  BY <1>9, GoesThere DEF Warn
<1>10. CASE Judge(d)
  BY <1>10, SaysSomething DEF Judge, Closed
<1>11. CASE RecordEscalation(d)
  BY <1>11 DEF RecordEscalation, quiet, output, Closed
<1>12. CASE CheckRaid(d)
  BY <1>12, GoesThere DEF CheckRaid, Closed
<1>13. ASSUME NEW p \in {"flood", "floodExpire"}, pc[d] = p, UNCHANGED ctx, AfterFlood(d) = "done"
       PROVE  Closed(d)
  <2>1. Onward(d, "flood", ctx[d]) = "done"
    BY <1>13 DEF AfterFlood
  <2>2. Onward(d, "flood", ctx[d]) = Onward(d, "floodExpire", ctx[d])
    BY DEF Onward, Stage
  <2>. QED
    BY <1>13, <2>1, <2>2 DEF Closed, Passing
<1>14. ASSUME NEW kind, NEW expiring, NEW next, CountsAgainstSpam(d, kind, expiring, next),
              expiring # "done"
       PROVE  next = "done" /\ UNCHANGED ctx
  <2>1. UNCHANGED ctx
    BY <1>14 DEF CountsAgainstSpam
  <2>2. CASE Counts(d, kind, expiring, next)
    <3>1. Goto(d, IF Incremented(d, kind).count = 1 THEN expiring ELSE next)
      BY <2>2 DEF Counts
    <3>. QED
      BY <1>14, <2>1, <3>1, GoesThere
  <2>3. CASE Goto(d, "spam")
    BY <2>3, GoesThere
  <2>. QED
    BY <1>14, <2>2, <2>3 DEF CountsAgainstSpam
<1>15. CASE CheckFlood(d)
  BY <1>13, <1>14, <1>15 DEF CheckFlood
<1>16. CASE FloodExpire(d)
  BY <1>13, <1>16, GoesThere DEF FloodExpire, Expires
<1>17. CASE CheckDuplicate(d)
  <2>1. pc[d] = "duplicate" /\ Onward(d, "duplicate", ctx[d]) = "done" /\ UNCHANGED ctx
    BY <1>14, <1>17 DEF CheckDuplicate
  <2>. QED
    BY <2>1 DEF Closed, Passing
<1>18. CASE DuplicateExpire(d)
  <2>1. Onward(d, "duplicate", ctx[d]) = Onward(d, "duplicateExpire", ctx[d])
    BY DEF Onward, Stage
  <2>. QED
    BY <1>18, <2>1, GoesThere DEF DuplicateExpire, Expires, Closed, Passing
<1>19. CASE PunishSpam(d)
  BY <1>19 DEF PunishSpam, Closed
<1>20. CASE AiModerate(d)
  <2>1. pc[d] = "aiModeration"
    BY <1>20 DEF AiModerate
  <2>2. CASE StopSaying(d, "deleted")
    BY <2>2, SaysSomething DEF StopSaying, Closed
  <2>3. CASE Proceed(d, "aiModeration", ctx[d])
    BY <2>1, <2>3, ProceedsThere DEF Closed, Passing
  <2>. QED
    BY <1>20, <2>2, <2>3 DEF AiModerate
<1>21. CASE ResolveConversation(d)
  BY <1>21, ProceedsThere DEF ResolveConversation, Closed, Passing
<1>22. CASE MemoryCommand(d)
  BY <1>22, SaysSomething DEF MemoryCommand, StopSaying, Closed
<1>23. CASE Ask(d)
  <2>1. pc[d] = "ai"
    BY <1>23 DEF Ask
  <2>2. CASE Proceed(d, "ai", [ctx[d] EXCEPT !.result = "content"])
    BY <2>1, <2>2, ProceedsThere DEF Proceed, Closed
  <2>3. CASE \E w : Say(d, w)
    BY <2>3, SaysSomething DEF Closed
  <2>. QED
    BY <1>23, <2>2, <2>3 DEF Ask, StopSaying
<1>24. CASE Respond(d)
  BY <1>24, SaysSomething DEF Respond, StopSaying, Closed
<1>. QED
  BY <1>1, <1>2, <1>3, <1>4, <1>5, <1>6, <1>7, <1>8, <1>9, <1>10, <1>11, <1>12, <1>15, <1>16,
     <1>17, <1>18, <1>19, <1>20, <1>21, <1>22, <1>23, <1>24 DEF Handle

\* Only the stages that find out who and where change what is known of them.
LEMMA SenderStays ==
  ASSUME NEW d, NEW q, NEW c, Stops(d, q, c) \/ Skips(d, q, c) \/ GoesOn(d, q, c)
  PROVE  c.shadow = ctx[d].shadow /\ c.settings = ctx[d].settings
<1>1. CASE c = ctx[d]
  BY <1>1
<1>2. ASSUME NEW u, NEW g, NEW t, NEW r,
             c = Ctx(u, g, ctx[d].settings, ctx[d].shadow, t, r)
      PROVE  c.shadow = ctx[d].shadow /\ c.settings = ctx[d].settings
  BY <1>2, CtxFields
<1>3. CASE Stops(d, q, c)
  BY <1>1, <1>3 DEF Stops
<1>4. CASE Skips(d, q, c)
  BY <1>1, <1>2, <1>4 DEF Skips
<1>5. CASE GoesOn(d, q, c)
  BY <1>1, <1>2, <1>5 DEF GoesOn
<1>. QED
  BY <1>3, <1>4, <1>5

\* The context only holds of the sender and the mode what was once the case.
LEMMA ContextIsHeard ==
  ASSUME CourseInv, MemoryInv, NEW d \in Deliveries, Heard(d), Handle(d), Remember
  PROVE  /\ ctx'[d].shadow => facts'[d].ever \intersect {"shadowListed", "shadowIgnored"} # {}
         /\ Mode(ctx'[d]) = "silent" => "silent" \in facts'[d].ever
<1>1. PICK q, c : Lands(d, q, c)
  BY HandlersMove DEF CourseInv
<1>2. ctx'[d] = c /\ (Ways(d, q, c) \/ Skips(d, q, c))
  BY <1>1 DEF Lands, Ways
<1>3. pc[d] \in DOMAIN Stage /\ pc[d] # "new" /\ pc'[d] # "new"
  BY HandlersMove, PlacesAre DEF CourseInv
<1>4. facts[d].ever \subseteq facts'[d].ever
  BY <1>3, Remembered
<1>5. Facts(d) \subseteq facts[d].ever
  BY <1>3 DEF MemoryInv
<1>6. Mode(c) = Mode(ctx[d]) \/ (Mode(c) = "silent" => "silent" \in Facts(d))
  <2>1. CASE c.settings = ctx[d].settings
    BY <2>1 DEF Mode
  <2>2. CASE Finds(d, q, c) /\ pc[d] = "group"
    <3>1. PICK yes : c = Ctx(ctx[d].user, yes, panel.setting[Msg(d).chat], ctx[d].shadow,
                             ctx[d].text, ctx[d].result)
      BY <2>2 DEF Finds
    <3>2. c.settings = panel.setting[Msg(d).chat]
      BY <3>1, CtxFields
    <3>3. InGroup(d)
      BY <2>2 DEF CourseInv, Course, Grounded, InGroup
    <3>. QED
      BY <3>2, <3>3, FactsAre DEF Mode
  <2>3. CASE Stops(d, q, c) \/ Skips(d, q, c) \/ GoesOn(d, q, c)
    <3>1. c.settings = ctx[d].settings
      BY <2>3, SenderStays
    <3>. QED
      BY <2>1, <3>1
  <2>4. CASE Finds(d, q, c) /\ pc[d] # "group"
    <3>1. CASE c = ctx[d]
      BY <2>1, <3>1
    <3>2. ASSUME NEW u, NEW z, c = Ctx(u, ctx[d].group, ctx[d].settings, z, ctx[d].text, ctx[d].result)
          PROVE  c.settings = ctx[d].settings
      BY <3>2, CtxFields
    <3>. QED
      BY <2>1, <2>4, <3>1, <3>2 DEF Finds
  <2>. QED
    BY <1>2, <2>2, <2>3, <2>4 DEF Ways
<1>7. c.shadow => ctx[d].shadow \/ Facts(d) \intersect {"shadowListed", "shadowIgnored"} # {}
  <2>1. CASE Stops(d, q, c) \/ Skips(d, q, c) \/ GoesOn(d, q, c)
    <3>1. c.shadow = ctx[d].shadow
      BY <2>1, SenderStays
    <3>. QED
      BY <3>1
  <2>2. CASE pc[d] = "dedupe" /\ c = ctx[d]
    BY <2>2
  <2>3. CASE pc[d] = "user" /\ Finds(d, q, c)
    <3>1. PICK yes, w : /\ w = (panel.status[Msg(d).user] = "shadow_ignored")
                        /\ c = Ctx(yes, ctx[d].group, ctx[d].settings, w, ctx[d].text, ctx[d].result)
      BY <2>3 DEF Finds
    <3>2. c = Ctx(yes, ctx[d].group, ctx[d].settings, w, ctx[d].text, ctx[d].result)
      BY <3>1
    <3>3. c.shadow = w
      BY <3>2, CtxFields
    <3>4. c.shadow => "shadowIgnored" \in Facts(d)
      BY <3>1, <3>3, FactsAre
    <3>. QED
      BY <3>4
  <2>4. CASE pc[d] = "group" /\ Finds(d, q, c)
    <3>1. PICK yes : c = Ctx(ctx[d].user, yes, panel.setting[Msg(d).chat], ctx[d].shadow,
                             ctx[d].text, ctx[d].result)
      BY <2>4 DEF Finds
    <3>2. c.shadow = ctx[d].shadow
      BY <3>1, CtxFields
    <3>. QED
      BY <3>2
  <2>5. CASE pc[d] = "blacklist" /\ Finds(d, q, c)
    <3>1. PICK z : /\ z = (ctx[d].shadow \/ panel.listing[Msg(d).user] = "shadow")
                   /\ c = Ctx(ctx[d].user, ctx[d].group, ctx[d].settings, z, ctx[d].text, ctx[d].result)
      BY <2>5 DEF Finds
    <3>2. c = Ctx(ctx[d].user, ctx[d].group, ctx[d].settings, z, ctx[d].text, ctx[d].result)
      BY <3>1
    <3>3. c.shadow = z
      BY <3>2, CtxFields
    <3>4. c.shadow => ctx[d].shadow \/ "shadowListed" \in Facts(d)
      BY <3>1, <3>3, FactsAre
    <3>. QED
      BY <3>4
  <2>. QED
    BY <1>2, <2>1, <2>2, <2>3, <2>4, <2>5 DEF Ways, Finds
<1>8. ctx[d].shadow => facts[d].ever \intersect {"shadowListed", "shadowIgnored"} # {}
  BY DEF Heard
<1>9. Mode(ctx[d]) = "silent" => "silent" \in facts[d].ever
  BY DEF Heard
<1>10. c.shadow => facts'[d].ever \intersect {"shadowListed", "shadowIgnored"} # {}
  BY <1>4, <1>5, <1>7, <1>8
<1>11. Mode(c) = "silent" => "silent" \in facts'[d].ever
  BY <1>4, <1>5, <1>6, <1>9
<1>. QED
  BY <1>2, <1>10, <1>11

\* The stages from a place on leave a message without an answer only if its
\* sender is shadowed or it is not relevant.
LEMMA OnwardEnds ==
  ASSUME NEW d, NEW p \in DOMAIN Stage, NEW c, Onward(d, p, c) = "done",
         p = "ai" => c.result = "content",
         Past(p, 9) => p \in {"conversation", "ai"} /\ Relevant(Msg(d), Mode(c))
  PROVE  c.shadow \/ ~ Relevant(Msg(d), Mode(c))
<1>1. Applies(d, "relevance", c) => ~ Relevant(Msg(d), Mode(c))
  BY DEF Applies
<1>2. Applies(d, "conversation", c) \/ Applies(d, "ai", c) => ~ c.shadow
  BY DEF Applies
<1>3. ~ c.shadow => Applies(d, "conversation", c) /\ Applies(d, "ai", c)
  BY DEF Applies
<1>4. c.result = "content" => Applies(d, "respond", c)
  BY DEF Applies
<1>5. CASE p = "ai"
  <2>1. At(p) = 12 /\ Past(p, 9)
    BY <1>5, PlacesAre DEF Past
  <2>. QED
    BY <1>1, <1>4, <1>5, <2>1, OnwardLeads
<1>6. CASE p # "ai"
  <2>1. At(p) \in 1 .. 13 /\ (At(p) > 9 => p = "conversation") /\ At("conversation") = 10
    BY <1>6, AtType, PlacesAre DEF Past
  <2>2. At(p) < 12
    BY <2>1
  <2>. QED
    BY <1>1, <1>3, <2>2, OnwardLeads
<1>. QED
  BY <1>5, <1>6

\* A handler that ends a delivery has spoken, or has a reason not to.
LEMMA EndsAreExcused ==
  ASSUME SanctionInv, MemoryInv, DedupeInv, NEW d \in Deliveries, Heard(d), Handle(d), Remember,
         pc'[d] = "done", accepted'[d] # None
  PROVE  Excused(d)' \/ spoken'[d] # {}
<1>1. CourseInv /\ Shape
  BY DEF SanctionInv, CourseInv
<1>2. /\ pc[d] \in DOMAIN Stage /\ pc[d] # "new"
      /\ (Msg(d))' = Msg(d) /\ InGroup(d)' = InGroup(d)
  BY <1>1, HandlersMove, PlacesAre DEF Msg, InGroup
<1>3. Facts(d) \subseteq facts[d].ever /\ facts[d].ever \subseteq facts'[d].ever
  BY <1>2, Remembered DEF MemoryInv
<1>4. CASE Fail(d)
  <2>1. failed'[d] = failed[d] \union {Stage[pc[d]]}
    BY <1>1, <1>4, HandlersKeepTheOrder
  <2>. QED
    BY <2>1 DEF Excused
<1>5. CASE ~ Fail(d)
  <2>1. Closed(d) /\ failed'[d] = failed[d]
    BY <1>1, <1>5, EndsAreClosed, HandlersKeepTheOrder
  <2>2. PICK c : c = ctx'[d]
    OBVIOUS
  <2>3. /\ c.shadow => facts'[d].ever \intersect {"shadowListed", "shadowIgnored"} # {}
        /\ Mode(c) = "silent" => "silent" \in facts'[d].ever
    BY <1>1, <2>2, ContextIsHeard
  <2>4. ASSUME c.shadow \/ ~ Relevant(Msg(d), Mode(c)) PROVE Excused(d)'
    <3>1. CASE c.shadow
      BY <2>3, <3>1 DEF Excused, Silencing
    <3>2. CASE Mode(c) = "silent"
      BY <2>3, <3>2 DEF Excused, Silencing
    <3>3. CASE InGroup(d) /\ ~ Msg(d).addressed
      BY <1>2, <3>3 DEF Excused
    <3>. QED
      BY <2>4, <3>1, <3>2, <3>3 DEF Relevant, InGroup
  <2>5. CASE pc[d] = "dedupe" /\ UNCHANGED accepted
    BY <2>5 DEF DedupeInv, Reserved
  <2>6. CASE pc[d] = "group" /\ panel.setting[Msg(d).chat].status = "blacklisted"
    <3>1. InGroup(d)
      BY <1>1, <2>6 DEF CourseInv, Course, Grounded, InGroup
    <3>2. "groupBlocked" \in facts'[d].ever
      BY <1>3, <2>6, <3>1, FactsAre
    <3>. QED
      BY <3>2 DEF Excused, Silencing
  <2>7. CASE pc[d] = "blacklist" /\ panel.listing[Msg(d).user] = "block"
    <3>1. "blocked" \in facts'[d].ever
      BY <1>3, <2>7, FactsAre
    <3>. QED
      BY <3>1 DEF Excused, Silencing
  <2>8. CASE pc[d] = "raid" /\ raid[Msg(d).chat]
    <3>1. InGroup(d)
      BY <1>1, <2>8 DEF CourseInv, Course, Grounded, Entered, AntiSpam, Moderated, InGroup
    <3>2. "raid" \in facts'[d].ever
      BY <1>3, <2>8, <3>1, FactsAre
    <3>. QED
      BY <3>2 DEF Excused
  <2>9. CASE pc[d] = "spam" /\ Ranked(d)
    <3>1. CASE Msg(d).kind = "profane"
      <4>1. Past("spam", 6)
        BY PlacesAre DEF Past
      <4>2. failed[d] # {}
        BY <1>1, <2>9, <3>1, <4>1 DEF CourseInv, Course, Entered, Passed, AntiSpam
      <4>. QED
        BY <2>1, <4>2 DEF Excused
    <3>2. CASE Msg(d).kind # "profane"
      <4>1. warnings[WarnedIn(d)] \in Nat
        BY <1>1, <2>9, WarningsAreKept DEF SanctionInv
      <4>2. rank'[d] # 0
        BY <1>1, <2>9, <4>1 DEF Ranked, Shape
      <4>. QED
        BY <1>2, <3>2, <4>2 DEF Excused
    <3>. QED
      BY <3>1, <3>2
  <2>10. CASE pc[d] = "escalate" /\ UNCHANGED spoken
    BY <2>10 DEF Heard
  <2>11. CASE pc[d] \in Passing \union {"media", "blacklist"} /\ Onward(d, pc[d], c) = "done"
    <3>1. Past(pc[d], 9) => pc[d] = "conversation"
      BY <2>11, PlacesAre DEF Past, Passing
    <3>2. pc[d] # "ai"
      BY <2>11 DEF Passing
    <3>3. pc[d] = "conversation" => Mode(c) = Mode(ctx[d])
      <4>1. PICK q, k : Lands(d, q, k)
        BY <1>1, HandlersMove
      <4>2. SUFFICES ASSUME pc[d] = "conversation" PROVE k = ctx[d]
        BY <2>2, <4>1 DEF Lands
      <4>. QED
        BY <4>1, <4>2 DEF Lands, Ways, Stops, Finds, GoesOn, Skips
    <3>4. Past(pc[d], 9) => Relevant(Msg(d), Mode(ctx[d]))
      BY <1>1 DEF CourseInv, Course, Entered
    <3>5. c.shadow \/ ~ Relevant(Msg(d), Mode(c))
      BY <1>2, <2>11, <3>1, <3>2, <3>3, <3>4, OnwardEnds
    <3>. QED
      BY <2>4, <3>5
  <2>12. CASE /\ pc[d] = "ai" /\ Onward(d, "ai", c) = "done"
              /\ Put(d, [ctx[d] EXCEPT !.result = "content"])
    <3>1. IsCtx(ctx[d])
      BY <1>1 DEF Shape
    <3>2. c = Ctx(ctx[d].user, ctx[d].group, ctx[d].settings, ctx[d].shadow, ctx[d].text, "content")
      BY <1>1, <2>2, <2>12, <3>1, ResultGoes DEF Put, Shape
    <3>3. c.settings = ctx[d].settings /\ c.result = "content"
      BY <3>2, CtxFields
    <3>4. "ai" \in DOMAIN Stage /\ Past("ai", 9)
      BY PlacesAre DEF Past
    <3>5. Relevant(Msg(d), Mode(ctx[d])) /\ Mode(c) = Mode(ctx[d])
      BY <1>1, <2>12, <3>3, <3>4 DEF CourseInv, Course, Entered, Mode
    <3>6. c.shadow \/ ~ Relevant(Msg(d), Mode(c))
      BY <2>12, <3>3, <3>4, <3>5, OnwardEnds
    <3>. QED
      BY <2>4, <3>6
  <2>. QED
    BY <2>1, <2>2, <2>5, <2>6, <2>7, <2>8, <2>9, <2>10, <2>11, <2>12 DEF Closed
<1>. QED
  BY <1>4, <1>5

\* A delivery is put on the ladder only after its user was told.
LEMMA LadderIsSaid ==
  ASSUME CourseInv, NEW d \in Deliveries, Handle(d), pc'[d] = "escalate"
  PROVE  spoken'[d] # {}
<1>1. Shape
  BY DEF CourseInv
<1>2. ~ Fail(d)
  <2>1. SUFFICES ASSUME Fail(d) PROVE FALSE
    OBVIOUS
  <2>2. PICK a, b : Moved(d, a, b) /\ (Stops(d, a, b) \/ Skips(d, a, b))
    BY <1>1, <2>1, FailuresLead
  <2>3. a = "escalate"
    BY <1>1, <2>2 DEF Moved, Goto, Shape
  <2>. QED
    BY <2>2, <2>3, OnwardLeads DEF Stops, Skips, Entrances
<1>3. pc[d] = "count"
  <2>1. PICK q, c : Moved(d, q, c) /\ Ways(d, q, c)
    BY <1>1, <1>2, HandlersLead
  <2>2. q = "escalate"
    BY <1>1, <2>1 DEF Moved, Goto, Shape
  <2>3. \A p \in DOMAIN Stage : Onward(d, p, c) # "escalate"
    BY OnwardLeads DEF Entrances
  <2>4. ~ Stops(d, q, c) /\ ~ Finds(d, q, c)
    BY <2>2, <2>3, PlacesAre DEF Stops, Finds
  <2>. QED
    BY <2>1, <2>2, <2>3, <2>4, PlacesAre DEF Ways, GoesOn, Passing, Within
<1>4. Judge(d)
  BY <1>2, <1>3, OnlyThreePunish DEF Warn, PunishSpam
<1>. QED
  BY <1>1, <1>4, SaysSomething DEF Judge

\* A delivery that is left alone, or lost, keeps its reasons.
LEMMA SilenceStays ==
  ASSUME NEW d \in Deliveries, Heard(d), Remember, (Msg(d))' = Msg(d), InGroup(d)' = InGroup(d),
         pc[d] = "new" => ~ ctx[d].shadow /\ Mode(ctx[d]) # "silent",
         pc'[d] = pc[d] \/ (pc[d] \in DOMAIN Stage /\ pc'[d] = "lost"),
         ctx'[d] = ctx[d], failed'[d] = failed[d], spoken'[d] = spoken[d], rank'[d] = rank[d],
         accepted'[d] = accepted[d]
  PROVE  Heard(d)'
<1>1. pc'[d] = "new" <=> pc[d] = "new"
  BY PlacesAre
<1>2. pc[d] # "new" => facts[d].ever \subseteq facts'[d].ever
  BY <1>1, Remembered
<1>3. Mode(ctx[d])' = Mode(ctx[d])
  BY DEF Mode
<1>4. pc'[d] = "done" => pc[d] = "done" /\ (Excused(d) => Excused(d)')
  <2>1. "done" # "new"
    OBVIOUS
  <2>. QED
    BY <1>2, <2>1 DEF Excused
<1>. QED
  BY <1>1, <1>2, <1>3, <1>4 DEF Heard

\* An update that has just come knows nothing of its sender and his group.
LEMMA NewsAreBlank ==
  ASSUME CourseInv, NEW d \in Deliveries, pc[d] = "new"
  PROVE  ~ ctx[d].shadow /\ Mode(ctx[d]) # "silent"
BY DEF CourseInv, Course, Grounded, Resolving, Mode

\* At the start nothing has ended.
LEMMA SilenceInit == Init => SilenceInv
<1>. SUFFICES ASSUME Init PROVE SilenceInv
  OBVIOUS
<1>1. ASSUME NEW d \in Deliveries PROVE Heard(d)
  <2>1. pc[d] = "new"
    BY DEF Init
  <2>. QED
    BY <2>1, CourseInit, NewsAreBlank DEF Heard
<1>. QED
  BY <1>1, SanctionInit, MemoryInit, DedupeInit DEF SilenceInv

\* An arrival has not been accepted.
LEMMA SilenceArrives ==
  ASSUME CourseInv, DedupeInv, NEW d \in Deliveries, Arrive(d)
  PROVE  Heard(d)'
<1>1. /\ pc[d] = "new" /\ pc'[d] \in {"dedupe", "done"} /\ UNCHANGED accepted
  BY ArrivalsMove DEF CourseInv, history
<1>2. PICK text \in BOOLEAN : ctx'[d] = Ctx(FALSE, FALSE, None, FALSE, text, "none")
  BY ArrivalsMove DEF CourseInv
<1>3. PICK no : no = FALSE
  OBVIOUS
<1>4. PICK c : c = ctx'[d]
  OBVIOUS
<1>5. c = Ctx(no, no, None, no, text, "none")
  BY <1>2, <1>3, <1>4
<1>6. c.settings = None /\ c.shadow = no
  BY <1>5, CtxFields
<1>7. Mode(c) # "silent" /\ ~ c.shadow
  BY <1>3, <1>6 DEF Mode
<1>8. Mode(ctx[d])' # "silent" /\ ~ ctx'[d].shadow
  BY <1>4, <1>7
<1>9. accepted'[d] = None
  BY <1>1 DEF DedupeInv, Reserved
<1>. QED
  BY <1>1, <1>8, <1>9 DEF Heard

\* A handler keeps the reasons of its own delivery.
LEMMA SilenceHandled ==
  ASSUME SanctionInv, MemoryInv, DedupeInv, NEW d \in Deliveries, Heard(d), Handle(d), Remember
  PROVE  Heard(d)'
<1>1. CourseInv
  BY DEF SanctionInv
<1>2. PICK c : c = ctx'[d]
  OBVIOUS
<1>3. /\ c.shadow => facts'[d].ever \intersect {"shadowListed", "shadowIgnored"} # {}
      /\ Mode(c) = "silent" => "silent" \in facts'[d].ever
  BY <1>1, <1>2, ContextIsHeard
<1>4. Mode(ctx[d])' = Mode(c)
  BY <1>2
<1>. QED
  BY <1>1, <1>2, <1>3, <1>4, LadderIsSaid, EndsAreExcused DEF Heard

\* The reasons for a silence are kept by every step.
LEMMA SilenceNext == SilenceInv /\ [Next]_vars => SilenceInv'
<1>. SUFFICES ASSUME SilenceInv, [Next]_vars PROVE SilenceInv'
  OBVIOUS
<1>1. SanctionInv /\ MemoryInv /\ DedupeInv /\ CourseInv /\ Shape
  BY DEF SilenceInv, SanctionInv, CourseInv
<1>2. SanctionInv' /\ MemoryInv' /\ DedupeInv'
  BY <1>1, SanctionNext, MemoryNext, DedupeNext
<1>3. ASSUME NEW e \in Deliveries PROVE Heard(e)'
  <2>0. Heard(e) /\ (pc[e] = "new" => ~ ctx[e].shadow /\ Mode(ctx[e]) # "silent")
    BY <1>1, NewsAreBlank DEF SilenceInv
  <2>1. ASSUME Remember, NEW d \in Deliveries, Apart(d), UNCHANGED message, e # d
        PROVE  Heard(e)'
    <3>1. (Msg(e))' = Msg(e) /\ InGroup(e)' = InGroup(e)
      BY <2>1 DEF Apart, Msg, InGroup
    <3>. QED
      BY <2>0, <2>1, <3>1, SilenceStays DEF Apart
  <2>2. ASSUME Remember, NEW d \in Deliveries, Handle(d) PROVE Heard(e)'
    BY <1>1, <2>0, <2>1, <2>2, SilenceHandled, HandlersMove
  <2>3. ASSUME Remember, NEW d \in Deliveries, Arrive(d) PROVE Heard(e)'
    BY <1>1, <2>0, <2>1, <2>3, SilenceArrives, ArrivalsMove
  <2>4. ASSUME Remember, Around PROVE Heard(e)'
    <3>1. /\ pc'[e] = pc[e] \/ (pc[e] \in DOMAIN Stage /\ pc'[e] = "lost")
          /\ UNCHANGED <<message, update, ctx, spoken, failed, rank, accepted>>
      BY <1>1, <2>4, AroundMoves DEF output, history
    <3>2. (Msg(e))' = Msg(e) /\ InGroup(e)' = InGroup(e)
      BY <3>1 DEF Msg, InGroup
    <3>. QED
      BY <2>0, <2>4, <3>1, <3>2, SilenceStays
  <2>5. ASSUME UNCHANGED vars PROVE Heard(e)'
    BY <2>0, <2>5 DEF vars, output, history, Heard, Excused, Msg, InGroup, Mode
  <2>. QED
    BY <2>2, <2>3, <2>4, <2>5, StepsAre
<1>. QED
  BY <1>2, <1>3 DEF SilenceInv

\* A message addressed to the bot that is no spam, in a chat that the panel and
\* the raid mode have left open, comes to its end with a reply unless a stage
\* has failed on the way: no combination of stages swallows it.
THEOREM NoMessageIsSwallowed == Spec => []NoSilence
<1>1. SilenceInv => NoSilence
  BY DEF SilenceInv, Heard, Excused, NoSilence
<1>. QED
  BY <1>1, SilenceInit, SilenceNext, PTL DEF Spec
=============================================================================
