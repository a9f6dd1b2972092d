-------------------------- MODULE BotLifecycleProofs --------------------------
(***************************************************************************)
(* Proofs about BotLifecycle, for any tokens, any threshold and any number *)
(* of updates, edits and faults.                                           *)
(***************************************************************************)
EXTENDS BotLifecycle, TLAPS

StepOf(at, count) == [at |-> at, count |-> count]
JoinsOf(count, expires) == [count |-> count, expires |-> expires]
MissedOf(update, raid) == [update |-> update, raid |-> raid]

Neutral == {"join", "message"}
Counting == {"count", "expire", "check", "arm"}

\* What Telegram keeps, and how far the process has come with it.
Shape ==
  /\ queue \in Seq(Updates)
  /\ fetched \in 0 .. Len(queue) /\ handled \in 0 .. fetched
  /\ step = StepOf(step.at, step.count) /\ step.at \in {"none", "group"} \union Counting
  /\ step.at # "none" => handled < fetched
  /\ step.at \in Counting => Update = "join"
  /\ missed = MissedOf(missed.update, missed.raid)

\* The bot can only be added when it was no member, and so on; it is one now
\* if the last thing that happened is not that it left.
Chain ==
  /\ member \in BOOLEAN
  /\ queue # <<>> => (member <=> queue[Len(queue)] # "left")
  /\ \A i \in 1 .. Len(queue) - 1 : queue[i] = "left" <=> queue[i + 1] = "added"

\* Whether the bot was a member after the first k updates of the queue.
Was(k) ==
  IF k > 0 THEN queue[k] # "left" ELSE IF queue = <<>> THEN member ELSE queue[1] # "added"

\* The row is as the last update handled has left it, or it is ahead: updates
\* handled before a crash are delivered again, and none so far bears on it.
Right(h) ==
  \E k \in 0 .. Len(queue) :
    /\ status # "orphaned" <=> Was(k)
    /\ k = h \/ \A i \in 1 .. h : queue[i] \in Neutral

MemberInv == Shape /\ Chain /\ (~ missed.update => Right(handled))

\* Either the raid mode is on, or the join that crosses the threshold is in hand.
RaidInv ==
  /\ joins = JoinsOf(joins.count, joins.expires)
  /\ joins.count \in Nat /\ step.count \in Nat
  /\ step.at = "expire" => joins.count = step.count /\ ~ joins.expires
  /\ step.at = "check" => joins.count <= step.count
  /\ joins.count > Threshold /\ joins.expires /\ ~ missed.raid =>
       raidMode # "off" \/ step.at = "arm" \/ (step.at = "check" /\ step.count > Threshold)

\* A record with one field changed, field by field.
LEMMA StepGoes ==
  ASSUME Shape, NEW place PROVE [step EXCEPT !.at = place] = StepOf(place, step.count)
BY DEF Shape, StepOf

\* A mark of what was missed, field by field.
LEMMA MissedGoes ==
  ASSUME Shape, NEW b
  PROVE  /\ [missed EXCEPT !.update = b] = MissedOf(b, missed.raid)
         /\ [missed EXCEPT !.raid = b] = MissedOf(missed.update, b)
BY DEF Shape, MissedOf

\* What the fields of the three records are read back as.
LEMMA RecordFields ==
  /\ \A a, b : StepOf(a, b).at = a /\ StepOf(a, b).count = b
  /\ \A a, b : JoinsOf(a, b).count = a /\ JoinsOf(a, b).expires = b
  /\ \A a, b : MissedOf(a, b).update = a /\ MissedOf(a, b).raid = b
BY DEF StepOf, JoinsOf, MissedOf

\* No step is in hand at the start, and after an update is through.
LEMMA NoStepInHand == NoStep = StepOf("none", 0) /\ NoStep.at = "none" /\ NoStep.count = 0
BY DEF NoStep, StepOf

\* Nothing that the invariant is about changes.
LEMMA MemberStays ==
  ASSUME MemberInv, UNCHANGED <<member, queue, fetched, handled, step, status, missed>>
  PROVE  MemberInv'
BY DEF MemberInv, Shape, Chain, Right, Was, Update

\* The process is down, and Telegram has nothing for the bot.
LEMMA MemberInit == Init => MemberInv
<1>. SUFFICES ASSUME Init PROVE MemberInv
  OBVIOUS
<1>1. /\ member = TRUE /\ queue = <<>> /\ fetched = 0 /\ handled = 0 /\ step = NoStep
      /\ status = "active" /\ missed = MissedOf(FALSE, FALSE)
  BY DEF Init, MissedOf
<1>2. Len(queue) = 0
  BY <1>1
<1>3. Shape
  <2>1. queue \in Seq(Updates) /\ fetched \in 0 .. Len(queue) /\ handled \in 0 .. fetched
    BY <1>1, <1>2
  <2>2. step = StepOf(step.at, step.count) /\ step.at = "none"
    BY <1>1, NoStepInHand
  <2>3. missed = MissedOf(missed.update, missed.raid)
    BY <1>1 DEF MissedOf
  <2>. QED
    BY <2>1, <2>2, <2>3 DEF Shape, Counting
<1>4. Chain
  BY <1>1, <1>2 DEF Chain
<1>5. Right(0)
  BY <1>1, <1>2 DEF Right, Was
<1>. QED
  BY <1>1, <1>3, <1>4, <1>5 DEF MemberInv

\* An update that says nothing about membership is through.
LEMMA NeutralPasses ==
  ASSUME MemberInv, ~ missed.update, handled < fetched, Update \in Neutral,
         UNCHANGED <<queue, member, status>>, handled' = handled + 1
  PROVE  Right(handled)'
<1>1. PICK k \in 0 .. Len(queue) :
        /\ status # "orphaned" <=> Was(k)
        /\ k = handled \/ \A i \in 1 .. handled : queue[i] \in Neutral
  BY DEF MemberInv, Right
<1>2. /\ handled \in Nat /\ handled + 1 \in 0 .. Len(queue) /\ Len(queue) \in Nat
      /\ queue # <<>>
  BY DEF MemberInv, Shape
<1>3. Was(handled + 1) /\ Was(handled)
  <2>1. queue[handled + 1] # "left" /\ queue[handled + 1] # "added"
    BY DEF Neutral, Update
  <2>2. handled > 0 => queue[handled] # "left"
    BY <1>2, <2>1 DEF MemberInv, Chain
  <2>. QED
    BY <1>2, <2>1, <2>2 DEF Was
<1>4. CASE k = handled
  <2>1. (status # "orphaned" <=> Was(handled + 1))
    BY <1>1, <1>3, <1>4
  <2>. QED
    BY <1>2, <2>1 DEF Right, Was
<1>5. CASE \A i \in 1 .. handled : queue[i] \in Neutral
  <2>1. \A i \in 1 .. handled + 1 : queue[i] \in Neutral
    BY <1>2, <1>5 DEF Update
  <2>. QED
    BY <1>1, <2>1 DEF Right, Was
<1>. QED
  BY <1>1, <1>4, <1>5

\* The process ends, with everything that was in hand.
LEMMA MemberEnds ==
  ASSUME MemberInv, Ends, UNCHANGED <<queue, member, status>>
  PROVE  MemberInv'
<1>1. fetched' = 0 /\ handled' = 0 /\ step' = NoStep
  BY DEF Ends
<1>2. PICK raid : missed' = [missed EXCEPT !.raid = raid]
  BY DEF Ends
<1>3. missed' = MissedOf(missed.update, raid)
  BY <1>2, MissedGoes DEF MemberInv
<1>4. missed' = MissedOf(missed'.update, missed'.raid) /\ missed'.update = missed.update
  BY <1>3, RecordFields
<1>5. Shape'
  BY <1>1, <1>4, NoStepInHand DEF MemberInv, Shape, Counting
<1>6. Chain'
  BY DEF MemberInv, Chain
<1>7. Right(handled) => Right(handled)'
  BY <1>1 DEF Right, Was
<1>. QED
  BY <1>4, <1>5, <1>6, <1>7 DEF MemberInv

\* Telegram gets another update for the bot.
LEMMA MemberHappens ==
  ASSUME MemberInv, NEW u \in Updates, Happens(u)
  PROVE  MemberInv'
<1>1. /\ (member' <=> u # "left") /\ (member <=> u # "added") /\ member' \in BOOLEAN
      /\ queue' = Append(queue, u)
      /\ UNCHANGED <<fetched, handled, step, status, missed>>
  <2>1. member' = (u # "left") /\ member = (u # "added")
    BY DEF Happens
  <2>2. member' \in BOOLEAN /\ (member' <=> u # "left") /\ (member <=> u # "added")
    BY <2>1
  <2>. QED
    BY <2>2 DEF Happens, process, delivery
<1>2. /\ queue \in Seq(Updates) /\ Len(queue) \in Nat
      /\ queue' \in Seq(Updates) /\ Len(queue') = Len(queue) + 1
      /\ \A i \in 1 .. Len(queue) : queue'[i] = queue[i]
      /\ queue'[Len(queue) + 1] = u
      /\ queue' # <<>> /\ (queue = <<>> <=> Len(queue) = 0)
  BY <1>1 DEF MemberInv, Shape
<1>3. Shape'
  <2>1. fetched' \in 0 .. Len(queue') /\ handled' \in 0 .. fetched'
    BY <1>1, <1>2 DEF MemberInv, Shape
  <2>2. step'.at \in Counting => Update' = "join"
    BY <1>1, <1>2 DEF MemberInv, Shape, Update, Counting
  <2>. QED
    BY <1>1, <1>2, <2>1, <2>2 DEF MemberInv, Shape
<1>4. Chain'
  <2>1. member' <=> queue'[Len(queue')] # "left"
    BY <1>1, <1>2
  <2>2. ASSUME NEW i \in 1 .. Len(queue') - 1
        PROVE  queue'[i] = "left" <=> queue'[i + 1] = "added"
    <3>1. CASE i < Len(queue)
      BY <1>2, <3>1 DEF MemberInv, Chain
    <3>2. CASE i = Len(queue)
      BY <1>1, <1>2, <3>2 DEF MemberInv, Chain
    <3>. QED
      BY <1>2, <3>1, <3>2
  <2>. QED
    BY <1>1, <2>1, <2>2 DEF Chain
<1>5. \A k \in 0 .. Len(queue) : Was(k)' <=> Was(k)
  <2>1. ASSUME NEW k \in 1 .. Len(queue) PROVE Was(k)' <=> Was(k)
    BY <1>2 DEF Was
  <2>2. Was(0)' <=> Was(0)
    <3>1. CASE queue = <<>>
      BY <1>1, <1>2, <3>1 DEF Was
    <3>2. CASE queue # <<>>
      BY <1>2, <3>2 DEF Was
    <3>. QED
      BY <3>1, <3>2
  <2>. QED
    BY <1>2, <2>1, <2>2
<1>6. Right(handled) => Right(handled)'
  <2>1. SUFFICES ASSUME NEW k \in 0 .. Len(queue), status # "orphaned" <=> Was(k),
                        k = handled \/ \A i \in 1 .. handled : queue[i] \in Neutral
                 PROVE  Right(handled)'
    BY DEF Right
  <2>2. k \in 0 .. Len(queue') /\ (status' # "orphaned" <=> Was(k)')
    BY <1>1, <1>2, <1>5, <2>1
  <2>3. k = handled' \/ \A i \in 1 .. handled' : queue'[i] \in Neutral
    BY <1>1, <1>2, <2>1 DEF MemberInv, Shape
  <2>. QED
    BY <2>2, <2>3 DEF Right
<1>. QED
  BY <1>1, <1>3, <1>4, <1>6 DEF MemberInv

\* The updates that were handled are confirmed, and the next ones fetched.
LEMMA MemberPolls ==
  ASSUME MemberInv, Poll
  PROVE  MemberInv'
<1>1. /\ step = NoStep /\ handled = fetched /\ handled < Len(queue)
      /\ queue' = SubSeq(queue, handled + 1, Len(queue))
      /\ fetched' = Len(queue) - handled /\ handled' = 0
      /\ UNCHANGED <<member, step, status, missed>>
  BY DEF Poll
<1>2. /\ queue \in Seq(Updates) /\ Len(queue) \in Nat /\ handled \in Nat
      /\ queue' \in Seq(Updates) /\ Len(queue') = Len(queue) - handled
      /\ \A i \in 1 .. Len(queue) - handled : queue'[i] = queue[i + handled]
      /\ queue' # <<>> /\ queue # <<>>
  <2>1. queue \in Seq(Updates) /\ Len(queue) \in Nat /\ handled \in Nat /\ queue # <<>>
    BY <1>1 DEF MemberInv, Shape
  <2>2. PICK rest : rest = SubSeq(queue, handled + 1, Len(queue))
    OBVIOUS
  <2>3. rest \in Seq(Updates) /\ Len(rest) = Len(queue) - handled
    BY <1>1, <2>1, <2>2
  <2>4. \A i \in 1 .. Len(queue) - handled : rest[i] = queue[i + handled]
    BY <1>1, <2>1, <2>2
  <2>5. rest # <<>>
    BY <1>1, <2>1, <2>3
  <2>. QED
    BY <1>1, <2>1, <2>2, <2>3, <2>4, <2>5
<1>3. Shape'
  BY <1>1, <1>2, NoStepInHand DEF MemberInv, Shape, Counting
<1>4. Chain'
  <2>1. member' <=> queue'[Len(queue')] # "left"
    <3>1. PICK n : n = Len(queue) - handled
      OBVIOUS
    <3>2. n \in 1 .. Len(queue) - handled /\ n + handled = Len(queue)
      BY <1>1, <1>2, <3>1
    <3>3. queue'[n] = queue[Len(queue)]
      BY <1>2, <3>2
    <3>. QED
      BY <1>1, <1>2, <3>1, <3>3 DEF MemberInv, Chain
  <2>2. ASSUME NEW i \in 1 .. Len(queue') - 1
        PROVE  queue'[i] = "left" <=> queue'[i + 1] = "added"
    <3>1. i + handled \in 1 .. Len(queue) - 1 /\ (i + 1) + handled = (i + handled) + 1
      BY <1>2
    <3>. QED
      BY <1>2, <3>1 DEF MemberInv, Chain
  <2>. QED
    BY <1>1, <2>1, <2>2 DEF MemberInv, Chain
<1>5. ASSUME NEW k \in handled .. Len(queue), NEW n \in Nat, n = k - handled
      PROVE  n \in 0 .. Len(queue') /\ (Was(n)' <=> Was(k))
  <2>1. n \in 0 .. Len(queue')
    BY <1>2, <1>5
  <2>2. CASE n > 0
    <3>1. n \in 1 .. Len(queue) - handled /\ k = n + handled /\ k > 0
      BY <1>2, <1>5, <2>2
    <3>2. queue'[n] = queue[k]
      BY <1>2, <3>1
    <3>. QED
      BY <2>1, <2>2, <3>1, <3>2 DEF Was
  <2>3. CASE n = 0
    <3>1. k = handled /\ queue'[1] = queue[handled + 1]
      BY <1>1, <1>2, <1>5, <2>3
    <3>2. handled > 0 => (queue[handled] = "left" <=> queue[handled + 1] = "added")
      BY <1>1, <1>2 DEF MemberInv, Chain
    <3>. QED
      BY <1>2, <2>1, <2>3, <3>1, <3>2 DEF Was
  <2>. QED
    BY <2>2, <2>3
<1>6. Right(handled) => Right(handled)'
  <2>1. SUFFICES ASSUME NEW k \in 0 .. Len(queue), status # "orphaned" <=> Was(k),
                        k = handled \/ \A i \in 1 .. handled : queue[i] \in Neutral
                 PROVE  \E m \in handled .. Len(queue) : (status # "orphaned" <=> Was(m))
    <3>1. ASSUME NEW m \in handled .. Len(queue), status # "orphaned" <=> Was(m) PROVE Right(handled)'
      <4>1. PICK n \in Nat : n = m - handled
        BY <1>2
      <4>2. n \in 0 .. Len(queue') /\ (status' # "orphaned" <=> Was(n)')
        BY <1>1, <1>5, <3>1, <4>1
      <4>3. \A i \in 1 .. handled' : queue'[i] \in Neutral
        BY <1>1
      <4>. QED
        BY <4>2, <4>3 DEF Right
    <3>. QED
      BY <3>1 DEF Right
  <2>2. CASE k >= handled
    BY <1>2, <2>1, <2>2
  <2>3. CASE k < handled
    <3>1. queue[handled] \in Neutral /\ queue[1] \in Neutral /\ (k > 0 => queue[k] \in Neutral)
      BY <1>2, <2>1, <2>3
    <3>2. Was(k) /\ Was(handled)
      BY <1>2, <2>3, <3>1 DEF Was, Neutral
    <3>3. handled \in handled .. Len(queue)
      BY <1>1, <1>2
    <3>. QED
      BY <2>1, <3>2, <3>3
  <2>. QED
    BY <1>2, <2>2, <2>3
<1>. QED
  BY <1>1, <1>3, <1>4, <1>6 DEF MemberInv

\* The update in hand is through: one that says nothing about membership, ...
LEMMA MemberFinishes ==
  ASSUME MemberInv, Finish, handled < fetched, UNCHANGED <<queue, member, fetched>>,
         missed' = MissedOf(missed'.update, missed'.raid),
         ~ missed'.update =>
            \/ ~ missed.update /\ UNCHANGED status /\ Update \in Neutral
            \/ status' # "orphaned" <=> Update # "left"
  PROVE  MemberInv'
<1>1. step' = NoStep /\ handled' = handled + 1 /\ handled' \in 0 .. fetched /\ handled \in Nat
  BY DEF Finish, MemberInv, Shape
<1>2. Shape'
  BY <1>1, NoStepInHand DEF MemberInv, Shape, Counting
<1>3. Chain'
  BY DEF MemberInv, Chain
<1>4. ASSUME status' # "orphaned" <=> Update # "left" PROVE Right(handled)'
  <2>1. handled + 1 \in 0 .. Len(queue)
    BY <1>1 DEF MemberInv, Shape
  <2>2. status' # "orphaned" <=> Was(handled + 1)
    BY <1>1, <1>4 DEF Was, Update
  <2>3. PICK k \in 0 .. Len(queue) : k = handled + 1 /\ (status' # "orphaned" <=> Was(k))
    BY <2>1, <2>2
  <2>4. Was(k)' <=> Was(k)
    BY DEF Was
  <2>. QED
    BY <1>1, <2>3, <2>4 DEF Right
<1>5. ~ missed'.update => Right(handled)'
  BY <1>1, <1>4, NeutralPasses
<1>. QED
  BY <1>2, <1>3, <1>5 DEF MemberInv

\* ... or it goes on to the next await.
LEMMA MemberGoesOn ==
  ASSUME MemberInv, NEW place \in {"group"} \union Counting, NEW n, step' = StepOf(place, n),
         handled < fetched, place \in Counting => Update = "join",
         UNCHANGED <<queue, member, fetched, handled, status, missed>>
  PROVE  MemberInv'
<1>1. step' = StepOf(step'.at, step'.count) /\ step'.at = place
  BY RecordFields
<1>2. Shape'
  BY <1>1 DEF MemberInv, Shape, Update
<1>. QED
  BY <1>2 DEF MemberInv, Chain, Right, Was

\* The next update is taken in hand, or passed over in maintenance.
LEMMA MemberReceives ==
  ASSUME MemberInv, Receive
  PROVE  MemberInv'
<1>1. handled < fetched /\ UNCHANGED <<member, queue, fetched, status, missed>>
  BY DEF Receive
<1>2. CASE Update = "message" /\ Finish
  BY <1>1, <1>2, MemberFinishes DEF Neutral, MemberInv, Shape
<1>3. CASE Goto("group")
  <2>1. step' = StepOf("group", step.count) /\ handled' = handled
    BY <1>3, StepGoes DEF Goto, MemberInv
  <2>. QED
    BY <1>1, <2>1, MemberGoesOn DEF Counting
<1>. QED
  BY <1>2, <1>3 DEF Receive

\* The group's row is written for the update in hand, or the query fails.
LEMMA MemberMarks ==
  ASSUME MemberInv, Mark
  PROVE  MemberInv'
<1>1. /\ step.at = "group" /\ handled < fetched /\ UNCHANGED <<member, queue, fetched>>
      /\ Update \in Updates
  <2>1. step.at = "group" /\ handled < fetched /\ UNCHANGED <<member, queue, fetched>>
    BY DEF Mark, At, MemberInv, Shape
  <2>2. handled + 1 \in 1 .. Len(queue) /\ queue \in Seq(Updates)
    BY <2>1 DEF MemberInv, Shape
  <2>. QED
    BY <2>1, <2>2 DEF Update
<1>2. CASE /\ status' = IF Gone THEN "orphaned" ELSE "active"
           /\ Update # "join" /\ Finish /\ missed' = [missed EXCEPT !.update = FALSE]
  <2>1. missed' = MissedOf(FALSE, missed.raid)
    BY <1>2, MissedGoes DEF MemberInv
  <2>2. missed' = MissedOf(missed'.update, missed'.raid)
    BY <2>1, RecordFields
  <2>3. status' # "orphaned" <=> Update # "left"
    BY <1>2 DEF Gone
  <2>. QED
    BY <1>1, <1>2, <2>2, <2>3, MemberFinishes
<1>3. CASE /\ status' = IF Gone THEN "orphaned" ELSE "active"
           /\ Update = "join" /\ Goto("count") /\ UNCHANGED missed
  <2>1. step' = StepOf("count", step.count) /\ handled' = handled
    BY <1>3, StepGoes DEF Goto, MemberInv
  <2>2. step' = StepOf(step'.at, step'.count) /\ step'.at = "count"
    BY <2>1, RecordFields
  <2>3. Shape'
    BY <1>1, <1>3, <2>1, <2>2 DEF MemberInv, Shape, Update, Counting
  <2>4. Chain'
    BY <1>1 DEF MemberInv, Chain
  <2>5. handled \in 0 .. Len(queue) /\ status' # "orphaned" /\ queue # <<>>
    BY <1>1, <1>3 DEF MemberInv, Shape, Gone
  <2>6. Was(handled)
    <3>1. queue[handled + 1] # "added"
      BY <1>3 DEF Update
    <3>2. handled > 0 => queue[handled] # "left"
      BY <1>1, <2>5, <3>1 DEF MemberInv, Shape, Chain
    <3>. QED
      BY <2>5, <3>1, <3>2 DEF Was
  <2>7. Right(handled)'
    BY <1>1, <2>1, <2>5, <2>6 DEF Right, Was
  <2>. QED
    BY <2>3, <2>4, <2>7 DEF MemberInv
<1>4. CASE /\ Finish /\ UNCHANGED status
           /\ missed' = [missed EXCEPT !.update = @ \/ Update \in {"left", "added"}]
  <2>1. missed' = MissedOf(missed.update \/ Update \in {"left", "added"}, missed.raid)
    BY <1>4, MissedGoes DEF MemberInv
  <2>2. /\ missed' = MissedOf(missed'.update, missed'.raid)
        /\ missed'.update = (missed.update \/ Update \in {"left", "added"})
    BY <2>1, RecordFields
  <2>3. ~ missed'.update => ~ missed.update /\ Update \in Neutral
    BY <1>1, <2>2 DEF Neutral, Updates
  <2>. QED
    BY <1>1, <1>4, <2>2, <2>3, MemberFinishes
<1>. QED
  BY <1>2, <1>3, <1>4 DEF Mark

\* The awaits of checkRaid() leave the group's row alone.
LEMMA MemberCounts ==
  ASSUME MemberInv, CountJoin \/ Expire \/ Check \/ Arm
  PROVE  MemberInv'
<1>1. /\ step.at \in Counting /\ handled < fetched /\ Update = "join" /\ Update \in Neutral
      /\ UNCHANGED <<member, queue, fetched, status>>
  BY DEF CountJoin, Expire, Check, Arm, At, MemberInv, Shape, Counting, Neutral
<1>2. PICK raid : missed' = MissedOf(missed.update, raid)
  <2>1. CASE UNCHANGED missed
    BY <2>1 DEF MemberInv, Shape
  <2>2. CASE \E b : missed' = [missed EXCEPT !.raid = b]
    BY <2>2, MissedGoes DEF MemberInv
  <2>. QED
    BY <2>1, <2>2 DEF CountJoin, Expire, Check, Arm
<1>3. missed' = MissedOf(missed'.update, missed'.raid) /\ missed'.update = missed.update
  BY <1>2, RecordFields
<1>4. CASE Finish
  BY <1>1, <1>3, <1>4, MemberFinishes
<1>5. CASE ~ Finish
  <2>1. UNCHANGED handled /\ \E place \in Counting : \E n : step' = StepOf(place, n)
    <3>1. CASE Goto("check") \/ Goto("arm")
      <4>1. \E place \in {"check", "arm"} : step' = [step EXCEPT !.at = place]
        BY <3>1 DEF Goto
      <4>. QED
        BY <3>1, <4>1, StepGoes DEF Goto, MemberInv, Counting
    <3>2. CASE CountJoin
      BY <1>5, <3>2 DEF CountJoin, StepOf, Counting
    <3>. QED
      BY <1>5, <3>1, <3>2 DEF CountJoin, Expire, Check, Arm
  <2>2. PICK place \in Counting : \E n : step' = StepOf(place, n)
    BY <2>1
  <2>3. PICK n : step' = StepOf(place, n)
    BY <2>2
  <2>4. step' = StepOf(step'.at, step'.count) /\ step'.at = place
    BY <2>3, RecordFields
  <2>5. Shape'
    BY <1>1, <1>3, <2>1, <2>4 DEF MemberInv, Shape, Update
  <2>. QED
    BY <1>1, <1>3, <2>1, <2>5 DEF MemberInv, Chain, Right, Was
<1>. QED
  BY <1>4, <1>5

\* Every step keeps the invariant.
LEMMA MemberNext == MemberInv /\ [Next]_vars => MemberInv'
<1>. SUFFICES ASSUME MemberInv, [Next]_vars PROVE MemberInv'
  OBVIOUS
<1>1. ASSUME \/ \E t \in PanelTokens : SetToken(t)
             \/ \E m \in BOOLEAN : SetMaintenance(m)
             \/ RemoveToken \/ IdleWithoutToken \/ Resolve \/ StartPolling
             \/ \E l \in Loads : LoadBegins(l) \/ LoadReads(l) \/ LoadApplies(l)
             \/ UNCHANGED vars
      PROVE  MemberInv'
  <2>1. UNCHANGED <<member, queue, fetched, handled, step, status, missed>>
    BY <1>1 DEF SetToken, SetMaintenance, RemoveToken, IdleWithoutToken, Resolve, StartPolling,
       LoadBegins, LoadReads, LoadApplies, vars, process, delivery, redis
  <2>. QED
    BY <2>1, MemberStays
<1>2. ASSUME Authorize \/ WatchToken \/ Crash PROVE MemberInv'
  <2>1. CASE UNCHANGED <<fetched, handled, step, missed>>
    BY <1>2, <2>1, MemberStays DEF Authorize, WatchToken, Crash
  <2>2. CASE Ends
    BY <1>2, <2>2, MemberEnds DEF Authorize, WatchToken, Crash
  <2>. QED
    BY <1>2, <2>1, <2>2 DEF Authorize, WatchToken, Crash
<1>3. ASSUME MinutePasses \/ RaidModeEnds PROVE MemberInv'
  <2>1. /\ UNCHANGED <<member, queue, fetched, handled, step, status>>
        /\ \E b : missed' = [missed EXCEPT !.raid = b]
    BY <1>3 DEF MinutePasses, RaidModeEnds, delivery
  <2>2. PICK raid : missed' = MissedOf(missed.update, raid)
    BY <2>1, MissedGoes DEF MemberInv, Shape
  <2>3. missed' = MissedOf(missed'.update, missed'.raid) /\ missed'.update = missed.update
    BY <2>2, RecordFields
  <2>. QED
    BY <2>1, <2>3 DEF MemberInv, Shape, Chain, Right, Was, Update
<1>. QED
  BY <1>1, <1>2, <1>3, MemberHappens, MemberPolls, MemberReceives, MemberMarks, MemberCounts
  DEF Next, Handle

\* When the bot is through with what Telegram has for it, the group's row says
\* whether the bot is still a member, unless a query has failed.
THEOREM StatusFollowsTheQueue == Spec => []StatusFollowsMembership
<1>1. MemberInv => StatusFollowsMembership
  <2>1. SUFFICES ASSUME MemberInv, handled = Len(queue), ~ missed.update
                 PROVE  (status = "orphaned") = ~ member
    BY DEF StatusFollowsMembership
  <2>2. PICK k \in 0 .. Len(queue) :
          /\ status # "orphaned" <=> Was(k)
          /\ k = Len(queue) \/ \A i \in 1 .. Len(queue) : queue[i] \in Neutral
    BY <2>1 DEF MemberInv, Right
  <2>3. queue \in Seq(Updates) /\ Len(queue) \in Nat /\ (queue = <<>> <=> Len(queue) = 0)
    BY <2>1 DEF MemberInv, Shape
  <2>4. CASE queue = <<>>
    BY <2>1, <2>2, <2>3, <2>4 DEF Was, MemberInv, Chain
  <2>5. CASE queue # <<>> /\ k = Len(queue)
    BY <2>1, <2>2, <2>3, <2>5 DEF Was, MemberInv, Chain
  <2>6. CASE queue # <<>> /\ \A i \in 1 .. Len(queue) : queue[i] \in Neutral
    <3>1. Was(k)
      BY <2>2, <2>3, <2>6 DEF Was, Neutral
    <3>2. member
      BY <2>1, <2>3, <2>6 DEF Neutral, MemberInv, Chain
    <3>. QED
      BY <2>1, <2>2, <3>1, <3>2 DEF MemberInv, Chain
  <2>. QED
    BY <2>2, <2>4, <2>5, <2>6
<1>. QED
  BY <1>1, MemberInit, MemberNext, PTL DEF Spec

-----------------------------------------------------------------------------
(* The raid mode.                                                           *)

\* The Redis key, field by field.
LEMMA JoinsGo ==
  ASSUME RaidInv, NEW n, NEW b
  PROVE  /\ [joins EXCEPT !.expires = b] = JoinsOf(joins.count, b)
         /\ [joins EXCEPT !.count = n, !.expires = b] = JoinsOf(n, b)
<1>1. [joins EXCEPT !.expires = b] = JoinsOf(joins.count, b)
  BY DEF RaidInv, JoinsOf
<1>2. PICK j : j = [joins EXCEPT !.count = n]
  OBVIOUS
<1>3. j = JoinsOf(n, joins.expires)
  BY <1>2 DEF RaidInv, JoinsOf
<1>4. [j EXCEPT !.expires = b] = JoinsOf(n, b)
  BY <1>3 DEF JoinsOf
<1>. QED
  BY <1>1, <1>2, <1>4

\* The update in hand is through, or the process is: no spike is overlooked.
LEMMA RaidRests ==
  ASSUME RaidInv, step' = NoStep, UNCHANGED joins,
         joins.count > Threshold /\ joins.expires /\ ~ missed'.raid => raidMode' # "off"
  PROVE  RaidInv'
BY NoStepInHand DEF RaidInv

\* Nobody has joined yet.
LEMMA RaidInit == Init => RaidInv
<1>. SUFFICES ASSUME Init PROVE RaidInv
  OBVIOUS
<1>1. joins = JoinsOf(0, TRUE) /\ step = NoStep
  BY DEF Init, NoJoins, JoinsOf
<1>2. joins = JoinsOf(joins.count, joins.expires) /\ joins.count = 0
  BY <1>1 DEF JoinsOf
<1>3. ~ (joins.count > Threshold)
  BY <1>2, LifecycleAssumption
<1>4. step.count = 0 /\ step.at = "none"
  BY <1>1, NoStepInHand
<1>. QED
  BY <1>2, <1>3, <1>4 DEF RaidInv

\* The process ends: the spike it was about to act on is missed.
LEMMA RaidEnds ==
  ASSUME MemberInv, RaidInv, Ends, UNCHANGED <<joins, raidMode>>
  PROVE  RaidInv'
<1>1. /\ step' = NoStep
      /\ missed' = [missed EXCEPT !.raid = missed.raid \/ step.at \in {"expire", "check", "arm"}]
  BY DEF Ends
<1>2. missed'.raid = (missed.raid \/ step.at \in {"expire", "check", "arm"})
  BY <1>1, MissedGoes, RecordFields DEF MemberInv
<1>3. joins.count > Threshold /\ joins.expires /\ ~ missed'.raid => raidMode' # "off"
  BY <1>2 DEF RaidInv
<1>. QED
  BY <1>1, <1>3, RaidRests

\* A join is counted: INCR.
LEMMA RaidCounts ==
  ASSUME MemberInv, RaidInv, CountJoin
  PROVE  RaidInv'
<1>1. step.at = "count" /\ UNCHANGED <<raidMode, missed>> /\ joins.count \in Nat
  BY DEF CountJoin, At, RaidInv
<1>2. CASE Finish /\ UNCHANGED joins
  BY <1>1, <1>2, RaidRests DEF Finish, RaidInv
<1>3. CASE /\ joins' = [joins EXCEPT !.count = joins.count + 1, !.expires = joins.expires /\ joins.count > 0]
           /\ step' = [at |-> IF joins.count = 0 THEN "expire" ELSE "check", count |-> joins.count + 1]
  <2>1. joins' = JoinsOf(joins.count + 1, joins.expires /\ joins.count > 0)
    BY <1>3, JoinsGo
  <2>2. /\ joins' = JoinsOf(joins'.count, joins'.expires) /\ joins'.count = joins.count + 1
        /\ joins'.expires = (joins.expires /\ joins.count > 0)
    BY <2>1, RecordFields
  <2>3. step'.at = (IF joins.count = 0 THEN "expire" ELSE "check") /\ step'.count = joins.count + 1
    BY <1>3
  <2>4. CASE joins.count = 0
    <3>1. step'.at = "expire" /\ joins'.count = step'.count
      BY <2>2, <2>3, <2>4
    <3>2. (joins.expires /\ joins.count > 0) = FALSE
      BY <2>4
    <3>3. ~ joins'.expires
      BY <2>2, <3>2
    <3>. QED
      BY <1>1, <2>2, <2>3, <3>1, <3>3 DEF RaidInv
  <2>5. CASE joins.count # 0
    BY <1>1, <2>2, <2>3, <2>5 DEF RaidInv
  <2>. QED
    BY <2>4, <2>5
<1>. QED
  BY <1>2, <1>3 DEF CountJoin

\* The first join of a window gets it its EXPIRE.
LEMMA RaidExpires ==
  ASSUME MemberInv, RaidInv, Expire
  PROVE  RaidInv'
<1>1. step.at = "expire" /\ UNCHANGED <<raidMode, missed>>
  BY DEF Expire, At
<1>2. CASE Finish /\ UNCHANGED joins
  BY <1>1, <1>2, RaidRests DEF Finish, RaidInv
<1>3. CASE joins' = [joins EXCEPT !.expires = TRUE] /\ Goto("check")
  <2>1. joins' = JoinsOf(joins.count, TRUE) /\ step' = StepOf("check", step.count)
    BY <1>3, JoinsGo, StepGoes DEF Goto, MemberInv
  <2>2. /\ joins' = JoinsOf(joins'.count, joins'.expires) /\ joins'.count = joins.count
        /\ step'.at = "check" /\ step'.count = step.count
    BY <2>1, RecordFields, ZenonT(40)
  <2>. QED
    BY <1>1, <2>2, LifecycleAssumption DEF RaidInv
<1>. QED
  BY <1>2, <1>3 DEF Expire

\* isRaidMode() is asked last: what it finds off, is armed.
LEMMA RaidChecks ==
  ASSUME MemberInv, RaidInv, Check \/ Arm
  PROVE  RaidInv'
<1>1. UNCHANGED joins /\ joins.count \in Nat /\ step.count \in Nat
  BY DEF Check, Arm, RaidInv, redis
<1>2. ASSUME NEW b, missed' = [missed EXCEPT !.raid = b] PROVE missed'.raid = b
  BY <1>2, MissedGoes, RecordFields DEF MemberInv
<1>3. CASE Check /\ Finish /\ (~ Triggered(step.count) \/ missed' = [missed EXCEPT !.raid = TRUE])
  <2>1. missed'.raid \/ ~ Triggered(step.count)
    BY <1>2, <1>3
  <2>2. step.at = "check" /\ UNCHANGED raidMode
    BY <1>3 DEF Check, At, redis
  <2>3. joins.count > Threshold /\ ~ missed'.raid => raidMode' # "off"
    BY <1>1, <2>1, <2>2, LifecycleAssumption DEF Triggered, RaidInv
  <2>. QED
    BY <1>1, <1>3, <2>3, RaidRests DEF Finish
<1>4. CASE Check /\ Goto("arm")
  <2>1. step' = StepOf("arm", step.count)
    BY <1>4, StepGoes DEF Goto, MemberInv
  <2>2. step'.at = "arm" /\ step'.count = step.count
    BY <2>1, RecordFields
  <2>. QED
    BY <1>1, <2>2 DEF RaidInv
<1>5. CASE Arm
  <2>1. Finish /\ (missed'.raid \/ raidMode' # "off")
    BY <1>2, <1>5 DEF Arm
  <2>. QED
    BY <1>1, <2>1, RaidRests DEF Finish
<1>. QED
  BY <1>3, <1>4, <1>5 DEF Check

\* Every step keeps the invariant about spikes.
LEMMA RaidNext == MemberInv /\ RaidInv /\ [Next]_vars => RaidInv'
<1>. SUFFICES ASSUME MemberInv, RaidInv, [Next]_vars PROVE RaidInv'
  OBVIOUS
<1>1. ASSUME \/ \E t \in PanelTokens : SetToken(t)
             \/ \E m \in BOOLEAN : SetMaintenance(m)
             \/ RemoveToken \/ IdleWithoutToken \/ Resolve \/ StartPolling \/ Poll
             \/ \E l \in Loads : LoadBegins(l) \/ LoadReads(l) \/ LoadApplies(l)
             \/ \E u \in Updates : Happens(u)
             \/ UNCHANGED vars
      PROVE  RaidInv'
  <2>1. UNCHANGED <<joins, raidMode, step, missed>>
    BY <1>1 DEF SetToken, SetMaintenance, RemoveToken, IdleWithoutToken, Resolve, StartPolling,
       LoadBegins, LoadReads, LoadApplies, Happens, Poll, vars, process, delivery, redis
  <2>. QED
    BY <2>1 DEF RaidInv
<1>2. ASSUME Authorize \/ WatchToken \/ Crash PROVE RaidInv'
  <2>1. CASE UNCHANGED <<step, missed>>
    BY <1>2, <2>1 DEF Authorize, WatchToken, Crash, RaidInv, redis
  <2>2. CASE Ends
    BY <1>2, <2>2, RaidEnds DEF Authorize, WatchToken, Crash, redis
  <2>. QED
    BY <1>2, <2>1, <2>2 DEF Authorize, WatchToken, Crash
<1>3. ASSUME Receive \/ Mark PROVE RaidInv'
  <2>1. /\ step.at \in {"none", "group"} /\ UNCHANGED <<joins, raidMode>>
        /\ missed' = missed \/ \E b : missed' = [missed EXCEPT !.update = b]
    BY <1>3, NoStepInHand DEF Receive, Mark, At, redis
  <2>2. missed'.raid = missed.raid
    <3>1. ASSUME NEW b, missed' = [missed EXCEPT !.update = b] PROVE missed'.raid = missed.raid
      BY <3>1, MissedGoes, RecordFields DEF MemberInv
    <3>. QED
      BY <2>1, <3>1
  <2>3. joins.count > Threshold /\ joins.expires /\ ~ missed'.raid => raidMode' # "off"
    BY <2>1, <2>2 DEF RaidInv
  <2>4. CASE Finish
    BY <2>1, <2>3, <2>4, RaidRests DEF Finish
  <2>5. CASE ~ Finish
    <3>1. \E place \in {"group", "count"} : step' = [step EXCEPT !.at = place]
      BY <1>3, <2>5 DEF Receive, Mark, Goto
    <3>2. PICK place \in {"group", "count"} : step' = StepOf(place, step.count)
      BY <3>1, StepGoes DEF MemberInv
    <3>3. step'.at = place /\ step'.count = step.count
      BY <3>2, RecordFields
    <3>. QED
      BY <2>1, <2>3, <3>3 DEF RaidInv
  <2>. QED
    BY <2>4, <2>5
<1>4. ASSUME MinutePasses PROVE RaidInv'
  <2>1. joins' = JoinsOf(0, TRUE) /\ UNCHANGED step /\ joins.expires /\ joins.count > 0
    BY <1>4 DEF MinutePasses, NoJoins, JoinsOf, delivery
  <2>2. joins' = JoinsOf(joins'.count, joins'.expires) /\ joins'.count = 0
    BY <2>1, RecordFields
  <2>3. step.at # "expire"
    BY <2>1 DEF RaidInv
  <2>4. ~ (joins'.count > Threshold)
    BY <2>2, LifecycleAssumption
  <2>5. joins'.count \in Nat /\ step' = step /\ step'.count \in Nat
    <3>1. joins'.count \in Nat
      BY <2>2
    <3>2. step' = step
      BY <2>1
    <3>3. step.count \in Nat
      BY DEF RaidInv
    <3>. QED
      BY <3>1, <3>2, <3>3
  <2>6. joins'.count <= step'.count
    BY <2>2, <2>5
  <2>. QED
    BY <2>2, <2>3, <2>4, <2>5, <2>6 DEF RaidInv
<1>5. ASSUME RaidModeEnds PROVE RaidInv'
  <2>1. /\ missed' = [missed EXCEPT !.raid = missed.raid \/ joins.count > 0]
        /\ UNCHANGED <<joins, step>>
    BY <1>5 DEF RaidModeEnds, delivery
  <2>2. missed'.raid = (missed.raid \/ joins.count > 0)
    BY <2>1, MissedGoes, RecordFields DEF MemberInv
  <2>3. ASSUME joins.count > Threshold PROVE missed'.raid
    <3>1. joins.count > 0
      BY <2>3, LifecycleAssumption DEF RaidInv
    <3>. QED
      BY <2>2, <3>1
  <2>. QED
    BY <2>1, <2>3 DEF RaidInv
<1>. QED
  BY <1>1, <1>2, <1>3, <1>4, <1>5, RaidCounts, RaidExpires, RaidChecks DEF Next, Handle

\* As long as the window of a spike of joins is open the raid mode is on, if
\* Redis answered the last join and the bot lived to set it (checkRaid); and
\* when an older one runs out within the window, the next join sets it again.
THEOREM SpikesArmTheRaidMode == Spec => []SpikeArmsRaidMode
<1>1. RaidInv => SpikeArmsRaidMode
  BY NoStepInHand DEF RaidInv, SpikeArmsRaidMode
<1>2. MemberInv /\ RaidInv /\ [Next]_vars => (MemberInv /\ RaidInv)'
  BY MemberNext, RaidNext
<1>. QED
  BY <1>1, <1>2, MemberInit, RaidInit, PTL DEF Spec

=============================================================================
