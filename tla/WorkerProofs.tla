---------------------------- MODULE WorkerProofs ----------------------------
(***************************************************************************)
(* Proofs about the worker: about WorkerJobs, for any queues, automations,  *)
(* providers and anomalies, and any number of faults, retries and restarts; *)
(* and about VpsMonitor, for any readings, thresholds and bounds.           *)
(***************************************************************************)
EXTENDS WorkerJobs, VpsMonitor, FiniteSetTheorems, TLAPS

-----------------------------------------------------------------------------
(* The jobs of the worker.                                                  *)

Slot(state, made, stalls, at, todo, seen, result) ==
  [state |-> state, made |-> made, stalls |-> stalls, pc |-> at,
   todo |-> todo, seen |-> seen, result |-> result]

IsSlot(s) == s = Slot(s.state, s.made, s.stalls, s.pc, s.todo, s.seen, s.result)

\* What the fields of a slot are read back as.
LEMMA SlotFields ==
  \A a, b, c, d, e, f, g :
    /\ IsSlot(Slot(a, b, c, d, e, f, g))
    /\ Slot(a, b, c, d, e, f, g).state = a /\ Slot(a, b, c, d, e, f, g).made = b
    /\ Slot(a, b, c, d, e, f, g).stalls = c /\ Slot(a, b, c, d, e, f, g).pc = d
    /\ Slot(a, b, c, d, e, f, g).todo = e /\ Slot(a, b, c, d, e, f, g).seen = f
    /\ Slot(a, b, c, d, e, f, g).result = g
BY DEF Slot, IsSlot

\* And those of a job that is not active.
LEMMA ParkedFields ==
  \A a, b, c : /\ IsSlot(Parked(a, b, c)) /\ Parked(a, b, c).state = a
               /\ Parked(a, b, c).made = b /\ Parked(a, b, c).stalls = c
BY DEF Parked, Slot, IsSlot

Shape == job = [j \in Jobs |-> job[j]] /\ \A j \in Jobs : IsSlot(job[j])

Others(j) == \A i \in Jobs : i # j => job'[i] = job[i]

\* The job in a slot goes on with the same rows, or with the next one.
Goes(j, place) ==
  /\ Shape' /\ Others(j)
  /\ job'[j].state = job[j].state /\ job'[j].made = job[j].made /\ job'[j].stalls = job[j].stalls
  /\ job'[j].pc = place /\ job'[j].todo = job[j].todo /\ job'[j].seen = job[j].seen

GoesOn(j) ==
  /\ Shape' /\ Others(j)
  /\ job'[j].state = job[j].state /\ job'[j].made = job[j].made /\ job'[j].stalls = job[j].stalls
  /\ job'[j].pc = "item" /\ job'[j].todo = Tail(job[j].todo)
  /\ job'[j].seen = job[j].seen \ {Item(j)}

\* A slot is given another record.
LEMMA Becomes ==
  ASSUME Shape, NEW j \in Jobs, NEW s, IsSlot(s), job' = [job EXCEPT ![j] = s]
  PROVE  Shape' /\ Others(j) /\ job'[j] = s
BY DEF Shape, Others

\* One field of a slot changes.
LEMMA StateChanges ==
  ASSUME NEW r, IsSlot(r), NEW x
  PROVE  [r EXCEPT !.state = x] = Slot(x, r.made, r.stalls, r.pc, r.todo, r.seen, r.result)
BY DEF Slot, IsSlot

\* Its place changes.
LEMMA AtChanges ==
  ASSUME NEW r, IsSlot(r), NEW x
  PROVE  [r EXCEPT !.pc = x] = Slot(r.state, r.made, r.stalls, x, r.todo, r.seen, r.result)
BY DEF Slot, IsSlot

\* The rows it still holds change.
LEMMA TodoChanges ==
  ASSUME NEW r, IsSlot(r), NEW x
  PROVE  [r EXCEPT !.todo = x] = Slot(r.state, r.made, r.stalls, r.pc, x, r.seen, r.result)
BY DEF Slot, IsSlot

\* What it has seen due changes.
LEMMA SeenChanges ==
  ASSUME NEW r, IsSlot(r), NEW x
  PROVE  [r EXCEPT !.seen = x] = Slot(r.state, r.made, r.stalls, r.pc, r.todo, x, r.result)
BY DEF Slot, IsSlot

\* The result of a probe changes.
LEMMA ResultChanges ==
  ASSUME NEW r, IsSlot(r), NEW x
  PROVE  [r EXCEPT !.result = x] = Slot(r.state, r.made, r.stalls, r.pc, r.todo, r.seen, x)
BY DEF Slot, IsSlot

\* A job goes on to another place with the same rows.
LEMMA GotoGoes ==
  ASSUME Shape, NEW j \in Jobs, NEW place, Goto(j, place) PROVE Goes(j, place)
<1>1. PICK s : s = Slot(job[j].state, job[j].made, job[j].stalls, place, job[j].todo, job[j].seen, job[j].result)
  OBVIOUS
<1>2. job' = [job EXCEPT ![j] = s]
  BY <1>1, AtChanges DEF Goto, Shape
<1>3. /\ IsSlot(s) /\ s.state = job[j].state /\ s.made = job[j].made /\ s.stalls = job[j].stalls
      /\ s.pc = place /\ s.todo = job[j].todo /\ s.seen = job[j].seen
  BY <1>1, SlotFields
<1>. QED
  BY <1>2, <1>3, Becomes DEF Goes

\* A probe notes its result as well.
LEMMA ProbeGoes ==
  ASSUME Shape, NEW j \in Jobs, NEW x, job' = [job EXCEPT ![j].result = x, ![j].pc = "update"]
  PROVE  Goes(j, "update")
<1>1. PICK f : f = [job EXCEPT ![j].result = x]
  OBVIOUS
<1>2. PICK s : s = Slot(job[j].state, job[j].made, job[j].stalls, job[j].pc, job[j].todo, job[j].seen, x)
  OBVIOUS
<1>3. f = [job EXCEPT ![j] = s]
  BY <1>1, <1>2, ResultChanges DEF Shape
<1>4. f = [i \in Jobs |-> f[i]] /\ f[j] = s /\ IsSlot(f[j]) /\ \A i \in Jobs : i # j => f[i] = job[i]
  BY <1>2, <1>3, SlotFields DEF Shape
<1>5. PICK t : t = Slot(s.state, s.made, s.stalls, "update", s.todo, s.seen, s.result)
  OBVIOUS
<1>6. job' = [f EXCEPT ![j].pc = "update"]
  BY <1>1
<1>7. job' = [f EXCEPT ![j] = t]
  <2>1. [s EXCEPT !.pc = "update"] = t
    BY <1>4, <1>5, AtChanges
  <2>. QED
    BY <1>4, <1>6, <2>1
<1>8. job' = [job EXCEPT ![j] = t]
  BY <1>3, <1>7
<1>9. /\ s.state = job[j].state /\ s.made = job[j].made /\ s.stalls = job[j].stalls
      /\ s.todo = job[j].todo /\ s.seen = job[j].seen
  BY <1>2, SlotFields
<1>10. /\ IsSlot(t) /\ t.state = s.state /\ t.made = s.made /\ t.stalls = s.stalls
       /\ t.pc = "update" /\ t.todo = s.todo /\ t.seen = s.seen
  BY <1>5, SlotFields
<1>. QED
  BY <1>8, <1>9, <1>10, Becomes DEF Goes

\* A scheduled job waits with what it had.
LEMMA StateGoes ==
  ASSUME Shape, NEW j \in Jobs, NEW x, job' = [job EXCEPT ![j].state = x]
  PROVE  /\ Shape' /\ Others(j) /\ job'[j].state = x
         /\ job'[j].made = job[j].made /\ job'[j].stalls = job[j].stalls
<1>1. PICK s : s = Slot(x, job[j].made, job[j].stalls, job[j].pc, job[j].todo, job[j].seen, job[j].result)
  OBVIOUS
<1>2. job' = [job EXCEPT ![j] = s]
  BY <1>1, StateChanges DEF Shape
<1>3. IsSlot(s) /\ s.state = x /\ s.made = job[j].made /\ s.stalls = job[j].stalls
  BY <1>1, SlotFields
<1>. QED
  BY <1>2, <1>3, Becomes

\* A job goes on to the next row.
LEMMA AdvanceGoes ==
  ASSUME Shape, NEW j \in Jobs, Advance(j) PROVE GoesOn(j)
<1>1. PICK f : f = [job EXCEPT ![j].pc = "item"]
  OBVIOUS
<1>2. PICK g : g = [f EXCEPT ![j].todo = Tail(@)]
  OBVIOUS
<1>3. PICK h : h = [g EXCEPT ![j].seen = @ \ {Item(j)}]
  OBVIOUS
<1>4. job' = [h EXCEPT ![j].result = "none"]
  BY <1>1, <1>2, <1>3, ZenonT(40) DEF Advance
<1>5. PICK a : a = Slot(job[j].state, job[j].made, job[j].stalls, "item", job[j].todo, job[j].seen, job[j].result)
  OBVIOUS
<1>6. PICK b : b = Slot(a.state, a.made, a.stalls, a.pc, Tail(a.todo), a.seen, a.result)
  OBVIOUS
<1>7. PICK c : c = Slot(b.state, b.made, b.stalls, b.pc, b.todo, b.seen \ {Item(j)}, b.result)
  OBVIOUS
<1>8. PICK d : d = Slot(c.state, c.made, c.stalls, c.pc, c.todo, c.seen, "none")
  OBVIOUS
<1>9. f = [job EXCEPT ![j] = a] /\ f = [i \in Jobs |-> f[i]] /\ f[j] = a /\ IsSlot(a)
  BY <1>1, <1>5, AtChanges, SlotFields DEF Shape
<1>10. g = [f EXCEPT ![j] = b] /\ g = [i \in Jobs |-> g[i]] /\ g[j] = b /\ IsSlot(b)
  <2>1. g = [f EXCEPT ![j].todo = Tail(a.todo)]
    BY <1>2, <1>9
  <2>. QED
    BY <2>1, <1>6, <1>9, TodoChanges, SlotFields
<1>11. h = [g EXCEPT ![j] = c] /\ h = [i \in Jobs |-> h[i]] /\ h[j] = c /\ IsSlot(c)
  <2>1. h = [g EXCEPT ![j].seen = b.seen \ {Item(j)}]
    BY <1>3, <1>10
  <2>. QED
    BY <2>1, <1>7, <1>10, SeenChanges, SlotFields
<1>12. job' = [h EXCEPT ![j] = d]
  <2>1. [c EXCEPT !.result = "none"] = d
    BY <1>8, <1>11, ResultChanges
  <2>. QED
    BY <1>4, <1>11, <2>1
<1>13. job' = [job EXCEPT ![j] = d]
  BY <1>9, <1>10, <1>11, <1>12
<1>14. /\ IsSlot(d) /\ d.state = job[j].state /\ d.made = job[j].made /\ d.stalls = job[j].stalls
       /\ d.pc = "item" /\ d.todo = Tail(job[j].todo) /\ d.seen = job[j].seen \ {Item(j)}
  <2>1. /\ a.state = job[j].state /\ a.made = job[j].made /\ a.stalls = job[j].stalls
        /\ a.pc = "item" /\ a.todo = job[j].todo /\ a.seen = job[j].seen
    BY <1>5, SlotFields
  <2>2. /\ b.state = a.state /\ b.made = a.made /\ b.stalls = a.stalls
        /\ b.pc = a.pc /\ b.todo = Tail(a.todo) /\ b.seen = a.seen
    BY <1>6, SlotFields
  <2>3. /\ c.state = b.state /\ c.made = b.made /\ c.stalls = b.stalls
        /\ c.pc = b.pc /\ c.todo = b.todo /\ c.seen = b.seen \ {Item(j)}
    BY <1>7, SlotFields
  <2>4. /\ IsSlot(d) /\ d.state = c.state /\ d.made = c.made /\ d.stalls = c.stalls
        /\ d.pc = c.pc /\ d.todo = c.todo /\ d.seen = c.seen
    BY <1>8, SlotFields
  <2>. QED
    BY <2>1, <2>2, <2>3, <2>4
<1>. QED
  BY <1>13, <1>14, Becomes DEF GoesOn

\* The rows of an extraction come from the model.
LEMMA ChatGoes ==
  ASSUME Shape, NEW j \in Jobs, NEW rows, job' = [job EXCEPT ![j].pc = "item", ![j].todo = rows]
  PROVE  /\ Shape' /\ Others(j) /\ job'[j].state = job[j].state
         /\ job'[j].made = job[j].made /\ job'[j].stalls = job[j].stalls
         /\ job'[j].pc = "item" /\ job'[j].todo = rows
<1>1. PICK f : f = [job EXCEPT ![j].pc = "item"]
  OBVIOUS
<1>2. PICK a : a = Slot(job[j].state, job[j].made, job[j].stalls, "item", job[j].todo, job[j].seen, job[j].result)
  OBVIOUS
<1>3. /\ f = [job EXCEPT ![j] = a] /\ IsSlot(a) /\ a.state = job[j].state /\ a.made = job[j].made
      /\ a.stalls = job[j].stalls /\ a.pc = "item"
  <2>1. f = [job EXCEPT ![j] = a]
    BY <1>1, <1>2, AtChanges DEF Shape
  <2>. QED
    BY <2>1, <1>2, SlotFields
<1>4. PICK b : b = Slot(a.state, a.made, a.stalls, a.pc, rows, a.seen, a.result)
  OBVIOUS
<1>5. /\ [a EXCEPT !.todo = rows] = b /\ IsSlot(b) /\ b.state = a.state /\ b.made = a.made
      /\ b.stalls = a.stalls /\ b.pc = a.pc /\ b.todo = rows
  <2>1. [a EXCEPT !.todo = rows] = b
    BY <1>3, <1>4, TodoChanges
  <2>. QED
    BY <2>1, <1>4, SlotFields
<1>6. job' = [f EXCEPT ![j].todo = rows]
  BY <1>1
<1>7. job' = [job EXCEPT ![j] = b]
  BY <1>3, <1>5, <1>6 DEF Shape
<1>. QED
  BY <1>3, <1>5, <1>7, Becomes

\* A job is thrown out of its attempt, or is through.
Stops(j) ==
  /\ Shape' /\ Others(j)
  /\ \/ job'[j] = Ended(j)
     \/ /\ job[j].made + 1 < AttemptsOf(j)
        /\ job'[j] = Parked("delayed", job[j].made + 1, job[j].stalls)

\* What a job is when it has come to its end.
LEMMA EndedFields ==
  \A j : /\ IsSlot(Ended(j)) /\ Ended(j).made = 0 /\ Ended(j).stalls = 0
         /\ Ended(j).state = IF KindOf[j] = "extract" THEN "finished" ELSE "idle"
BY ParkedFields DEF Ended

\* A job that is through stops.
LEMMA FinishStops ==
  ASSUME Shape, NEW j \in Jobs, Finish(j) PROVE Stops(j)
<1>1. IsSlot(Ended(j)) /\ job' = [job EXCEPT ![j] = Ended(j)]
  BY EndedFields DEF Finish
<1>. QED
  BY <1>1, Becomes DEF Stops

\* So does one that throws, whether it is tried again or not.
LEMMA ThrowStops ==
  ASSUME Shape, NEW j \in Jobs, Throw(j) PROVE Stops(j)
<1>1. CASE job[j].made + 1 < AttemptsOf(j)
  <2>1. PICK s : s = Parked("delayed", job[j].made + 1, job[j].stalls)
    OBVIOUS
  <2>2. job' = [job EXCEPT ![j] = s]
    BY <1>1, <2>1 DEF Throw, Shape
  <2>. QED
    BY <1>1, <2>1, <2>2, ParkedFields, Becomes, ZenonT(40) DEF Stops
<1>2. CASE ~(job[j].made + 1 < AttemptsOf(j))
  <2>1. IsSlot(Ended(j)) /\ job' = [job EXCEPT ![j] = Ended(j)]
    BY <1>2, EndedFields DEF Throw, Shape
  <2>. QED
    BY <2>1, Becomes DEF Stops
<1>. QED
  BY <1>1, <1>2

\* A job that stops is not active.
LEMMA StoppedIsInactive ==
  ASSUME NEW j, Stops(j) PROVE job'[j].state # "active"
BY EndedFields, ParkedFields DEF Stops

\* A job becomes active, with the rows its query returned.
LEMMA StartGoes ==
  ASSUME Shape, NEW j \in Jobs, Start(j)
  PROVE  /\ Shape' /\ Others(j) /\ job'[j].state = "active"
         /\ job'[j].made = job[j].made /\ job'[j].stalls = job[j].stalls
         /\ job'[j].seen = (IF Is(j, "tick") THEN due ELSE {})
         /\ job'[j].pc = (IF Is(j, "extract") THEN "chat" ELSE "item")
<1>. PICK S, place : S = (IF Is(j, "tick") THEN due ELSE {})
                     /\ place = (IF Is(j, "extract") THEN "chat" ELSE "item")
  OBVIOUS
<1>0. PICK rows : job' = [job EXCEPT ![j] = [@ EXCEPT !.state = "active", !.todo = rows,
                                                     !.seen = S, !.pc = place]]
  BY DEF Start
<1>1. PICK r : r = job[j]
  OBVIOUS
<1>2. PICK a : a = [r EXCEPT !.state = "active"]
  OBVIOUS
<1>3. PICK b : b = [a EXCEPT !.todo = rows]
  OBVIOUS
<1>4. PICK c : c = [b EXCEPT !.seen = S]
  OBVIOUS
<1>5. PICK d : d = [c EXCEPT !.pc = place]
  OBVIOUS
<1>6. /\ IsSlot(a) /\ a.state = "active" /\ a.made = r.made /\ a.stalls = r.stalls
  <2>1. a = Slot("active", r.made, r.stalls, r.pc, r.todo, r.seen, r.result)
    BY <1>1, <1>2, StateChanges DEF Shape
  <2>. QED
    BY <2>1, SlotFields
<1>7. /\ IsSlot(b) /\ b.state = a.state /\ b.made = a.made /\ b.stalls = a.stalls
      /\ b.todo = rows
  <2>1. b = Slot(a.state, a.made, a.stalls, a.pc, rows, a.seen, a.result)
    BY <1>3, <1>6, TodoChanges
  <2>. QED
    BY <2>1, SlotFields
<1>8. /\ IsSlot(c) /\ c.state = b.state /\ c.made = b.made /\ c.stalls = b.stalls
      /\ c.todo = b.todo /\ c.seen = S
  <2>1. c = Slot(b.state, b.made, b.stalls, b.pc, b.todo, S, b.result)
    BY <1>4, <1>7, SeenChanges
  <2>. QED
    BY <2>1, SlotFields
<1>9. /\ IsSlot(d) /\ d.state = c.state /\ d.made = c.made /\ d.stalls = c.stalls
      /\ d.todo = c.todo /\ d.seen = c.seen /\ d.pc = place
  <2>1. d = Slot(c.state, c.made, c.stalls, place, c.todo, c.seen, c.result)
    BY <1>5, <1>8, AtChanges
  <2>. QED
    BY <2>1, SlotFields
<1>10. job' = [job EXCEPT ![j] = d]
  <2>1. job' = [job EXCEPT ![j] = [r EXCEPT !.state = "active", !.todo = rows, !.seen = S, !.pc = place]]
    BY <1>0, <1>1
  <2>2. [r EXCEPT !.state = "active", !.todo = rows, !.seen = S, !.pc = place] = d
    BY <1>2, <1>3, <1>4, <1>5
  <2>. QED
    BY <2>1, <2>2
<1>. QED
  BY <1>1, <1>6, <1>7, <1>8, <1>9, <1>10, Becomes
-----------------------------------------------------------------------------
(* Who is active, and where.                                                *)

Late == {"stamp", "log", "logFailed"}

\* Where a job may be, by its kind; beyond the start of an item it has one.
Placed(j) ==
  job[j].state = "active" =>
    /\ Is(j, "extract") => job[j].pc \in {"chat", "item", "embed"}
    /\ Is(j, "tick") => job[j].pc \in {"item", "look", "insert"} \union Late
    /\ ~ Is(j, "tick") => job[j].pc \notin Late
    /\ job[j].pc = "chat" => Is(j, "extract")
    /\ job[j].pc \notin {"chat", "item"} => HasItem(j)

\* The maintenance worker has one job at a time.
Alone ==
  \A i, j \in Jobs :
    /\ Lane(i) = "maintenance" /\ Lane(j) = "maintenance"
    /\ job[i].state = "active" /\ job[j].state = "active"
    => i = j

QueueInv == Shape /\ Alone /\ \A j \in Jobs : Placed(j)

\* A job with nothing but its state and its tries does not break anything
\* while it is not active.
LEMMA InactiveIsFine ==
  ASSUME QueueInv, NEW j \in Jobs, Shape', Others(j), job'[j].state # "active"
  PROVE  QueueInv'
BY DEF QueueInv, Others, Alone, Placed, HasItem

\* The step of a job stays within its kind.
Within(j) ==
  \/ GoesOn(j) \/ Stops(j)
  \/ Is(j, "extract") /\ Shape' /\ Others(j) /\ job'[j].pc = "item"
       /\ job'[j].state = job[j].state
  \/ \E place : /\ Goes(j, place) /\ HasItem(j) /\ place # "chat"
                /\ Is(j, "extract") => place = "embed"
                /\ Is(j, "tick") => place \in {"look", "insert"} \union Late
                /\ ~ Is(j, "tick") => place \notin Late

\* A step within the kind of its job keeps the queues in order.
LEMMA WithinKeeps ==
  ASSUME QueueInv, NEW j \in Jobs, job[j].state = "active", Within(j)
  PROVE  QueueInv'
<1>1. CASE Stops(j)
  BY <1>1, InactiveIsFine, StoppedIsInactive DEF Stops
<1>2. CASE ~ Stops(j)
  <2>1. Shape' /\ Others(j) /\ job'[j].state = "active" /\ Placed(j)'
    BY <1>2 DEF Within, Goes, GoesOn, Placed, Late, HasItem, Is
  <2>. QED
    BY <2>1 DEF QueueInv, Others, Alone, Placed, HasItem
<1>. QED
  BY <1>1, <1>2

\* What a step does to its job.  Every statement may fail, too.
LEMMA StepIsWithin ==
  ASSUME QueueInv, NEW j \in Jobs, Step(j)
  PROVE  job[j].state = "active" /\ Within(j)
<1>. USE DEF QueueInv
<1>0. Shape /\ Placed(j)
  OBVIOUS
<1>1. job[j].state = "active"
  BY DEF Step, Running, Done, Look, Insert, FindAnomaly, SkipAutomation, Act, Stamp, Log,
     LogFailed, Probe, Update, Record, Chat, Create, Embed, Backfill
<1>. SUFFICES Within(j)
  BY <1>1
<1>2. ASSUME NEW place, Goto(j, place), HasItem(j), place # "chat",
             Is(j, "extract") => place = "embed",
             Is(j, "tick") => place \in {"look", "insert"} \union Late,
             ~ Is(j, "tick") => place \notin Late
      PROVE  Within(j)
  BY <1>0, <1>2, GotoGoes DEF Within
<1>3. Advance(j) => Within(j)
  BY <1>0, AdvanceGoes DEF Within
<1>4. Throw(j) \/ Finish(j) => Within(j)
  BY <1>0, ThrowStops, FinishStops DEF Within
<1>5. ASSUME Notified(j), HasItem(j), ~ Is(j, "extract") PROVE Within(j)
  BY <1>2, <1>3, <1>5 DEF Notified, Late, Is
<1>6. ASSUME Breaks(j), HasItem(j), ~ Is(j, "extract") PROVE Within(j)
  BY <1>2, <1>4, <1>6 DEF Breaks, Late, Is
<1>7. job[j].pc \in {"look", "insert", "update", "record"} \union Late =>
        HasItem(j) /\ ~ Is(j, "extract")
  BY <1>0, <1>1 DEF Placed, Late
<1>8. job[j].pc \in Late <=> Is(j, "tick") /\ job[j].pc \in Late
  BY <1>0, <1>1 DEF Placed
<1>9. CASE Done(j) \/ SkipAutomation(j) \/ Embed(j) \/ Backfill(j)
  BY <1>9, <1>3, <1>4 DEF Done, SkipAutomation, Embed, Backfill
<1>10. CASE Look(j)
  <2>1. job[j].pc = "look" /\ (Notified(j) \/ Goto(j, "insert") \/ Breaks(j))
    BY <1>10 DEF Look, Running
  <2>. QED
    BY <2>1, <1>2, <1>5, <1>6, <1>7 DEF Late
<1>11. CASE Insert(j)
  <2>1. job[j].pc = "insert" /\ (Notified(j) \/ Breaks(j))
    BY <1>11 DEF Insert, Running
  <2>. QED
    BY <2>1, <1>5, <1>6, <1>7
<1>12. CASE FindAnomaly(j)
  BY <1>12, <1>2 DEF FindAnomaly, Late, Is
<1>13. CASE Act(j)
  <2>1. Is(j, "tick") /\ HasItem(j) /\ \E place \in {"look", "logFailed", "stamp"} : Goto(j, place)
    BY <1>13 DEF Act
  <2>. QED
    BY <2>1, <1>2 DEF Late, Is
<1>14. CASE Stamp(j) \/ Log(j) \/ LogFailed(j)
  <2>1. job[j].pc \in Late
    BY <1>14 DEF Stamp, Log, LogFailed, Running, Late
  <2>2. Is(j, "tick") /\ HasItem(j)
    BY <2>1, <1>7, <1>8
  <2>3. Goto(j, "log") \/ Goto(j, "logFailed") \/ Advance(j) \/ Throw(j)
    BY <1>14 DEF Stamp, Log, LogFailed
  <2>. QED
    BY <2>2, <2>3, <1>2, <1>3, <1>4 DEF Late, Is
<1>15. CASE Probe(j)
  <2>1. Is(j, "health") /\ HasItem(j)
    BY <1>15 DEF Probe
  <2>2. ASSUME NEW x, job' = [job EXCEPT ![j].result = x, ![j].pc = "update"] PROVE Within(j)
    <3>1. Goes(j, "update")
      BY <1>0, <2>2, ProbeGoes
    <3>. QED
      BY <2>1, <3>1 DEF Within, Late, Is
  <2>. QED
    BY <1>15, <2>2, <1>4 DEF Probe
<1>16. CASE Update(j) \/ Record(j)
  <2>1. job[j].pc \in {"update", "record"}
    BY <1>16 DEF Update, Record, Running
  <2>2. HasItem(j) /\ ~ Is(j, "extract") /\ ~ Is(j, "tick")
    BY <2>1, <1>0, <1>1, <1>7 DEF Placed, Late
  <2>3. Goto(j, "record") \/ Goto(j, "look") \/ Advance(j) \/ Throw(j)
    BY <1>16 DEF Update, Record
  <2>. QED
    BY <2>2, <2>3, <1>2, <1>3, <1>4 DEF Late
<1>17. CASE Chat(j)
  <2>1. job[j].pc = "chat"
    BY <1>17 DEF Chat, Running
  <2>2. PICK rows : job' = [job EXCEPT ![j].pc = "item", ![j].todo = rows]
    BY <1>17 DEF Chat
  <2>3. Is(j, "extract")
    BY <2>1, <1>0, <1>1 DEF Placed
  <2>4. Shape' /\ Others(j) /\ job'[j].state = job[j].state /\ job'[j].pc = "item"
    BY <2>2, <1>0, ChatGoes
  <2>. QED
    BY <2>3, <2>4 DEF Within
<1>18. CASE Create(j)
  BY <1>18, <1>2, <1>4 DEF Create, Is, Late
<1>. QED
  BY <1>1, <1>9, <1>10, <1>11, <1>12, <1>13, <1>14, <1>15, <1>16, <1>17, <1>18 DEF Step

\* Nobody is at work at the start.
LEMMA QueueInit == Init => QueueInv
<1>. SUFFICES ASSUME Init PROVE QueueInv
  OBVIOUS
<1>1. PICK mix \in Mixes :
        job = [j \in Jobs |-> Parked(IF j \in mix.slots THEN "idle" ELSE "finished", 0, 0)]
  BY DEF Init
<1>2. ASSUME NEW j \in Jobs PROVE IsSlot(job[j]) /\ job[j].state \in {"idle", "finished"}
  <2>1. PICK s : s = IF j \in mix.slots THEN "idle" ELSE "finished"
    OBVIOUS
  <2>2. job[j] = Parked(s, 0, 0) /\ s \in {"idle", "finished"}
    BY <1>1, <2>1
  <2>. QED
    BY <2>2, ParkedFields
<1>3. job = [j \in Jobs |-> job[j]]
  BY <1>1
<1>. QED
  BY <1>2, <1>3 DEF QueueInv, Shape, Alone, Placed

\* A job of a lane is started only if none other is active there.
LEMMA StartIsAlone ==
  ASSUME NEW j \in Jobs, Start(j), Lane(j) = "maintenance"
  PROVE  \A i \in Jobs : Lane(i) = "maintenance" => job[i].state # "active"
<1>. DEFINE S == {i \in Jobs : Lane(i) = Lane(j) /\ job[i].state = "active"}
<1>1. IsFiniteSet(S)
  BY WorkerAssumption, FS_Subset
<1>2. Cardinality(S) \in Nat /\ Cardinality(S) < 1
  BY <1>1, FS_CardinalityType DEF Start, Capacity
<1>3. S = {}
  BY <1>1, <1>2, FS_EmptySet
<1>. QED
  BY <1>3

\* What the worker leaves behind when it dies is not active.
LEMMA OrphansAreInactive ==
  ASSUME QueueInv, job' = Orphaned
  PROVE  /\ Shape' /\ QueueInv'
         /\ \A j \in Jobs :
              /\ job[j].state = "active" =>
                   job'[j] = Parked("orphan", job[j].made, job[j].stalls)
              /\ job[j].state # "active" => job'[j] = job[j]
              /\ job'[j].state # "active"
<1>1. ASSUME NEW j \in Jobs
      PROVE  /\ job[j].state = "active" =>
                   job'[j] = Parked("orphan", job[j].made, job[j].stalls)
             /\ job[j].state # "active" => job'[j] = job[j]
  BY DEF Orphaned
<1>2. ASSUME NEW j \in Jobs PROVE IsSlot(job'[j]) /\ job'[j].state # "active"
  BY <1>1, ParkedFields DEF QueueInv, Shape
<1>3. job' = [j \in Jobs |-> job'[j]]
  BY DEF Orphaned
<1>4. Shape'
  BY <1>2, <1>3 DEF Shape
<1>. QED
  BY <1>1, <1>2, <1>4 DEF QueueInv, Alone, Placed

\* A stalled job is put back or given up.
LEMMA StalledGoes ==
  ASSUME Shape, NEW j \in Jobs, Stalled(j)
  PROVE  /\ Shape' /\ Others(j) /\ job[j].state = "orphan" /\ job'[j].state # "active"
         /\ \/ job'[j] = Ended(j)
            \/ /\ job[j].stalls < MaxStalls
               /\ job'[j] = Parked("waiting", job[j].made, job[j].stalls + 1)
<1>0. job[j].state = "orphan"
  BY DEF Stalled
<1>1. CASE job[j].stalls < MaxStalls
  <2>1. PICK s : s = Parked("waiting", job[j].made, job[j].stalls + 1)
    OBVIOUS
  <2>2. job' = [job EXCEPT ![j] = s]
    BY <1>1, <2>1 DEF Stalled, Shape
  <2>3. IsSlot(s) /\ s.state = "waiting"
    BY <2>1, ParkedFields
  <2>4. Shape' /\ Others(j) /\ job'[j] = s
    BY <2>2, <2>3, Becomes
  <2>. QED
    BY <1>0, <1>1, <2>1, <2>3, <2>4
<1>2. CASE ~(job[j].stalls < MaxStalls)
  <2>1. IsSlot(Ended(j)) /\ job' = [job EXCEPT ![j] = Ended(j)]
    BY <1>2, EndedFields DEF Stalled, Shape
  <2>2. Shape' /\ Others(j) /\ job'[j] = Ended(j)
    BY <2>1, Becomes
  <2>. QED
    BY <1>0, <2>2, EndedFields
<1>. QED
  BY <1>1, <1>2

\* The hour of a daily automation ends: only what the jobs have seen changes.
LEMMA HourGoes ==
  ASSUME Shape, NEW a, HourEnds(a)
  PROVE  /\ Shape'
         /\ \A j \in Jobs :
              /\ job'[j].state = job[j].state /\ job'[j].made = job[j].made
              /\ job'[j].stalls = job[j].stalls /\ job'[j].pc = job[j].pc
              /\ job'[j].todo = job[j].todo /\ job'[j].seen = job[j].seen \ {a}
<1>1. ASSUME NEW j \in Jobs
      PROVE  /\ IsSlot(job'[j])
             /\ job'[j].state = job[j].state /\ job'[j].made = job[j].made
             /\ job'[j].stalls = job[j].stalls /\ job'[j].pc = job[j].pc
             /\ job'[j].todo = job[j].todo /\ job'[j].seen = job[j].seen \ {a}
  <2>1. PICK r : r = job[j]
    OBVIOUS
  <2>2. job'[j] = [r EXCEPT !.seen = r.seen \ {a}] /\ IsSlot(r)
    BY <2>1 DEF HourEnds, Shape
  <2>3. job'[j] = Slot(r.state, r.made, r.stalls, r.pc, r.todo, r.seen \ {a}, r.result)
    BY <2>2, SeenChanges
  <2>. QED
    BY <2>1, <2>3, SlotFields
<1>2. job' = [j \in Jobs |-> job'[j]]
  BY DEF HourEnds
<1>. QED
  BY <1>1, <1>2 DEF Shape

\* Every step keeps the jobs in shape and the maintenance jobs apart.
LEMMA QueueNext == QueueInv /\ [Next]_vars => QueueInv'
<1>. SUFFICES ASSUME QueueInv, [Next]_vars PROVE QueueInv'
  OBVIOUS
<1>0. Shape
  BY DEF QueueInv
<1>1. ASSUME NEW j \in Jobs, Schedule(j) PROVE QueueInv'
  <2>1. Shape' /\ Others(j) /\ job'[j].state = "waiting"
    BY <1>0, <1>1, StateGoes DEF Schedule
  <2>. QED
    BY <2>1, InactiveIsFine
<1>2. ASSUME NEW j \in Jobs, Start(j) PROVE QueueInv'
  <2>2. Shape' /\ Others(j) /\ job'[j].state = "active"
        /\ job'[j].pc = (IF Is(j, "extract") THEN "chat" ELSE "item")
    BY <1>0, <1>2, StartGoes
  <2>3. Placed(j)'
    BY <2>2 DEF Placed, Late, Is
  <2>4. Alone'
    BY <1>2, <2>2, StartIsAlone DEF QueueInv, Alone, Others, Lane
  <2>. QED
    BY <2>2, <2>3, <2>4 DEF QueueInv, Others, Placed, HasItem
<1>3. ASSUME NEW j \in Jobs, StartFails(j) PROVE QueueInv'
  <2>1. Stops(j)
    BY <1>0, <1>3, ThrowStops DEF StartFails
  <2>. QED
    BY <2>1, StoppedIsInactive, InactiveIsFine DEF Stops
<1>4. ASSUME NEW j \in Jobs, BackoffPasses(j) PROVE QueueInv'
  <2>1. Shape' /\ Others(j) /\ job'[j].state = "waiting"
    BY <1>0, <1>4, StateGoes DEF BackoffPasses
  <2>. QED
    BY <2>1, InactiveIsFine
<1>5. ASSUME NEW j \in Jobs, Stalled(j) PROVE QueueInv'
  BY <1>0, <1>5, StalledGoes, InactiveIsFine
<1>6. ASSUME NEW j \in Jobs, Step(j) PROVE QueueInv'
  BY <1>6, StepIsWithin, WithinKeeps
<1>7. CASE Crash
  BY <1>7, OrphansAreInactive DEF Crash
<1>8. ASSUME NEW a, HourEnds(a) PROVE QueueInv'
  <2>2. /\ Shape'
        /\ \A j \in Jobs : /\ job'[j].state = job[j].state /\ job'[j].pc = job[j].pc
                           /\ job'[j].todo = job[j].todo
    BY <1>0, <1>8, HourGoes
  <2>. QED
    BY <2>2 DEF QueueInv, Alone, Placed, HasItem
<1>9. CASE \/ Terminate \/ Close \/ Restart \/ UNCHANGED vars
           \/ \E a \in Automations : ComesDue(a)
           \/ \E k \in Keys : WindowPasses(k)
  <2>1. job' = job
    BY <1>9 DEF Terminate, Close, Restart, vars, ComesDue, WindowPasses
  <2>. QED
    BY <2>1 DEF QueueInv, Shape, Alone, Placed, HasItem
<1>. QED
  BY <1>1, <1>2, <1>3, <1>4, <1>5, <1>6, <1>7, <1>8, <1>9 DEF Next

-----------------------------------------------------------------------------
(* Notifications.                                                           *)

\* Whoever is about to insert a notification has seen none, and nobody else
\* has inserted one since.
NotifyInv ==
  /\ recent \in [Keys -> Nat] /\ \A k \in Keys : recent[k] <= 1
  /\ \A j \in Jobs :
       job[j].state = "active" /\ job[j].pc = "insert" /\ Item(j) \in Keys => recent[Item(j)] = 0

\* Nobody is about to notify at the start.
LEMMA NotifyInit == Init => NotifyInv
<1>. SUFFICES ASSUME Init PROVE NotifyInv
  OBVIOUS
<1>1. recent = [k \in Keys |-> 0]
  BY DEF Init
<1>2. PICK mix \in Mixes :
        job = [j \in Jobs |-> Parked(IF j \in mix.slots THEN "idle" ELSE "finished", 0, 0)]
  BY DEF Init
<1>3. \A j \in Jobs : job[j].state # "active"
  BY <1>2, ParkedFields
<1>. QED
  BY <1>1, <1>3 DEF NotifyInv

\* Nobody comes to the INSERT.
LEMMA NotifyStays ==
  ASSUME NotifyInv, recent' = recent,
         \A j \in Jobs : job'[j].state = "active" /\ job'[j].pc = "insert" =>
            job[j].state = "active" /\ job[j].pc = "insert" /\ job'[j].todo = job[j].todo
  PROVE  NotifyInv'
BY DEF NotifyInv, Item

\* Only the SELECT of notify() leads to its INSERT, when it finds nothing.
LEMMA LookLeadsToInsert ==
  ASSUME QueueInv, NEW j \in Jobs, Step(j), job'[j].state = "active", job'[j].pc = "insert"
  PROVE  /\ Look(j) /\ recent[Item(j)] = 0 /\ recent' = recent
         /\ Others(j) /\ job'[j].todo = job[j].todo
<1>0. Shape
  BY DEF QueueInv
<1>1. \A place : Goto(j, place) => place = "insert"
  BY <1>0, GotoGoes DEF Goes
<1>2. ~ Advance(j)
  BY <1>0, AdvanceGoes DEF GoesOn
<1>3. ~ Throw(j) /\ ~ Finish(j)
  BY <1>0, ThrowStops, FinishStops, StoppedIsInactive
<1>4. ~ Notified(j) /\ ~ Breaks(j)
  BY <1>1, <1>2, <1>3 DEF Notified, Breaks
<1>5. ~(Done(j) \/ SkipAutomation(j) \/ Embed(j) \/ Backfill(j) \/ Create(j))
  BY <1>1, <1>2, <1>3 DEF Done, SkipAutomation, Embed, Backfill, Create
<1>6. ~(Insert(j) \/ FindAnomaly(j) \/ Act(j) \/ Stamp(j) \/ Log(j) \/ LogFailed(j))
  BY <1>1, <1>2, <1>3, <1>4 DEF Insert, FindAnomaly, Act, Stamp, Log, LogFailed
<1>7. ~(Update(j) \/ Record(j))
  BY <1>1, <1>2, <1>3 DEF Update, Record
<1>8. ~ Probe(j)
  BY <1>0, <1>3, ProbeGoes DEF Probe, Goes
<1>9. ~ Chat(j)
  <2>1. SUFFICES ASSUME NEW rows, job' = [job EXCEPT ![j].pc = "item", ![j].todo = rows] PROVE FALSE
    BY DEF Chat
  <2>. QED
    BY <1>0, <2>1, ChatGoes
<1>10. Look(j)
  BY <1>5, <1>6, <1>7, <1>8, <1>9 DEF Step
<1>11. recent[Item(j)] = 0 /\ Goto(j, "insert") /\ recent' = recent
  BY <1>4, <1>10 DEF Look
<1>12. Goes(j, "insert")
  BY <1>0, <1>11, GotoGoes
<1>. QED
  BY <1>10, <1>11, <1>12 DEF Goes

\* A step of a job other than the two of notify() does not notify.
LEMMA NotifyKeeps ==
  ASSUME QueueInv, NotifyInv, NEW j \in Jobs, Step(j)
  PROVE  NotifyInv'
<1>0. Within(j) /\ Others(j) /\ job[j].state = "active"
  BY StepIsWithin DEF Within, GoesOn, Stops, Goes
<1>1. CASE Insert(j)
  <2>1. job[j].pc = "insert" /\ (Notified(j) \/ Breaks(j)) /\ QueueInv'
    BY <1>0, <1>1, WithinKeeps DEF Insert, Running
  <2>2. ~(job'[j].state = "active" /\ job'[j].pc = "insert")
    <3>1. SUFFICES ASSUME job'[j].state = "active", job'[j].pc = "insert" PROVE FALSE
      OBVIOUS
    <3>2. Look(j)
      BY <3>1, LookLeadsToInsert
    <3>. QED
      BY <2>1, <3>2 DEF Look, Running
  <2>3. \A i \in Jobs : ~(job'[i].state = "active" /\ job'[i].pc = "insert")
    <3>1. SUFFICES ASSUME NEW i \in Jobs, i # j, job[i].state = "active", job[i].pc = "insert"
                   PROVE  FALSE
      BY <1>0, <2>2 DEF Others
    <3>2. Lane(i) = "maintenance" /\ Lane(j) = "maintenance"
      BY <1>0, <2>1, <3>1 DEF QueueInv, Placed, Lane, Is
    <3>. QED
      BY <1>0, <3>1, <3>2 DEF QueueInv, Alone
  <2>4. recent' \in [Keys -> Nat] /\ \A k \in Keys : recent'[k] <= 1
    <3>1. recent' = recent \/ recent' = [recent EXCEPT ![Item(j)] = @ + 1]
      BY <1>1 DEF Insert
    <3>2. Item(j) \in Keys => recent[Item(j)] = 0
      BY <1>0, <2>1 DEF NotifyInv
    <3>. QED
      BY <3>1, <3>2 DEF NotifyInv
  <2>. QED
    BY <2>3, <2>4 DEF NotifyInv
<1>2. CASE ~ Insert(j)
  <2>1. recent' = recent
    BY <1>2 DEF Step, Done, Look, FindAnomaly, SkipAutomation, Act, Stamp, Log,
       LogFailed, Probe, Update, Record, Chat, Create, Embed, Backfill
  <2>2. ASSUME job'[j].state = "active", job'[j].pc = "insert" PROVE NotifyInv'
    <3>1. recent[Item(j)] = 0 /\ job'[j].todo = job[j].todo
      BY <2>2, LookLeadsToInsert
    <3>. QED
      BY <1>0, <2>1, <3>1 DEF NotifyInv, Item, Others
  <2>3. CASE ~(job'[j].state = "active" /\ job'[j].pc = "insert")
    BY <1>0, <2>1, <2>3, NotifyStays DEF Others
  <2>. QED
    BY <2>2, <2>3
<1>. QED
  BY <1>1, <1>2

\* Every step keeps one notification per key.
LEMMA NotifyNext == QueueInv /\ NotifyInv /\ [Next]_vars => NotifyInv'
<1>. SUFFICES ASSUME QueueInv, NotifyInv, [Next]_vars PROVE NotifyInv'
  OBVIOUS
<1>0. Shape
  BY DEF QueueInv
<1>1. ASSUME NEW j \in Jobs, Schedule(j) \/ BackoffPasses(j) PROVE NotifyInv'
  <2>1. Others(j) /\ job'[j].state = "waiting" /\ recent' = recent
    BY <1>0, <1>1, StateGoes DEF Schedule, BackoffPasses
  <2>. QED
    BY <2>1, NotifyStays DEF Others
<1>2. ASSUME NEW j \in Jobs, Start(j) PROVE NotifyInv'
  <2>1. Others(j) /\ job'[j].pc # "insert" /\ recent' = recent
    BY <1>0, <1>2, StartGoes DEF Start
  <2>. QED
    BY <2>1, NotifyStays DEF Others
<1>3. ASSUME NEW j \in Jobs, StartFails(j) PROVE NotifyInv'
  <2>1. Others(j) /\ job'[j].state # "active" /\ recent' = recent
    BY <1>0, <1>3, ThrowStops, StoppedIsInactive DEF StartFails, Stops
  <2>. QED
    BY <2>1, NotifyStays DEF Others
<1>5. ASSUME NEW j \in Jobs, Stalled(j) PROVE NotifyInv'
  <2>1. Others(j) /\ job'[j].state # "active" /\ recent' = recent
    BY <1>0, <1>5, StalledGoes DEF Stalled
  <2>. QED
    BY <2>1, NotifyStays DEF Others
<1>6. ASSUME NEW j \in Jobs, Step(j) PROVE NotifyInv'
  BY <1>6, NotifyKeeps
<1>7. CASE Crash
  BY <1>7, OrphansAreInactive, NotifyStays DEF Crash
<1>8. ASSUME NEW a, HourEnds(a) PROVE NotifyInv'
  BY <1>0, <1>8, HourGoes, NotifyStays DEF HourEnds
<1>9. CASE Terminate \/ Close \/ Restart \/ UNCHANGED vars \/ \E a \in Automations : ComesDue(a)
  BY <1>9, NotifyStays DEF Terminate, Close, Restart, vars, ComesDue
<1>10. ASSUME NEW k \in Keys, WindowPasses(k) PROVE NotifyInv'
  BY <1>10 DEF WindowPasses, NotifyInv, Item
<1>. QED
  BY <1>1, <1>2, <1>3, <1>5, <1>6, <1>7, <1>8, <1>9, <1>10 DEF Next

\* The maintenance jobs look for a notification and insert it in two
\* statements, and yet no key gets two of them within the window (notify).
THEOREM NoKeyIsNotifiedTwice == Spec => []NotifiedOncePerWindow
<1>1. NotifyInv => NotifiedOncePerWindow
  BY DEF NotifyInv, NotifiedOncePerWindow
<1>2. Init => QueueInv /\ NotifyInv
  BY QueueInit, NotifyInit
<1>3. QueueInv /\ NotifyInv /\ [Next]_vars => (QueueInv /\ NotifyInv)'
  BY QueueNext, NotifyNext
<1>. QED
  BY <1>1, <1>2, <1>3, PTL DEF Spec
-----------------------------------------------------------------------------
(* Automations.                                                             *)

\* The tick has the automation in hand, at one of these places.
InHand(j, a, places) ==
  Is(j, "tick") /\ job[j].state = "active" /\ job[j].pc \in places /\ Item(j) = a

\* Every action since it came due but one was excused, and this one may be.
Ready(a) == acts[a] <= excuses[a]

\* An automation that has acted is stamped, or about to be, or excused: it is
\* not due and not taken for due by the row that was read before.
Tame(a) ==
  /\ acts[a] <= 1 + excuses[a]
  /\ \A j \in Jobs : InHand(j, a, {"look", "insert"}) => Ready(a)
  /\ \A j \in Jobs : InHand(j, a, {"log"}) => a \notin due
  /\ \A j \in Jobs : InHand(j, a, {"logFailed"}) => a \notin due \/ Ready(a)
  /\ a \in due /\ (\A j \in Jobs : ~ InHand(j, a, {"stamp"})) => Ready(a)
  /\ \A j \in Jobs :
       /\ Is(j, "tick") /\ job[j].state = "active" /\ a \in job[j].seen
       /\ ~ InHand(j, a, Late)
       => Ready(a)

TickInv ==
  /\ acts \in [Automations -> Nat] /\ excuses \in [Automations -> Nat]
  /\ \A a \in Automations : Tame(a)

\* A count goes up by one.
LEMMA CountsUp ==
  ASSUME NEW S, NEW f \in [S -> Nat], NEW x
  PROVE  [f EXCEPT ![x] = @ + 1] \in [S -> Nat]
<1>1. CASE x \in S
  BY <1>1
<1>2. CASE x \notin S
  <2>1. [f EXCEPT ![x] = @ + 1] = f
    BY <1>2
  <2>. QED
    BY <2>1
<1>. QED
  BY <1>1, <1>2

\* No automation has acted at the start.
LEMMA TickInit == Init => TickInv
<1>. SUFFICES ASSUME Init PROVE TickInv
  OBVIOUS
<1>1. /\ acts = [a \in Automations |-> 0] /\ excuses = [a \in Automations |-> 0] /\ due = {}
  BY DEF Init
<1>2. PICK mix \in Mixes :
        job = [j \in Jobs |-> Parked(IF j \in mix.slots THEN "idle" ELSE "finished", 0, 0)]
  BY DEF Init
<1>3. \A j \in Jobs : job[j].state # "active"
  BY <1>2, ParkedFields
<1>. QED
  BY <1>1, <1>3 DEF TickInv, Tame, InHand, Ready

\* The ticks stay where they are.
LEMMA TickStays ==
  ASSUME TickInv, acts' = acts, excuses' = excuses, due' \subseteq due,
         \A j \in Jobs : Is(j, "tick") =>
            /\ job'[j].state = "active" <=> job[j].state = "active"
            /\ job[j].state = "active" =>
                 /\ job'[j].pc = job[j].pc /\ job'[j].todo = job[j].todo
                 /\ job'[j].seen \subseteq job[j].seen
  PROVE  TickInv'
<1>1. \A places : \A j \in Jobs, a \in Automations : InHand(j, a, places)' <=> InHand(j, a, places)
  BY DEF InHand, Item, Is
<1>2. ASSUME NEW a \in Automations PROVE Tame(a)'
  <2>1. Tame(a) /\ (Ready(a)' <=> Ready(a)) /\ acts'[a] = acts[a] /\ excuses'[a] = excuses[a]
    BY DEF TickInv, Ready
  <2>2. \A j \in Jobs : InHand(j, a, {"look", "insert"})' => Ready(a)'
    BY <1>1, <2>1 DEF Tame
  <2>3. \A j \in Jobs : InHand(j, a, {"log"})' => a \notin due'
    BY <1>1, <2>1 DEF Tame
  <2>4. \A j \in Jobs : InHand(j, a, {"logFailed"})' => a \notin due' \/ Ready(a)'
    BY <1>1, <2>1 DEF Tame
  <2>5. a \in due' /\ (\A j \in Jobs : ~ InHand(j, a, {"stamp"})') => Ready(a)'
    BY <1>1, <2>1 DEF Tame
  <2>6. ASSUME NEW j \in Jobs, Is(j, "tick"), job'[j].state = "active", a \in job'[j].seen,
               ~ InHand(j, a, Late)'
        PROVE  Ready(a)'
    <3>1. job[j].state = "active" /\ a \in job[j].seen /\ ~ InHand(j, a, Late)
      BY <1>1, <2>6 DEF Late
    <3>. QED
      BY <2>1, <2>6, <3>1 DEF Tame
  <2>. QED
    BY <2>1, <2>2, <2>3, <2>4, <2>5, <2>6 DEF Tame, Is
<1>. QED
  BY <1>2 DEF TickInv

\* What Tame says of the one tick there is.
TameIn(j, a) ==
  /\ acts[a] <= 1 + excuses[a]
  /\ job[j].state = "active" /\ job[j].pc \in {"look", "insert"} /\ Item(j) = a => Ready(a)
  /\ job[j].state = "active" /\ job[j].pc = "log" /\ Item(j) = a => a \notin due
  /\ job[j].state = "active" /\ job[j].pc = "logFailed" /\ Item(j) = a => a \notin due \/ Ready(a)
  /\ a \in due /\ ~(job[j].state = "active" /\ job[j].pc = "stamp" /\ Item(j) = a) => Ready(a)
  /\ /\ job[j].state = "active" /\ a \in job[j].seen
     /\ ~(job[j].pc \in Late /\ Item(j) = a)
     => Ready(a)

\* There is one active tick at most.
LEMMA OneTick ==
  ASSUME QueueInv, NEW j \in Jobs, Is(j, "tick"), job[j].state = "active"
  PROVE  \A i \in Jobs : Is(i, "tick") /\ job[i].state = "active" => i = j
BY DEF QueueInv, Alone, Lane, Is

\* Then Tame is what it says of this one.
LEMMA TameOfOne ==
  ASSUME NEW j \in Jobs, NEW a, Is(j, "tick"),
         \A i \in Jobs : Is(i, "tick") /\ job[i].state = "active" => i = j
  PROVE  Tame(a) <=> TameIn(j, a)
BY DEF Tame, TameIn, InHand, Late

\* It remains to look at this tick, which has an automation in hand.
LEMMA TickSteps ==
  ASSUME QueueInv, QueueInv', TickInv, NEW j \in Jobs, Is(j, "tick"), job[j].state = "active",
         Others(j), acts' \in [Automations -> Nat], excuses' \in [Automations -> Nat],
         \A a \in Automations : TameIn(j, a) => TameIn(j, a)'
  PROVE  TickInv'
<1>1. \A i \in Jobs : Is(i, "tick") /\ job[i].state = "active" => i = j
  BY OneTick
<1>2. \A i \in Jobs : Is(i, "tick") /\ job'[i].state = "active" => i = j
  BY <1>1 DEF Others
<1>3. ASSUME NEW a \in Automations PROVE Tame(a)'
  <2>1. TameIn(j, a)'
    BY <1>1, TameOfOne DEF TickInv
  <2>2. Is(j, "tick")' /\ \A i \in Jobs : Is(i, "tick")' /\ job'[i].state = "active" => i = j
    BY <1>2 DEF Is
  <2>. QED
    BY <2>1, <2>2, TameOfOne DEF Tame, TameIn, InHand, Late
<1>. QED
  BY <1>3 DEF TickInv

\* What a step of the tick does to the automation in hand.
LEMMA TickKeeps ==
  ASSUME QueueInv, TickInv, NEW j \in Jobs, Is(j, "tick"), Step(j)
  PROVE  TickInv'
<1>0. Shape /\ job[j].state = "active" /\ Within(j) /\ Placed(j)
  BY StepIsWithin DEF QueueInv
<1>1. QueueInv' /\ Others(j)
  BY <1>0, WithinKeeps DEF Within, GoesOn, Stops, Goes
<1>2. acts \in [Automations -> Nat] /\ excuses \in [Automations -> Nat]
  BY DEF TickInv
<1>3. ASSUME acts' \in [Automations -> Nat], excuses' \in [Automations -> Nat],
             \A a \in Automations : TameIn(j, a) => TameIn(j, a)'
      PROVE  TickInv'
  BY <1>0, <1>1, <1>3, TickSteps
<1>4. ASSUME GoesOn(j) \/ Stops(j), job[j].pc # "stamp", UNCHANGED automation
      PROVE  TickInv'
  <2>1. \/ job'[j].pc = "item" /\ job'[j].seen = job[j].seen \ {Item(j)}
        \/ job'[j].state # "active"
    BY <1>4, StoppedIsInactive DEF GoesOn
  <2>. QED
    BY <1>0, <1>2, <1>3, <1>4, <2>1 DEF automation, TameIn, Ready, Late
<1>5. ASSUME Goes(j, "logFailed"), job[j].pc # "stamp", UNCHANGED automation
      PROVE  TickInv'
  BY <1>0, <1>2, <1>3, <1>5 DEF automation, TameIn, Ready, Late, Goes, Item
<1>6. ASSUME Notified(j), job[j].pc \in {"look", "insert"} PROVE TickInv'
  <2>1. /\ Goes(j, "stamp") /\ due' = due /\ excuses' = excuses
        /\ acts' = [acts EXCEPT ![Item(j)] = @ + 1]
    BY <1>0, <1>6, GotoGoes DEF Notified
  <2>2. acts' \in [Automations -> Nat] /\ excuses' \in [Automations -> Nat]
    BY <1>2, <2>1, CountsUp
  <2>3. \A a \in Automations : acts'[a] = IF a = Item(j) THEN acts[a] + 1 ELSE acts[a]
    BY <1>2, <2>1
  <2>. QED
    BY <1>0, <1>2, <1>3, <1>6, <2>1, <2>2, <2>3 DEF TameIn, Ready, Late, Goes, Item
<1>7. ASSUME Breaks(j), job[j].pc \in {"look", "insert"}, UNCHANGED automation PROVE TickInv'
  <2>1. Goes(j, "logFailed")
    BY <1>0, <1>7, GotoGoes DEF Breaks
  <2>. QED
    BY <1>5, <1>7, <2>1
<1>8. CASE Done(j) \/ SkipAutomation(j)
  <2>1. (GoesOn(j) \/ Stops(j)) /\ job[j].pc = "item" /\ UNCHANGED automation
    BY <1>0, <1>8, FinishStops, AdvanceGoes DEF Done, SkipAutomation, Running
  <2>. QED
    BY <1>4, <2>1
<1>9. CASE Look(j)
  <2>1. ASSUME Goto(j, "insert"), UNCHANGED automation PROVE TickInv'
    <3>1. Goes(j, "insert") /\ job[j].pc = "look"
      BY <1>0, <1>9, <2>1, GotoGoes DEF Look, Running
    <3>. QED
      BY <1>0, <1>2, <1>3, <2>1, <3>1 DEF automation, TameIn, Ready, Late, Goes, Item
  <2>. QED
    BY <1>6, <1>7, <1>9, <2>1 DEF Look, Running
<1>10. CASE Insert(j)
  BY <1>6, <1>7, <1>10 DEF Insert, Running
<1>11. CASE Act(j)
  <2>1. job[j].pc = "item" /\ due' = due /\ (Item(j) \in due \/ Item(j) \in job[j].seen)
    BY <1>11 DEF Act, Running, IsDue
  <2>2. \/ Goes(j, "look") /\ UNCHANGED <<acts, excuses>>
        \/ Goes(j, "logFailed") /\ UNCHANGED <<acts, excuses>>
        \/ /\ Goes(j, "stamp") /\ excuses' = excuses
           /\ acts' = [acts EXCEPT ![Item(j)] = @ + 1]
        \/ /\ Goes(j, "logFailed")
           /\ acts' = [acts EXCEPT ![Item(j)] = @ + 1]
           /\ excuses' = [excuses EXCEPT ![Item(j)] = @ + 1]
    BY <1>0, <1>11, GotoGoes DEF Act, Acted, Excuse
  <2>3. CASE Goes(j, "look") /\ UNCHANGED <<acts, excuses>>
    BY <1>0, <1>2, <1>3, <2>1, <2>3 DEF TameIn, Ready, Late, Goes, Item
  <2>4. CASE Goes(j, "logFailed") /\ UNCHANGED <<acts, excuses>>
    BY <1>5, <2>1, <2>4 DEF automation
  <2>5. CASE /\ Goes(j, "stamp") /\ excuses' = excuses
             /\ acts' = [acts EXCEPT ![Item(j)] = @ + 1]
    <3>1. acts' \in [Automations -> Nat] /\ excuses' \in [Automations -> Nat]
      BY <1>2, <2>5, CountsUp
    <3>2. \A a \in Automations : acts'[a] = IF a = Item(j) THEN acts[a] + 1 ELSE acts[a]
      BY <1>2, <2>5
    <3>. QED
      BY <1>0, <1>2, <1>3, <2>1, <2>5, <3>1, <3>2 DEF TameIn, Ready, Late, Goes, Item
  <2>6. CASE /\ Goes(j, "logFailed")
             /\ acts' = [acts EXCEPT ![Item(j)] = @ + 1]
             /\ excuses' = [excuses EXCEPT ![Item(j)] = @ + 1]
    <3>1. acts' \in [Automations -> Nat] /\ excuses' \in [Automations -> Nat]
      BY <1>2, <2>6, CountsUp
    <3>2. \A a \in Automations :
            /\ acts'[a] = IF a = Item(j) THEN acts[a] + 1 ELSE acts[a]
            /\ excuses'[a] = IF a = Item(j) THEN excuses[a] + 1 ELSE excuses[a]
      BY <1>2, <2>6
    <3>. QED
      BY <1>0, <1>2, <1>3, <2>1, <2>6, <3>1, <3>2, SMTT(30) DEF TameIn, Ready, Late, Goes, Item
  <2>. QED
    BY <2>2, <2>3, <2>4, <2>5, <2>6
<1>12. CASE Stamp(j)
  <2>1. job[j].pc = "stamp" /\ acts' = acts
    BY <1>12 DEF Stamp, Running
  <2>2. \/ Goes(j, "log") /\ due' = due \ {Item(j)} /\ excuses' = excuses
        \/ /\ Goes(j, "logFailed") /\ due' = due
           /\ excuses' = [excuses EXCEPT ![Item(j)] = @ + 1]
    BY <1>0, <1>12, GotoGoes DEF Stamp, Excuse
  <2>3. CASE Goes(j, "log") /\ due' = due \ {Item(j)} /\ excuses' = excuses
    BY <1>0, <1>2, <1>3, <2>1, <2>3 DEF TameIn, Ready, Late, Goes, Item
  <2>4. CASE /\ Goes(j, "logFailed") /\ due' = due
             /\ excuses' = [excuses EXCEPT ![Item(j)] = @ + 1]
    <3>1. acts' \in [Automations -> Nat] /\ excuses' \in [Automations -> Nat]
      BY <1>2, <2>1, <2>4, CountsUp
    <3>2. \A a \in Automations : excuses'[a] = IF a = Item(j) THEN excuses[a] + 1 ELSE excuses[a]
      BY <1>2, <2>4
    <3>. QED
      BY <1>0, <1>2, <1>3, <2>1, <2>4, <3>1, <3>2 DEF TameIn, Ready, Late, Goes, Item
  <2>. QED
    BY <2>2, <2>3, <2>4
<1>13. CASE Log(j) \/ LogFailed(j)
  <2>1. /\ job[j].pc \in {"log", "logFailed"} /\ UNCHANGED automation
        /\ GoesOn(j) \/ Stops(j) \/ Goes(j, "logFailed")
    BY <1>0, <1>13, GotoGoes, AdvanceGoes, ThrowStops DEF Log, LogFailed, Running
  <2>. QED
    BY <1>4, <1>5, <2>1
<1>14. ~(FindAnomaly(j) \/ Probe(j) \/ Create(j) \/ Backfill(j))
  BY DEF FindAnomaly, Probe, Create, Backfill, Is
<1>15. ~(Update(j) \/ Record(j) \/ Chat(j) \/ Embed(j))
  BY <1>0 DEF Update, Record, Chat, Embed, Running, Placed, Late
<1>. QED
  BY <1>8, <1>9, <1>10, <1>11, <1>12, <1>13, <1>14, <1>15 DEF Step

\* The steps of the other jobs have nothing to do with the automations.
LEMMA OtherJobsKeepTicks ==
  ASSUME QueueInv, TickInv, NEW j \in Jobs, ~ Is(j, "tick"), Step(j)
  PROVE  TickInv'
<1>1. job[j].state = "active" /\ Within(j) /\ Placed(j)
  BY StepIsWithin DEF QueueInv
<1>2. Others(j)
  BY <1>1 DEF Within, GoesOn, Stops, Goes
<1>3. UNCHANGED automation
  BY <1>1 DEF Step, Done, Look, Insert, FindAnomaly, SkipAutomation, Act, Stamp, Log, Notified,
     LogFailed, Probe, Update, Record, Chat, Create, Embed, Backfill, Running, Placed, Late
<1>. QED
  BY <1>2, <1>3, TickStays DEF Others, automation

\* A tick is started: whatever is due by its rows is due and has not acted.
LEMMA TickStarts ==
  ASSUME QueueInv, TickInv, NEW j \in Jobs, Start(j)
  PROVE  TickInv'
<1>1. /\ Others(j) /\ job'[j].state = "active" /\ UNCHANGED automation
      /\ job'[j].seen = (IF Is(j, "tick") THEN due ELSE {})
      /\ job'[j].pc = (IF Is(j, "extract") THEN "chat" ELSE "item")
  BY StartGoes DEF QueueInv, Start
<1>2. CASE ~ Is(j, "tick")
  BY <1>1, <1>2, TickStays DEF Others, automation
<1>3. CASE Is(j, "tick")
  <2>1. \A i \in Jobs : Is(i, "tick") => job[i].state # "active"
    BY <1>3, StartIsAlone DEF Lane, Is
  <2>2. \A i \in Jobs : Is(i, "tick") /\ job'[i].state = "active" => i = j
    BY <1>1, <2>1 DEF Others
  <2>3. \A a \in Automations : /\ acts[a] <= 1 + excuses[a]
                               /\ a \in due => Ready(a)
    BY <2>1 DEF TickInv, Tame, InHand
  <2>4. job'[j].pc = "item" /\ job'[j].seen = due
    BY <1>1, <1>3 DEF Is
  <2>. QED
    BY <1>1, <2>2, <2>3, <2>4 DEF TickInv, Tame, InHand, Ready, automation, Is
<1>. QED
  BY <1>2, <1>3

\* The worker dies: whatever has acted and is not stamped is excused.
LEMMA TickDies ==
  ASSUME QueueInv, TickInv, Crash
  PROVE  TickInv'
<1>1. /\ acts' = acts /\ due' = due /\ \A j \in Jobs : job'[j].state # "active"
      /\ excuses' = [a \in Automations |->
                       IF \E j \in Jobs : Running(j, "stamp") /\ Item(j) = a
                       THEN excuses[a] + 1 ELSE excuses[a]]
  BY OrphansAreInactive DEF Crash
<1>2. acts' \in [Automations -> Nat] /\ excuses' \in [Automations -> Nat]
  BY <1>1 DEF TickInv
<1>3. ASSUME NEW a \in Automations PROVE Tame(a)'
  <2>1. Tame(a) /\ acts[a] \in Nat /\ excuses[a] \in Nat
    BY DEF TickInv
  <2>2. acts'[a] <= 1 + excuses'[a]
    BY <1>1, <2>1 DEF Tame
  <2>3. a \in due => acts'[a] <= excuses'[a]
    <3>1. CASE \E j \in Jobs : InHand(j, a, {"stamp"})
      <4>1. \E j \in Jobs : Running(j, "stamp") /\ Item(j) = a
        BY <3>1 DEF InHand, Running, Crash
      <4>2. excuses'[a] = excuses[a] + 1
        BY <1>1, <4>1
      <4>. QED
        BY <1>1, <2>1, <4>2 DEF Tame
    <3>2. CASE ~ \E j \in Jobs : InHand(j, a, {"stamp"})
      <4>1. a \in due => acts[a] <= excuses[a]
        BY <2>1, <3>2 DEF Tame, Ready
      <4>2. excuses'[a] >= excuses[a]
        BY <1>1, <2>1
      <4>. QED
        BY <1>1, <1>2, <2>1, <4>1, <4>2
    <3>. QED
      BY <3>1, <3>2
  <2>. QED
    BY <1>1, <2>2, <2>3 DEF Tame, InHand, Ready
<1>. QED
  BY <1>2, <1>3 DEF TickInv

\* An automation comes due when no tick has it in hand.
LEMMA TickComes ==
  ASSUME QueueInv, TickInv, NEW b \in Automations, ComesDue(b)
  PROVE  TickInv'
<1>1. /\ job' = job /\ due' = due \union {b}
      /\ acts' = [acts EXCEPT ![b] = 0] /\ excuses' = [excuses EXCEPT ![b] = 0]
  BY DEF ComesDue
<1>2. acts' \in [Automations -> Nat] /\ excuses' \in [Automations -> Nat]
  BY <1>1 DEF TickInv
<1>3. \A j \in Jobs : ~ InHand(j, b, {"log"})
  BY DEF ComesDue, InHand, QueueInv, Placed
<1>4. ASSUME NEW a \in Automations PROVE Tame(a)'
  <2>0. \A j \in Jobs, S \in {{"look", "insert"}, {"log"}, {"logFailed"}, {"stamp"}, Late} :
          InHand(j, a, S)' <=> InHand(j, a, S)
    BY <1>1 DEF InHand, Item, Is
  <2>1. CASE a = b
    <3>1. acts'[a] = 0 /\ excuses'[a] = 0
      BY <1>1, <2>1 DEF TickInv
    <3>2. Ready(a)' /\ acts'[a] <= 1 + excuses'[a]
      BY <3>1 DEF Ready
    <3>. QED
      BY <1>1, <1>3, <2>0, <2>1, <3>2 DEF Tame
  <2>2. CASE a # b
    <3>1. acts'[a] = acts[a] /\ excuses'[a] = excuses[a] /\ (a \in due' <=> a \in due)
      BY <1>1, <2>2 DEF TickInv
    <3>2. Tame(a) /\ (Ready(a)' <=> Ready(a))
      BY <3>1 DEF TickInv, Ready
    <3>. QED
      BY <1>1, <2>0, <3>1, <3>2 DEF Tame, Is
  <2>. QED
    BY <2>1, <2>2
<1>. QED
  BY <1>2, <1>4 DEF TickInv

\* Every step leaves the automations tame.
LEMMA TickNext == QueueInv /\ TickInv /\ [Next]_vars => TickInv'
<1>. SUFFICES ASSUME QueueInv, TickInv, [Next]_vars PROVE TickInv'
  OBVIOUS
<1>0. Shape
  BY DEF QueueInv
<1>1. ASSUME NEW j \in Jobs, Schedule(j) \/ BackoffPasses(j) PROVE TickInv'
  <2>1. /\ Others(j) /\ job'[j].state = "waiting" /\ job[j].state # "active"
        /\ UNCHANGED automation
    BY <1>0, <1>1, StateGoes DEF Schedule, BackoffPasses
  <2>. QED
    BY <2>1, TickStays DEF Others, automation
<1>2. ASSUME NEW j \in Jobs, StartFails(j) PROVE TickInv'
  <2>1. /\ Others(j) /\ job'[j].state # "active" /\ job[j].state # "active"
        /\ UNCHANGED automation
    BY <1>0, <1>2, ThrowStops, StoppedIsInactive DEF StartFails, Stops
  <2>. QED
    BY <2>1, TickStays DEF Others, automation
<1>3. ASSUME NEW j \in Jobs, Stalled(j) PROVE TickInv'
  <2>1. /\ Others(j) /\ job'[j].state # "active" /\ job[j].state # "active"
        /\ UNCHANGED automation
    BY <1>0, <1>3, StalledGoes DEF Stalled
  <2>. QED
    BY <2>1, TickStays DEF Others, automation
<1>4. ASSUME NEW a, HourEnds(a) PROVE TickInv'
  <2>1. acts' = acts /\ excuses' = excuses /\ due' \subseteq due
    BY <1>4 DEF HourEnds
  <2>. QED
    BY <1>0, <1>4, <2>1, HourGoes, TickStays
<1>5. CASE Terminate \/ Close \/ Restart \/ UNCHANGED vars \/ \E k \in Keys : WindowPasses(k)
  <2>1. job' = job /\ UNCHANGED automation
    BY <1>5 DEF Terminate, Close, Restart, vars, WindowPasses, automation
  <2>. QED
    BY <2>1, TickStays DEF automation
<1>. QED
  BY <1>1, <1>2, <1>3, <1>4, <1>5, TickKeeps, OtherJobsKeepTicks, TickStarts, TickDies, TickComes
     DEF Next
-----------------------------------------------------------------------------
(* Extractions.                                                             *)

\* What n starts of an extraction may store.
Allowed(n) == MaxItems * n

States == {"idle", "waiting", "active", "delayed", "orphan", "finished"}

\* An extraction has stored what its starts so far allow; the one under way
\* has room for the rows it still holds.
Stocked(j) ==
  LET s == job[j]
      starts == s.made + s.stalls
  IN
  /\ s.made \in Nat /\ s.stalls \in Nat /\ s.state \in States
  /\ ~ Is(j, "extract") => stored[j] = 0
  /\ Is(j, "extract") =>
       /\ s.state # "finished" => s.made < 2 /\ s.stalls <= MaxStalls
       /\ s.state = "idle" => stored[j] = 0
       /\ s.state \in {"waiting", "delayed"} => stored[j] <= Allowed(starts)
       /\ s.state = "active" /\ s.pc = "chat" => stored[j] <= Allowed(starts)
       /\ s.state = "active" /\ s.pc \in {"item", "embed"} => s.todo \in Seq(Jobs \X Nat)
       /\ s.state = "active" /\ s.pc = "item" => stored[j] + Len(s.todo) <= Allowed(1 + starts)
       /\ s.state = "active" /\ s.pc = "embed" => stored[j] + Len(s.todo) <= 1 + Allowed(1 + starts)
       /\ s.state = "orphan" => stored[j] <= Allowed(1 + starts)
       /\ s.state = "finished" => stored[j] <= Allowed(2 + MaxStalls)

StoreInv == stored \in [Jobs -> Nat] /\ \A j \in Jobs : Stocked(j)

\* What is allowed is a number,
LEMMA AllowedType == ASSUME NEW n \in Nat PROVE Allowed(n) \in Nat
BY WorkerAssumption DEF Allowed

\* one start more allows MaxItems more,
LEMMA AllowedMore ==
  ASSUME NEW n \in Nat PROVE Allowed(1 + n) = Allowed(n) + MaxItems
BY WorkerAssumption DEF Allowed

\* and more starts never allow less.
LEMMA AllowedGrows ==
  ASSUME NEW m \in Nat, NEW n \in Nat, m <= n PROVE Allowed(m) <= Allowed(n)
<1>1. MaxItems \in Nat
  BY WorkerAssumption
<1>2. PICK d \in Nat : n = m + d
  <2>1. n - m \in Nat /\ n = m + (n - m)
    OBVIOUS
  <2>. QED
    BY <2>1
<1>3. MaxItems * (m + d) = MaxItems * m + MaxItems * d
  BY <1>1
<1>4. MaxItems * d \in Nat /\ MaxItems * m \in Nat
  BY <1>1
<1>. QED
  BY <1>2, <1>3, <1>4 DEF Allowed

\* Nothing is stored at the start.
LEMMA StoreInit == Init => StoreInv
<1>. SUFFICES ASSUME Init PROVE StoreInv
  OBVIOUS
<1>1. PICK mix \in Mixes :
        job = [j \in Jobs |-> Parked(IF j \in mix.slots THEN "idle" ELSE "finished", 0, 0)]
  BY DEF Init
<1>2. stored = [j \in Jobs |-> 0]
  BY DEF Init
<1>3. ASSUME NEW j \in Jobs
      PROVE  job[j].state \in {"idle", "finished"} /\ job[j].made = 0 /\ job[j].stalls = 0
  <2>1. PICK s : s = IF j \in mix.slots THEN "idle" ELSE "finished"
    OBVIOUS
  <2>2. job[j] = Parked(s, 0, 0) /\ s \in {"idle", "finished"}
    BY <1>1, <2>1
  <2>. QED
    BY <2>2, ParkedFields
<1>4. MaxStalls \in Nat /\ Allowed(2 + MaxStalls) \in Nat
  BY AllowedType, WorkerAssumption
<1>5. ASSUME NEW j \in Jobs PROVE Stocked(j)
  <2>1. stored[j] = 0 /\ 0 <= Allowed(2 + MaxStalls)
    BY <1>2, <1>4
  <2>2. /\ job[j].made \in Nat /\ job[j].made < 2
        /\ job[j].stalls \in Nat /\ job[j].stalls <= MaxStalls
    BY <1>3, <1>4
  <2>3. job[j].state \notin {"waiting", "delayed", "active", "orphan"} /\ job[j].state \in States
    BY <1>3 DEF States
  <2>4. job[j].state = "finished" => stored[j] <= Allowed(2 + MaxStalls)
    BY <2>1
  <2>. QED
    BY <2>1, <2>2, <2>3, <2>4 DEF Stocked
<1>. QED
  BY <1>2, <1>5 DEF StoreInv

\* A job that a step leaves where it is.
LEMMA StockedStays ==
  ASSUME NEW j, Stocked(j), stored'[j] = stored[j],
         job'[j].state = job[j].state, job'[j].made = job[j].made, job'[j].stalls = job[j].stalls,
         job[j].state = "active" => job'[j].pc = job[j].pc /\ job'[j].todo = job[j].todo
  PROVE  Stocked(j)'
BY DEF Stocked, Is

\* What the steps of the other kinds leave of a job.
LEMMA PlainIsStocked ==
  ASSUME StoreInv, NEW j \in Jobs, ~ Is(j, "extract"), Within(j), stored'[j] = stored[j]
  PROVE  Stocked(j)'
<1>1. Stocked(j)
  BY DEF StoreInv
<1>2. CASE Stops(j)
  BY <1>1, <1>2, EndedFields, ParkedFields DEF Stops, Stocked, States, Is
<1>3. CASE ~ Stops(j)
  <2>1. job'[j].state = job[j].state /\ job'[j].made = job[j].made /\ job'[j].stalls = job[j].stalls
    BY <1>3 DEF Within, GoesOn, Goes
  <2>. QED
    BY <1>1, <2>1 DEF Stocked, Is
<1>. QED
  BY <1>2, <1>3

\* An attempt that is thrown out, and one that has come to its end.
LEMMA StoppedIsStocked ==
  ASSUME StoreInv, NEW j \in Jobs, Is(j, "extract"), job[j].state = "active", Stops(j),
         stored'[j] = stored[j], stored[j] <= Allowed(1 + job[j].made + job[j].stalls)
  PROVE  Stocked(j)'
<1>1. /\ Stocked(j) /\ MaxStalls \in Nat /\ job[j].made \in Nat /\ job[j].stalls \in Nat
      /\ job[j].made < 2 /\ job[j].stalls <= MaxStalls
  BY WorkerAssumption DEF StoreInv, Stocked
<1>2. AttemptsOf(j) = 2
  BY DEF AttemptsOf, Is
<1>3. CASE job'[j] = Ended(j)
  <2>1. Allowed(1 + job[j].made + job[j].stalls) <= Allowed(2 + MaxStalls)
    BY <1>1, AllowedGrows
  <2>2. stored[j] <= Allowed(2 + MaxStalls)
    <3>1. /\ stored[j] \in Nat /\ Allowed(2 + MaxStalls) \in Nat
          /\ Allowed(1 + job[j].made + job[j].stalls) \in Nat
      BY <1>1, AllowedType DEF StoreInv
    <3>. QED
      BY <2>1, <3>1
  <2>3. job'[j].state = "finished" /\ job'[j].made = 0 /\ job'[j].stalls = 0
    BY <1>3, EndedFields DEF Is
  <2>. QED
    BY <2>2, <2>3 DEF Stocked, States, Is
<1>4. CASE /\ job[j].made + 1 < AttemptsOf(j)
           /\ job'[j] = Parked("delayed", job[j].made + 1, job[j].stalls)
  <2>1. job'[j].state = "delayed" /\ job'[j].made = job[j].made + 1 /\ job'[j].stalls = job[j].stalls
    BY <1>4, ParkedFields
  <2>2. stored'[j] <= Allowed(job'[j].made + job'[j].stalls)
    <3>1. 1 + job[j].made + job[j].stalls = job'[j].made + job'[j].stalls
      BY <1>1, <2>1
    <3>. QED
      BY <3>1
  <2>. QED
    BY <1>1, <1>2, <1>4, <2>1, <2>2 DEF Stocked, States, Is
<1>. QED
  BY <1>3, <1>4 DEF Stops

\* A step of an extraction.
LEMMA ExtractionIsStocked ==
  ASSUME QueueInv, StoreInv, NEW j \in Jobs, Is(j, "extract"), Step(j)
  PROVE  stored' \in [Jobs -> Nat] /\ Stocked(j)' /\ \A i \in Jobs : i # j => stored'[i] = stored[i]
<1>0. /\ Shape /\ job[j].state = "active" /\ Placed(j) /\ Stocked(j)
      /\ stored \in [Jobs -> Nat] /\ stored[j] \in Nat /\ MaxItems \in Nat
      /\ job[j].made \in Nat /\ job[j].stalls \in Nat
      /\ job[j].made < 2 /\ job[j].stalls <= MaxStalls
  BY StepIsWithin, WorkerAssumption DEF QueueInv, StoreInv, Stocked
<1>1. /\ Allowed(job[j].made + job[j].stalls) \in Nat
      /\ Allowed(1 + job[j].made + job[j].stalls) \in Nat
      /\ Allowed(1 + (job[j].made + job[j].stalls)) = Allowed(job[j].made + job[j].stalls) + MaxItems
      /\ 1 + (job[j].made + job[j].stalls) = 1 + job[j].made + job[j].stalls
  BY <1>0, AllowedType, AllowedMore
<1>2. CASE Done(j)
  <2>1. job[j].pc = "item" /\ job[j].todo = <<>> /\ Stops(j) /\ stored' = stored
    BY <1>0, <1>2, FinishStops DEF Done, Running, HasItem, memory
  <2>2. stored[j] <= Allowed(1 + job[j].made + job[j].stalls)
    BY <1>0, <1>1, <2>1 DEF Stocked
  <2>. QED
    BY <1>0, <2>1, <2>2, StoppedIsStocked
<1>3. CASE Chat(j)
  <2>1. job[j].pc = "chat" /\ stored' = stored
    BY <1>3 DEF Chat, Running, memory
  <2>2. PICK n \in 0 .. MaxItems :
          job' = [job EXCEPT ![j].pc = "item", ![j].todo = [i \in 1 .. n |-> <<j, stored[j] + i>>]]
    BY <1>3 DEF Chat
  <2>3. PICK rows : rows = [i \in 1 .. n |-> <<j, stored[j] + i>>]
    OBVIOUS
  <2>4. n \in Nat /\ rows \in Seq(Jobs \X Nat) /\ Len(rows) = n
    <3>1. n \in Nat
      BY <1>0
    <3>2. \A i \in 1 .. n : <<j, stored[j] + i>> \in Jobs \X Nat
      BY <1>0, <3>1
    <3>. QED
      BY <2>3, <3>1, <3>2
  <2>5. /\ job'[j].state = "active" /\ job'[j].made = job[j].made /\ job'[j].stalls = job[j].stalls
        /\ job'[j].pc = "item" /\ job'[j].todo = rows
    BY <1>0, <2>2, <2>3, ChatGoes
  <2>6. stored[j] + Len(rows) <= Allowed(1 + (job[j].made + job[j].stalls))
    BY <1>0, <1>1, <2>1, <2>4 DEF Stocked
  <2>. QED
    BY <1>0, <2>1, <2>4, <2>5, <2>6 DEF Stocked, States, Is
<1>4. CASE Create(j)
  <2>1. job[j].pc = "item" /\ HasItem(j)
    BY <1>4 DEF Create, Running
  <2>2. /\ job[j].todo \in Seq(Jobs \X Nat) /\ Len(job[j].todo) \in Nat
        /\ stored[j] + Len(job[j].todo) <= Allowed(1 + (job[j].made + job[j].stalls))
    BY <1>0, <2>1 DEF Stocked
  <2>3. CASE stored' = [stored EXCEPT ![j] = @ + 1] /\ Goto(j, "embed")
    <3>1. /\ stored' \in [Jobs -> Nat] /\ stored'[j] = stored[j] + 1
          /\ \A i \in Jobs : i # j => stored'[i] = stored[i]
      BY <1>0, <2>3
    <3>2. Goes(j, "embed")
      BY <1>0, <2>3, GotoGoes
    <3>3. stored'[j] + Len(job[j].todo) <= 1 + Allowed(1 + (job[j].made + job[j].stalls))
      BY <1>0, <1>1, <2>2, <3>1, SMTT(30)
    <3>. QED
      BY <1>0, <2>2, <3>1, <3>2, <3>3 DEF Stocked, States, Is, Goes
  <2>4. CASE Throw(j) /\ UNCHANGED memory
    <3>1. Stops(j) /\ stored' = stored
      BY <1>0, <2>4, ThrowStops DEF memory
    <3>2. stored[j] <= Allowed(1 + job[j].made + job[j].stalls)
      BY <1>0, <1>1, <2>2
    <3>. QED
      BY <1>0, <3>1, <3>2, StoppedIsStocked
  <2>. QED
    BY <1>4, <2>3, <2>4 DEF Create
<1>5. CASE Embed(j)
  <2>1. job[j].pc = "embed" /\ stored' = stored /\ GoesOn(j)
    BY <1>0, <1>5, AdvanceGoes DEF Embed, Running
  <2>2. job[j].todo # <<>>
    BY <1>0, <2>1 DEF Placed, HasItem
  <2>3. /\ job[j].todo \in Seq(Jobs \X Nat) /\ Len(job[j].todo) \in Nat
        /\ stored[j] + Len(job[j].todo) <= 1 + Allowed(1 + (job[j].made + job[j].stalls))
    BY <1>0, <2>1 DEF Stocked
  <2>4. Tail(job[j].todo) \in Seq(Jobs \X Nat) /\ Len(Tail(job[j].todo)) = Len(job[j].todo) - 1
    BY <2>2, <2>3
  <2>5. stored[j] + Len(Tail(job[j].todo)) <= Allowed(1 + (job[j].made + job[j].stalls))
    BY <1>0, <1>1, <2>3, <2>4, SMTT(30)
  <2>. QED
    BY <1>0, <2>1, <2>4, <2>5 DEF Stocked, States, Is, GoesOn
<1>6. ~(FindAnomaly(j) \/ SkipAutomation(j) \/ Act(j) \/ Probe(j) \/ Backfill(j))
  BY DEF FindAnomaly, SkipAutomation, Act, Probe, Backfill, Is
<1>7. ~(Look(j) \/ Insert(j) \/ Stamp(j) \/ Log(j) \/ LogFailed(j) \/ Update(j) \/ Record(j))
  BY <1>0 DEF Look, Insert, Stamp, Log, LogFailed, Update, Record, Running, Placed
<1>. QED
  BY <1>2, <1>3, <1>4, <1>5, <1>6, <1>7 DEF Step

\* An extraction under way has not stored more than its starts allow.
LEMMA ActiveIsAllowed ==
  ASSUME QueueInv, StoreInv, NEW j \in Jobs, Is(j, "extract"), job[j].state = "active"
  PROVE  stored[j] <= Allowed(1 + job[j].made + job[j].stalls)
<1>1. /\ Stocked(j) /\ job[j].made \in Nat /\ job[j].stalls \in Nat /\ stored[j] \in Nat
      /\ MaxItems \in Nat
  BY WorkerAssumption DEF StoreInv, Stocked
<1>2. /\ Allowed(job[j].made + job[j].stalls) \in Nat
      /\ Allowed(1 + (job[j].made + job[j].stalls)) = Allowed(job[j].made + job[j].stalls) + MaxItems
      /\ 1 + (job[j].made + job[j].stalls) = 1 + job[j].made + job[j].stalls
  BY <1>1, AllowedType, AllowedMore
<1>3. job[j].pc \in {"chat", "item", "embed"}
  BY DEF QueueInv, Placed
<1>4. CASE job[j].pc = "chat"
  BY <1>1, <1>2, <1>4 DEF Stocked
<1>5. CASE job[j].pc \in {"item", "embed"}
  <2>1. job[j].todo \in Seq(Jobs \X Nat) /\ Len(job[j].todo) \in Nat
    BY <1>1, <1>5 DEF Stocked
  <2>2. job[j].pc = "embed" => Len(job[j].todo) >= 1
    BY <2>1 DEF QueueInv, Placed, HasItem
  <2>3. stored[j] <= Allowed(1 + (job[j].made + job[j].stalls))
    BY <1>1, <1>2, <1>5, <2>1, <2>2 DEF Stocked
  <2>. QED
    BY <1>2, <2>3
<1>. QED
  BY <1>3, <1>4, <1>5

\* Neither has one that is not.
LEMMA StockedAllowed ==
  ASSUME QueueInv, StoreInv, NEW j \in Jobs
  PROVE  stored[j] <= Allowed(IF job[j].state = "finished" THEN AttemptsOf(j) + MaxStalls
                              ELSE 1 + job[j].made + job[j].stalls)
<1>. PICK n : n = IF job[j].state = "finished" THEN AttemptsOf(j) + MaxStalls
                  ELSE 1 + job[j].made + job[j].stalls
  OBVIOUS
<1>1. /\ Stocked(j) /\ stored[j] \in Nat /\ job[j].made \in Nat /\ job[j].stalls \in Nat
      /\ MaxItems \in Nat /\ MaxStalls \in Nat /\ AttemptsOf(j) \in Nat
  BY WorkerAssumption DEF StoreInv, Stocked, AttemptsOf
<1>2. n \in Nat /\ Allowed(n) \in Nat
  BY <1>1, AllowedType
<1>3. CASE ~ Is(j, "extract")
  BY <1>1, <1>2, <1>3 DEF Stocked
<1>4. CASE Is(j, "extract") /\ job[j].state = "finished"
  <2>1. AttemptsOf(j) = 2
    BY <1>4 DEF AttemptsOf, Is
  <2>. QED
    BY <1>1, <1>4, <2>1 DEF Stocked
<1>5. CASE Is(j, "extract") /\ job[j].state = "active"
  BY <1>5, ActiveIsAllowed
<1>6. CASE Is(j, "extract") /\ job[j].state \in {"idle", "waiting", "delayed", "orphan"}
  <2>1. /\ Allowed(job[j].made + job[j].stalls) \in Nat
        /\ Allowed(1 + (job[j].made + job[j].stalls)) = Allowed(job[j].made + job[j].stalls) + MaxItems
        /\ 1 + (job[j].made + job[j].stalls) = n
    BY <1>1, <1>6, AllowedType, AllowedMore, SMTT(30)
  <2>2. stored[j] <= Allowed(1 + (job[j].made + job[j].stalls))
    BY <1>1, <1>6, <2>1 DEF Stocked
  <2>. QED
    BY <2>1, <2>2
<1>. QED
  BY <1>1, <1>3, <1>4, <1>5, <1>6 DEF Stocked, States

\* Every step keeps within what is allowed.
LEMMA StoreNext == QueueInv /\ StoreInv /\ [Next]_vars => StoreInv'
<1>. SUFFICES ASSUME QueueInv, StoreInv, [Next]_vars PROVE StoreInv'
  OBVIOUS
<1>0. Shape /\ stored \in [Jobs -> Nat] /\ MaxStalls \in Nat /\ \A j \in Jobs : Stocked(j)
  BY WorkerAssumption DEF QueueInv, StoreInv
<1>1. ASSUME NEW j \in Jobs, Others(j), stored' \in [Jobs -> Nat], Stocked(j)',
             \A i \in Jobs : i # j => stored'[i] = stored[i]
      PROVE  StoreInv'
  <2>1. ASSUME NEW i \in Jobs, i # j PROVE Stocked(i)'
    BY <1>0, <1>1, <2>1, StockedStays DEF Others
  <2>. QED
    BY <1>1, <2>1 DEF StoreInv
<1>2. ASSUME NEW j \in Jobs, Schedule(j) \/ BackoffPasses(j) PROVE StoreInv'
  <2>1. /\ Others(j) /\ job'[j].state = "waiting" /\ job[j].state \in {"idle", "delayed"}
        /\ job'[j].made = job[j].made /\ job'[j].stalls = job[j].stalls /\ stored' = stored
    BY <1>0, <1>2, StateGoes DEF Schedule, BackoffPasses, memory
  <2>2. Allowed(job[j].made + job[j].stalls) \in Nat
    <3>1. job[j].made \in Nat /\ job[j].stalls \in Nat
      BY <1>0 DEF Stocked
    <3>. QED
      BY <3>1, AllowedType
  <2>3. Stocked(j)'
    BY <1>0, <2>1, <2>2 DEF Stocked, States, Is
  <2>. QED
    BY <1>0, <1>1, <2>1, <2>3
<1>3. ASSUME NEW j \in Jobs, Start(j) PROVE StoreInv'
  <2>1. /\ Others(j) /\ job'[j].state = "active" /\ job[j].state = "waiting"
        /\ job'[j].made = job[j].made /\ job'[j].stalls = job[j].stalls /\ stored' = stored
        /\ job'[j].pc = (IF Is(j, "extract") THEN "chat" ELSE "item")
    BY <1>0, <1>3, StartGoes DEF Start, memory
  <2>2. Stocked(j)'
    BY <1>0, <2>1 DEF Stocked, States, Is
  <2>. QED
    BY <1>0, <1>1, <2>1, <2>2
<1>4. ASSUME NEW j \in Jobs, StartFails(j) PROVE StoreInv'
  <2>1. Stops(j) /\ ~ Is(j, "extract") /\ stored' = stored
    BY <1>0, <1>4, ThrowStops DEF StartFails, memory
  <2>2. Stocked(j)'
    BY <2>1, PlainIsStocked DEF Within
  <2>. QED
    BY <1>0, <1>1, <2>1, <2>2 DEF Stops
<1>5. ASSUME NEW j \in Jobs, Stalled(j) PROVE StoreInv'
  <2>1. /\ Others(j) /\ job[j].state = "orphan" /\ stored' = stored
        /\ \/ job'[j] = Ended(j)
           \/ /\ job[j].stalls < MaxStalls
              /\ job'[j] = Parked("waiting", job[j].made, job[j].stalls + 1)
    BY <1>0, <1>5, StalledGoes DEF Stalled, memory
  <2>2. /\ job[j].made \in Nat /\ job[j].stalls \in Nat /\ stored[j] \in Nat
        /\ Is(j, "extract") => /\ job[j].made < 2 /\ job[j].stalls <= MaxStalls
                               /\ stored[j] <= Allowed(1 + (job[j].made + job[j].stalls))
        /\ ~ Is(j, "extract") => stored[j] = 0
    BY <1>0, <2>1 DEF Stocked
  <2>3. CASE job'[j] = Ended(j)
    <3>1. /\ job'[j].state = (IF Is(j, "extract") THEN "finished" ELSE "idle")
          /\ job'[j].made = 0 /\ job'[j].stalls = 0
      BY <2>3, EndedFields DEF Is
    <3>2. Is(j, "extract") => Allowed(1 + (job[j].made + job[j].stalls)) <= Allowed(2 + MaxStalls)
      BY <1>0, <2>2, AllowedGrows
    <3>3. Allowed(1 + (job[j].made + job[j].stalls)) \in Nat /\ Allowed(2 + MaxStalls) \in Nat
      BY <1>0, <2>2, AllowedType
    <3>4. Is(j, "extract") => stored[j] <= Allowed(2 + MaxStalls)
      BY <2>2, <3>2, <3>3
    <3>5. Stocked(j)'
      BY <2>1, <2>2, <3>1, <3>4 DEF Stocked, States, Is
    <3>. QED
      BY <1>0, <1>1, <2>1, <3>5
  <2>4. CASE /\ job[j].stalls < MaxStalls
             /\ job'[j] = Parked("waiting", job[j].made, job[j].stalls + 1)
    <3>1. /\ job'[j].state = "waiting" /\ job'[j].made = job[j].made
          /\ job'[j].stalls = job[j].stalls + 1
      BY <2>4, ParkedFields
    <3>2. job'[j].made + job'[j].stalls = 1 + (job[j].made + job[j].stalls)
      BY <2>2, <3>1
    <3>3. Is(j, "extract") => stored[j] <= Allowed(job'[j].made + job'[j].stalls)
      BY <2>2, <3>2
    <3>4. Stocked(j)'
      BY <1>0, <2>1, <2>2, <2>4, <3>1, <3>3 DEF Stocked, States, Is
    <3>. QED
      BY <1>0, <1>1, <2>1, <3>4
  <2>. QED
    BY <2>1, <2>3, <2>4
<1>6. ASSUME NEW j \in Jobs, Step(j) PROVE StoreInv'
  <2>1. job[j].state = "active" /\ Within(j)
    BY <1>6, StepIsWithin
  <2>2. Others(j)
    BY <2>1 DEF Within, GoesOn, Stops, Goes
  <2>3. CASE Is(j, "extract")
    BY <1>1, <1>6, <2>2, <2>3, ExtractionIsStocked
  <2>4. CASE ~ Is(j, "extract")
    <3>1. stored' = stored
      BY <1>0, <1>6, <2>1, <2>4 DEF Step, Done, Look, Insert, FindAnomaly, SkipAutomation, Act,
         Stamp, Log, LogFailed, Probe, Update, Record, Chat, Create, Embed, Backfill, memory
    <3>2. Stocked(j)'
      BY <2>1, <2>4, <3>1, PlainIsStocked
    <3>. QED
      BY <1>0, <1>1, <2>2, <3>1, <3>2
  <2>. QED
    BY <2>3, <2>4
<1>7. CASE Crash
  <2>1. /\ stored' = stored
        /\ \A j \in Jobs :
             /\ job[j].state = "active" => job'[j] = Parked("orphan", job[j].made, job[j].stalls)
             /\ job[j].state # "active" => job'[j] = job[j]
    BY <1>7, OrphansAreInactive DEF Crash, memory
  <2>2. ASSUME NEW j \in Jobs PROVE Stocked(j)'
    <3>1. CASE job[j].state # "active"
      BY <1>0, <2>1, <3>1, StockedStays
    <3>2. CASE job[j].state = "active"
      <4>1. /\ job'[j].state = "orphan" /\ job'[j].made = job[j].made
            /\ job'[j].stalls = job[j].stalls
        BY <2>1, <3>2, ParkedFields
      <4>2. Is(j, "extract") => stored[j] <= Allowed(1 + job[j].made + job[j].stalls)
        BY <1>0, <3>2, ActiveIsAllowed
      <4>3. 1 + job[j].made + job[j].stalls = 1 + (job[j].made + job[j].stalls)
        <5>1. job[j].made \in Nat /\ job[j].stalls \in Nat
          BY <1>0 DEF Stocked
        <5>. QED
          BY <5>1
      <4>4. Is(j, "extract") => stored'[j] <= Allowed(1 + (job'[j].made + job'[j].stalls))
        BY <2>1, <4>1, <4>2, <4>3
      <4>. QED
        BY <1>0, <2>1, <3>2, <4>1, <4>4 DEF Stocked, States, Is
    <3>. QED
      BY <3>1, <3>2
  <2>. QED
    BY <1>0, <2>1, <2>2 DEF StoreInv
<1>8. ASSUME NEW a, HourEnds(a) PROVE StoreInv'
  <2>1. stored' = stored
    BY <1>8 DEF HourEnds, memory
  <2>2. ASSUME NEW j \in Jobs PROVE Stocked(j)'
    BY <1>0, <1>8, <2>1, HourGoes, StockedStays
  <2>. QED
    BY <1>0, <2>1, <2>2 DEF StoreInv
<1>9. CASE \/ Terminate \/ Close \/ Restart \/ UNCHANGED vars
           \/ \E a \in Automations : ComesDue(a)
           \/ \E k \in Keys : WindowPasses(k)
  <2>1. job' = job /\ stored' = stored
    BY <1>9 DEF Terminate, Close, Restart, vars, ComesDue, WindowPasses, memory
  <2>2. ASSUME NEW j \in Jobs PROVE Stocked(j)'
    BY <1>0, <2>1, StockedStays
  <2>. QED
    BY <1>0, <2>1, <2>2 DEF StoreInv
<1>. QED
  BY <1>2, <1>3, <1>4, <1>5, <1>6, <1>7, <1>8, <1>9 DEF Next

\* An automation acts again before its time, and an extraction stores more,
\* only by faults of their own (automations.js, memory-extract.js).
THEOREM RetriesRepeatNothing == Spec => []RepeatedOnlyByItsOwnFaults
<1>1. QueueInv /\ StoreInv /\ TickInv => RepeatedOnlyByItsOwnFaults
  <2>. SUFFICES ASSUME QueueInv, StoreInv, TickInv PROVE RepeatedOnlyByItsOwnFaults
    OBVIOUS
  <2>1. \A a \in Automations : acts[a] <= 1 + excuses[a]
    BY DEF TickInv, Tame
  <2>2. ASSUME NEW j \in Jobs
        PROVE  stored[j] <= MaxItems * IF job[j].state = "finished"
                                       THEN AttemptsOf(j) + MaxStalls
                                       ELSE 1 + job[j].made + job[j].stalls
    BY StockedAllowed DEF Allowed
  <2>. QED
    BY <2>1, <2>2 DEF RepeatedOnlyByItsOwnFaults
<1>2. Init => QueueInv /\ StoreInv /\ TickInv
  BY QueueInit, StoreInit, TickInit
<1>3. QueueInv /\ StoreInv /\ TickInv /\ [Next]_vars => (QueueInv /\ StoreInv /\ TickInv)'
  BY QueueNext, StoreNext, TickNext
<1>. QED
  BY <1>1, <1>2, <1>3, PTL DEF Spec

-----------------------------------------------------------------------------
(* The heartbeats of the worker.                                           *)

ServiceOf(status, age) == [status |-> status, age |-> age]

\* Once the worker has been heard, the heartbeat is no older than the beats that
\* were lost since, and the one that is due.
BeatInv ==
  /\ service = ServiceOf(service.status, service.age)
  /\ service.age \in 0 .. OldAge /\ lost \in 0 .. OldAge
  /\ reported \in BOOLEAN /\ beatDue \in BOOLEAN /\ (beatDue => process = "up")
  /\ process = "up" /\ reported /\ lost < OldAge =>
       service.status = "online" /\ service.age <= lost + (IF beatDue THEN 1 ELSE 0)

\* What the fields of a row of service_health are read back as.
LEMMA ServiceFields ==
  \A s, a : ServiceOf(s, a).status = s /\ ServiceOf(s, a).age = a
BY DEF ServiceOf

\* Ages are counted up to OldAge.
LEMMA Ageing ==
  ASSUME NEW age \in 0 .. OldAge
  PROVE  Older(age) \in 0 .. OldAge /\ (Older(age) < OldAge => Older(age) = age + 1)
                                    /\ (age < OldAge => Older(age) = age + 1)
BY MonitorAssumption DEF Older

\* The worker starts down, and nothing was heard of it.
LEMMA BeatInit == MonitorInit => BeatInv
<1>. SUFFICES ASSUME MonitorInit PROVE BeatInv
  OBVIOUS
<1>1. /\ service = ServiceOf("none", OldAge) /\ lost = 0 /\ reported = FALSE /\ beatDue = FALSE
      /\ process = "down" /\ OldAge \in Nat
  BY MonitorAssumption DEF MonitorInit, ServiceOf, Never
<1>2. service = ServiceOf(service.status, service.age) /\ service.age = OldAge
  BY <1>1, ServiceFields
<1>3. service.age \in 0 .. OldAge /\ lost \in 0 .. OldAge
  BY <1>1, <1>2
<1>. QED
  BY <1>1, <1>2, <1>3 DEF BeatInv

\* A heartbeat arrives, the first one or a later one.
LEMMA BeatReaches ==
  ASSUME BeatInv, service' = Beated, lost' = 0, reported' \in BOOLEAN, beatDue' \in BOOLEAN, beatDue' => process' = "up"
  PROVE  BeatInv'
<1>1. service' = ServiceOf("online", 0) /\ OldAge \in Nat
  BY MonitorAssumption DEF Beated, ServiceOf
<1>2. service' = ServiceOf(service'.status, service'.age) /\ service'.status = "online" /\ service'.age = 0
  BY <1>1, ServiceFields
<1>3. 0 \in 0 .. OldAge
  BY <1>1
<1>4. service'.age <= lost' + (IF beatDue' THEN 1 ELSE 0)
  BY <1>2
<1>. QED
  BY <1>2, <1>3, <1>4 DEF BeatInv

\* Every step keeps the age of the heartbeat within what was sent since.
LEMMA BeatNext == BeatInv /\ [MonitorNext]_monitorVars => BeatInv'
<1>. SUFFICES ASSUME BeatInv, [MonitorNext]_monitorVars PROVE BeatInv'
  OBVIOUS
<1>1. ASSUME BeatIsLost \/ Collect \/ TogglePause \/ Poll \/ HistoryArrives
             \/ (\E p \in polls : Arrive(p) \/ PollFails(p)) \/ UNCHANGED monitorVars
      PROVE  BeatInv'
  <2>1. UNCHANGED <<service, lost, reported, beatDue, process>>
    BY <1>1 DEF BeatIsLost, Collect, TogglePause, Poll, HistoryArrives, Arrive, PollFails, monitorVars, collector
  <2>. QED
    BY <2>1 DEF BeatInv
<1>2. ASSUME StartWorker \/ Shutdown \/ Die PROVE BeatInv'
  <2>1. /\ UNCHANGED <<service, lost, reported>> /\ process' # "up"
        /\ beatDue' = FALSE
    BY <1>2 DEF StartWorker, Shutdown, Die, BeatInv
  <2>. QED
    BY <2>1 DEF BeatInv
<1>3. ASSUME FirstBeat PROVE BeatInv'
  <2>1. process' = "up" /\ UNCHANGED beatDue
    BY <1>3 DEF FirstBeat
  <2>2. CASE service' = Beated /\ lost' = 0 /\ reported' = TRUE
    BY <2>1, <2>2, BeatReaches DEF BeatInv
  <2>3. CASE lost' = Older(lost) /\ reported' = FALSE /\ UNCHANGED service
    <3>1. lost' \in 0 .. OldAge
      BY <2>3, Ageing DEF BeatInv
    <3>. QED
      BY <2>1, <2>3, <3>1 DEF BeatInv
  <2>. QED
    BY <1>3, <2>2, <2>3 DEF FirstBeat
<1>4. ASSUME SendBeat PROVE BeatInv'
  <2>1. /\ process = "up" /\ beatDue /\ beatDue' = FALSE /\ lost' = Older(lost)
        /\ UNCHANGED <<process, service, reported>>
    BY <1>4 DEF SendBeat
  <2>2. lost' \in 0 .. OldAge /\ (lost' < OldAge => lost' = lost + 1 /\ lost < OldAge)
    BY <2>1, Ageing, MonitorAssumption DEF BeatInv, Older
  <2>3. reported /\ lost' < OldAge => service'.status = "online" /\ service'.age <= lost'
    BY <2>1, <2>2 DEF BeatInv
  <2>4. reported /\ lost' < OldAge => service'.age <= lost' + (IF beatDue' THEN 1 ELSE 0)
    BY <2>1, <2>2, <2>3 DEF BeatInv
  <2>. QED
    BY <2>1, <2>2, <2>3, <2>4 DEF BeatInv
<1>5. ASSUME BeatArrives PROVE BeatInv'
  BY <1>5, BeatReaches DEF BeatArrives, BeatInv
<1>6. ASSUME MarkOffline PROVE BeatInv'
  <2>1. process' # "up" /\ UNCHANGED <<beatDue, lost, reported>> /\ ~ beatDue
    BY <1>6 DEF MarkOffline, BeatInv
  <2>2. CASE service' = [status |-> "offline", age |-> 0]
    <3>1. service' = ServiceOf("offline", 0) /\ 0 \in 0 .. OldAge
      BY <2>2, MonitorAssumption DEF ServiceOf
    <3>2. service' = ServiceOf(service'.status, service'.age) /\ service'.age = 0
      BY <3>1, ServiceFields
    <3>. QED
      BY <2>1, <3>1, <3>2 DEF BeatInv
  <2>3. CASE UNCHANGED service
    BY <2>1, <2>3 DEF BeatInv
  <2>. QED
    BY <1>6, <2>2, <2>3 DEF MarkOffline
<1>7. ASSUME Tick PROVE BeatInv'
  <2>1. /\ ~ beatDue /\ beatDue' = (process = "up") /\ UNCHANGED <<process, lost, reported>>
        /\ service' = [service EXCEPT !.age = Older(service.age)]
    BY <1>7 DEF Tick
  <2>2. service' = ServiceOf(service.status, Older(service.age))
    BY <2>1 DEF BeatInv, ServiceOf
  <2>3. /\ service' = ServiceOf(service'.status, service'.age)
        /\ service'.status = service.status /\ service'.age = Older(service.age)
    BY <2>2, ServiceFields
  <2>4. service'.age \in 0 .. OldAge /\ service'.age <= service.age + 1
    BY <2>3, Ageing, MonitorAssumption DEF BeatInv, Older
  <2>5. beatDue' \in BOOLEAN /\ (beatDue' <=> process = "up")
    BY <2>1
  <2>6. process = "up" /\ reported /\ lost < OldAge => service'.age <= lost + 1
    BY <2>1, <2>4 DEF BeatInv
  <2>. QED
    BY <2>1, <2>3, <2>4, <2>5, <2>6 DEF BeatInv
<1>. QED
  BY <1>1, <1>2, <1>3, <1>4, <1>5, <1>6, <1>7 DEF MonitorNext

-----------------------------------------------------------------------------
(* The page.                                                                *)

\* What the polls will bring to a paused page, is dropped.
PageInv == paused => \A p \in polls : p.cancelled

\* No poll is under way at first.
LEMMA PageInit == MonitorInit => PageInv
BY DEF MonitorInit, PageInv

\* Pausing cancels every poll, and none is sent while the page is paused.
LEMMA PageNext == PageInv /\ [MonitorNext]_monitorVars => PageInv'
<1>. SUFFICES ASSUME PageInv, [MonitorNext]_monitorVars PROVE PageInv'
  OBVIOUS
<1>1. ASSUME \/ StartWorker \/ FirstBeat \/ SendBeat \/ BeatArrives \/ BeatIsLost \/ Collect
             \/ Shutdown \/ MarkOffline \/ Die \/ Tick \/ HistoryArrives \/ UNCHANGED monitorVars
      PROVE  PageInv'
  <2>1. UNCHANGED <<polls, paused>>
    BY <1>1 DEF StartWorker, FirstBeat, SendBeat, BeatArrives, BeatIsLost, Collect, Shutdown,
       MarkOffline, Die, Tick, HistoryArrives, monitorVars, page
  <2>. QED
    BY <2>1 DEF PageInv
<1>2. CASE Poll
  BY <1>2 DEF Poll, PageInv
<1>3. ASSUME NEW p \in polls, Arrive(p) \/ PollFails(p) PROVE PageInv'
  BY <1>3 DEF Arrive, PollFails, PageInv
<1>4. CASE TogglePause
  BY <1>4 DEF TogglePause, PageInv
<1>. QED
  BY <1>1, <1>2, <1>3, <1>4 DEF MonitorNext

-----------------------------------------------------------------------------
\* A worker that has been heard since it came up is called dead only after
\* three of its heartbeats in a row have not arrived (workerAlive in
\* platform-routes.js).
THEOREM TheLivingLookAlive == MonitorSpec => []LiveWorkerLooksAlive
<1>1. BeatInv => LiveWorkerLooksAlive
  BY MonitorAssumption DEF BeatInv, LiveWorkerLooksAlive, Alive
<1>. QED
  BY <1>1, BeatInit, BeatNext, PTL DEF MonitorSpec

\* While the page is paused, no poll that is still under way moves its reading,
\* its score or its diagnosis.
THEOREM NoReadingMovesWhilePaused == MonitorSpec => PausedReadingIsStill
<1>1. PageInv /\ [MonitorNext]_monitorVars => [paused => shown' = shown]_monitorVars
  <2>1. SUFFICES ASSUME PageInv, MonitorNext, paused PROVE shown' = shown
    OBVIOUS
  <2>2. \A p \in polls : Arrive(p) => shown' = shown
    BY <2>1 DEF PageInv, Arrive
  <2>. QED
    BY <2>1, <2>2 DEF MonitorNext, StartWorker, FirstBeat, SendBeat, BeatArrives, BeatIsLost, Collect,
       Shutdown, MarkOffline, Die, Tick, TogglePause, Poll, PollFails, HistoryArrives, page
<1>. QED
  BY <1>1, PageInit, PageNext, PTL DEF MonitorSpec, PausedReadingIsStill

=============================================================================
