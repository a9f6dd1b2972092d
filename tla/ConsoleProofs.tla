----------------------------- MODULE ConsoleProofs -----------------------------
(***************************************************************************)
(* Proofs about the desks of Console, for any administrators, groups,      *)
(* models, personalities, calls, jobs and processes, and any bounds.       *)
(***************************************************************************)
EXTENDS Console, PlacesProofs, FiniteSetTheorems, TLAPS

-----------------------------------------------------------------------------
(* The session client: nobody is thrown out without need.                   *)

CallOf(kind, pc, with, by, got) == [kind |-> kind, pc |-> pc, with |-> with, by |-> by, got |-> got]

IsCall(r) == r = CallOf(r.kind, r.pc, r.with, r.by, r.got)

FlightOf(pc, sent, got) == [pc |-> pc, cookie |-> sent, got |-> got]

IsFlight(f) == f = FlightOf(f.pc, f.cookie, f.got)

\* The session that the cookie names, or the refresh under way will, lives.
Lives ==
  IF refreshing = None
    THEN cookie \in live
    ELSE \/ (flight[refreshing].pc = "sent" /\ flight[refreshing].cookie \in live)
         \/ (flight[refreshing].pc = "ok" /\ flight[refreshing].got \in live)

\* The tab has reason to believe that somebody is logged in.
Believes ==
  \/ me \/ token # None
  \/ \E c \in Calls : call[c].kind = "me" /\ call[c].with # None
  \/ \E c \in Calls : flight[c].pc = "ok"

\* One refresh at a time, which the call that has started it waits for.
ClientShape ==
  /\ call = [c \in Calls |-> call[c]] /\ flight = [c \in Calls |-> flight[c]]
  /\ \A c \in Calls : IsCall(call[c]) /\ IsFlight(flight[c])
  /\ \A c \in Calls : call[c].got = "ok" =>
       call[c].pc = "answered" /\ (call[c].kind = "me" => call[c].with # None)
  /\ \A c \in Calls : flight[c].pc # "none" => refreshing = c
  /\ refreshing # None =>
       /\ refreshing \in Calls /\ call[refreshing].pc = "waiting"
       /\ flight[refreshing].pc \in {"sent", "ok", "refused"}

\* Whoever is believed to be logged in has a session that lives, or an excuse.
ClientInv == ClientShape /\ (Believes => excused \/ Lives) /\ Client!NoNeedlessLogout

\* What the server answers is written into the call.
LEMMA CallAnswered ==
  ASSUME call = [d \in Calls |-> call[d]], NEW c \in Calls, IsCall(call[c]), NEW got
  PROVE  [call EXCEPT ![c].pc = "answered", ![c].got = got]
           = [call EXCEPT ![c] = CallOf(call[c].kind, "answered", call[c].with, call[c].by, got)]
<1>1. PICK f : f = [call EXCEPT ![c].pc = "answered"]
  OBVIOUS
<1>2. PICK r : r = CallOf(call[c].kind, "answered", call[c].with, call[c].by, call[c].got)
  OBVIOUS
<1>3. [call[c] EXCEPT !.pc = "answered"] = r
  BY <1>2 DEF IsCall, CallOf
<1>4. f = [call EXCEPT ![c] = r]
  BY <1>1, <1>3
<1>5. [r EXCEPT !.got = got] = CallOf(call[c].kind, "answered", call[c].with, call[c].by, got)
  BY <1>2 DEF CallOf
<1>6. f[c] = r
  BY <1>4
<1>7. [f EXCEPT ![c].got = got]
        = [f EXCEPT ![c] = CallOf(call[c].kind, "answered", call[c].with, call[c].by, got)]
  BY <1>5, <1>6
<1>8. [f EXCEPT ![c].got = got]
        = [call EXCEPT ![c] = CallOf(call[c].kind, "answered", call[c].with, call[c].by, got)]
  BY <1>4, <1>7
<1>. QED
  BY <1>1, <1>8

\* And with the answer to a login comes the session it has issued.
LEMMA LoginAnswered ==
  ASSUME call = [d \in Calls |-> call[d]], NEW c \in Calls, IsCall(call[c]), NEW s
  PROVE  [call EXCEPT ![c].pc = "answered", ![c].got = "ok", ![c].with = s]
           = [call EXCEPT ![c] = CallOf(call[c].kind, "answered", s, call[c].by, "ok")]
<1>1. PICK f : f = [call EXCEPT ![c].pc = "answered", ![c].got = "ok"]
  OBVIOUS
<1>2. PICK r : r = CallOf(call[c].kind, "answered", call[c].with, call[c].by, "ok")
  OBVIOUS
<1>3. f = [call EXCEPT ![c] = r]
  BY <1>1, <1>2, CallAnswered
<1>4. [r EXCEPT !.with = s] = CallOf(call[c].kind, "answered", s, call[c].by, "ok")
  BY <1>2 DEF CallOf
<1>5. f[c] = r
  BY <1>3
<1>6. [f EXCEPT ![c].with = s] = [f EXCEPT ![c] = CallOf(call[c].kind, "answered", s, call[c].by, "ok")]
  BY <1>4, <1>5
<1>7. [f EXCEPT ![c].with = s] = [call EXCEPT ![c] = CallOf(call[c].kind, "answered", s, call[c].by, "ok")]
  BY <1>3, <1>6
<1>. QED
  BY <1>1, <1>7

\* A call that does not wait for a refresh may become another one.
LEMMA ClientCalls ==
  ASSUME ClientShape, NEW c \in Calls, NEW r, IsCall(r), call' = [call EXCEPT ![c] = r],
         r.got = "ok" => r.pc = "answered" /\ (r.kind = "me" => r.with # None),
         call[c].pc # "waiting", UNCHANGED <<flight, refreshing>>
  PROVE  /\ ClientShape' /\ call'[c] = r
         /\ \A d \in Calls : d # c => call'[d] = call[d]
<1>1. /\ call'[c] = r
      /\ \A d \in Calls : d # c => call'[d] = call[d]
  BY DEF ClientShape
<1>2. call' = [d \in Calls |-> call'[d]]
  BY DEF ClientShape
<1>3. \A d \in Calls : IsCall(call'[d]) /\ (call'[d].got = "ok" =>
        call'[d].pc = "answered" /\ (call'[d].kind = "me" => call'[d].with # None))
  BY <1>1 DEF ClientShape
<1>4. refreshing # None => call'[refreshing].pc = "waiting"
  BY <1>1 DEF ClientShape
<1>. QED
  BY <1>1, <1>2, <1>3, <1>4 DEF ClientShape

\* Nothing comes to be believed, and what has ended is excused.
LEMMA ClientKeeps ==
  ASSUME ClientInv, ClientShape', UNCHANGED <<flight, refreshing, cookie, thrown>>,
         excused => excused', excused' \/ live \subseteq live',
         Believes' => Believes
  PROVE  ClientInv'
<1>1. Lives /\ ~excused' => Lives'
  BY DEF Lives
<1>. QED
  BY <1>1 DEF ClientInv, Client!NoNeedlessLogout

\* The tab is opened.
LEMMA ClientInit == Client!Init => ClientInv
<1>. SUFFICES ASSUME Client!Init PROVE ClientInv
  OBVIOUS
<1>1. PICK idle : idle = CallOf("work", "idle", None, None, "none")
  OBVIOUS
<1>2. PICK none : none = FlightOf("none", None, None)
  OBVIOUS
<1>3. call = [c \in Calls |-> idle] /\ flight = [c \in Calls |-> none]
  BY <1>1, <1>2 DEF Client!Init, Client!Idle, Client!NoFlight, CallOf, FlightOf
<1>4. IsCall(idle) /\ idle.kind = "work" /\ idle.got = "none"
  BY <1>1 DEF IsCall, CallOf
<1>5. IsFlight(none) /\ none.pc = "none"
  BY <1>2 DEF IsFlight, FlightOf
<1>6. ClientShape
  BY <1>3, <1>4, <1>5 DEF ClientShape, Client!Init
<1>7. ~Believes
  BY <1>3, <1>4, <1>5 DEF Believes, Client!Init
<1>. QED
  BY <1>6, <1>7 DEF ClientInv, Client!Init, Client!NoNeedlessLogout

\* A call is sent, by itself or after a login.
LEMMA ClientSends ==
  ASSUME ClientInv, NEW c \in Calls,
         (\E kind \in Client!Kinds : Client!Begin(c, kind)) \/ Client!LoginArrives(c)
  PROVE  ClientInv'
<1>1. ASSUME NEW kind, NEW t, Client!Sends(c, kind, t, None), call[c].pc # "waiting", UNCHANGED <<flight, refreshing>>
      PROVE  /\ ClientShape'
             /\ \A d \in Calls : call'[d].kind = "me" /\ call'[d].with # None =>
                  (kind = "me" /\ t # None) \/ (call[d].kind = "me" /\ call[d].with # None)
  <2>1. PICK r : r = CallOf(kind, "sent", t, None, "none")
    OBVIOUS
  <2>2. call' = [call EXCEPT ![c] = r]
    BY <1>1, <2>1 DEF Client!Sends, CallOf
  <2>3. IsCall(r) /\ r.kind = kind /\ r.with = t /\ r.got = "none"
    BY <2>1 DEF IsCall, CallOf
  <2>4. /\ ClientShape' /\ call'[c] = r
        /\ \A d \in Calls : d # c => call'[d] = call[d]
    BY <1>1, <2>2, <2>3, ClientCalls DEF ClientInv
  <2>5. ASSUME NEW d \in Calls, call'[d].kind = "me" /\ call'[d].with # None
        PROVE  (kind = "me" /\ t # None) \/ (call[d].kind = "me" /\ call[d].with # None)
    <3>1. CASE d = c
      <4>1. call'[d] = r
        BY <2>4, <3>1
      <4>2. r.kind = "me" /\ r.with # None
        BY <2>5, <4>1
      <4>. QED
        BY <2>3, <4>2
    <3>2. CASE d # c
      BY <2>4, <2>5, <3>2
    <3>. QED
      BY <3>1, <3>2
  <2>. QED
    BY <2>4, <2>5
<1>2. ASSUME NEW kind \in Client!Kinds, Client!Begin(c, kind) PROVE ClientInv'
  <2>1. /\ Client!Sends(c, kind, token, None) /\ call[c].pc # "waiting"
        /\ UNCHANGED <<me, token, cookie, live, refreshing, flight, excused, thrown>>
    BY <1>2 DEF Client!Begin, Client!server, Client!browser
  <2>2. /\ ClientShape'
        /\ \A d \in Calls : call'[d].kind = "me" /\ call'[d].with # None =>
             token # None \/ (call[d].kind = "me" /\ call[d].with # None)
    BY <1>1, <2>1
  <2>3. Believes' => Believes
    BY <2>1, <2>2 DEF Believes
  <2>. QED
    BY <2>1, <2>2, <2>3, ClientKeeps
<1>3. CASE Client!LoginArrives(c)
  <2>1. /\ Client!Sends(c, "me", call[c].with, None) /\ call[c].pc # "waiting"
        /\ UNCHANGED <<flight, refreshing, live, thrown>>
        /\ cookie' = call[c].with
        /\ excused' = (refreshing # None \/ call[c].with \notin live)
    BY <1>3 DEF Client!LoginArrives, Client!server
  <2>2. ClientShape'
    BY <1>1, <2>1
  <2>3. excused' \/ Lives'
    BY <2>1 DEF Lives
  <2>. QED
    BY <2>1, <2>2, <2>3 DEF ClientInv, Client!NoNeedlessLogout
<1>. QED
  BY <1>2, <1>3

\* The server answers, and ends the session of a logout.
LEMMA ClientServes ==
  ASSUME ClientInv, NEW c \in Calls, Client!Serve(c) PROVE ClientInv'
<1>1. /\ call[c].pc = "sent" /\ UNCHANGED <<me, token, cookie, refreshing, thrown, flight>>
      /\ excused' = (excused \/ live \ live' # {})
      /\ IsCall(call[c]) /\ call = [d \in Calls |-> call[d]]
  BY DEF Client!Serve, ClientInv, ClientShape
<1>2. PICK with, got :
        /\ call' = [call EXCEPT ![c] = CallOf(call[c].kind, "answered", with, call[c].by, got)]
        /\ call[c].kind = "me" => with = call[c].with /\ (got = "ok" => with # None)
  <2>1. CASE call[c].kind = "login" /\ call' = [call EXCEPT ![c].pc = "answered", ![c].got = "ok", ![c].with = issued + 1]
    <3>1. call' = [call EXCEPT ![c] = CallOf(call[c].kind, "answered", issued + 1, call[c].by, "ok")]
      BY <1>1, <2>1, LoginAnswered
    <3>. QED
      BY <2>1, <3>1
  <2>2. CASE Client!Answered(c, "401")
    <3>1. call' = [call EXCEPT ![c] = CallOf(call[c].kind, "answered", call[c].with, call[c].by, "401")]
      BY <1>1, <2>2, CallAnswered DEF Client!Answered
    <3>. WITNESS call[c].with, "401"
    <3>. QED
      BY <3>1
  <2>3. CASE Client!Answered(c, "ok") /\ Client!Admitted(call[c].with)
    <3>1. call' = [call EXCEPT ![c] = CallOf(call[c].kind, "answered", call[c].with, call[c].by, "ok")]
      BY <1>1, <2>3, CallAnswered DEF Client!Answered
    <3>. QED
      BY <2>3, <3>1 DEF Client!Admitted
  <2>. QED
    BY <2>1, <2>2, <2>3 DEF Client!Serve
<1>3. PICK r : r = CallOf(call[c].kind, "answered", with, call[c].by, got)
  OBVIOUS
<1>4. IsCall(r) /\ r.kind = call[c].kind /\ r.with = with /\ r.got = got /\ r.pc = "answered"
  BY <1>3 DEF IsCall, CallOf
<1>5. /\ ClientShape' /\ call'[c] = r
      /\ \A d \in Calls : d # c => call'[d] = call[d]
  BY <1>1, <1>2, <1>3, <1>4, ClientCalls DEF ClientInv
<1>6. Believes' => Believes
  BY <1>1, <1>2, <1>4, <1>5 DEF Believes
<1>. QED
  BY <1>1, <1>5, <1>6, ClientKeeps

\* A call is over.
LEMMA ClientForgets ==
  ASSUME ClientShape, NEW c \in Calls, call' = [call EXCEPT ![c] = Client!Idle],
         call[c].pc # "waiting", UNCHANGED <<flight, refreshing>>
  PROVE  /\ ClientShape'
         /\ \A d \in Calls : call'[d].kind = "me" /\ call'[d].with # None =>
              call[d].kind = "me" /\ call[d].with # None
<1>1. PICK r : r = CallOf("work", "idle", None, None, "none")
  OBVIOUS
<1>2. call' = [call EXCEPT ![c] = r]
  BY <1>1 DEF Client!Idle, CallOf
<1>3. IsCall(r) /\ r.kind = "work" /\ r.got = "none"
  BY <1>1 DEF IsCall, CallOf
<1>4. /\ ClientShape' /\ call'[c] = r
      /\ \A d \in Calls : d # c => call'[d] = call[d]
  BY <1>2, <1>3, ClientCalls
<1>. QED
  BY <1>3, <1>4

\* A call arrives or is lost.
LEMMA ClientEnds ==
  ASSUME ClientInv, NEW c \in Calls, Client!Arrive(c) \/ Client!RefusedAgain(c) \/ Client!Lose(c)
  PROVE  ClientInv'
<1>1. /\ call[c].pc # "waiting" /\ call' = [call EXCEPT ![c] = Client!Idle]
      /\ UNCHANGED <<flight, refreshing, live, cookie>>
      /\ token' # None => token # None
  BY DEF Client!Arrive, Client!RefusedAgain, Client!Lose, Client!Ends, Client!server
<1>2. /\ ClientShape'
      /\ \A d \in Calls : call'[d].kind = "me" /\ call'[d].with # None =>
           call[d].kind = "me" /\ call[d].with # None
  BY <1>1, ClientForgets DEF ClientInv
<1>3. ASSUME excused' = excused, thrown' = thrown, me' => Believes PROVE ClientInv'
  <2>1. Believes' => Believes
    BY <1>1, <1>2, <1>3 DEF Believes
  <2>. QED
    BY <1>1, <1>2, <1>3, <2>1, ClientKeeps
<1>4. CASE Client!Arrive(c)
  <2>1. call[c].kind = "me" => Believes
    BY <1>4 DEF Client!Arrive, ClientInv, ClientShape, Believes
  <2>. QED
    BY <1>3, <1>4, <2>1 DEF Client!Arrive, Believes
<1>5. CASE Client!RefusedAgain(c)
  BY <1>3, <1>5 DEF Client!RefusedAgain, Believes
<1>6. CASE Client!Lose(c) /\ call[c].by = None
  BY <1>3, <1>6 DEF Client!Lose, Believes
<1>7. CASE Client!Lose(c) /\ call[c].by # None
  <2>1. excused' /\ thrown' = thrown
    BY <1>7 DEF Client!Lose, Client!ThrowsOut
  <2>. QED
    BY <1>2, <2>1 DEF ClientInv, Client!NoNeedlessLogout
<1>. QED
  BY <1>4, <1>5, <1>6, <1>7

\* A call that is refused waits for the refresh, or starts it.
LEMMA ClientRefused ==
  ASSUME ClientInv, NEW c \in Calls, Client!Refused(c) PROVE ClientInv'
<1>1. PICK leader : leader = IF refreshing = None THEN c ELSE refreshing
  OBVIOUS
<1>2. /\ call[c].pc = "answered" /\ call[c].got = "401" /\ refreshing' = leader
      /\ flight' = IF leader = c
                     THEN [flight EXCEPT ![c] = [pc |-> "sent", cookie |-> cookie, got |-> None]]
                     ELSE flight
      /\ call' = [call EXCEPT ![c].pc = "waiting", ![c].by = leader]
      /\ UNCHANGED <<me, token, cookie, live, excused, thrown>>
  BY <1>1 DEF Client!Refused, Client!server
<1>3. PICK r : r = CallOf(call[c].kind, "waiting", call[c].with, leader, call[c].got)
  OBVIOUS
<1>4. IsCall(r) /\ r.kind = call[c].kind /\ r.with = call[c].with /\ r.got = "401" /\ r.pc = "waiting"
  BY <1>2, <1>3 DEF IsCall, CallOf
<1>5. call' = [call EXCEPT ![c] = r]
  <2>1. PICK f : f = [call EXCEPT ![c].pc = "waiting"]
    OBVIOUS
  <2>2. PICK s : s = CallOf(call[c].kind, "waiting", call[c].with, call[c].by, call[c].got)
    OBVIOUS
  <2>3. [call[c] EXCEPT !.pc = "waiting"] = s
    BY <2>2 DEF IsCall, CallOf, ClientInv, ClientShape
  <2>4. f = [call EXCEPT ![c] = s]
    BY <2>1, <2>3
  <2>5. [s EXCEPT !.by = leader] = r
    BY <1>3, <2>2 DEF CallOf
  <2>6. f[c] = s
    BY <2>4 DEF ClientInv, ClientShape
  <2>7. [f EXCEPT ![c].by = leader] = [f EXCEPT ![c] = r]
    BY <2>5, <2>6
  <2>8. [f EXCEPT ![c].by = leader] = [call EXCEPT ![c] = r]
    BY <2>4, <2>7
  <2>. QED
    BY <1>2, <2>1, <2>8
<1>6. /\ call' = [d \in Calls |-> call'[d]] /\ call'[c] = r
      /\ \A d \in Calls : d # c => call'[d] = call[d]
  BY <1>5 DEF ClientInv, ClientShape
<1>7. \A d \in Calls : IsCall(call'[d]) /\ (call'[d].got = "ok" =>
        call'[d].pc = "answered" /\ (call'[d].kind = "me" => call'[d].with # None))
  BY <1>4, <1>6 DEF ClientInv, ClientShape
<1>8. \A d \in Calls : call'[d].kind = "me" /\ call'[d].with # None =>
        call[d].kind = "me" /\ call[d].with # None
  BY <1>4, <1>6
<1>9. CASE refreshing = None
  <2>1. PICK s : s = FlightOf("sent", cookie, None)
    OBVIOUS
  <2>2. flight' = [flight EXCEPT ![c] = s]
    BY <1>1, <1>2, <1>9, <2>1 DEF FlightOf
  <2>3. IsFlight(s) /\ s.pc = "sent" /\ s.cookie = cookie
    BY <2>1 DEF IsFlight, FlightOf
  <2>4. /\ flight' = [d \in Calls |-> flight'[d]] /\ flight'[c] = s
        /\ \A d \in Calls : d # c => flight'[d] = flight[d]
    BY <2>2 DEF ClientInv, ClientShape
  <2>5. \A d \in Calls : IsFlight(flight'[d]) /\ (flight'[d].pc # "none" => refreshing' = d)
    BY <1>1, <1>2, <1>9, <2>3, <2>4, ClientAssumption DEF ClientInv, ClientShape
  <2>6. ClientShape'
    BY <1>1, <1>2, <1>4, <1>6, <1>7, <1>9, <2>3, <2>4, <2>5 DEF ClientShape
  <2>7. Lives => Lives'
    BY <1>1, <1>2, <1>9, <2>3, <2>4, ClientAssumption DEF Lives
  <2>8. Believes' => Believes
    BY <1>2, <1>8, <2>3, <2>4 DEF Believes
  <2>. QED
    BY <1>2, <2>6, <2>7, <2>8 DEF ClientInv, Client!NoNeedlessLogout
<1>10. CASE refreshing # None
  <2>1. leader = refreshing /\ leader # c
    BY <1>1, <1>2, <1>10 DEF ClientInv, ClientShape
  <2>2. UNCHANGED <<flight, refreshing>>
    BY <1>2, <2>1
  <2>3. ClientShape'
    BY <1>4, <1>6, <1>7, <2>2 DEF ClientShape, ClientInv
  <2>4. Believes' => Believes
    BY <1>2, <1>8, <2>2 DEF Believes
  <2>. QED
    BY <1>2, <2>2, <2>3, <2>4, ClientKeeps
<1>. QED
  BY <1>9, <1>10

\* The refresh is over: those who waited for it go on or give up.
LEMMA ClientLands ==
  ASSUME ClientShape, NEW c \in Calls, flight[c].pc # "none", refreshing' = None,
         flight' = [flight EXCEPT ![c] = Client!NoFlight],
         call' = [d \in Calls |-> call'[d]],
         \A d \in Calls : \/ call'[d] = call[d]
                          \/ IsCall(call'[d]) /\ call'[d].got # "ok"
  PROVE  ClientShape' /\ \A d \in Calls : flight'[d].pc = "none"
<1>1. PICK none : none = FlightOf("none", None, None)
  OBVIOUS
<1>2. flight' = [flight EXCEPT ![c] = none]
  BY <1>1 DEF Client!NoFlight, FlightOf
<1>3. IsFlight(none) /\ none.pc = "none"
  BY <1>1 DEF IsFlight, FlightOf
<1>4. /\ flight' = [d \in Calls |-> flight'[d]] /\ flight'[c] = none
      /\ \A d \in Calls : d # c => flight'[d] = flight[d]
  BY <1>2 DEF ClientShape
<1>5. \A d \in Calls : IsFlight(flight'[d]) /\ flight'[d].pc = "none"
  BY <1>3, <1>4 DEF ClientShape
<1>6. \A d \in Calls : IsCall(call'[d]) /\ (call'[d].got = "ok" =>
        call'[d].pc = "answered" /\ (call'[d].kind = "me" => call'[d].with # None))
  BY DEF ClientShape
<1>. QED
  BY <1>5, <1>4, <1>6 DEF ClientShape

\* A refresh is served: the session lives on, or whoever was logged in has an excuse.
LEMMA ClientServesRefresh ==
  ASSUME ClientInv, NEW c \in Calls, Client!ServeRefresh(c) PROVE ClientInv'
<1>1. /\ refreshing = c /\ flight[c].pc = "sent" /\ c # None /\ IsFlight(flight[c])
      /\ UNCHANGED <<me, token, cookie, refreshing, excused, thrown, call>>
  BY ClientAssumption DEF Client!ServeRefresh, Client!browser, ClientInv, ClientShape
<1>2. ASSUME NEW f, flight' = [flight EXCEPT ![c] = f], IsFlight(f), f.pc \in {"ok", "refused"}
      PROVE  /\ ClientShape' /\ flight'[c] = f
             /\ \A d \in Calls : d # c => flight'[d] = flight[d]
  <2>1. /\ flight' = [d \in Calls |-> flight'[d]] /\ flight'[c] = f
        /\ \A d \in Calls : d # c => flight'[d] = flight[d]
    BY <1>2 DEF ClientInv, ClientShape
  <2>2. \A d \in Calls : IsFlight(flight'[d]) /\ (flight'[d].pc # "none" => refreshing' = d)
    BY <1>1, <1>2, <2>1 DEF ClientInv, ClientShape
  <2>3. flight'[refreshing].pc \in {"sent", "ok", "refused"}
    BY <1>1, <1>2, <2>1
  <2>. QED
    BY <1>1, <2>1, <2>2, <2>3 DEF ClientInv, ClientShape
<1>3. CASE flight[c].cookie \in live
  <2>1. /\ flight' = [flight EXCEPT ![c].pc = "ok", ![c].got = issued + 1]
        /\ issued + 1 \in live'
    BY <1>3 DEF Client!ServeRefresh
  <2>2. PICK g : g = FlightOf("ok", flight[c].cookie, flight[c].got)
    OBVIOUS
  <2>3. PICK f : f = FlightOf("ok", flight[c].cookie, issued + 1)
    OBVIOUS
  <2>4. flight' = [flight EXCEPT ![c] = f]
    <3>1. PICK h : h = [flight EXCEPT ![c].pc = "ok"]
      OBVIOUS
    <3>2. [flight[c] EXCEPT !.pc = "ok"] = g
      BY <1>1, <2>2 DEF IsFlight, FlightOf
    <3>3. h = [flight EXCEPT ![c] = g]
      BY <3>1, <3>2
    <3>4. [g EXCEPT !.got = issued + 1] = f
      BY <2>2, <2>3 DEF FlightOf
    <3>5. h[c] = g
      BY <3>3 DEF ClientInv, ClientShape
    <3>6. [h EXCEPT ![c].got = issued + 1] = [h EXCEPT ![c] = f]
      BY <3>4, <3>5
    <3>7. [h EXCEPT ![c].got = issued + 1] = [flight EXCEPT ![c] = f]
      BY <3>3, <3>6
    <3>. QED
      BY <2>1, <3>1, <3>7
  <2>5. IsFlight(f) /\ f.pc = "ok" /\ f.got = issued + 1
    BY <2>3 DEF IsFlight, FlightOf
  <2>6. ClientShape' /\ flight'[c] = f
    BY <1>2, <2>4, <2>5
  <2>7. Lives'
    BY <1>1, <2>1, <2>5, <2>6 DEF Lives
  <2>. QED
    BY <1>1, <2>6, <2>7 DEF ClientInv, Client!NoNeedlessLogout
<1>4. CASE flight[c].cookie \notin live
  <2>1. flight' = [flight EXCEPT ![c].pc = "refused"] /\ UNCHANGED live
    BY <1>4 DEF Client!ServeRefresh
  <2>2. PICK f : f = FlightOf("refused", flight[c].cookie, flight[c].got)
    OBVIOUS
  <2>3. [flight[c] EXCEPT !.pc = "refused"] = f
    BY <1>1, <2>2 DEF IsFlight, FlightOf
  <2>4. flight' = [flight EXCEPT ![c] = f]
    BY <2>1, <2>3
  <2>5. IsFlight(f) /\ f.pc = "refused"
    BY <2>2 DEF IsFlight, FlightOf
  <2>6. /\ ClientShape' /\ flight'[c] = f
        /\ \A d \in Calls : d # c => flight'[d] = flight[d]
    BY <1>2, <2>4, <2>5
  <2>7. Believes' => Believes
    BY <1>1, <2>5, <2>6 DEF Believes
  <2>8. ~Lives
    BY <1>1, <1>4 DEF Lives
  <2>. QED
    BY <1>1, <2>6, <2>7, <2>8 DEF ClientInv, Client!NoNeedlessLogout
<1>. QED
  BY <1>3, <1>4

\* The answer to a refresh hands its session to the cookie.
LEMMA ClientRefreshArrives ==
  ASSUME ClientInv, NEW c \in Calls, Client!RefreshArrives(c) PROVE ClientInv'
<1>1. /\ refreshing = c /\ flight[c].pc = "ok" /\ c # None
      /\ token' = flight[c].got /\ cookie' = flight[c].got /\ refreshing' = None
      /\ flight' = [flight EXCEPT ![c] = Client!NoFlight]
      /\ UNCHANGED <<me, live, excused, thrown>>
  BY ClientAssumption DEF Client!RefreshArrives, Client!server, ClientInv, ClientShape
<1>2. excused \/ flight[c].got \in live
  BY <1>1 DEF ClientInv, Believes, Lives
<1>3. PICK got : got = flight[c].got
  OBVIOUS
<1>4. call' = [d \in Calls |-> IF d \in Client!Waiting(c)
                 THEN [call[d] EXCEPT !.pc = "sent", !.with = got] ELSE call[d]]
  BY <1>3 DEF Client!RefreshArrives
<1>5. ASSUME NEW d \in Calls, d \in Client!Waiting(c)
      PROVE  IsCall(call'[d]) /\ call'[d].kind = call[d].kind /\ call'[d].got = call[d].got /\ call'[d].with = got
  <2>1. PICK s : s = [call[d] EXCEPT !.pc = "sent"]
    OBVIOUS
  <2>2. s = CallOf(call[d].kind, "sent", call[d].with, call[d].by, call[d].got)
    BY <2>1 DEF ClientInv, ClientShape, IsCall, CallOf
  <2>3. [s EXCEPT !.with = got] = CallOf(call[d].kind, "sent", got, call[d].by, call[d].got)
    BY <2>2 DEF CallOf
  <2>4. call'[d] = CallOf(call[d].kind, "sent", got, call[d].by, call[d].got)
    BY <1>4, <1>5, <2>1, <2>3
  <2>. QED
    BY <2>4 DEF IsCall, CallOf
<1>6. \A d \in Calls : d \notin Client!Waiting(c) => call'[d] = call[d]
  BY <1>4
<1>7. call' = [d \in Calls |-> call'[d]]
  BY <1>4
<1>8. \A d \in Client!Waiting(c) : call[d].got # "ok"
  BY DEF Client!Waiting, ClientInv, ClientShape
<1>9. ClientShape'
  BY <1>1, <1>5, <1>6, <1>7, <1>8, ClientLands DEF ClientInv
<1>10. excused' \/ Lives'
  BY <1>1, <1>2 DEF Lives
<1>. QED
  BY <1>1, <1>9, <1>10 DEF ClientInv, Client!NoNeedlessLogout

\* A refresh is refused only when the session has ended.
LEMMA ClientRefreshFails ==
  ASSUME ClientInv, NEW c \in Calls, Client!RefreshFails(c) PROVE ClientInv'
<1>1. /\ refreshing = c /\ flight[c].pc # "none" /\ c # None
      /\ refreshing' = None /\ flight' = [flight EXCEPT ![c] = Client!NoFlight]
      /\ call' = [d \in Calls |-> IF d \in Client!Waiting(c) THEN Client!Idle ELSE call[d]]
      /\ token' # None => token # None
      /\ UNCHANGED <<cookie, live>>
  BY ClientAssumption DEF Client!RefreshFails, Client!server, ClientInv, ClientShape
<1>2. PICK r : r = CallOf("work", "idle", None, None, "none")
  OBVIOUS
<1>3. Client!Idle = r
  BY <1>2 DEF Client!Idle, CallOf
<1>4. IsCall(r) /\ r.kind = "work" /\ r.got = "none"
  BY <1>2 DEF IsCall, CallOf
<1>5. \A d \in Calls : call'[d] = call[d] \/ call'[d] = r
  BY <1>1, <1>3
<1>6. call' = [d \in Calls |-> call'[d]]
  BY <1>1
<1>7. ClientShape' /\ \A d \in Calls : flight'[d].pc = "none"
  BY <1>1, <1>4, <1>5, <1>6, ClientLands DEF ClientInv
<1>8. CASE flight[c].pc = "refused" /\ Client!ThrowsOut("refused")
  <2>1. /\ ~me' /\ (excused' <=> excused)
        /\ thrown' = IF me /\ ~excused THEN "needlessly" ELSE thrown
    BY <1>8 DEF Client!ThrowsOut
  <2>2. ~Lives
    BY <1>1, <1>8 DEF Lives
  <2>3. Believes' => Believes
    BY <1>1, <1>4, <1>5, <1>7, <2>1 DEF Believes
  <2>4. me => excused
    BY <2>2 DEF ClientInv, Believes
  <2>. QED
    BY <1>7, <2>1, <2>2, <2>3, <2>4 DEF ClientInv, Client!NoNeedlessLogout
<1>9. CASE Client!ThrowsOut("network")
  <2>1. excused' /\ thrown' = thrown
    BY <1>9 DEF Client!ThrowsOut
  <2>. QED
    BY <1>7, <2>1 DEF ClientInv, Client!NoNeedlessLogout
<1>. QED
  BY <1>8, <1>9 DEF Client!RefreshFails

\* Every step of the session client keeps the invariant,
LEMMA ClientNext == ClientInv /\ Client!Next => ClientInv'
<1>. SUFFICES ASSUME ClientInv, Client!Next PROVE ClientInv'
  OBVIOUS
<1>1. ASSUME Client!Expire \/ \E s \in 1 .. MaxSessions : Client!EndElsewhere(s)
      PROVE  ClientInv'
  <2>1. /\ UNCHANGED <<me, token, cookie, refreshing, flight, thrown, call>>
        /\ excused => excused'
        /\ excused' \/ live \subseteq live'
    BY <1>1 DEF Client!Expire, Client!EndElsewhere, Client!browser
  <2>2. ClientShape'
    BY <2>1 DEF ClientInv, ClientShape
  <2>3. Believes' => Believes
    BY <2>1 DEF Believes
  <2>. QED
    BY <2>1, <2>2, <2>3, ClientKeeps
<1>. QED
  BY <1>1, ClientSends, ClientServes, ClientEnds, ClientRefused, ClientServesRefresh,
     ClientRefreshArrives, ClientRefreshFails DEF Client!Next

\* and so does a step of any other desk.
LEMMA ClientStep == ClientInv /\ [Next]_vars => ClientInv'
<1>. SUFFICES ASSUME ClientInv, [Next]_vars PROVE ClientInv'
  OBVIOUS
<1>1. CASE UNCHANGED client
  BY <1>1 DEF client, ClientInv, ClientShape, Believes, Lives, Client!NoNeedlessLogout
<1>. QED
  BY <1>1, ClientNext DEF Next, vars

\* An administrator is thrown out (onUnauthorized) only when his session has
\* ended or the network has failed.
THEOREM LogoutsHaveAReason == Spec => []NoNeedlessLogout
<1>1. ClientInv => NoNeedlessLogout
  BY DEF ClientInv, NoNeedlessLogout
<1>2. Init => ClientInv
  BY ClientInit DEF Init
<1>. QED
  BY <1>1, <1>2, ClientStep, PTL DEF Spec

-----------------------------------------------------------------------------
(* The models page: deletions by force.                                     *)

PageAsk(op, provider, ids, status, force, pc, known) ==
  [op |-> op, provider |-> provider, ids |-> ids, status |-> status, force |-> force,
   pc |-> pc, known |-> known]

IsPageAsk(ask) ==
  ask = PageAsk(ask.op, ask.provider, ask.ids, ask.status, ask.force, ask.pc, ask.known)

\* Whatever asks by force, or would if it was confirmed, has been warned.
PageInv ==
  /\ \A ask \in asks : IsPageAsk(ask) /\ (ask.force => Page!KeyOf(ask) \in warned)
  /\ confirm = [key |-> confirm.key, blocker |-> confirm.blocker]
  /\ confirm.blocker => confirm.key \in warned
  /\ confirm.key # None => confirm.key = <<confirm.key[1], confirm.key[2]>>
  /\ shown \subseteq Page!Keys

\* What the server adds to a request is its outcome.
LEMMA PageServed ==
  ASSUME NEW ask, IsPageAsk(ask), NEW pc, NEW known
  PROVE  LET served == [ask EXCEPT !.pc = pc, !.known = known] IN
         /\ IsPageAsk(served)
         /\ served.force = ask.force /\ Page!KeyOf(served) = Page!KeyOf(ask)
<1>1. PICK s : s = [ask EXCEPT !.pc = pc]
  OBVIOUS
<1>2. s = PageAsk(ask.op, ask.provider, ask.ids, ask.status, ask.force, pc, ask.known)
  BY <1>1 DEF IsPageAsk, PageAsk
<1>3. [s EXCEPT !.known = known]
        = PageAsk(ask.op, ask.provider, ask.ids, ask.status, ask.force, pc, known)
  BY <1>2 DEF PageAsk
<1>4. PICK served : served = PageAsk(ask.op, ask.provider, ask.ids, ask.status, ask.force, pc, known)
  OBVIOUS
<1>5. /\ IsPageAsk(served) /\ served.force = ask.force
      /\ served.provider = ask.provider /\ served.ids = ask.ids
  BY <1>4 DEF IsPageAsk, PageAsk
<1>6. [ask EXCEPT !.pc = pc, !.known = known] = served
  BY <1>1, <1>3, <1>4
<1>. QED
  BY <1>5, <1>6 DEF Page!KeyOf

\* Requests that are sent, answered or done with; the warnings stay.
LEMMA PageAsks ==
  ASSUME PageInv, warned \subseteq warned',
         \/ UNCHANGED asks
         \/ \E ask \in asks : Page!Ends(ask)
         \/ \E ask \in asks : \E pc, known : Page!Serves(ask, pc, known)
         \/ \E op, p, ids, status : Page!Sends(Page!Ask(op, p, ids, status, FALSE))
  PROVE  \A ask \in asks' : IsPageAsk(ask) /\ (ask.force => Page!KeyOf(ask) \in warned')
<1>1. CASE UNCHANGED asks \/ \E ask \in asks : Page!Ends(ask)
  BY <1>1 DEF PageInv, Page!Ends
<1>2. ASSUME NEW ask \in asks, NEW pc, NEW known, Page!Serves(ask, pc, known)
      PROVE  \A a \in asks' : IsPageAsk(a) /\ (a.force => Page!KeyOf(a) \in warned')
  <2>1. PICK served : served = [ask EXCEPT !.pc = pc, !.known = known]
    OBVIOUS
  <2>2. IsPageAsk(served) /\ served.force = ask.force /\ Page!KeyOf(served) = Page!KeyOf(ask)
    BY <2>1, PageServed DEF PageInv
  <2>. QED
    BY <1>2, <2>1, <2>2 DEF PageInv, Page!Serves
<1>3. ASSUME NEW op, NEW p, NEW ids, NEW status, Page!Sends(Page!Ask(op, p, ids, status, FALSE))
      PROVE  \A a \in asks' : IsPageAsk(a) /\ (a.force => Page!KeyOf(a) \in warned')
  <2>1. PICK a : a = Page!Ask(op, p, ids, status, FALSE)
    OBVIOUS
  <2>2. IsPageAsk(a) /\ a.force = FALSE
    BY <2>1 DEF Page!Ask, IsPageAsk, PageAsk
  <2>. QED
    BY <1>3, <2>1, <2>2 DEF PageInv, Page!Sends
<1>. QED
  BY <1>1, <1>2, <1>3

\* The page is opened with nothing asked and no dialog.
LEMMA PageInit ==
  Init => PageInv
<1>. SUFFICES ASSUME Page!Init PROVE PageInv
  BY DEF Init
<1>. QED
  BY DEF Page!Init, PageInv, Page!NoConfirm

\* What a deletion is confirmed for is what the dialog has named.
LEMMA PageDeletes ==
  ASSUME PageInv, Page!DeleteModel
  PROVE  PageInv'
<1>1. PICK ask : ask = Page!Ask("delete", confirm.key[1], {confirm.key[2]}, "active", confirm.blocker)
  OBVIOUS
<1>2. /\ asks' = asks \cup {ask} /\ confirm' = Page!NoConfirm /\ confirm.key # None
      /\ UNCHANGED <<shown, warned>>
  BY <1>1 DEF Page!DeleteModel, Page!Sends
<1>3. IsPageAsk(ask) /\ ask.force = confirm.blocker /\ Page!KeyOf(ask) = confirm.key
  <2>1. /\ IsPageAsk(ask) /\ ask.force = confirm.blocker
        /\ ask.provider = confirm.key[1] /\ ask.ids = {confirm.key[2]}
    BY <1>1 DEF Page!Ask, IsPageAsk, PageAsk
  <2>2. (CHOOSE i \in ask.ids : TRUE) = confirm.key[2]
    BY <2>1
  <2>. QED
    BY <1>2, <2>1, <2>2 DEF Page!KeyOf, PageInv
<1>. QED
  BY <1>2, <1>3 DEF PageInv, Page!NoConfirm

\* A warning is for the model the request was about.
LEMMA PageWarns ==
  ASSUME PageInv, NEW ask \in asks, Page!DeleteArrives(ask)
  PROVE  PageInv'
<1>1. warned \subseteq warned' /\ UNCHANGED shown
  BY DEF Page!DeleteArrives
<1>2. \A a \in asks' : IsPageAsk(a) /\ (a.force => Page!KeyOf(a) \in warned')
  BY <1>1, PageAsks DEF Page!DeleteArrives
<1>3. PICK k : k = Page!KeyOf(ask)
  OBVIOUS
<1>. k = <<k[1], k[2]>>
  BY <1>3 DEF Page!KeyOf
<1>4. CASE ask.pc = "refused"
  BY <1>1, <1>2, <1>3, <1>4 DEF PageInv, Page!DeleteArrives
<1>5. CASE ask.pc # "refused"
  BY <1>1, <1>2, <1>5 DEF PageInv, Page!DeleteArrives, Page!NoConfirm
<1>. QED
  BY <1>4, <1>5

\* Every step of the models page keeps the invariant,
LEMMA PageNext ==
  ASSUME PageInv, Page!Registers \/ Page!Maintains
  PROVE  PageInv'
<1>1. ASSUME NEW ask \in asks, Page!Serve(ask) PROVE PageInv'
  <2>1. (\E pc, known : Page!Serves(ask, pc, known)) /\ UNCHANGED <<shown, confirm, warned>>
    BY <1>1 DEF Page!Serve, Page!ServeDiscover, Page!ServeImport, Page!ServeSave, Page!ServeDelete, Page!dialogs
  <2>. QED
    BY <2>1, PageAsks DEF PageInv
<1>2. ASSUME NEW ask \in asks, Page!Arrives(ask), ~Page!DeleteArrives(ask) PROVE PageInv'
  <2>1. Page!Ends(ask) /\ UNCHANGED <<shown, confirm, warned>>
    BY <1>2 DEF Page!Arrives, Page!DiscoverArrives, Page!ImportArrives, Page!SaveArrives
  <2>. QED
    BY <2>1, PageAsks DEF PageInv
<1>3. CASE Page!Answers
  BY <1>1, <1>2, <1>3, PageWarns DEF Page!Answers, Page!Arrives
<1>4. ASSUME NEW statuses, Page!FillIn(statuses) PROVE PageInv'
  <2>1. (\E op, p, ids, status : Page!Sends(Page!Ask(op, p, ids, status, FALSE)))
        /\ UNCHANGED <<shown, confirm, warned>>
    BY <1>4 DEF Page!FillIn, Page!SaveModel, Page!dialogs
  <2>. QED
    BY <2>1, PageAsks DEF PageInv
<1>5. CASE Page!ImportPicked \/ \E p \in Providers : Page!FetchModels(p)
  <2>1. (\E op, p, ids, status : Page!Sends(Page!Ask(op, p, ids, status, FALSE)))
        /\ UNCHANGED <<shown, confirm, warned>>
    BY <1>5 DEF Page!ImportPicked, Page!FetchModels
  <2>. QED
    BY <2>1, PageAsks DEF PageInv
<1>6. CASE Page!DeleteModel
  BY <1>6, PageDeletes
<1>7. CASE \E k \in Page!Keys : Page!AskWhether(k)
  <2>1. PICK k \in Page!Keys : Page!AskWhether(k)
    BY <1>7
  <2>2. k = <<k[1], k[2]>>
    BY DEF Page!Keys
  <2>. QED
    BY <2>1, <2>2 DEF PageInv, Page!AskWhether
<1>8. CASE Page!Load \/ Page!Cancel
  BY <1>8 DEF PageInv, Page!Load, Page!Cancel, Page!NoConfirm, Page!dialogs
<1>9. CASE UNCHANGED <<shown, confirm, asks, warned>>
  BY <1>9 DEF PageInv
<1>10. CASE Page!Registers
  BY <1>3, <1>4, <1>5, <1>8, <1>9, <1>10 DEF Page!Registers, Page!OpenDiscovery, Page!ChooseProvider,
     Page!TogglePick, Page!ImportOne, Page!PickAllVisible, Page!StartAddModel
<1>11. CASE Page!Maintains
  BY <1>3, <1>4, <1>6, <1>7, <1>8, <1>9, <1>11 DEF Page!Maintains, Page!StartEditModel, Page!Elsewhere,
     Page!dialogs
<1>. QED
  BY <1>10, <1>11

\* and so does a step of any other desk.
LEMMA PageStep ==
  PageInv /\ [Next]_vars => PageInv'
<1>. SUFFICES ASSUME PageInv, [Next]_vars PROVE PageInv'
  OBVIOUS
<1>1. CASE UNCHANGED page
  BY <1>1 DEF page, PageInv
<1>. QED
  BY <1>1, PageNext DEF Next, vars

\* For any providers, catalogues and number of requests under way: the models
\* page deletes by force only what the server has warned of.
THEOREM DeletionsByForceWereWarned ==
  Spec => []ForcedDeletesWereWarned
<1>1. PageInv => ForcedDeletesWereWarned
  BY DEF PageInv, ForcedDeletesWereWarned, Page!ForcedDeletesWereWarned
<1>. QED
  BY <1>1, PageInit, PageStep, PTL DEF Spec

-----------------------------------------------------------------------------
(* The groups page: whose settings are shown and saved.                     *)

GroupAsk(op, ids, draft, action, pc) ==
  [op |-> op, ids |-> ids, draft |-> draft, action |-> action, pc |-> pc]

IsDraft(draft) == draft = [of |-> draft.of, value |-> draft.value]

IsGroupAsk(ask) ==
  ask = GroupAsk(ask.op, ask.ids, ask.draft, ask.action, ask.pc) /\ IsDraft(ask.draft)

GroupInv ==
  /\ IsDraft(settings) /\ Group!SettingsGoToTheirGroup
  /\ \A ask \in groupAsks :
       IsGroupAsk(ask) /\ (ask.op \in {"open", "patch"} => ask.draft.of = Group!Target(ask))

\* What the server adds to a request is its outcome and the settings.
LEMMA GroupServed ==
  ASSUME NEW ask, IsGroupAsk(ask), NEW pc, NEW value
  PROVE  \E served :
           /\ served = [ask EXCEPT !.pc = pc, !.draft.value = value]
           /\ IsGroupAsk(served)
           /\ served.op = ask.op /\ served.draft.of = ask.draft.of
           /\ Group!Target(served) = Group!Target(ask)
<1>1. PICK s : s = [ask EXCEPT !.pc = pc]
  OBVIOUS
<1>2. s = GroupAsk(ask.op, ask.ids, ask.draft, ask.action, pc)
  BY <1>1 DEF IsGroupAsk, GroupAsk
<1>3. PICK draft : draft = [of |-> ask.draft.of, value |-> value]
  OBVIOUS
<1>4. draft = [s.draft EXCEPT !.value = value]
  BY <1>2, <1>3 DEF GroupAsk, IsGroupAsk, IsDraft
<1>5. [s EXCEPT !.draft = draft] = GroupAsk(ask.op, ask.ids, draft, ask.action, pc)
  BY <1>2 DEF GroupAsk
<1>6. PICK a : a = GroupAsk(ask.op, ask.ids, draft, ask.action, pc)
  OBVIOUS
<1>7. IsGroupAsk(a) /\ a.op = ask.op /\ a.ids = ask.ids /\ a.draft.of = ask.draft.of
  BY <1>3, <1>6 DEF IsGroupAsk, GroupAsk, IsDraft
<1>8. [ask EXCEPT !.pc = pc, !.draft.value = value] = a
  BY <1>1, <1>4, <1>5, <1>6
<1>. QED
  BY <1>7, <1>8 DEF Group!Target

\* Requests that are sent, answered or done with.
LEMMA GroupAsks ==
  ASSUME GroupInv,
         \/ UNCHANGED groupAsks
         \/ \E ask \in groupAsks : Group!Ends(ask)
         \/ \E ask \in groupAsks : \E pc, value : Group!Serves(ask, pc, value)
         \/ \E op, ids, draft, action :
              /\ Group!Sends(Group!Ask(op, ids, draft, action))
              /\ IsDraft(draft)
              /\ op \in {"open", "patch"} => \E g : ids = {g} /\ draft.of = g
  PROVE  \A ask \in groupAsks' :
           IsGroupAsk(ask) /\ (ask.op \in {"open", "patch"} => ask.draft.of = Group!Target(ask))
<1> DEFINE Sound(ask) ==
      IsGroupAsk(ask) /\ (ask.op \in {"open", "patch"} => ask.draft.of = Group!Target(ask))
<1>1. \A ask \in groupAsks : Sound(ask)
  BY DEF GroupInv
<1>2. CASE UNCHANGED groupAsks \/ \E ask \in groupAsks : Group!Ends(ask)
  BY <1>1, <1>2 DEF Group!Ends
<1>3. ASSUME NEW ask \in groupAsks, NEW pc, NEW value, Group!Serves(ask, pc, value)
      PROVE  \A a \in groupAsks' : Sound(a)
  <2>1. PICK served :
          /\ served = [ask EXCEPT !.pc = pc, !.draft.value = value]
          /\ IsGroupAsk(served)
          /\ served.op = ask.op /\ served.draft.of = ask.draft.of
          /\ Group!Target(served) = Group!Target(ask)
    BY <1>1, GroupServed
  <2>2. Sound(served)
    BY <1>1, <2>1
  <2>3. groupAsks' \subseteq groupAsks \cup {served}
    BY <1>3, <2>1 DEF Group!Serves
  <2>. HIDE DEF Sound
  <2>. QED
    BY <1>1, <2>2, <2>3
<1>4. ASSUME NEW op, NEW ids, NEW draft, NEW action, Group!Sends(Group!Ask(op, ids, draft, action)),
             IsDraft(draft), op \in {"open", "patch"} => \E g : ids = {g} /\ draft.of = g
      PROVE  \A a \in groupAsks' : Sound(a)
  <2>1. PICK ask : ask = Group!Ask(op, ids, draft, action)
    OBVIOUS
  <2>2. IsGroupAsk(ask) /\ ask.op = op /\ ask.ids = ids /\ ask.draft = draft
    BY <1>4, <2>1 DEF Group!Ask, IsGroupAsk, GroupAsk
  <2>3. ASSUME NEW g, ids = {g} PROVE Group!Target(ask) = g
    BY <2>2, <2>3 DEF Group!Target
  <2>4. Sound(ask)
    BY <1>4, <2>2, <2>3
  <2>5. groupAsks' \subseteq groupAsks \cup {ask}
    BY <1>4, <2>1 DEF Group!Sends
  <2>. HIDE DEF Sound
  <2>. QED
    BY <1>1, <2>4, <2>5
<1>. QED
  BY <1>2, <1>3, <1>4

\* A step that leaves the editor alone, or shuts it.
LEMMA GroupKeeps ==
  ASSUME GroupInv,
         \/ UNCHANGED groupAsks
         \/ \E ask \in groupAsks : Group!Ends(ask)
         \/ \E ask \in groupAsks : \E pc, value : Group!Serves(ask, pc, value)
         \/ \E op, ids, draft, action :
              /\ Group!Sends(Group!Ask(op, ids, draft, action))
              /\ IsDraft(draft)
              /\ op \in {"open", "patch"} => \E g : ids = {g} /\ draft.of = g,
         UNCHANGED <<editing, settings>> \/ Group!CloseEditor
  PROVE  GroupInv'
<1>1. \A ask \in groupAsks' :
        IsGroupAsk(ask) /\ (ask.op \in {"open", "patch"} => ask.draft.of = Group!Target(ask))
  BY GroupAsks
<1>2. IsDraft(settings)' /\ (Group!EditorOpen' => settings'.of = editing')
  BY DEF GroupInv, Group!SettingsGoToTheirGroup, Group!EditorOpen, Group!CloseEditor, Group!NoDraft, IsDraft
<1>. QED
  BY <1>1, <1>2 DEF GroupInv, Group!SettingsGoToTheirGroup

\* The groups page is opened with nothing asked.
LEMMA GroupInit ==
  Init => GroupInv
<1>. SUFFICES ASSUME Group!Init PROVE GroupInv
  BY DEF Init
<1>. QED
  BY DEF Group!Init, GroupInv, Group!NoDraft, IsDraft, Group!SettingsGoToTheirGroup, Group!EditorOpen

\* The answers: settings come together with the group they are of.
LEMMA GroupAnswers ==
  ASSUME GroupInv, NEW ask \in groupAsks, Group!Answers(ask)
  PROVE  GroupInv'
<1>1. CASE \/ Group!ServeOpen(ask) \/ Group!ServePatch(ask) \/ Group!ServeTemplate(ask)
           \/ Group!ServeBulk(ask)
  <2>1. (\E pc, value : Group!Serves(ask, pc, value)) /\ UNCHANGED <<editing, settings>>
    BY <1>1 DEF Group!ServeOpen, Group!ServePatch, Group!ServeTemplate, Group!ServeBulk, Group!page
  <2>. QED
    BY <2>1, GroupKeeps
<1>2. CASE Group!OpenArrives(ask)
  <2>1. /\ editing' = Group!Target(ask) /\ settings' = ask.draft /\ Group!Ends(ask)
        /\ ask.op = "open"
    BY <1>2 DEF Group!OpenArrives, Group!Is
  <2>2. IsDraft(settings)' /\ settings'.of = editing'
    BY <2>1 DEF GroupInv, IsGroupAsk, IsDraft
  <2>3. \A a \in groupAsks' :
          IsGroupAsk(a) /\ (a.op \in {"open", "patch"} => a.draft.of = Group!Target(a))
    BY <2>1, GroupAsks
  <2>. QED
    BY <2>2, <2>3 DEF GroupInv, Group!SettingsGoToTheirGroup
<1>3. CASE Group!ClosingArrives(ask)
  BY <1>3, GroupKeeps DEF Group!ClosingArrives
<1>4. CASE \/ Group!PreviewArrives(ask) \/ Group!BulkArrives(ask) \/ Group!DebugArrives(ask)
           \/ Group!Fails(ask)
  <2>1. Group!Ends(ask) /\ UNCHANGED <<editing, settings>>
    BY <1>4 DEF Group!PreviewArrives, Group!BulkArrives, Group!DebugArrives, Group!Fails, Group!page
  <2>. QED
    BY <2>1, GroupKeeps
<1>. QED
  BY <1>1, <1>2, <1>3, <1>4 DEF Group!Answers

\* Every step of the groups page keeps the invariant,
LEMMA GroupNext ==
  ASSUME GroupInv, Group!Edits \/ Group!WorksInBulk
  PROVE  GroupInv'
<1>1. CASE \E ask \in groupAsks : Group!Answers(ask)
  BY <1>1, GroupAnswers
<1>2. ASSUME NEW g \in Groups, Group!OpenSettings(g) PROVE GroupInv'
  <2>1. PICK draft : draft = [of |-> g, value |-> None]
    OBVIOUS
  <2>2. IsDraft(draft) /\ draft.of = g
    BY <2>1 DEF IsDraft
  <2>3. Group!Sends(Group!Ask("open", {g}, draft, None)) /\ UNCHANGED <<editing, settings>>
    BY <1>2, <2>1 DEF Group!OpenSettings, Group!page
  <2>. QED
    BY <2>2, <2>3, GroupKeeps
<1>3. CASE Group!SaveSettings
  <2>1. /\ Group!Sends(Group!Ask("patch", {editing}, settings, None)) /\ UNCHANGED <<editing, settings>>
        /\ IsDraft(settings) /\ settings.of = editing
    BY <1>3 DEF Group!SaveSettings, Group!page, GroupInv, Group!SettingsGoToTheirGroup
  <2>. QED
    BY <2>1, GroupKeeps
<1>4. CASE \/ Group!UseTemplate("preview") \/ Group!UseTemplate("apply") \/ Group!ConfirmBulk
           \/ \E g \in Groups : Group!OpenDebug(g)
  <2>1. PICK blank, value : /\ blank = Group!NoDraft
                            /\ value = [of |-> None, value |-> bulk.value]
    OBVIOUS
  <2>2. IsDraft(blank) /\ IsDraft(value)
    BY <2>1 DEF IsDraft, Group!NoDraft
  <2>3. \/ Group!Sends(Group!Ask("preview", {editing}, blank, template.key))
        \/ Group!Sends(Group!Ask("apply", {editing}, blank, template.key))
        \/ Group!Sends(Group!Ask("bulk", selected, value, bulk.action))
        \/ \E g \in Groups : Group!Sends(Group!Ask("debug", {g}, blank, None))
    BY <1>4, <2>1 DEF Group!UseTemplate, Group!ConfirmBulk, Group!SendBulk, Group!OpenDebug
  <2>4. UNCHANGED <<editing, settings>>
    BY <1>4 DEF Group!UseTemplate, Group!ConfirmBulk, Group!OpenDebug, Group!page
  <2>5. PICK op, ids, draft, action :
          /\ Group!Sends(Group!Ask(op, ids, draft, action))
          /\ IsDraft(draft) /\ op \notin {"open", "patch"}
    <3>1. \A op, ids, draft, action :
            op \in {"preview", "apply", "bulk", "debug"} => op \notin {"open", "patch"}
      OBVIOUS
    <3>. QED
      BY <2>2, <2>3, <3>1
  <2>. QED
    BY <2>4, <2>5, GroupKeeps
<1>5. CASE Group!RunBulk
  <2>1. CASE bulk.action = "blacklist"
    BY <1>5, <2>1, GroupKeeps DEF Group!RunBulk
  <2>2. CASE bulk.action # "blacklist"
    <3>1. PICK draft : draft = [of |-> None, value |-> bulk.value]
      OBVIOUS
    <3>2. Group!Sends(Group!Ask("bulk", selected, draft, bulk.action)) /\ UNCHANGED <<editing, settings>>
      BY <1>5, <2>2, <3>1 DEF Group!RunBulk, Group!SendBulk
    <3>3. IsDraft(draft)
      BY <3>1 DEF IsDraft
    <3>. QED
      BY <3>2, <3>3, GroupKeeps
  <2>. QED
    BY <2>1, <2>2
<1>6. ASSUME NEW v \in Values, Group!Type(v) PROVE GroupInv'
  <2>1. settings' = [settings EXCEPT !.value = v] /\ UNCHANGED <<editing, groupAsks>> /\ Group!EditorOpen
    BY <1>6 DEF Group!Type
  <2>2. settings' = [of |-> settings.of, value |-> v]
    BY <2>1 DEF GroupInv, IsDraft
  <2>3. IsDraft(settings)' /\ settings'.of = editing'
    BY <2>1, <2>2 DEF GroupInv, IsDraft, Group!SettingsGoToTheirGroup
  <2>. QED
    BY <2>1, <2>3 DEF GroupInv, Group!SettingsGoToTheirGroup
<1>7. CASE Group!Close
  <2>1. (UNCHANGED <<editing, settings>> \/ Group!CloseEditor) /\ UNCHANGED groupAsks
    BY <1>7 DEF Group!Close
  <2>. QED
    BY <2>1, GroupKeeps
<1>8. CASE UNCHANGED <<editing, settings, groupAsks>>
  BY <1>8, GroupKeeps
<1>9. CASE Group!Edits
  BY <1>1, <1>2, <1>3, <1>4, <1>6, <1>7, <1>8, <1>9 DEF Group!Edits, Group!ChooseTemplate, Group!Load
<1>10. CASE Group!WorksInBulk
  BY <1>1, <1>4, <1>5, <1>7, <1>8, <1>10 DEF Group!WorksInBulk, Group!Toggle, Group!ChooseBulk,
     Group!ToggleAll, Group!ClearSelection
<1>. QED
  BY <1>9, <1>10

\* and so does a step of any other desk.
LEMMA GroupStep ==
  GroupInv /\ [Next]_vars => GroupInv'
<1>. SUFFICES ASSUME GroupInv, [Next]_vars PROVE GroupInv'
  OBVIOUS
<1>1. CASE UNCHANGED group
  BY <1>1, GroupKeeps DEF group
<1>. QED
  BY <1>1, GroupNext DEF Next, vars

\* For any groups, settings, templates and number of requests under way: what
\* the settings dialog shows and saves was loaded from the group it names.
THEOREM SettingsStayWithTheirGroup ==
  Spec => []SettingsGoToTheirGroup
<1>1. GroupInv => SettingsGoToTheirGroup
  BY DEF GroupInv, SettingsGoToTheirGroup
<1>. QED
  BY <1>1, GroupInit, GroupStep, PTL DEF Spec

-----------------------------------------------------------------------------
(* The container: migrations, and the first account.                        *)

Process(pc, seen, at, did, email) ==
  [pc |-> pc, seen |-> seen, at |-> at, did |-> did, email |-> email]

IsProcess(r) == r = Process(r.pc, r.seen, r.at, r.did, r.email)

\* What a process has done and read by the time of its next step.
Fits(r) ==
  /\ IsProcess(r)
  /\ r.pc \in {"dead", "read", "next", "open", "count", "create", "promote", "assign", "listen", "serving"}
  /\ r.seen \subseteq recorded /\ r.at \in 0 .. Files
  /\ r.pc = "dead" => r = Container!Dead
  /\ r.pc # "open" => r.did = {}
  /\ r.pc = "read" => r.at = 0
  /\ r.pc = "next" => \A i \in Container!Ids : i <= r.at => i \in recorded
  /\ r.pc = "open" =>
       /\ r.at \in Container!Ids /\ \A i \in Container!Ids : i < r.at => i \in recorded
       /\ r.did \in {{}, {"sql"}, {"sql", "id"}}
  /\ r.pc \in {"create", "promote", "assign"} => r.email \in Container!Emails
  /\ "id" \in r.did => r.at \notin recorded
  /\ r.pc \in {"count", "create", "promote", "assign", "listen", "serving"} => recorded = Container!Ids
  /\ r.pc \in {"assign", "listen", "serving"} => accounts # {}

\* Two processes do not have the same statements under way.
Alone(p, r) ==
  r.pc = "open" /\ "sql" \in r.did => ~Container!Running(p, r.at)

ContainerInv ==
  /\ schema \in [Container!Ids -> Nat] /\ recorded \subseteq Container!Ids
  /\ accounts \subseteq Container!Emails
  /\ \A i \in Container!Ids : schema[i] = IF i \in recorded THEN 1 ELSE 0
  /\ \A i, j \in Container!Ids : i < j /\ j \in recorded => i \in recorded
  /\ proc = [p \in Container!Procs |-> proc[p]]
  /\ \A p \in Container!Procs : Fits(proc[p]) /\ Alone(p, proc[p])

\* A process that is gone, field by field.
LEMMA DeadProcess ==
  LET d == Container!Dead IN
  /\ IsProcess(d)
  /\ d.pc = "dead" /\ d.seen = {} /\ d.at = 0 /\ d.did = {} /\ d.email = "none"
BY DEF Container!Dead, Process, IsProcess

\* A process that is born anew is like a dead one, but for two fields.
LEMMA FreshProcess ==
  ASSUME NEW pc, NEW email
  PROVE  LET r == Process(pc, {}, 0, {}, email) IN
         /\ IsProcess(r)
         /\ r.pc = pc /\ r.seen = {} /\ r.at = 0 /\ r.did = {} /\ r.email = email
BY DEF Process, IsProcess

\* Nothing runs yet, and some migrations may be recorded.
LEMMA ContainerInit ==
  Init => ContainerInv
<1>. SUFFICES ASSUME Container!Init PROVE ContainerInv
  BY DEF Init
<1>1. PICK n \in 0 .. Files : recorded = 1 .. n
  BY DEF Container!Init
<1>2. Files \in Nat
  BY BoundsAssumption
<1>3. Fits(Container!Dead)
  BY <1>2, DeadProcess DEF Fits
<1>4. accounts \subseteq Container!Emails
  BY DEF Container!Init, Container!Emails
<1>. QED
  BY <1>1, <1>2, <1>3, <1>4 DEF ContainerInv, Container!Init, Container!Ids, Container!Dead, Alone

\* One process goes on, and nothing is committed but accounts.
LEMMA ContainerMoves ==
  ASSUME ContainerInv, NEW p \in Container!Procs, NEW to, Fits(to)', Alone(p, to),
         proc' = [proc EXCEPT ![p] = to], UNCHANGED <<schema, recorded>>,
         accounts \subseteq accounts', accounts' \subseteq Container!Emails
  PROVE  ContainerInv'
<1>1. ASSUME NEW q \in Container!Procs PROVE Fits(proc[q])' /\ Alone(q, proc[q])'
  <2>1. CASE q = p
    <3>1. proc'[q] = to
      BY <2>1 DEF ContainerInv
    <3>. QED
      BY <2>1, <3>1 DEF Alone, Container!Running, Container!Open, Container!At, ContainerInv
  <2>2. CASE q # p
    <3>1. proc'[q] = proc[q] /\ Fits(proc[q]) /\ Alone(q, proc[q]) /\ proc'[p] = to
      BY <2>2 DEF ContainerInv
    <3>2. Fits(proc[q])'
      BY <3>1 DEF Fits
    <3>3. Alone(q, proc[q])'
      BY <2>2, <3>1 DEF Alone, Container!Running, Container!Open, Container!At, ContainerInv
    <3>. QED
      BY <3>2, <3>3
  <2>. QED
    BY <2>1, <2>2
<1>. QED
  BY <1>1 DEF ContainerInv

\* Processes may die at any time, together.
LEMMA ContainerDies ==
  ASSUME ContainerInv, NEW S,
         proc' = [q \in Container!Procs |-> IF q \in S THEN Container!Dead ELSE proc[q]],
         UNCHANGED <<schema, recorded, accounts>>
  PROVE  ContainerInv'
<1>1. ASSUME NEW q \in Container!Procs PROVE Fits(proc[q])' /\ Alone(q, proc[q])'
  <2>1. CASE q \in S
    <3>1. proc'[q] = Container!Dead /\ 0 \in 0 .. Files
      BY <2>1, BoundsAssumption
    <3>. QED
      BY <3>1, DeadProcess DEF Fits, Alone
  <2>2. CASE q \notin S
    <3>1. proc'[q] = proc[q] /\ Fits(proc[q]) /\ Alone(q, proc[q])
      BY <2>2 DEF ContainerInv
    <3>2. Fits(proc[q])'
      BY <3>1 DEF Fits
    <3>3. Alone(q, proc[q])'
      BY <2>2, <3>1 DEF Alone, Container!Running, Container!Open, Container!At, ContainerInv, Container!Dead
    <3>. QED
      BY <3>2, <3>3
  <2>. QED
    BY <2>1, <2>2
<1>. QED
  BY <1>1 DEF ContainerInv

\* What is committed had not been recorded, and nobody else is about to.
LEMMA ContainerCommits ==
  ASSUME ContainerInv, NEW p \in Container!Procs, Container!CommitFile(p)
  PROVE  ContainerInv'
<1>. PICK i \in Container!Ids : i = proc[p].at
  BY DEF ContainerInv, Fits, Container!CommitFile, Container!At
<1>1. /\ proc[p].pc = "open" /\ proc[p].did = {"sql", "id"}
      /\ recorded' = recorded \cup {i} /\ schema' = [schema EXCEPT ![i] = @ + 1]
      /\ proc' = [proc EXCEPT ![p] = [proc[p] EXCEPT !.pc = "next", !.did = {}]]
      /\ accounts' = accounts
  BY DEF Container!CommitFile, Container!At, Container!people
<1>2. /\ i \notin recorded /\ Fits(proc[p]) /\ \A j \in Container!Ids : j < i => j \in recorded
  BY <1>1 DEF ContainerInv, Fits
<1>3. PICK to : /\ to = proc'[p] /\ IsProcess(to)
                /\ to.pc = "next" /\ to.seen = proc[p].seen /\ to.at = i /\ to.did = {}
  <2>1. PICK r, s : r = proc[p] /\ s = [r EXCEPT !.pc = "next"]
    OBVIOUS
  <2>2. s = Process("next", r.seen, r.at, r.did, r.email)
    BY <1>2, <2>1 DEF Fits, IsProcess, Process
  <2>3. [s EXCEPT !.did = {}] = Process("next", r.seen, r.at, {}, r.email)
    BY <2>2 DEF Process
  <2>4. PICK to : to = Process("next", r.seen, r.at, {}, r.email) /\ to = proc'[p]
    BY <1>1, <2>1, <2>3 DEF ContainerInv
  <2>. QED
    BY <2>1, <2>4 DEF Process, IsProcess
<1>4. ASSUME NEW q \in Container!Procs PROVE Fits(proc[q])' /\ Alone(q, proc[q])'
  <2>1. CASE q = p
    <3>1. proc[p].seen \subseteq recorded /\ proc[p].at \in 0 .. Files
      BY <1>2 DEF Fits
    <3>2. \A j \in Container!Ids : j <= i => j < i \/ j = i
      BY DEF Container!Ids
    <3>. QED
      BY <1>1, <1>2, <1>3, <2>1, <3>1, <3>2 DEF Fits, Alone
  <2>2. CASE q # p
    <3>1. proc'[q] = proc[q] /\ Fits(proc[q]) /\ Alone(q, proc[q])
      BY <1>1, <2>2 DEF ContainerInv
    <3>2. ~("id" \in proc[q].did /\ proc[q].at = i)
      BY <1>1, <1>2, <2>2, <3>1 DEF Fits, Alone, Container!Running, Container!Open, Container!At
    <3>3. Fits(proc[q])'
      BY <1>1, <3>1, <3>2 DEF Fits
    <3>4. Alone(q, proc[q])'
      BY <1>1, <1>3, <3>1 DEF Alone, Container!Running, Container!Open, Container!At, ContainerInv
    <3>. QED
      BY <3>3, <3>4
  <2>. QED
    BY <2>1, <2>2
<1>5. \A j \in Container!Ids : schema'[j] = IF j \in recorded' THEN 1 ELSE 0
  BY <1>1, <1>2 DEF ContainerInv
<1>6. \A j, k \in Container!Ids : j < k /\ k \in recorded' => j \in recorded'
  BY <1>1, <1>2 DEF ContainerInv
<1>. QED
  BY <1>1, <1>4, <1>5, <1>6 DEF ContainerInv

\* The scripts' migrations.
LEMMA ContainerMigrates ==
  ASSUME ContainerInv, NEW p \in Container!Procs,
         \/ Container!Start(p) \/ Container!ReadApplied(p) \/ Container!BeginFile(p)
         \/ Container!RunFile(p) \/ Container!RecordFile(p) \/ Container!Migrated(p)
  PROVE  ContainerInv'
<1>1. PICK r : r = proc[p] /\ Fits(r)
  BY DEF ContainerInv
<1>2. Files \in Nat
  BY BoundsAssumption
<1>3. accounts' = accounts /\ UNCHANGED <<schema, recorded>> /\ accounts \subseteq Container!Emails
  BY DEF Container!Start, Container!ReadApplied, Container!BeginFile, Container!RunFile,
     Container!RecordFile, Container!Migrated, Container!people, Container!database, ContainerInv
<1>4. Fits(Container!Dead)' /\ Alone(p, Container!Dead)
  BY <1>2, <1>3, DeadProcess DEF Fits, Alone
<1>5. CASE Container!Start(p)
  <2>1. PICK to : to = Process("read", {}, 0, {}, "none")
    OBVIOUS
  <2>2. proc' = [proc EXCEPT ![p] = to]
    <3>1. r = Container!Dead /\ proc' = [proc EXCEPT ![p] = [r EXCEPT !.pc = "read"]]
      BY <1>1, <1>5 DEF Container!Start, Container!Goes, Container!At, Fits
    <3>2. [r EXCEPT !.pc = "read"] = Process("read", r.seen, r.at, r.did, r.email)
      BY <1>1 DEF Fits, IsProcess, Process
    <3>. QED
      BY <2>1, <3>1, <3>2, DeadProcess
  <2>3. Fits(to)' /\ Alone(p, to)
    BY <1>2, <1>3, <2>1, FreshProcess DEF Fits, Alone
  <2>. QED
    BY <1>3, <2>2, <2>3, ContainerMoves
<1>6. CASE Container!ReadApplied(p)
  <2>1. PICK to : to = Process("next", recorded, 0, {}, r.email)
    OBVIOUS
  <2>2. proc' = [proc EXCEPT ![p] = to]
    <3>1. r.pc = "read" /\ proc' = [proc EXCEPT ![p] = [r EXCEPT !.pc = "next", !.seen = recorded]]
      BY <1>1, <1>6 DEF Container!ReadApplied, Container!At
    <3>2. PICK s : s = [r EXCEPT !.pc = "next"]
      OBVIOUS
    <3>3. s = Process("next", r.seen, r.at, r.did, r.email)
      BY <1>1, <3>2 DEF Fits, IsProcess, Process
    <3>4. [s EXCEPT !.seen = recorded] = Process("next", recorded, r.at, r.did, r.email)
      BY <3>3 DEF Process
    <3>5. r.at = 0 /\ r.did = {}
      BY <1>1, <3>1 DEF Fits
    <3>. QED
      BY <2>1, <3>1, <3>2, <3>4, <3>5
  <2>3. Fits(to)' /\ Alone(p, to)
    <3>1. \A i \in Container!Ids : ~(i <= 0)
      BY DEF Container!Ids
    <3>2. IsProcess(to) /\ to.pc = "next" /\ to.seen = recorded /\ to.at = 0 /\ to.did = {}
      BY <2>1 DEF Process, IsProcess
    <3>. QED
      BY <1>2, <1>3, <3>1, <3>2 DEF Fits, Alone
  <2>. QED
    BY <1>3, <2>2, <2>3, ContainerMoves
<1>7. CASE Container!BeginFile(p)
  <2>1. PICK pending, i : pending = Container!Pending(p) /\ i = Container!Least(pending)
    OBVIOUS
  <2>2. PICK to : to = Process("open", r.seen, i, {}, r.email)
    OBVIOUS
  <2>3. r.pc = "next" /\ pending # {} /\ proc' = [proc EXCEPT ![p] = to]
    <3>1. /\ r.pc = "next" /\ pending # {}
          /\ proc' = [proc EXCEPT ![p] = [r EXCEPT !.pc = "open", !.at = i]]
      BY <1>1, <1>7, <2>1 DEF Container!BeginFile, Container!At
    <3>2. PICK s : s = [r EXCEPT !.pc = "open"]
      OBVIOUS
    <3>3. s = Process("open", r.seen, r.at, r.did, r.email)
      BY <1>1, <3>2 DEF Fits, IsProcess, Process
    <3>4. [s EXCEPT !.at = i] = Process("open", r.seen, i, r.did, r.email)
      BY <3>3 DEF Process
    <3>5. r.did = {}
      BY <1>1, <3>1 DEF Fits
    <3>. QED
      BY <2>2, <3>1, <3>2, <3>4, <3>5
  <2>4. i \in pending /\ \A j \in pending : i <= j
    <3>1. pending \subseteq Nat
      BY <2>1 DEF Container!Pending, Container!Ids
    <3>2. \E k \in pending : \A j \in pending : k <= j
      BY <2>3, <3>1, LeastNumber
    <3>. QED
      BY <2>1, <3>2 DEF Container!Least
  <2>5. i \in Container!Ids /\ \A j \in Container!Ids : j < i => j \in recorded
    <3>1. \A j \in Container!Ids : j \in pending \/ j <= r.at \/ j \in r.seen
      BY <1>1, <2>1 DEF Container!Pending, Fits, Container!Ids
    <3>2. pending \subseteq Container!Ids
      BY <2>1 DEF Container!Pending
    <3>. QED
      BY <1>1, <2>3, <2>4, <3>1, <3>2 DEF Fits, Container!Ids
  <2>6. Fits(to)' /\ Alone(p, to)
    <3>1. i \in 0 .. Files /\ r.seen \subseteq recorded
      BY <1>1, <1>2, <2>5 DEF Container!Ids, Fits
    <3>2. IsProcess(to) /\ to.pc = "open" /\ to.seen = r.seen /\ to.at = i /\ to.did = {}
      BY <2>2 DEF Process, IsProcess
    <3>. QED
      BY <1>3, <2>5, <3>1, <3>2 DEF Fits, Alone
  <2>. QED
    BY <1>3, <2>3, <2>6, ContainerMoves
<1>8. CASE Container!RunFile(p)
  <2>1. PICK to : to = Process("open", r.seen, r.at, {"sql"}, r.email)
    OBVIOUS
  <2>2. /\ r.pc = "open" /\ ~Container!Running(p, r.at)
        /\ proc' = [proc EXCEPT ![p] = to] \/ proc' = [proc EXCEPT ![p] = Container!Dead]
    <3>1. /\ r.pc = "open" /\ ~Container!Running(p, r.at)
          /\ \/ proc' = [proc EXCEPT ![p] = [r EXCEPT !.did = {"sql"}]]
             \/ proc' = [proc EXCEPT ![p] = Container!Dead]
      BY <1>1, <1>8 DEF Container!RunFile, Container!At
    <3>2. [r EXCEPT !.did = {"sql"}] = Process(r.pc, r.seen, r.at, {"sql"}, r.email)
      BY <1>1 DEF Fits, IsProcess, Process
    <3>. QED
      BY <2>1, <3>1, <3>2
  <2>3. Fits(to)' /\ Alone(p, to)
    <3>1. /\ r.seen \subseteq recorded /\ r.at \in 0 .. Files
          /\ r.at \in Container!Ids /\ \A i \in Container!Ids : i < r.at => i \in recorded
      BY <1>1, <2>2 DEF Fits
    <3>2. IsProcess(to) /\ to.pc = "open" /\ to.seen = r.seen /\ to.at = r.at /\ to.did = {"sql"}
      BY <2>1 DEF Process, IsProcess
    <3>. QED
      BY <1>3, <2>2, <3>1, <3>2 DEF Fits, Alone
  <2>. QED
    BY <1>3, <1>4, <2>2, <2>3, ContainerMoves
<1>9. CASE Container!RecordFile(p)
  <2>1. PICK to : to = Process("open", r.seen, r.at, {"sql", "id"}, r.email)
    OBVIOUS
  <2>2. /\ r.pc = "open" /\ r.did = {"sql"}
        /\ \/ r.at \notin recorded /\ proc' = [proc EXCEPT ![p] = to]
           \/ proc' = [proc EXCEPT ![p] = Container!Dead]
    <3>1. /\ r.pc = "open" /\ r.did = {"sql"}
          /\ \/ r.at \notin recorded /\ proc' = [proc EXCEPT ![p] = [r EXCEPT !.did = {"sql", "id"}]]
             \/ proc' = [proc EXCEPT ![p] = Container!Dead]
      BY <1>1, <1>9 DEF Container!RecordFile, Container!At
    <3>2. [r EXCEPT !.did = {"sql", "id"}] = Process(r.pc, r.seen, r.at, {"sql", "id"}, r.email)
      BY <1>1 DEF Fits, IsProcess, Process
    <3>. QED
      BY <2>1, <3>1, <3>2
  <2>3. r.at \notin recorded => Fits(to)' /\ Alone(p, to)
    <3>1. /\ r.seen \subseteq recorded /\ r.at \in 0 .. Files
          /\ r.at \in Container!Ids /\ \A i \in Container!Ids : i < r.at => i \in recorded
      BY <1>1, <2>2 DEF Fits
    <3>2. ~Container!Running(p, r.at)
      BY <1>1, <2>2 DEF ContainerInv, Alone
    <3>3. IsProcess(to) /\ to.pc = "open" /\ to.seen = r.seen /\ to.at = r.at /\ to.did = {"sql", "id"}
      BY <2>1 DEF Process, IsProcess
    <3>. QED
      BY <1>3, <3>1, <3>2, <3>3 DEF Fits, Alone
  <2>. QED
    BY <1>3, <1>4, <2>2, <2>3, ContainerMoves
<1>10. CASE Container!Migrated(p)
  <2>1. PICK to : to = Process("count", {}, 0, {}, "none")
    OBVIOUS
  <2>2. /\ r.pc = "next" /\ Container!Pending(p) = {}
        /\ proc' = [proc EXCEPT ![p] = to] \/ proc' = [proc EXCEPT ![p] = Container!Dead]
    <3>1. [Container!Dead EXCEPT !.pc = "count"] = to
      <4>1. PICK d : d = Container!Dead
        OBVIOUS
      <4>2. [d EXCEPT !.pc = "count"] = Process("count", d.seen, d.at, d.did, d.email)
        BY <4>1, DeadProcess DEF IsProcess, Process
      <4>. QED
        BY <2>1, <4>1, <4>2, DeadProcess
    <3>. QED
      BY <1>1, <1>10, <3>1 DEF Container!Migrated, Container!At
  <2>3. recorded = Container!Ids
    <3>1. \A j \in Container!Ids : j <= r.at \/ j \in r.seen
      BY <1>1, <2>2 DEF Container!Pending, Fits, Container!Ids
    <3>2. Container!Ids \subseteq recorded
      BY <1>1, <2>2, <3>1 DEF Fits
    <3>. QED
      BY <3>2 DEF ContainerInv
  <2>4. Fits(to)' /\ Alone(p, to)
    BY <1>2, <1>3, <2>1, <2>3, FreshProcess DEF Fits, Alone, Container!Ids
  <2>. QED
    BY <1>3, <1>4, <2>2, <2>4, ContainerMoves
<1>. QED
  BY <1>5, <1>6, <1>7, <1>8, <1>9, <1>10

\* Accounts, and the server.
LEMMA ContainerServes ==
  ASSUME ContainerInv, NEW p \in Container!Procs,
         \/ Container!Count(p) \/ Container!CreateAccount(p) \/ Container!FindAccount(p)
         \/ Container!AssignRole(p) \/ Container!Listen(p)
  PROVE  ContainerInv'
<1>1. PICK r : r = proc[p] /\ Fits(r)
  BY DEF ContainerInv
<1>2. Files \in Nat /\ accounts \subseteq Container!Emails
  BY BoundsAssumption DEF ContainerInv
<1>3. UNCHANGED <<schema, recorded>>
  BY DEF Container!Count, Container!CreateAccount, Container!FindAccount, Container!AssignRole,
     Container!Listen, Container!database
<1>4. Fits(Container!Dead)' /\ Alone(p, Container!Dead)
  BY <1>2, <1>3, DeadProcess DEF Fits, Alone
<1>5. CASE Container!Count(p)
  <2>1. PICK pc, to :
          /\ pc = IF accounts = {} THEN "create" ELSE "listen"
          /\ to = Process(pc, r.seen, r.at, {}, "owner")
    OBVIOUS
  <2>2. r.pc = "count" /\ proc' = [proc EXCEPT ![p] = to] /\ accounts' = accounts
    <3>1. /\ r.pc = "count" /\ accounts' = accounts
          /\ proc' = [proc EXCEPT ![p] = [r EXCEPT !.pc = pc, !.email = "owner"]]
      BY <1>1, <1>5, <2>1 DEF Container!Count, Container!At, Container!people
    <3>2. PICK s : s = [r EXCEPT !.pc = pc]
      OBVIOUS
    <3>3. s = Process(pc, r.seen, r.at, r.did, r.email)
      BY <1>1, <3>2 DEF Fits, IsProcess, Process
    <3>4. [s EXCEPT !.email = "owner"] = Process(pc, r.seen, r.at, r.did, "owner")
      BY <3>3 DEF Process
    <3>5. r.did = {}
      BY <1>1, <3>1 DEF Fits
    <3>. QED
      BY <2>1, <3>1, <3>2, <3>4, <3>5
  <2>3. Fits(to)' /\ Alone(p, to)
    <3>1. r.seen \subseteq recorded /\ r.at \in 0 .. Files /\ recorded = Container!Ids
      BY <1>1, <2>2 DEF Fits
    <3>2. IsProcess(to) /\ to.pc = pc /\ to.seen = r.seen /\ to.at = r.at /\ to.did = {} /\ to.email = "owner"
      BY <2>1 DEF Process, IsProcess
    <3>. QED
      BY <1>3, <2>1, <2>2, <3>1, <3>2 DEF Fits, Alone, Container!Emails
  <2>. QED
    BY <1>2, <1>3, <2>2, <2>3, ContainerMoves
<1>6. CASE Container!CreateAccount(p) \/ Container!FindAccount(p)
  <2>1. PICK to : to = Process("assign", r.seen, r.at, {}, r.email)
    OBVIOUS
  <2>2. /\ r.pc \in {"create", "promote"}
        /\ \/ proc' = [proc EXCEPT ![p] = Container!Dead] /\ accounts' = accounts
           \/ proc' = [proc EXCEPT ![p] = to] /\ accounts' = accounts \cup {r.email}
    <3>1. /\ r.pc \in {"create", "promote"}
          /\ \/ proc' = [proc EXCEPT ![p] = Container!Dead] /\ accounts' = accounts
             \/ /\ proc' = [proc EXCEPT ![p] = [r EXCEPT !.pc = "assign"]]
                /\ accounts' = accounts \cup {r.email}
      BY <1>1, <1>6 DEF Container!CreateAccount, Container!FindAccount, Container!At, Container!Goes,
         Container!people
    <3>2. [r EXCEPT !.pc = "assign"] = Process("assign", r.seen, r.at, r.did, r.email)
      BY <1>1 DEF Fits, IsProcess, Process
    <3>3. r.did = {}
      BY <1>1, <3>1 DEF Fits
    <3>. QED
      BY <2>1, <3>1, <3>2, <3>3
  <2>3. /\ r.seen \subseteq recorded /\ r.at \in 0 .. Files
        /\ recorded = Container!Ids /\ r.email \in Container!Emails
    BY <1>1, <2>2 DEF Fits
  <2>4. accounts' # {} => Fits(to)' /\ Alone(p, to)
    <3>1. /\ IsProcess(to) /\ to.pc = "assign" /\ to.seen = r.seen /\ to.at = r.at
          /\ to.did = {} /\ to.email = r.email
      BY <2>1 DEF Process, IsProcess
    <3>. QED
      BY <1>3, <2>3, <3>1 DEF Fits, Alone
  <2>. QED
    BY <1>2, <1>3, <1>4, <2>2, <2>3, <2>4, ContainerMoves
<1>7. CASE Container!AssignRole(p) \/ Container!Listen(p)
  <2>1. PICK pc \in {"listen", "serving", "dead"} : proc' = [proc EXCEPT ![p] = Process(pc, {}, 0, {}, "none")]
    <3>1. PICK d : d = Container!Dead
      OBVIOUS
    <3>2. /\ [d EXCEPT !.pc = "listen"] = Process("listen", d.seen, d.at, d.did, d.email)
          /\ [d EXCEPT !.pc = "serving"] = Process("serving", d.seen, d.at, d.did, d.email)
          /\ d = Process("dead", d.seen, d.at, d.did, d.email)
      BY <3>1, DeadProcess DEF IsProcess, Process
    <3>3. \E pc \in {"listen", "serving", "dead"} :
            proc' = [proc EXCEPT ![p] = Process(pc, d.seen, d.at, d.did, d.email)]
      BY <1>7, <3>1, <3>2 DEF Container!AssignRole, Container!Listen
    <3>4. d.seen = {} /\ d.at = 0 /\ d.did = {} /\ d.email = "none"
      BY <3>1, DeadProcess
    <3>. QED
      BY <3>3, <3>4
  <2>2. PICK to : to = Process(pc, {}, 0, {}, "none")
    OBVIOUS
  <2>3. proc' = [proc EXCEPT ![p] = to]
    BY <2>1, <2>2
  <2>4. r.pc \in {"assign", "listen"} /\ accounts' = accounts
    BY <1>1, <1>7 DEF Container!AssignRole, Container!Listen, Container!At, Container!people
  <2>5. recorded = Container!Ids /\ accounts # {}
    BY <1>1, <2>4 DEF Fits
  <2>6. Fits(to)' /\ Alone(p, to)
    <3>1. pc = "dead" => to = Container!Dead
      BY <2>2, DeadProcess DEF IsProcess
    <3>. QED
      BY <1>2, <1>3, <2>2, <2>4, <2>5, <3>1, FreshProcess DEF Fits, Alone
  <2>. QED
    BY <1>2, <1>3, <2>3, <2>4, <2>6, ContainerMoves
<1>. QED
  BY <1>5, <1>6, <1>7

\* Every step of the container keeps the invariant,
LEMMA ContainerNext ==
  ASSUME ContainerInv, Container!Next
  PROVE  ContainerInv'
<1>1. ASSUME NEW p \in Container!Procs, Container!Crash(p) \/ Container!Shutdown(p) PROVE ContainerInv'
  <2>1. \E S : proc' = [q \in Container!Procs |-> IF q \in S THEN Container!Dead ELSE proc[q]]
    <3>1. CASE Container!Crash(p)
      <4> DEFINE S == {q \in Container!Procs : q = p \/ p = Api}
      <4>1. proc' = [q \in Container!Procs |-> IF q \in S THEN Container!Dead ELSE proc[q]]
        BY <3>1 DEF Container!Crash
      <4>. QED
        BY <4>1
    <3>2. CASE Container!Shutdown(p)
      <4>1. proc' = [q \in Container!Procs |-> IF q \in Container!Procs THEN Container!Dead ELSE proc[q]]
        BY <3>2 DEF Container!Shutdown
      <4>. QED
        BY <4>1
    <3>. QED
      BY <1>1, <3>1, <3>2
  <2>. QED
    BY <1>1, <2>1, ContainerDies DEF Container!Crash, Container!Shutdown, Container!database, Container!people
<1>2. ASSUME NEW p \in Container!Procs, Container!Heartbeat(p) PROVE ContainerInv'
  BY <1>2 DEF Container!Heartbeat, Container!database, Container!people, ContainerInv, Fits, Alone,
     Container!Running, Container!Open, Container!At
<1>3. ASSUME NEW p \in Scripts, NEW pc \in {"create", "promote"}, NEW email \in Container!Emails,
             Container!AdminScript(p, pc, email)
      PROVE  ContainerInv'
  <2>1. p \in Container!Procs /\ Api \in Container!Procs
    BY DEF Container!Procs
  <2>2. PICK to : to = Process(pc, {}, 0, {}, email)
    OBVIOUS
  <2>3. /\ proc' = [proc EXCEPT ![p] = [proc[p] EXCEPT !.pc = pc, !.email = email]]
        /\ UNCHANGED <<schema, recorded, accounts>>
        /\ proc[p] = Container!Dead /\ recorded = Container!Ids
    BY <1>3, <2>1 DEF Container!AdminScript, Container!At, Container!database, Container!people,
       ContainerInv, Fits
  <2>4. proc' = [proc EXCEPT ![p] = to]
    <3>1. PICK r, s : r = Container!Dead /\ s = [r EXCEPT !.pc = pc]
      OBVIOUS
    <3>2. s = Process(pc, r.seen, r.at, r.did, r.email)
      BY <3>1, DeadProcess DEF IsProcess, Process
    <3>3. [s EXCEPT !.email = email] = Process(pc, r.seen, r.at, r.did, email)
      BY <3>2 DEF Process
    <3>. QED
      BY <2>2, <2>3, <3>1, <3>3, DeadProcess
  <2>5. Fits(to)' /\ Alone(p, to)
    <3>1. 0 \in 0 .. Files
      BY BoundsAssumption
    <3>. QED
      BY <2>2, <2>3, <3>1, FreshProcess DEF Fits, Alone
  <2>. QED
    BY <2>1, <2>3, <2>4, <2>5, ContainerMoves DEF ContainerInv
<1>. QED
  BY <1>1, <1>2, <1>3, ContainerCommits, ContainerMigrates, ContainerServes DEF Container!Next

\* and so does a step of any other desk.
LEMMA ContainerStep ==
  ContainerInv /\ [Next]_vars => ContainerInv'
<1>. SUFFICES ASSUME ContainerInv, [Next]_vars PROVE ContainerInv'
  OBVIOUS
<1>1. CASE UNCHANGED container
  BY <1>1 DEF container, ContainerInv, Fits, Alone, Container!Running, Container!Open, Container!At
<1>. QED
  BY <1>1, ContainerNext DEF Next, vars

\* For any number of migrations and of scripts beside the container: every
\* migration (runMigrations) takes effect once and in its order, wherever the
\* processes die, and the server serves only over the complete schema and
\* some account.
THEOREM MigrationsRunOnce ==
  Spec => []EveryMigrationOnce
<1>1. ContainerInv => EveryMigrationOnce
  <2>1. Api \in Container!Procs
    BY DEF Container!Procs
  <2>. QED
    BY <2>1 DEF ContainerInv, Fits, EveryMigrationOnce, Container!EveryMigrationOnce, Container!At
<1>. QED
  BY <1>1, ContainerInit, ContainerStep, PTL DEF Spec

-----------------------------------------------------------------------------
(* The studio: personalities and their versions.                            *)

Built(j) ==
  edits[j].new.form = Persona!Override(persona[edits[j].persona].form, edits[j].patch)

\* What a request has settled by the time it waits for its next statement.
\* One that holds the row builds on what is committed there.
JobShape(j) ==
  /\ edits[j] = [pc |-> edits[j].pc, op |-> edits[j].op, persona |-> edits[j].persona,
                 patch |-> edits[j].patch, new |-> edits[j].new]
  /\ edits[j].pc \in {"idle", "begin", "update", "snapshot", "commit"}
  /\ edits[j].op \in {"none", "create", "update"}
  /\ edits[j].pc # "idle" => edits[j].persona \in Personas
  /\ edits[j].pc \in {"update", "snapshot", "commit"} =>
       /\ personaLock[edits[j].persona] = j
       /\ edits[j].new = [version |-> persona[edits[j].persona].version + 1,
                          form |-> edits[j].new.form]
       /\ persona[edits[j].persona].version > 0 => Built(j)

HistoryShape(p) ==
  /\ persona[p].version \in Nat
  /\ IsFiniteSet(history[p])
  /\ {v.version : v \in history[p]} = 1 .. persona[p].version
  /\ Cardinality(history[p]) = persona[p].version
  /\ persona[p].version > 0 => persona[p] \in history[p]

StudioInv ==
  /\ persona = [p \in Personas |-> persona[p]] /\ history = [p \in Personas |-> history[p]]
  /\ personaLock \in [Personas -> Jobs \cup {None}]
  /\ edits = [j \in Jobs |-> edits[j]]
  /\ wronged = FALSE
  /\ \A j \in Jobs : JobShape(j)
  /\ \A p \in Personas : HistoryShape(p)

\* Every personality has its history, and nobody edits.
LEMMA StudioInit ==
  Init => StudioInv
<1>. SUFFICES ASSUME Persona!Init PROVE StudioInv
  BY DEF Init
<1>1. PICK there \in SUBSET Personas :
       /\ persona = [p \in Personas |-> IF p \in there THEN Persona!Original(Persona!Plain) ELSE Persona!NoRow]
       /\ history = [p \in Personas |-> IF p \in there THEN {Persona!Original(Persona!Plain)} ELSE {}]
  BY DEF Persona!Init
<1>2. ASSUME NEW p \in Personas PROVE HistoryShape(p)
  <2>1. CASE p \in there
    <3> DEFINE original == Persona!Original(Persona!Plain)
    <3>1. persona[p] = original /\ history[p] = {original} /\ original.version = 1
      BY <1>1, <2>1 DEF Persona!Original
    <3>2. {v.version : v \in {original}} = 1 .. 1
      BY <3>1
    <3>3. IsFiniteSet({original}) /\ Cardinality({original}) = 1
      BY FS_Singleton
    <3>. HIDE DEF original
    <3>. QED
      BY <3>1, <3>2, <3>3 DEF HistoryShape
  <2>2. CASE p \notin there
    BY <1>1, <2>2, FS_EmptySet DEF HistoryShape, Persona!NoRow
  <2>. QED
    BY <2>1, <2>2
<1>3. \A j \in Jobs : JobShape(j)
  BY DEF Persona!Init, JobShape, Persona!NoJob
<1>. QED
  BY <1>1, <1>2, <1>3 DEF Persona!Init, StudioInv

\* A request that ends lets go of the row and of nothing else.
LEMMA StudioStops ==
  ASSUME StudioInv, NEW j \in Jobs, Persona!Stop(j), UNCHANGED <<persona, history, wronged>>
  PROVE  StudioInv'
<1>1. /\ edits' = [k \in Jobs |-> IF k = j THEN Persona!NoJob ELSE edits[k]]
      /\ personaLock' = [p \in Personas |-> IF personaLock[p] = j THEN None ELSE personaLock[p]]
  BY DEF Persona!Stop, Persona!Release, StudioInv
<1>2. ASSUME NEW k \in Jobs PROVE JobShape(k)'
  <2>1. CASE k = j
    BY <1>1, <2>1 DEF JobShape, Persona!NoJob
  <2>2. CASE k # j
    BY <1>1, <2>2 DEF JobShape, StudioInv, Built
  <2>. QED
    BY <2>1, <2>2
<1>3. ASSUME NEW p \in Personas PROVE HistoryShape(p)'
  BY DEF StudioInv, HistoryShape
<1>. QED
  BY <1>1, <1>2, <1>3 DEF StudioInv

\* A request that has the row, or finds it free, has it from now on.
LEMMA StudioMoves ==
  ASSUME StudioInv, NEW j \in Jobs, NEW pc \in {"update", "snapshot", "commit"}, NEW new,
         edits[j].pc # "idle",
         new = [version |-> persona[edits[j].persona].version + 1, form |-> new.form],
         persona[edits[j].persona].version > 0 =>
           new.form = Persona!Override(persona[edits[j].persona].form, edits[j].patch),
         Persona!Free(j, edits[j].persona),
         personaLock' = [personaLock EXCEPT ![edits[j].persona] = j],
         Persona!Step(j, pc, new), UNCHANGED <<persona, history, wronged>>
  PROVE  StudioInv'
<1>1. /\ edits[j].persona \in Personas /\ JobShape(j)
      /\ personaLock[edits[j].persona] \in {None, j}
  BY DEF StudioInv, JobShape, Persona!Free
<1>2. edits' = [edits EXCEPT ![j] = [edits[j] EXCEPT !.pc = pc, !.new = new]]
  BY DEF Persona!Step
<1>3. edits'[j] = [pc |-> pc, op |-> edits[j].op, persona |-> edits[j].persona,
                   patch |-> edits[j].patch, new |-> new]
  BY <1>1, <1>2 DEF JobShape, StudioInv
<1>4. ASSUME NEW k \in Jobs PROVE JobShape(k)'
  <2>1. CASE k = j
    BY <1>1, <1>3, <2>1 DEF JobShape, StudioInv, Built
  <2>2. CASE k # j
    <3>1. edits'[k] = edits[k] /\ JobShape(k)
      BY <1>2, <2>2 DEF StudioInv
    <3>2. edits[k].pc \in {"update", "snapshot", "commit"} => edits[k].persona # edits[j].persona
      BY <1>1, <2>2, <3>1, StudioAssumption DEF JobShape
    <3>. QED
      BY <3>1, <3>2 DEF JobShape, StudioInv, Built
  <2>. QED
    BY <2>1, <2>2
<1>5. ASSUME NEW p \in Personas PROVE HistoryShape(p)'
  BY DEF StudioInv, HistoryShape
<1>. QED
  BY <1>1, <1>2, <1>4, <1>5 DEF StudioInv

\* The editor of the tab, and what it or another client asks for.
LEMMA StudioAsks ==
  ASSUME StudioInv, NEW j \in Jobs, NEW op \in {"create", "update"}, NEW p \in Personas, NEW patch,
         Persona!Asks(j, op, p, patch), UNCHANGED <<persona, history, personaLock, wronged>>
  PROVE  StudioInv'
<1>1. edits' = [k \in Jobs |-> IF k = j
                  THEN [Persona!NoJob EXCEPT !.pc = "begin", !.op = op, !.persona = p, !.patch = patch]
                  ELSE edits[k]]
  BY DEF StudioInv, Persona!Asks
<1>2. ASSUME NEW k \in Jobs PROVE JobShape(k)'
  <2>1. CASE k = j
    BY <1>1, <2>1 DEF JobShape, Persona!NoJob
  <2>2. CASE k # j
    BY <1>1, <2>2 DEF JobShape, StudioInv, Built
  <2>. QED
    BY <2>1, <2>2
<1>. QED
  BY <1>1, <1>2 DEF StudioInv, HistoryShape

\* The version that is committed is the one after the last.
LEMMA StudioCommits ==
  ASSUME StudioInv, NEW j \in Jobs, Persona!Commit(j)
  PROVE  StudioInv'
<1>. PICK p, new : p \in Personas /\ p = edits[j].persona /\ new = edits[j].new
  BY DEF StudioInv, JobShape, Persona!Commit
<1>1. /\ HistoryShape(p) /\ JobShape(j)
      /\ personaLock[p] = j
      /\ new.version = persona[p].version + 1
      /\ persona[p].version > 0 => new.form = Persona!Override(persona[p].form, edits[j].patch)
  BY SMTT(30) DEF StudioInv, JobShape, Persona!Commit, Built
<1>2. /\ persona' = [persona EXCEPT ![p] = new]
      /\ history' = [history EXCEPT ![p] = @ \cup {new}]
      /\ wronged' = FALSE
  <2>1. wronged' = (wronged \/ ~(persona[p].version = 0
                      \/ new.form = Persona!Override(persona[p].form, edits[j].patch)))
    BY DEF Persona!Commit
  <2>2. persona[p].version = 0 \/ persona[p].version > 0
    BY <1>1 DEF HistoryShape
  <2>. QED
    BY <1>1, <2>1, <2>2 DEF Persona!Commit, StudioInv
<1>3. /\ edits' = [k \in Jobs |-> IF k = j THEN Persona!NoJob ELSE edits[k]]
      /\ personaLock' = [q \in Personas |-> IF personaLock[q] = j THEN None ELSE personaLock[q]]
  BY DEF Persona!Commit, Persona!Stop, Persona!Release, StudioInv
<1>4. ASSUME NEW k \in Jobs PROVE JobShape(k)'
  <2>1. CASE k = j
    BY <1>3, <2>1 DEF JobShape, Persona!NoJob
  <2>2. CASE k # j
    <3>1. edits'[k] = edits[k] /\ JobShape(k)
      BY <1>3, <2>2 DEF StudioInv
    <3>2. edits[k].pc \in {"update", "snapshot", "commit"} => edits[k].persona # p
      BY <1>1, <2>2, <3>1 DEF JobShape
    <3>3. edits[k].pc \in {"update", "snapshot", "commit"} =>
            /\ persona'[edits[k].persona] = persona[edits[k].persona]
            /\ personaLock'[edits[k].persona] = k
      BY <1>2, <1>3, <2>2, <3>1, <3>2 DEF JobShape, StudioInv
    <3>. QED
      BY <3>1, <3>3 DEF JobShape, Built
  <2>. QED
    BY <2>1, <2>2
<1>5. HistoryShape(p)'
  <2>1. persona'[p] = new /\ history'[p] = history[p] \cup {new}
    BY <1>1, <1>2 DEF StudioInv
  <2>2. new \notin history[p]
    BY <1>1 DEF HistoryShape
  <2>3. {v.version : v \in history[p] \cup {new}} = 1 .. persona[p].version + 1
    <3>1. {v.version : v \in history[p] \cup {new}} = {v.version : v \in history[p]} \cup {new.version}
      OBVIOUS
    <3>. QED
      BY <1>1, <3>1 DEF HistoryShape
  <2>4. /\ IsFiniteSet(history[p] \cup {new})
        /\ Cardinality(history[p] \cup {new}) = persona[p].version + 1
    <3>1. IsFiniteSet(history[p]) /\ Cardinality(history[p]) = persona[p].version
      BY <1>1 DEF HistoryShape
    <3>. QED
      BY <2>2, <3>1, FS_AddElement, SMTT(30)
  <2>. QED
    BY <1>1, <2>1, <2>3, <2>4 DEF HistoryShape
<1>6. ASSUME NEW q \in Personas, q # p PROVE HistoryShape(q)'
  BY <1>2, <1>6 DEF StudioInv, HistoryShape
<1>. QED
  BY <1>2, <1>3, <1>4, <1>5, <1>6 DEF StudioInv

\* The statements of updatePersonality, one by one.
LEMMA StudioTransactions ==
  ASSUME StudioInv, Persona!Transactions
  PROVE  StudioInv'
<1>. PICK j \in Jobs :
       \/ Persona!InsertRow(j) \/ Persona!ReadRow(j) \/ Persona!UpdateRow(j)
       \/ Persona!InsertVersion(j) \/ Persona!Commit(j) \/ Persona!Rollback(j)
  BY DEF Persona!Transactions
<1> DEFINE p == edits[j].persona
<1>1. JobShape(j) /\ (edits[j].pc # "idle" => p \in Personas /\ HistoryShape(p))
  BY DEF StudioInv, JobShape
<1>2. CASE Persona!InsertRow(j)
  <2>1. CASE persona[p].version > 0
    BY <1>2, <2>1, StudioStops DEF Persona!InsertRow, Persona!desk
  <2>2. CASE ~(persona[p].version > 0)
    <3> DEFINE new == Persona!Original(edits[j].patch)
    <3>1. /\ Persona!Step(j, "snapshot", new) /\ personaLock' = [personaLock EXCEPT ![p] = j]
          /\ Persona!Free(j, p) /\ UNCHANGED <<persona, history, wronged>> /\ edits[j].pc # "idle"
      BY <1>2, <2>2 DEF Persona!InsertRow
    <3>2. new = [version |-> persona[p].version + 1, form |-> new.form]
      BY <1>1, <2>2, <3>1 DEF HistoryShape, Persona!Original
    <3>. HIDE DEF new
    <3>. QED
      BY <2>2, <3>1, <3>2, StudioMoves
  <2>. QED
    BY <2>1, <2>2
<1>3. CASE Persona!ReadRow(j)
  <2>1. CASE persona[p].version = 0
    BY <1>3, <2>1, StudioStops DEF Persona!ReadRow
  <2>2. CASE persona[p].version # 0
    <3> DEFINE new == [version |-> persona[p].version + 1,
                       form |-> Persona!Override(persona[p].form, edits[j].patch)]
    <3>1. /\ Persona!Step(j, "update", new) /\ personaLock' = [personaLock EXCEPT ![p] = j]
          /\ Persona!Free(j, p) /\ UNCHANGED <<persona, history, wronged>> /\ edits[j].pc # "idle"
      BY <1>3, <2>2 DEF Persona!ReadRow
    <3>2. /\ new = [version |-> persona[p].version + 1, form |-> new.form]
          /\ new.form = Persona!Override(persona[p].form, edits[j].patch)
      OBVIOUS
    <3>. HIDE DEF new
    <3>. QED
      BY <3>1, <3>2, StudioMoves
  <2>. QED
    BY <2>1, <2>2
<1>4. CASE Persona!UpdateRow(j)
  <2>1. /\ edits[j].pc = "update" /\ Persona!Free(j, p)
        /\ Persona!Step(j, "snapshot", edits[j].new) /\ personaLock' = [personaLock EXCEPT ![p] = j]
        /\ UNCHANGED <<persona, history, wronged>>
    BY <1>4 DEF Persona!UpdateRow
  <2>. QED
    BY <1>1, <2>1, StudioMoves DEF JobShape, Built
<1>5. CASE Persona!InsertVersion(j)
  <2>1. /\ edits[j].pc = "snapshot"
        /\ ~\E v \in history[p] : v.version = edits[j].new.version
    <3>1. edits[j].pc = "snapshot" /\ edits[j].new.version = persona[p].version + 1
      BY <1>1, <1>5 DEF Persona!InsertVersion, JobShape
    <3>. QED
      BY <1>1, <3>1 DEF HistoryShape
  <2>2. Persona!Step(j, "commit", edits[j].new) /\ UNCHANGED <<persona, history, personaLock, wronged>>
    BY <1>5, <2>1 DEF Persona!InsertVersion, StudioInv
  <2>3. /\ Persona!Free(j, p) /\ personaLock' = [personaLock EXCEPT ![p] = j]
    BY <1>1, <2>1, <2>2 DEF JobShape, StudioInv, Persona!Free
  <2>. QED
    BY <1>1, <2>1, <2>2, <2>3, StudioMoves DEF JobShape, Built
<1>6. CASE Persona!Commit(j)
  BY <1>6, StudioCommits
<1>7. CASE Persona!Rollback(j)
  BY <1>7, StudioStops DEF Persona!Rollback
<1>. QED
  BY <1>2, <1>3, <1>4, <1>5, <1>6, <1>7

\* Every step of an editor keeps the invariant,
LEMMA StudioNext ==
  ASSUME StudioInv, Persona!EditsHere \/ Persona!EditsElsewhere
  PROVE  StudioInv'
<1>1. CASE Persona!Transactions
  BY <1>1, StudioTransactions
<1>2. CASE UNCHANGED <<persona, history, personaLock, edits, wronged>>
  BY <1>2 DEF StudioInv, JobShape, HistoryShape, Built
<1>3. CASE \E j \in Jobs : Persona!Save(j)
  BY <1>3, StudioAsks DEF Persona!Save
<1>4. CASE \E j \in Jobs, p \in Personas, patch \in Persona!Patches : Persona!SaveElsewhere(j, p, patch)
  BY <1>4, StudioAsks DEF Persona!SaveElsewhere
<1>. QED
  BY <1>1, <1>2, <1>3, <1>4 DEF Persona!EditsHere, Persona!EditsElsewhere, Persona!StartCreate,
     Persona!Cancel, Persona!SendTest, Persona!TestArrives, Persona!StartEdit, Persona!EditArrives,
     Persona!database

\* and so does a step of any other desk.
LEMMA StudioStep ==
  StudioInv /\ [Next]_vars => StudioInv'
<1>. SUFFICES ASSUME StudioInv, [Next]_vars PROVE StudioInv'
  OBVIOUS
<1>1. CASE UNCHANGED studio
  BY <1>1 DEF studio, StudioInv, JobShape, HistoryShape, Built
<1>. QED
  BY <1>1, StudioNext DEF Next, vars

\* For any personalities, fields, clients and bound: every accepted edit of a
\* personality (updatePersonality) is a version of its own, numbered without
\* a gap, and no edit undoes another or fails because of it.
THEOREM EveryEditIsKept ==
  Spec => []EditsAreAllKept
<1>1. StudioInv => EditsAreAllKept
  BY DEF StudioInv, HistoryShape, EditsAreAllKept, Persona!EditsAreAllKept,
         Persona!Cardinality, Cardinality
<1>. QED
  BY <1>1, StudioInit, StudioStep, PTL DEF Spec

=============================================================================
