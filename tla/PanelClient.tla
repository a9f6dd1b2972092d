----------------------------- MODULE PanelClient -----------------------------
(***************************************************************************)
(* The session of the admin panel in one tab: apps/admin/src/lib/api.js    *)
(* and state/store.jsx over the routes /auth/login, /auth/refresh and      *)
(* /auth/logout.  The access token is in memory, the refresh token in a    *)
(* cookie; a refresh rotates the session, so that the access tokens of the *)
(* old one are refused from then on.  A second tab shares the cookie but   *)
(* not `refreshing`; it is left out.                                       *)
(***************************************************************************)
EXTENDS Integers, FiniteSets

CONSTANTS
  Calls,        \* calls of the panel's pages that may be under way together
  None,
  MaxSessions   \* bound: sessions that are ever issued

VARIABLES
  me,          \* whether the panel shows an administrator as logged in
  ready,       \* authReady: the first /auth/me has been answered
  token,       \* accessToken, named by its session
  cookie,      \* botai_refresh, named by its session
  expired,     \* the sessions whose access token has run out
  live,        \* admin_sessions that are neither revoked nor expired
  issued,      \* how many sessions there have been
  call,        \* [kind, pc, with, by, got]: of every call
  flight,      \* [pc, cookie, got]: the refresh request a call has started
  refreshing,  \* the call whose refresh everybody waits for
  excused,     \* history: since the login something has ended the session
  thrown       \* history: somebody was thrown out, and was he excused

vars == <<me, ready, token, cookie, expired, live, issued, call, flight,
          refreshing, excused, thrown>>
server == <<expired, live, issued>>
browser == <<me, ready, token, cookie, refreshing, excused, thrown>>

\* "me" is /auth/me; "code" is a handler that may answer 401 itself, as that
\* of /auth/2fa/enable does to a wrong code; "work" is any other.
Kinds == {"me", "login", "logout", "work", "code"}

Idle == [kind |-> "work", pc |-> "idle", with |-> None, by |-> None, got |-> "none"]
NoFlight == [pc |-> "none", cookie |-> None, got |-> None]

\* The tab is opened with the cookie of an earlier visit, or without one.
Init ==
  /\ me = FALSE /\ ready = FALSE /\ token = None
  /\ cookie \in {None, 1} /\ live \in SUBSET {1}
  /\ expired = {1} /\ issued = 1
  /\ call = [c \in Calls |-> Idle]
  /\ flight = [c \in Calls |-> NoFlight]
  /\ refreshing = None /\ excused = FALSE /\ thrown = "no"

Sends(c, kind, t, by) ==
  call' = [call EXCEPT ![c] = [kind |-> kind, pc |-> "sent", with |-> t, by |-> by, got |-> "none"]]

\* The store asks /auth/me once, the login page logs in, the pages ask for
\* what they show, and only when somebody is logged in (Protected).
Begin(c, kind) ==
  /\ call[c].pc = "idle"
  /\ CASE kind = "me" -> ~ready /\ \A d \in Calls : call[d].pc = "idle"
       [] kind = "login" -> ~me /\ \A d \in Calls : call[d].kind = "login" => call[d].pc = "idle"
       [] OTHER -> me
  /\ Sends(c, kind, token, None)
  /\ UNCHANGED <<server, browser, flight>>

Answered(c, got) == call' = [call EXCEPT ![c].pc = "answered", ![c].got = got]

\* authenticate: the signature, the 15 minutes and the session's row.
Admitted(t) == t # None /\ t \in live \ expired

\* The server answers a call.
Serve(c) ==
  /\ call[c].pc = "sent"
  /\ \/ /\ call[c].kind = "login" /\ issued < MaxSessions
        /\ issued' = issued + 1 /\ live' = live \cup {issued + 1}
        /\ call' = [call EXCEPT ![c].pc = "answered", ![c].got = "ok", ![c].with = issued + 1]
     \/ /\ \/ call[c].kind \in {"login", "code"}
           \/ call[c].kind # "login" /\ ~Admitted(call[c].with)
        /\ Answered(c, "401")
        /\ UNCHANGED <<live, issued>>
     \/ /\ call[c].kind # "login" /\ Admitted(call[c].with)
        /\ Answered(c, "ok")
        /\ live' = IF call[c].kind = "logout" THEN live \ {call[c].with} ELSE live
        /\ UNCHANGED issued
  /\ excused' = (excused \/ live \ live' # {})
  /\ UNCHANGED <<me, ready, token, cookie, refreshing, thrown, expired, flight>>

\* What becomes of the panel when a call ends well or badly.  logout() lets
\* go of the token in either case.
Ends(c) ==
  /\ call' = [call EXCEPT ![c] = Idle]
  /\ token' = IF call[c].kind = "logout" THEN None ELSE token
  /\ ready' = (ready \/ call[c].kind = "me")

\* login() stores the token and asks /auth/me who has come in.
LoginArrives(c) ==
  /\ call[c].pc = "answered" /\ call[c].kind = "login" /\ call[c].got = "ok"
  /\ token' = call[c].with /\ cookie' = call[c].with
  /\ excused' = (refreshing # None \/ call[c].with \notin live)
  /\ Sends(c, "me", call[c].with, None)
  /\ UNCHANGED <<me, ready, refreshing, thrown, server, flight>>

Arrive(c) ==
  /\ call[c].pc = "answered" /\ call[c].got = "ok" /\ call[c].kind # "login"
  /\ Ends(c)
  /\ me' = CASE call[c].kind = "me" -> TRUE [] call[c].kind = "logout" -> FALSE [] OTHER -> me
  /\ UNCHANGED <<cookie, refreshing, excused, thrown, server, flight>>

\* Mutant: every call that is refused starts a refresh of its own.
RefusedAlone(c) ==
  /\ call[c].pc = "answered" /\ call[c].got = "401" /\ call[c].kind # "login" /\ call[c].by = None
  /\ refreshing' = c
  /\ flight' = [flight EXCEPT ![c] = [pc |-> "sent", cookie |-> cookie, got |-> None]]
  /\ call' = [call EXCEPT ![c].pc = "waiting", ![c].by = c]
  /\ UNCHANGED <<me, ready, token, cookie, excused, thrown, server>>

\* The first 401 of a call: it waits for the refresh that is under way, or
\* starts it.
Refused(c) ==
  /\ call[c].pc = "answered" /\ call[c].got = "401" /\ call[c].kind # "login" /\ call[c].by = None
  /\ LET leader == IF refreshing = None THEN c ELSE refreshing IN
       /\ refreshing' = leader
       /\ flight' = IF leader = c
                      THEN [flight EXCEPT ![c] = [pc |-> "sent", cookie |-> cookie, got |-> None]]
                      ELSE flight
       /\ call' = [call EXCEPT ![c].pc = "waiting", ![c].by = leader]
  /\ UNCHANGED <<me, ready, token, cookie, excused, thrown, server>>

\* The second one is an error like any other, and so is that of a login.
RefusedAgain(c) ==
  /\ call[c].pc = "answered" /\ call[c].got = "401"
  /\ call[c].kind = "login" \/ call[c].by # None
  /\ Ends(c)
  /\ me' = (me /\ call[c].kind # "logout")
  /\ UNCHANGED <<cookie, refreshing, excused, thrown, server, flight>>

\* The refresh is served: the old session is revoked, a new one issued.
ServeRefresh(c) ==
  /\ flight[c].pc = "sent"
  /\ IF flight[c].cookie \in live
       THEN /\ issued < MaxSessions
            /\ issued' = issued + 1
            /\ live' = (live \ {flight[c].cookie}) \cup {issued + 1}
            /\ flight' = [flight EXCEPT ![c].pc = "ok", ![c].got = issued + 1]
       ELSE /\ flight' = [flight EXCEPT ![c].pc = "refused"]
            /\ UNCHANGED <<live, issued>>
  /\ UNCHANGED <<browser, expired, call>>

Waiting(c) == {d \in Calls : call[d].pc = "waiting" /\ call[d].by = c}

\* Everybody who waited sends his call once more.
RefreshArrives(c) ==
  /\ flight[c].pc = "ok"
  /\ token' = flight[c].got /\ cookie' = flight[c].got
  /\ refreshing' = None
  /\ flight' = [flight EXCEPT ![c] = NoFlight]
  /\ call' = [d \in Calls |-> IF d \in Waiting(c)
                THEN [call[d] EXCEPT !.pc = "sent", !.with = flight[c].got] ELSE call[d]]
  /\ UNCHANGED <<me, ready, excused, thrown, server>>

\* onUnauthorized: nobody is logged in any more.
ThrowsOut(because) ==
  /\ me' = FALSE /\ ready' = TRUE
  /\ thrown' = IF me /\ ~(excused \/ because = "network") THEN "needlessly" ELSE thrown
  /\ excused' = (excused \/ because = "network")

\* The refresh was refused, or its answer was lost on the way.
RefreshFails(c) ==
  /\ \/ flight[c].pc = "refused" /\ ThrowsOut("refused")
     \/ flight[c].pc \in {"sent", "ok", "refused"} /\ ThrowsOut("network")
  /\ refreshing' = None
  /\ flight' = [flight EXCEPT ![c] = NoFlight]
  /\ call' = [d \in Calls |-> IF d \in Waiting(c) THEN Idle ELSE call[d]]
  /\ token' = IF \E d \in Waiting(c) : call[d].kind = "logout" THEN None ELSE token
  /\ UNCHANGED <<cookie, server>>

\* A call or its answer is lost.  The second attempt is made inside the try,
\* so that its loss throws the administrator out, too.
Lose(c) ==
  /\ call[c].pc \in {"sent", "answered"}
  /\ call' = [call EXCEPT ![c] = Idle]
  /\ token' = IF call[c].kind = "logout" THEN None ELSE token
  /\ IF call[c].by = None
       THEN /\ me' = (me /\ call[c].kind # "logout")
            /\ ready' = (ready \/ call[c].kind = "me")
            /\ UNCHANGED <<excused, thrown>>
       ELSE ThrowsOut("network")
  /\ UNCHANGED <<cookie, refreshing, server, flight>>

\* The 15 minutes of an access token pass.
Expire ==
  /\ token # None /\ token \notin expired
  /\ expired' = expired \cup {token}
  /\ UNCHANGED <<live, issued, call, flight, browser>>

\* The session ends elsewhere: it is revoked, or its refresh token runs out.
EndElsewhere(s) ==
  /\ s \in live /\ ~excused   \* bound: once is enough to excuse what follows
  /\ live' = live \ {s}
  /\ excused' = TRUE
  /\ UNCHANGED <<me, ready, token, cookie, refreshing, thrown, expired, issued, call, flight>>

Next ==
  \/ \E c \in Calls :
       \/ \E kind \in Kinds : Begin(c, kind)
       \/ Serve(c) \/ Arrive(c) \/ LoginArrives(c) \/ Refused(c) \/ RefusedAgain(c) \/ Lose(c)
       \/ ServeRefresh(c) \/ RefreshArrives(c) \/ RefreshFails(c)
  \/ Expire
  \/ \E s \in 1 .. MaxSessions : EndElsewhere(s)

-----------------------------------------------------------------------------

\* An administrator is thrown out only when his session has ended or the
\* network has failed, however many calls are refused together and in
\* whatever order the answers come.  (A login that overtakes the refresh of
\* the visit before is excused: the late refusal throws him out.)
NoNeedlessLogout == thrown # "needlessly"

=============================================================================
