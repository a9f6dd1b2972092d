---------------------------- MODULE RedisCounter ----------------------------
(***************************************************************************)
(* The counters that the bot keeps in Redis for its rate limit and its       *)
(* anti-spam checks: INCR, and an EXPIRE by whoever counted first            *)
(* (rateLimitStage in apps/bot/src/pipeline.js, slidingCount in              *)
(* apps/bot/src/moderation/anti-spam.js).  A counter is a record             *)
(*   count     how often it was incremented, 0 if the key does not exist     *)
(*   expires   when the key expires, 0 if it has no time to live             *)
(* The two commands are sent one after the other, not in a transaction.      *)
(***************************************************************************)
EXTENDS Integers

NoKey == [count |-> 0, expires |-> 0]

\* Whether the key exists at time t.
Live(c, t) == c.count > 0 /\ (c.expires = 0 \/ t < c.expires)

\* Mutant: SET NX instead of INCR.
AfterSetNx(c, t) ==
    IF Live(c, t) THEN c ELSE [count |-> 1, expires |-> 0]

AfterIncr(c, t) ==
    IF Live(c, t) THEN [c EXCEPT !.count = @ + 1] ELSE [count |-> 1, expires |-> 0]

\* EXPIRE of a key that is gone does nothing.
AfterExpire(c, t, window) ==
    IF Live(c, t) THEN [c EXCEPT !.expires = t + window] ELSE c

Exceeds(count, max) == count > max
=============================================================================
