--------------------------- MODULE MCBotLifecycle ---------------------------
EXTENDS BotLifecycle

CONSTANTS good, bad, panel

Start(e, t) == [env |-> e, stored |-> t, updates |-> 0, edits |-> 0, faults |-> 0,
                loads |-> 0, subscribed |-> FALSE]

\* Updates with faults on a settled token, with and without joins; edits with faults, from every start;
\* and a little of each.
MCMixes ==
    {[Start(good, None) EXCEPT !.updates = 5, !.faults = 1, !.subscribed = TRUE],
     [Start(good, panel) EXCEPT !.updates = 4, !.faults = 2, !.subscribed = TRUE],
     [Start(good, None) EXCEPT !.updates = 2, !.edits = 1, !.faults = 1, !.loads = 1]}
    \union {[Start(e, t) EXCEPT !.edits = 3, !.faults = 2, !.loads = 2] :
                e \in {good, bad, None}, t \in {panel, None}}
=============================================================================
