---------------------------- MODULE MCVpsMonitor ----------------------------
(* VpsMonitor for TLC, at two sizes.  The limits of the .cfg are the code's  *)
(* own, with several heartbeats under way and no page that polls.  A page    *)
(* with several polls under way needs shorter limits: the order of the two,  *)
(* and that a reading gets old before the worker does, is what it depends on.*)
EXTENDS VpsMonitor

VARIABLE desk   \* what the behaviour is about: the "beats" or the "page"

\* The defaults of the code are in percent, but for the load.
Percent == [warning |-> 70, high |-> 85, critical |-> 95]
MCThresholds == [x \in Metrics |-> Percent]

\* One host that has no figure for its processor in any case: what a reading
\* says matters neither to the page nor to the heartbeats.
MCMeasured == {[cpu |-> Unknown, ram |-> 85, load |-> 0]}

Polled == INSTANCE VpsMonitor WITH
    MaxPolls <- 2, MaxBeats <- 1, AliveTicks <- 2, FreshTicks <- 1, OldAge <- 2

MCInit ==
    \/ desk = "beats" /\ MonitorInit
    \/ desk = "page" /\ Polled!MonitorInit

MCNext ==
    /\ UNCHANGED desk
    /\ \/ desk = "beats" /\ MonitorNext
       \/ desk = "page" /\ Polled!MonitorNext

\* No page polls while a behaviour is about heartbeats, so that what is fair
\* there does not matter.
MCSpec == MCInit /\ [][MCNext]_<<desk, monitorVars>> /\ Polled!MonitorFairness
=============================================================================
