------------------------------ MODULE AiGateway ------------------------------
(***************************************************************************)
(* What the AI router promises to its callers, with no providers, circuits, *)
(* keys, clocks or usage rows: a request walks down its candidate list once, *)
(* in order, never further than the fallback depth, and ends either with the *)
(* answer of exactly one candidate, or in an error after every candidate was *)
(* passed over, or aborted while a candidate was being served.               *)
(***************************************************************************)
EXTENDS Integers

CONSTANTS Requests, FallbackDepth

VARIABLES
    phase,      \* phase[r]: "idle", "trying", "answered" or "rejected"
    depth,      \* depth[r]: how many candidates the request may use
    passed,     \* passed[r]: how many of them it has passed over
    source      \* source[r]: the candidate whose answer the caller got, or 0

vars == <<phase, depth, passed, source>>

Init ==
    /\ phase = [r \in Requests |-> "idle"]
    /\ depth = [r \in Requests |-> 0]
    /\ passed = [r \in Requests |-> 0]
    /\ source = [r \in Requests |-> 0]

Submit(r) ==
    /\ phase[r] = "idle"
    /\ \E d \in 0..FallbackDepth, k \in 0..FallbackDepth :
          /\ k <= d
          /\ depth' = [depth EXCEPT ![r] = d]
          /\ passed' = [passed EXCEPT ![r] = k]
          /\ \/ phase' = [phase EXCEPT ![r] = "trying"]
             \/ k = d /\ phase' = [phase EXCEPT ![r] = "rejected"]
    /\ UNCHANGED source

PassOver(r) ==
    /\ phase[r] = "trying"
    /\ \E k \in (passed[r] + 1)..depth[r] :
          /\ passed' = [passed EXCEPT ![r] = k]
          /\ \/ UNCHANGED phase
             \/ k = depth[r] /\ phase' = [phase EXCEPT ![r] = "rejected"]
    /\ UNCHANGED <<depth, source>>

Answer(r) ==
    /\ phase[r] = "trying"
    /\ passed[r] < depth[r]
    /\ phase' = [phase EXCEPT ![r] = "answered"]
    /\ source' = [source EXCEPT ![r] = passed[r] + 1]
    /\ UNCHANGED <<depth, passed>>

\* With passed[r] = depth[r] the list is exhausted; with less the request is
\* aborted in the middle of a candidate.
Reject(r) ==
    /\ phase[r] = "trying"
    /\ phase' = [phase EXCEPT ![r] = "rejected"]
    /\ UNCHANGED <<depth, passed, source>>

Next == \E r \in Requests : Submit(r) \/ PassOver(r) \/ Answer(r) \/ Reject(r)

Spec == Init /\ [][Next]_vars
=============================================================================
