------------------------------ MODULE AiRouter ------------------------------
(***************************************************************************)
(* The AI router (packages/ai/src/router.js): concurrent chat() and          *)
(* chatStream() requests share one circuit breaker and one usage ledger.     *)
(*                                                                           *)
(* The router runs on one event loop, so the code between two awaits is one  *)
(* step here and requests interleave at the awaits only: the candidate and   *)
(* key queries, the provider call (for a stream, every delta) and the usage  *)
(* insert.  The loop over the candidates has no await before the key query:  *)
(* every candidate it skips for its circuit is skipped in the same step.     *)
(***************************************************************************)
EXTENDS CircuitBreaker, Sequences

CONSTANTS
    Requests,
    Models,
    Providers,
    ProviderOf,         \* [Models -> Providers], models.provider_id
    Streaming,          \* providers whose adapter has a chatStream()
    CandidateLists,     \* what candidates() may return
    FallbackDepth,      \* list.slice(0, 5)
    MaxTime             \* bound of the clock

ASSUME RouterAssumption ==
    /\ ProviderOf \in [Models -> Providers]
    /\ Streaming \subseteq Providers
    /\ CandidateLists \subseteq Seq(Models)
    /\ FallbackDepth \in Nat
    /\ MaxTime \in Nat

VARIABLES
    now,        \* Date.now(), in ticks
    circuit,    \* the breaker's circuits, by provider
    pc,         \* the await a request is suspended at, or how it ended
    kind,       \* "chat" or "stream"
    list,       \* the candidates of a request
    at,         \* the position in the list the request is at
    shown,      \* the positions whose deltas reached the caller (onDelta)
    usage,      \* usage_records: [req, pos, status], pos = 0 in an error row
    streak      \* history: all failures of a provider since its last success

vars == <<now, circuit, pc, kind, list, at, shown, usage, streak>>

Pcs == {"idle", "keyLookup", "calling", "savingUsage", "savingError",
        "answered", "rejected"}
Kinds == {"chat", "stream"}

Depth(l) == IF Len(l) < FallbackDepth THEN Len(l) ELSE FallbackDepth

ProviderAt(l, i) == ProviderOf[l[i]]

Failure(r) == [req |-> r, pos |-> at[r], at |-> now]
-----------------------------------------------------------------------------
Init ==
    /\ now = 0
    /\ circuit = [p \in Providers |-> NewCircuit]
    /\ pc = [r \in Requests |-> "idle"]
    /\ kind = [r \in Requests |-> "chat"]
    /\ list = [r \in Requests |-> <<>>]
    /\ at = [r \in Requests |-> 0]
    /\ shown = [r \in Requests |-> {}]
    /\ usage = {}
    /\ streak = [p \in Providers |-> {}]

\* Mutant: the stream loop looks at the adapter only.
AdmitsAnyStream(circ, k, p) ==
    IF k = "stream" THEN p \in Streaming ELSE CanPass(circ[p], now)

\* chatStream() skips adapters without a chatStream; both skip cooling circuits.
Admits(circ, k, p) == CanPass(circ[p], now) /\ (k = "stream" => p \in Streaming)

\* The circuits once the loop has looked at the candidates is of list l:
\* canPass() moves those that are due to half-open, called or not.
Probed(circ, k, l, is) ==
    [p \in Providers |->
        IF \E i \in is : ProviderAt(l, i) = p
        THEN IF k = "chat" THEN AfterCanPass(AfterGetState(circ[p], now), now)
                           ELSE AfterCanPass(circ[p], now)
        ELSE circ[p]]

\* The synchronous part of the candidate loop, from position from: on to the
\* key query of the first candidate admitted, else to the end of the loop.
Resume(r, circ, k, l, from) ==
    \/ \E i \in from..Depth(l) :
          /\ Admits(circ, k, ProviderAt(l, i))
          /\ \A j \in from..(i - 1) : ~ Admits(circ, k, ProviderAt(l, j))
          /\ circuit' = Probed(circ, k, l, from..i)
          /\ pc' = [pc EXCEPT ![r] = "keyLookup"]
          /\ at' = [at EXCEPT ![r] = i]
    \/ /\ \A j \in from..Depth(l) : ~ Admits(circ, k, ProviderAt(l, j))
       /\ circuit' = Probed(circ, k, l, from..Depth(l))
       /\ pc' = [pc EXCEPT ![r] = IF k = "chat" THEN "savingError" ELSE "rejected"]
       /\ at' = [at EXCEPT ![r] = Depth(l) + 1]

\* A call arrives and its candidate list is built.  An empty list is refused.
Route(r) ==
    /\ pc[r] = "idle"
    /\ \E k \in Kinds, l \in CandidateLists :
          /\ kind' = [kind EXCEPT ![r] = k]
          /\ list' = [list EXCEPT ![r] = l]
          /\ IF l = <<>>
             THEN /\ pc' = [pc EXCEPT ![r] = "rejected"]
                  /\ at' = [at EXCEPT ![r] = 1]
                  /\ UNCHANGED circuit
             ELSE Resume(r, circuit, k, l, 1)
    /\ UNCHANGED <<now, shown, usage, streak>>

KeyFound(r) ==
    /\ pc[r] = "keyLookup"
    /\ pc' = [pc EXCEPT ![r] = "calling"]
    /\ UNCHANGED <<now, circuit, kind, list, at, shown, usage, streak>>

\* Mutant: the walk wraps around at the end of the list.
KeyMissingWraps(r) ==
    /\ pc[r] = "keyLookup"
    /\ Resume(r, circuit, kind[r], list[r], (at[r] % Depth(list[r])) + 1)
    /\ UNCHANGED <<now, kind, list, shown, usage, streak>>

\* No active key: next candidate.  The circuit keeps what canPass() made of it.
KeyMissing(r) ==
    /\ pc[r] = "keyLookup"
    /\ Resume(r, circuit, kind[r], list[r], at[r] + 1)
    /\ UNCHANGED <<now, kind, list, shown, usage, streak>>

\* The adapter or the key query throws outside the try: no fallback, no record.
KeyLookupThrows(r) ==
    /\ pc[r] = "keyLookup"
    /\ pc' = [pc EXCEPT ![r] = "rejected"]
    /\ UNCHANGED <<now, circuit, kind, list, at, shown, usage, streak>>

Delta(r) ==
    /\ pc[r] = "calling" /\ kind[r] = "stream"
    /\ shown' = [shown EXCEPT ![r] = @ \union {at[r]}]
    /\ UNCHANGED <<now, circuit, pc, kind, list, at, usage, streak>>

\* Mutant: the answer is returned without waiting for its usage row.
CallSucceedsUnrecorded(r) ==
    LET p == ProviderAt(list[r], at[r]) IN
    /\ pc[r] = "calling"
    /\ circuit' = [circuit EXCEPT ![p] = AfterSuccess(circuit[p])]
    /\ streak' = [streak EXCEPT ![p] = {}]
    /\ pc' = [pc EXCEPT ![r] = "answered"]
    /\ UNCHANGED <<now, kind, list, at, shown, usage>>

CallSucceeds(r) ==
    LET p == ProviderAt(list[r], at[r]) IN
    /\ pc[r] = "calling"
    /\ circuit' = [circuit EXCEPT ![p] = AfterSuccess(circuit[p])]
    /\ streak' = [streak EXCEPT ![p] = {}]
    /\ pc' = [pc EXCEPT ![r] = "savingUsage"]
    /\ UNCHANGED <<now, kind, list, at, shown, usage>>

\* Mutant: a stream falls back after it has shown content.
FailAlwaysFallsBack(r) ==
    LET p == ProviderAt(list[r], at[r])
        circ == [circuit EXCEPT ![p] = AfterFailure(circuit[p], Failure(r))]
    IN
    /\ streak' = [streak EXCEPT ![p] = @ \union {Failure(r)}]
    /\ Resume(r, circ, kind[r], list[r], at[r] + 1)
    /\ UNCHANGED <<now, kind, list, shown>>

\* The catch block of both loops: a stream that has shown content rethrows,
\* anything else goes on with the next candidate.
Fail(r) ==
    LET p == ProviderAt(list[r], at[r])
        circ == [circuit EXCEPT ![p] = AfterFailure(circuit[p], Failure(r))]
    IN
    /\ streak' = [streak EXCEPT ![p] = @ \union {Failure(r)}]
    /\ IF kind[r] = "stream" /\ at[r] \in shown[r]
       THEN /\ circuit' = circ
            /\ pc' = [pc EXCEPT ![r] = "rejected"]
            /\ UNCHANGED at
       ELSE Resume(r, circ, kind[r], list[r], at[r] + 1)
    /\ UNCHANGED <<now, kind, list, shown>>

CallFails(r) ==
    /\ pc[r] = "calling"
    /\ Fail(r)
    /\ UNCHANGED usage

UsageRow(r) == [req |-> r, pos |-> at[r], status |-> "success"]
ErrorRow(r) == [req |-> r, pos |-> 0, status |-> "error"]

UsageSaved(r) ==
    /\ pc[r] = "savingUsage"
    /\ usage' = usage \union {UsageRow(r)}
    /\ pc' = [pc EXCEPT ![r] = "answered"]
    /\ UNCHANGED <<now, circuit, kind, list, at, shown, streak>>

\* The insert is inside the try: its failure counts as one of the provider.
\* A connection lost after the commit leaves the row behind.
UsageSaveFails(r) ==
    /\ pc[r] = "savingUsage"
    /\ Fail(r)
    /\ \E rows \in {{}, {UsageRow(r)}} : usage' = usage \union rows

\* One error row when a chat has run out of candidates.  Whether the insert
\* succeeds or not, the caller gets an error.
ErrorSaved(r) ==
    /\ pc[r] = "savingError"
    /\ \E rows \in {{}, {ErrorRow(r)}} : usage' = usage \union rows
    /\ pc' = [pc EXCEPT ![r] = "rejected"]
    /\ UNCHANGED <<now, circuit, kind, list, at, shown, streak>>

Tick ==
    /\ now < MaxTime
    /\ now' = now + 1
    /\ UNCHANGED <<circuit, pc, kind, list, at, shown, usage, streak>>

\* What the event loop, the database and the provider owe a request once it
\* has started.  Deltas are not owed.
Progress(r) ==
    \/ KeyFound(r) \/ KeyMissing(r) \/ KeyLookupThrows(r)
    \/ CallSucceeds(r) \/ CallFails(r)
    \/ UsageSaved(r) \/ UsageSaveFails(r) \/ ErrorSaved(r)

Next == Tick \/ \E r \in Requests : Route(r) \/ Delta(r) \/ Progress(r)

Spec == Init /\ [][Next]_vars

FairSpec == Spec /\ \A r \in Requests : WF_vars(Progress(r))
-----------------------------------------------------------------------------
(* Properties *)

FailureRecords == [req : Requests, pos : Nat, at : Nat]

Circuits == [state : CircuitStates, openedAt : Nat, failures : SUBSET FailureRecords]

\* Types of the state, and that no request is ever past the end of what the
\* fallback depth lets it use.
TypeOK ==
    /\ now \in Nat
    /\ circuit \in [Providers -> Circuits]
    /\ pc \in [Requests -> Pcs]
    /\ kind \in [Requests -> Kinds]
    /\ list \in [Requests -> CandidateLists \union {<<>>}]
    /\ at \in [Requests -> 0..(FallbackDepth + 1)]
    /\ shown \in [Requests -> SUBSET Nat]
    /\ usage \subseteq [req : Requests, pos : Nat, status : {"success", "error"}]
    /\ streak \in [Providers -> SUBSET FailureRecords]

Flooded(failures) == Cardinality(failures) >= FailureThreshold

\* A provider that has failed FailureThreshold times within the window, with
\* no success in between, does not have a closed circuit, whichever requests
\* the failures came from and however getState() and recordFailure() have
\* pruned the list in between.
FloodOpensCircuit ==
    \A p \in Providers :
        circuit[p].state = "closed" => ~ Flooded(Recent(streak[p], now))

\* A request moves on to the key query of a candidate only if the circuit of
\* its provider was not cooling, and the failure that the same step may have
\* recorded for another model of that provider has not opened it.
AdmissionRespectsCoolOff ==
    [][\A r \in Requests :
          pc'[r] = "keyLookup" /\ at'[r] # at[r] =>
              LET p == ProviderAt(list'[r], at'[r])
              IN  ~ Cooling(circuit[p], now) /\ circuit'[p].state # "open"]_vars

\* The caller of a stream never sees the text of two models: once a candidate
\* has shown a delta no later candidate is used.
OneVisibleSource ==
    \A r \in Requests : \A i \in shown[r] : at[r] = i

\* Every answer handed to a caller has its success row in the usage ledger,
\* and a success row belongs to a candidate the request has really called.
AnswersAreAccounted ==
    /\ \A r \in Requests : pc[r] = "answered" => UsageRow(r) \in usage
    /\ \A u \in usage : u.status = "success" => u.pos \in 1..at[u.req]

\* Every request ends, although failures move it from candidate to candidate.
RequestsEnd ==
    \A r \in Requests : pc[r] # "idle" ~> pc[r] \in {"answered", "rejected"}

\* The router implements the promise of module AiGateway.
GatewayPhase(r) ==
    IF pc[r] \in {"idle", "answered", "rejected"} THEN pc[r] ELSE "trying"

Gateway == INSTANCE AiGateway WITH
    phase <- [r \in Requests |-> GatewayPhase(r)],
    depth <- [r \in Requests |-> Depth(list[r])],
    passed <- [r \in Requests |-> IF at[r] = 0 THEN 0 ELSE at[r] - 1],
    source <- [r \in Requests |-> IF pc[r] = "answered" THEN at[r] ELSE 0]

ImplementsGateway == Gateway!Spec
=============================================================================
